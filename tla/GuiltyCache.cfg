SPECIFICATION Spec
CONSTANTS
    Reader = {r1, r2}
    Editor = {e1}
    Unhider = {u1}
    Deployments = {TRUE, FALSE}
    Nothing = Nothing
    EXPIRATION = 2
    HARAKIRI = 1
    MaxUpdates = 2
    MaxFails = 1
SYMMETRY Alike
INVARIANTS TypeOK ShownInTime OnlyHitsAreOld
