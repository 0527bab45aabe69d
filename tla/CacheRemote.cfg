SPECIFICATION Spec
CONSTANTS
    Reader = {r1}
    Editor = {e1}
    Unhider = {}
    Deployments = {FALSE}
    Nothing = Nothing
    EXPIRATION = 2
    HARAKIRI = 1
    MaxUpdates = 2
    MaxFails = 0
INVARIANT DeletedOnUpdate
