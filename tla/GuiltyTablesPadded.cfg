SPECIFICATION TablesSpec
CONSTANTS
    b1 = b1
    b2 = b2
    b3 = b3
    Guilty = {f, g}
    Build <- MCBuild
    Number <- Padded
    FirstDigit <- PaddedFirst
    Overall = Overall
    Count = {1, 3}
    MaxRows = 3
INVARIANT AlwaysAligned
CHECK_DEADLOCK FALSE
