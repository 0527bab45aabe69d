SPECIFICATION TablesSpec
CONSTANTS
    b1 = b1
    b2 = b2
    b3 = b3
    Guilty = {f, g}
    Build <- MCBuild
    Number <- Plain
    FirstDigit <- PlainFirst
    Overall = Overall
    Count = {1, 3}
    MaxRows = 4
INVARIANTS TablesTypeOK TotalsConserved TotalsAddUp ColumnsAligned
CHECK_DEADLOCK FALSE
