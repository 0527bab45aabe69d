SPECIFICATION Spec
CONSTANTS
    Func = {"f", "g", "???"}
    Module = {"m"}
    NoSymbol = "???"
    Unreliable = {}
    Text = Text
    ThreadHeader = ThreadHeader
    Exempt = {}
    NoGuilty = NoGuilty
    NoReport = NoReport
    Id = {1, 2}
    Worker = {w1, w2}
    PURGE_OLD_RECORDS = FALSE
    Admin = {}
    TooLong = {}
    MaxEdits = 0
    MaxFails = 0
    Report <- ClearReports
INVARIANT AllGrouped
