SPECIFICATION FairSpec
CONSTANTS
    Func = {"f", "g", "???"}
    Module = {"m"}
    NoSymbol = "???"
    Unreliable = {}
    Text = Text
    ThreadHeader = ThreadHeader
    Exempt = {}
    NoGuilty = NoGuilty
    NoReport = NoReport
    Id = {1, 2}
    Worker = {w1}
    PURGE_OLD_RECORDS = FALSE
    Admin = {a1}
    TooLong = {}
    MaxEdits = 1
    MaxFails = 0
    Report <- ClearReports
PROPERTIES ApplyReprocesses SubmitReprocesses
