SPECIFICATION FairSpec
CONSTANTS
    Func = {"f", "g", "l", "???"}
    Module = {"m"}
    NoSymbol = "???"
    Unreliable = {}
    Text = Text
    ThreadHeader = ThreadHeader
    Exempt = {}
    NoGuilty = NoGuilty
    NoReport = NoReport
    Id = {1, 2}
    Worker = {w1, w2}
    PURGE_OLD_RECORDS = TRUE
    Admin = {a1}
    TooLong <- Long
    MaxEdits = 0
    MaxFails = 1
    Report <- LongReports
INVARIANTS TypeOK NoGap
PROPERTY EveryCrashAttributed
