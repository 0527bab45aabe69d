SPECIFICATION Spec
CONSTANTS
    keep = keep
    discard = discard
    both = both
    other = other
    f0 = f0
    f1 = f1
    Absent = Absent
    NoRecord = NoRecord
    Deployments <- MCDeployments
    Row = {r1}
    Kind <- MCKind
    Filter <- MCFilter
    Matches <- MCMatches
    Days <- MCDays
    MAX_DAYS_KEEP_UNFILTERED_RECORDS = 2
    PURGE_OLD_RECORDS = Absent
    MaxAge = 3
    MaxFails = 0
PROPERTY KeptWhenAbsent
