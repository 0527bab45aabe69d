SPECIFICATION FairSpec
CONSTANTS
    Requests <- MCRequests
    Defects = 1
    Worker = {w1, w2}
    MaxAttempts = 3
    MaxFails = 2
INVARIANTS TypeOK AnswersAreFinal StoredIsComplete
PROPERTY GoodIsStored
CHECK_DEADLOCK FALSE
