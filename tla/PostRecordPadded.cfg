SPECIFICATION Spec
CONSTANTS
    Requests <- MCRequests
    Defects = 1
    Worker = {w1}
    MaxAttempts = 1
    MaxFails = 0
INVARIANT V3IsComplete
CHECK_DEADLOCK FALSE
