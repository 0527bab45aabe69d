SPECIFICATION FairSpec
CONSTANTS
    MaxOutages = 3
    MaxRestarts = 2
INVARIANTS TypeOK LoopHasSchema
PROPERTIES MigrationApplied LoopStarts
