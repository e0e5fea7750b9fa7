CONSTANTS
    StartIndex = 1
    MaxTrackedBlocks = 2
    None = None
    MaxIndex = 2
SPECIFICATION FairSpec
CHECK_DEADLOCK FALSE

PROPERTY NextIsAlwaysProposed
