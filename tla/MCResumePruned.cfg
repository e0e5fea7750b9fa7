CONSTANTS
    v1 = v1
    v2 = v2
    Validators = {v1, v2}
    Quorums <- LeaderDecides
    T = 1
    maxRetainBlocks = 3
    MaxIndex = 3
    MaxHeight = 6
    MaxBlocks = 2
    MaxFailures = 1
SPECIFICATION Spec
CHECK_DEADLOCK FALSE
INVARIANT BlocksRetained
