CONSTANTS
    Keys = {k1, k2, k3}
    Values = {v1, v2}
    None = None
    MaxSubmits = 6
SPECIFICATION FairSpec
CHECK_DEADLOCK FALSE
INVARIANTS TypeOK ListConsistent OneTrigger PopsElement
PROPERTIES RefinesMailbox QueuedIsExecuted StopReturns
