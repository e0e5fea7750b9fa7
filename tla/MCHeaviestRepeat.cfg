CONSTANTS
    Blocks = {b1, b2, b3, b4}
    maxTips = 2
    LimitNum = 1
    LimitDen = 2
    MaxParents = 2
    MaxCalls = 2
    MaxResets = 1
SPECIFICATION Spec
SYMMETRY Symmetry
CHECK_DEADLOCK FALSE
INVARIANT EverySelectionGreedy
