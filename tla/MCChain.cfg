CONSTANTS
    a = a
    b = b
    c = c
    d = d
    x = x
    y = y
    z = z
    GenesisMilestoneID = GenesisMilestoneID
    GenesisBlockID = GenesisBlockID
    Validators = {a, b}
    Byzantine = {}
    KeyRanges <- CommitteeChange
    N = 1
    T = 1
    StartIndex = 1
    MaxIndex = 2
    BlockMaxParents = 3
    BlockIDLess <- ByOrder
    Blocks = {x}
    TimeSteps = {1, 2}
    MaxHeight = 7
    MaxProposals = 1
SPECIFICATION Spec
CHECK_DEADLOCK FALSE
INVARIANTS TypeOK SignaturesVerify SignedOnce TimestampsIncrease MilestonesChained CallbacksCurrent WeightIsProposers
PROPERTIES RefinesMilestoneChain
