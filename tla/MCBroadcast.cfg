CONSTANTS
    v = v
    w = w
    x = x
    self = v
    GenesisMilestoneID = GenesisMilestoneID
    GenesisBlockID = GenesisBlockID
    Validators = {v, w}
    Byzantine = {}
    KeyRanges <- FixedCommittee
    N = 2
    T = 2
    StartIndex = 1
    MaxIndex = 2
    BlockMaxParents = 3
    BlockIDLess <- NoOrder
    Blocks = {x}
    CreateEmptyBlocks = FALSE
SPECIFICATION FairSpec
CHECK_DEADLOCK FALSE
INVARIANTS TypeOK PartialPasses
PROPERTIES ProofRepaired SignatureArrives
