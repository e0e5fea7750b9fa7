CONSTANTS
    a = a
    b = b
    c = c
    d = d
    x = x
    y = y
    z = z
    GenesisMilestoneID = GenesisMilestoneID
    GenesisBlockID = GenesisBlockID
    Validators = {a, b, c, d}
    Byzantine = {d}
    KeyRanges <- FixedCommittee
    N = 4
    T = 3
    StartIndex = 1
    MaxIndex = 1
    BlockMaxParents = 3
    BlockIDLess <- ByOrder
    Blocks = {x, y, z}
    TimeSteps = {1}
    MaxHeight = 4
    MaxProposals = 1
SPECIFICATION SpecDelivered
CHECK_DEADLOCK FALSE
INVARIANTS HonestParent ParentsAreSortedPrefix
