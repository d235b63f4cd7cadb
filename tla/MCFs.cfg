SPECIFICATION MCSpec
CONSTRAINT Undamaged
CONSTANTS
    Direct = 2
    Two = 2
    NBlocks = 6
    NInodes = 7
    BitsPerSector = 4
    SectorWords = 64
    InodeWidth = 256
    Objects = {1, 2, 3, 4, 5, 6}
    Pools = {"kernel", "user"}
    PerBlock = 2
    Root = 1
    B = 2
    Slots = {3, 4}
    PosWidth = 64
    Boots <- MCBoots
    Names <- MCNames
    Paths <- MCPaths
    DataPaths <- MCDataPaths
    Counts = {0, 2, 3}
    Reads = {0, 2}
    Modes <- MCModes
    MaxDepth = 3
    MaxCalls = 7
    MaxShort = 5
INVARIANTS  DirsSound CacheSound  ReadsBack
PROPERTY ImplementsTree
CHECK_DEADLOCK FALSE
