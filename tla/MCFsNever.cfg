SPECIFICATION Spec
CONSTANTS
    Direct = 3
    Two = 2
    NBlocks = 5
    NInodes = 5
    BitsPerSector = 4
    SectorWords = 64
    InodeWidth = 256
    Objects = {1, 2, 3, 4, 5, 6}
    Pools = {"kernel"}
    PerBlock = 2
    Root = 1
    B = 2
    Slots = {3, 4}
    PosWidth = 64
    Boots <- Blank
    Names <- MCNames
    Paths <- MCPaths
    DataPaths <- MCDataPaths
    Counts = {4}
    Reads = {2}
    Modes <- MCModes
    MaxDepth = 3
    MaxCalls = 6
INVARIANT NeverTwiceAllocated
CHECK_DEADLOCK FALSE
