SPECIFICATION Spec
CONSTANTS
    Direct = 2
    Two = 2
    NBlocks = 6
    NInodes = 3
    BitsPerSector = 4
    SectorWords = 22
    InodeWidth = 256
    Objects = {1, 2, 3, 4, 5, 6}
    Pools = {"kernel"}
    PerBlock = 2
    Root = 1
    B = 2
    Slots = {3, 4}
    PosWidth = 64
    Boots <- Blank
    Names <- MCNames
    Paths <- MCPaths
    DataPaths <- MCDataPaths
    Counts = {4}
    Reads = {2}
    Modes <- MCModes
    MaxDepth = 3
    MaxCalls = 6
INVARIANT SyncedIsRead
CHECK_DEADLOCK FALSE
