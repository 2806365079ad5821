CONSTANTS
    Slots = 2
    ChunkCap = 2
    HdrBlocks = 1
    MaxBlock = 3
    MaxPend = 1
    MaxUnits = 4
SPECIFICATION FairSpec
INVARIANTS
    BufferOwnership
    OutputInOrder
    NoStrandedThread
    CloseComplete
PROPERTIES
    OpsReturn
    InfoDelivered
