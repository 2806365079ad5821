CONSTANTS
    Slots = 3
    MaxPieces = 3
    MaxChunks = 8
SPECIFICATION FairSpec
INVARIANTS
    BufferOwnership
    ChunksInOrder
    NoStrandedThread
    StopDrains
PROPERTIES
    ImplementsChannel
    CallsReturn
