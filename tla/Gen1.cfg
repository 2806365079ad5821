SPECIFICATION Spec
CONSTANTS
    Transfers = 2
    FifoDepth = 2
    FlushReads = 2
    DrainRounds = 3
    Speeds = {1, 2}
    MaxWords = 3
    Bits = 2
    MaxCount = 5
    Config <- TwoRows
    Blocks = 2
    MaxBusy = 1
    MaxFlaws = 1
INVARIANTS OwnDataInOrder TapInStep OnlyVerifiedRuns
PROPERTY ProcessEnds
CHECK_DEADLOCK FALSE
