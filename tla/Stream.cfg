SPECIFICATION FairSpec
CONSTANTS
    Cap = 6
    Lens = {0, 1, 3}
    SeqRange = 3
    MaxChunk = 8
    MaxBlocks = 4
    MaxLost = 4
INVARIANTS
    NothingHeldBack
    LossReported
    NoFalseAlarm
PROPERTIES
    FeedReturns
CHECK_DEADLOCK FALSE
