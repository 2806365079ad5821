SPECIFICATION AnySpec
CONSTANTS
    Cases <- AllCases
    LineStates = {"SE0", "J3"}
    Speeds = {"LS", "HS"}
    TsRange = 4
    Clocks <- ClockReadings
    FoldBufSize = 2
    FoldLimitHS = 3
    FoldLimitLSFS = 2
    KeepMin = 1
    KeepMax = 3
    UpdateInterval = 4
    IntRange = 8
    MaxTs = 12
INVARIANTS MonotoneOutput FramesInOrder FoldConservation KeepaliveIsShort
INVARIANTS RecordsInOrder ExitWritesAll
PROPERTY GatedOutput
CHECK_DEADLOCK FALSE
