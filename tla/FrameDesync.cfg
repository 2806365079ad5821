SPECIFICATION Spec
CONSTANTS
    StatusHeader = 2
    DataHeader = 3
    MaxDataSize = 5
    MaxFrames = 4
    MaxGlitches = 2
INVARIANT FreshWalk
CHECK_DEADLOCK FALSE
