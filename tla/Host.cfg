SPECIFICATION HostSpec
CONSTANTS
    StatusHeader = 2
    DataHeader = 3
    MaxDataSize = 5
    MaxFrames = 4
    MaxGlitches = 2
    Limits = {0, 2, 3}
    MaxEarly = 1
    MaxPackets = 5
INVARIANTS OnlyBrokenLost NoPhantomFrame LimitKept
PROPERTIES ReasonTrue SessionEnds
