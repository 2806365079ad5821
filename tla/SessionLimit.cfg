SPECIFICATION SessionSpec
CONSTANTS
    Limits = {1}
    MaxEarly = 1
    MaxPackets = 2
PROPERTY ReasonTrue
