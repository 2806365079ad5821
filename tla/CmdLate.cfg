SPECIFICATION Spec
CONSTANTS
    Retries = 3
    DiscardCap = 8
    MaxLost = 0
    MaxData = 0
INVARIANT
    EveryAckItsOwn
