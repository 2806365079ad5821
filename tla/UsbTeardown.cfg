CONSTANTS
    Transfers = {t1, t2}
    OutSlots = {o1}
    Spins = 3
    MaxData = 2
    NoBuf = NoBuf
SPECIFICATION Spec
INVARIANTS
    NoFeedAfterDelete
