CONSTANTS
    Transfers = {t1, t2}
    OutSlots = {o1}
    Spins = 5
    MaxData = 3
    NoBuf = NoBuf
SPECIFICATION Spec
INVARIANTS
    BuffersApart
    FedInOrder
    OutSlotOwned
PROPERTIES
    FreedAfterCallbacks
