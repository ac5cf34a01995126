SPECIFICATION Spec
CONSTANTS
    Callers = {c1, c2}
    BufferSize = 1
    Inds = {i1, i2}
    MaxHax = 1
    MaxInFlight = 2
    NULL = NULL
INVARIANTS NoDanglingBuffer NoSlotLeaked
PROPERTY EveryCallReturns
