SPECIFICATION Spec
CONSTANTS
    Clients = {c, w}
    Wrapped = {w}
    NULL = NULL
    PerSecond = 2
    Timeouts = {1, 3}
    MaxStarts = 3
    MaxTime = 4
INVARIANTS SoonestIsArmed OncePerStart DelegatesAccounted
PROPERTY EveryTimerEnds
CHECK_DEADLOCK FALSE
