SPECIFICATION Spec
CONSTANTS
    Messages = {m1, m2}
    Receivers = {r1, r2, r3}
    Nothing = Nothing
    MaxLen = 3
INVARIANT NoLostWakeup
PROPERTIES FullListMoves ImplementsChannel
