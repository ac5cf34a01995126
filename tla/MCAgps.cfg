SPECIFICATION Spec
CONSTANTS
    c1 = c1
    c2 = c2
    c3 = c3
    Clients = {c1, c2, c3}
    Kind <- MixedKinds
    Nif = "internet"
    MaxInFlight = 4
INVARIANTS UsersHoldTheNif AnswerUnderWay
PROPERTIES ReleaseOnlyWhenUnused EveryRequestAnswered
