SPECIFICATION DsSpec
CONSTANTS
    Clients = {c1, c2}
    MAX_START_DATA_CALL_RETRIES = 4
    MaxInFlight = 4
INVARIANT CallFollowsState
PROPERTIES RetriesEnd Answered
CHECK_DEADLOCK FALSE
