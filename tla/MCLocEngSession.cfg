SPECIFICATION SessionSpec
CONSTANTS
    MaxCalls = 3
    MaxCrashes = 1
    MaxQueue = 3
INVARIANTS
    NoOrphanFix
    RunningIsHeard
    StopIsObeyed
PROPERTIES
    SessionRuns
CHECK_DEADLOCK FALSE
