SPECIFICATION Spec
CONSTANTS
    N = 2
    Types = {"CPU", "SKIN"}
    Type <- TypeOf
    Shutdown = 2
    NoNumber = NoNumber
    NaN = NoNumber
    hot_thresholds <- HotThresholds
    hot_hysteresis <- HotHysteresis
    cold_thresholds <- ColdThresholds
    cold_hysteresis <- ColdHysteresis
    Temperatures = {0, 1, 2}
    Clients = {c1}
    kMinPollInterval = 1
    kUeventPollTimeout = 2
    MaxUevents = 2
    None = None
INVARIANTS
    EveryoneTold
    FastWhileThrottling
PROPERTIES
    Noticed
    Hysteresis
