\* One target, every combination of delays.
CONSTANTS
    k1 = k1
    Key <- MCKey
    Workers = 1
    Debounces <- MCDebounces
    RetryDelays <- MCRetryDelays
    MaxBackoff = 3
    MaxRetries = 2
    Horizon = 3
SPECIFICATION FairSpec
INVARIANTS
    TypeOK
    OneDelayedDelivery
    NothingLost
    TombstoneIsBare
    PeriodicIsImmediate
PROPERTIES
    BackoffRespected
    DebounceRespected
    ImplementsRequests
    ShutDownDrains
