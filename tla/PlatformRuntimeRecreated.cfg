\* The worker finds a target missing while it is being re-created.
CONSTANTS
    k1 = k1
    Key <- MCKey
    Workers = 1
    Debounces <- MCDebounces
    RetryDelays <- MCRetryDelays
    MaxBackoff = 1
    MaxRetries = 1
    Horizon = 1
    MaxNotes = 2
SPECIFICATION RuntimeSpec
INVARIANT PeriodicAuditsReachEveryTarget
