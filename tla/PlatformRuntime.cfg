\* One target that is created, edited and deleted again and again.
CONSTANTS
    k1 = k1
    Key <- MCKey
    Workers = 1
    Debounces <- MCDebounces
    RetryDelays <- MCRetryDelays
    MaxBackoff = 1
    MaxRetries = 1
    Horizon = 1
    MaxNotes = 2
SPECIFICATION RuntimeFairSpec
PROPERTIES
    DeletedTargetsFallSilent
    AuditedOrTombstoned
