CONSTANTS
    Id <- MCId
    Taken <- MCTaken
    Record <- MCRecord
    Found <- MCFound
    Desires <- MCDesires
    Denials <- MCDenials
    Snapshots <- MCSnapshots
    NoPolicy <- MCNoPolicy
    NamespaceOf <- MCNamespaceOf
    Before <- MCBefore
    NoRow = NoRow
    NoRecord = NoRecord
    NoId = NoId
    MaxFaults = 1
SPECIFICATION Spec
INVARIANTS
    TwoCyclesSuffice
PROPERTIES
    NameStaysUp
    RemovedLast
    CnameStaysAlone
    ForeignRowsUntouched
