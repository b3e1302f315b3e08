CONSTANTS
  t1 = t1
  t2 = t2
  Replica = {p1, p2}
  None = None
  Target <- MCTarget
  Interval <- MCInterval
  Resync = 1
  MaxCycle = 1
  Window = 2
  LeaseDuration = 2
  RenewDeadline = 1
  MaxFaults = 2
SPECIFICATION FairSpec
INVARIANTS
  OneWorkingReplica
  LeavesInOrder
  OnlyStuckLoopsFail
PROPERTIES
  ReleasedAfterWork
  AuditsContinue
