CONSTANTS
  w1 = w1
  w2 = w2
  Quiet = Quiet
  NoPlan = NoPlan
  NoHash = NoHash
  World <- MCWorld
  Retention = 1
  MaxPlans = 2
  MaxAborts = 2
SPECIFICATION FairSpec
INVARIANTS
  TypeOK
  OnlyNewestIsLive
  EndedStaysEnded
PROPERTIES
  AppliesApprovedPlanOnly
  ApprovedPlanIsSettled
CHECK_DEADLOCK FALSE
