SPECIFICATION FairSpec
CONSTANTS
  Key = {t1, t2}
  NoKey = NoKey
  Worker = {w1, w2}
  Specs <- MCSpecs
  NoTarget = NoTarget
  NoRuntime = NoRuntime
  MaxEdits = 1
  MaxFaults = 1
INVARIANTS
  OneWriterPerScope
  RequestsAuthorized
PROPERTY
  RuntimesCatchUp
CHECK_DEADLOCK FALSE
