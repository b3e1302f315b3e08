SPECIFICATION Spec
CONSTANTS
  Key = {t1, t2}
  NoKey = NoKey
  Worker = {w1, w2}
  Specs <- MCWriters
  NoTarget = NoTarget
  NoRuntime = NoRuntime
  MaxEdits = 1
  MaxFaults = 0
PROPERTY
  UnchangedWriterKept
CHECK_DEADLOCK FALSE
