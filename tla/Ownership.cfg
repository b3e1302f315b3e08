CONSTANTS
  c1 = c1
  c2 = c2
  fp1 = fp1
  fp2 = fp2
  NoRow = NoRow
  Other = Other
  NoClaim = NoClaim
  NoFp = NoFp
  Steady = fp1
  Process <- MCProcess
  Cid <- MCCid
  Id <- MCId
  Fp <- MCFp
  MaxEdits = 1
  MaxAborts = 1
SPECIFICATION FairSpec
INVARIANTS
  AtMostOneCreatedRow
PROPERTIES
  BindingKeptWhileRowExists
  MutationsAuthorized
  ConflictIsForPeople
  InterruptedWritesConverge
  DeletedHostnamePublishedAgain
CHECK_DEADLOCK FALSE
