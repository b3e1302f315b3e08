CONSTANTS
  Id <- MCId
  Order <- MCOrder
  Value <- MCValue
  NoRow = NoRow
  PageSize = 2
  Retries = 2
  BaseDelay = 2
  MaxDelay = 3
  MaxRetryAfter = 3
  RetryAfters <- MCRetryAfters
  MaxEdits = 2
SPECIFICATION FairSpec
INVARIANTS
  ListingIsSnapshot
  CreatesAtMostOneRow
  DoneMeansCarriedOut
PROPERTIES
  ThrottleRespected
  CallsEnd
