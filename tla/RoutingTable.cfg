SPECIFICATION Spec
CONSTANTS
  Contacts <- MCContacts
  Bucket <- MCBucket
  BucketSizeK = 2
  StaleTime = 2
  PingInterval = 1
  RefreshInterval = 2
  MaxTime = 8
  MaxDistance = 2
  Rank <- MCRank
INVARIANTS
  WellFormed
  NothingLingers
  ReadsComplete

  
