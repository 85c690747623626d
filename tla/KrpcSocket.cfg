SPECIFICATION Spec
CONSTANTS
  Addresses <- MCAddresses
  TidSpace = 3
  Timeout = 2
  CleanupInterval = 1
  Rate = 1
  MaxDelay = 2
  MaxTime = 5
INVARIANTS
  AnswersMatched
  NoLeak
PROPERTIES
  LiveRequestsKept
