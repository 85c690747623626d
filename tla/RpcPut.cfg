SPECIFICATION Spec
CONSTANTS
  Nodes = {1, 2}
  Targets = {"t1"}
  Distance <- MCDistance
  MaxBucketSizeK = 2
  Values = {}
  PutCalls = {"first", "again", "second", "blind", "wrongcas", "announce"}
  PutReq <- ItemPuts
  ExtraNodes <- ExtraFirst
  GetCalls = {"closest"}
  GetReq <- LookupGets
  Bootstrap = {2}
  Seeds <- ColdOnly
  SelfTargets = {}
  MaxCalls = 2
INVARIANTS
  NoForgottenCaller
  PutsReachStorage
  OkMeansStored
  StoredAtCountsNodes
  

  
