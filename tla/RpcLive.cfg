SPECIFICATION FairSpec
CONSTANTS
  Nodes = {1, 2}
  Targets = {"t1"}
  Distance <- MCDistance
  MaxBucketSizeK = 1
  Values = {}
  PutCalls = {"first", "second"}
  PutReq <- ItemPuts
  ExtraNodes <- NoExtra
  GetCalls = {"closest"}
  GetReq <- LookupGets
  Bootstrap = {2}
  Seeds <- ColdOnly
  SelfTargets = {}
  MaxCalls = 2
PROPERTIES
  CallsAnswered
