SPECIFICATION FairSpec
CONSTANTS
  Nodes = {1}
  Targets = {"t1"}
  Distance <- MCDistance
  MaxBucketSizeK = 2
  Values = {}
  PutCalls = {"first"}
  PutReq <- ItemPuts
  ExtraNodes <- NoExtra
  GetCalls = {"find"}
  GetReq <- LookupGets
  Bootstrap = {1}
  Seeds <- ColdOnly
  SelfTargets = {}
  MaxCalls = 2
PROPERTIES
  PutsAnswered
