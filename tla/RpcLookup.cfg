SPECIFICATION Spec
CONSTANTS
  Nodes = {1, 2}
  Targets = {"t1"}
  Distance <- MCDistance
  MaxBucketSizeK = 1
  Values = {"Mutable", "Peers"}
  PutCalls = {}
  PutReq <- ItemPuts
  ExtraNodes <- NoExtra
  GetCalls = {"detailed", "peers"}
  GetReq <- LookupGets
  Bootstrap = {2}
  Seeds <- ColdOrWarm
  SelfTargets = {"t1"}
  MaxCalls = 2
INVARIANTS
  RequestsOwned
  LookupExhausted
  
  EachValueDeliveredOnce
