SPECIFICATION Spec
CONSTANTS
  ByteBits = 2
  RandomBits = 1
  IdBytes = 4
  MaskedIps = {0, 1}
  Crc <- MCCrc
  Addresses <- MCAddresses
  RandomIds <- MCRandomIds
  RandomBytes = {1}
  Targets <- MCTargets
  Results <- MCResults
  HasBootstrap = TRUE
  MaxVotes = 1
  CacheCap = 2
  ColdStartSize = 5
  ColdStartSubnets = 2
  MaxCount = 3
INVARIANTS
  ReachableWasConfirmed
  ConfirmedIdIsSecure
  
PROPERTIES
  ServesOnlyOnceReachable
