SPECIFICATION Spec
CONSTANTS
  Ips = {"a"}
  RotateInterval = 1
  MaxTime = 0
  InfoHashes = {}
  PeerIds = {}
  MaxInfoHashes = 1
  MaxPeers = 1
  Immutables = {}
  MaxImmutable = 1
  Mutables = {"m1", "m2", "m3"}
  MaxMutable = 2
  Seqs = {1, 2}
  Sigs = {1, 2}
INVARIANTS
  AcknowledgedItemKept
  CasUpdatesExclusive
