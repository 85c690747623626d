SPECIFICATION Spec
CONSTANTS
  Ips = {"a"}
  RotateInterval = 1
  MaxTime = 4
  InfoHashes = {"h1"}
  PeerIds = {"p1", "p2"}
  MaxInfoHashes = 1
  MaxPeers = 1
  Immutables = {"i1", "i2"}
  MaxImmutable = 1
  Mutables = {"m1"}
  MaxMutable = 1
  Seqs = {1}
  Sigs = {1}
INVARIANTS
  FreshTokenAccepted
  FreshTokenNotRefused
PROPERTIES
  ImplementsTokens
