SPECIFICATION Spec
CONSTANTS
  ByteBase = 2
  IdSize = 1
  IpSize = 1
  KeySize = 2
  SigSize = 3
  TidSize = 2
  I32Max = 2
  OldValues <- MCOldValues
  NewValues <- MCNewValues
  ForeignValues <- MCForeignValues
  Envelopes <- MCEnvelopes
  ByteBits = 2
  RandomBits = 1
  IdBytes = 4
  MaskedIps = {0, 1}
  Crc <- MCCrc
  Peers <- MCPeers
CHECK_DEADLOCK FALSE
INVARIANTS
  
  CratesInterwork
  
  PutKeepsItsFields
  ContactsTreatedAlike
