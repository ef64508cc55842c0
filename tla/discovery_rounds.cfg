SPECIFICATION FairSpec
CONSTANTS
  good = good
  bad = bad
  self = self
  b1 = b1
  Nil = Nil
  Peers <- MCPeers
  Undialable <- MCUndialable
  Reliable <- MCReliable
  Bootstrap <- MCBootstrap
  MaxRetries = 1
INVARIANTS
  TypeOK
PROPERTIES
  RoundsEnd
  SlotsRegained
  RoundsRunDown
