CONSTANTS
  Markets <- MCMarkets
  Slots <- MCSlots
  Epochs <- MCOneEpoch
  Streams <- MCStreams
  MaxChunks = 2
  MaxRetries = 1
  MaxReads = 2
  Environments <- Faulty
  Nil = Nil
  s1 = s1
  s2 = s2
  m1 = m1
  m2 = m2
SYMMETRY MCSymmetry
SPECIFICATION Spec
INVARIANTS
  TypeOK
  CopiesBounded
  CountBounded
  AcceptedInOrder
PROPERTIES
  LedgerSpec
