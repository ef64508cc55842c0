CONSTANTS
  Markets <- MCTwoMarkets
  Slots <- MCSlots
  Epochs <- MCOneEpoch
  Streams <- MCStreams
  MaxChunks = 2
  MaxRetries = 1
  MaxReads = 4
  Environments <- Healthy
  Nil = Nil
  s1 = s1
  s2 = s2
  m1 = m1
  m2 = m2
SPECIFICATION Spec
INVARIANTS
  QueueIsOfDataMarket
