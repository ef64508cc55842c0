CONSTANTS
  Markets <- MCMarkets
  Slots <- MCSlots
  Epochs <- MCEpochs
  Streams <- MCStreams
  MaxChunks = 2
  MaxRetries = 1
  MaxReads = 2
  Environments <- Gentle
  Nil = Nil
  s1 = s1
  s2 = s2
  m1 = m1
  m2 = m2
SPECIFICATION FairSpec
INVARIANTS
  CountMatchesQueue
  CountersMortal
PROPERTIES
  EverySubmissionCounted
  EveryTurnEnds
