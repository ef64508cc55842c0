CONSTANTS
  Capacity = 1
  MaxAlerts = 2
  Workers <- MCWorkers
  Keys <- MCKeys
  Other = Other
  TheSet = TheSet
  Idle = Idle
  MaxLate = 1
  w1 = w1
  w2 = w2
  k1 = k1
SPECIFICATION Spec
INVARIANTS
  TypeOK
  AlertsAccounted
  StoredIsListed
  AckedIsStored
  MemberHasValue
PROPERTIES
  FeedSpec
