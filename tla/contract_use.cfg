CONSTANTS
  Events <- MCEvents
  Values <- MCValues
  Filters <- MCFilters
  Buffer = 1
  MaxLogs = 2
SPECIFICATION FairSpec
INVARIANTS
  TypeOK
  DeliveredExact
  FilterComplete
  OneCallAfterCancel
PROPERTIES
  QueriesEnd
  BindingReturns
  WatchEnds
  StreamSpec
