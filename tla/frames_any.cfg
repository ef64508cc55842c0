CONSTANTS
  IdLen = 2
  BufLen = 5
  MaxMessages = 3
  Layouts <- MCLayouts
SPECIFICATION Spec
INVARIANTS
  TypeOK
  InOrder
  FittingDecoded
  ForeignIdNeedsLongMessage
  PanicsInLongMessages
CHECK_DEADLOCK FALSE
