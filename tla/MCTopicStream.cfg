SPECIFICATION Spec
CONSTANTS
  Good = Good
  Bad = Bad
  StartAt = 1
  Limit = 3
  BaseInterval = 1000
  MinInterval = 500
  MaxInterval = 5000
  MaxMessages = 6
INVARIANTS
  TypeOK
  CursorAccountsForDeliveries
  LateDeliveriesAreBounded
PROPERTIES
  ImplementsFeed
  EveryReadableMessageArrives
  CancellingEnds
CHECK_DEADLOCK FALSE
