SPECIFICATION Spec
CONSTANTS
  None = None
  Walks = {w1, w2}
  Limit = 2
  MaxItems = 4
INVARIANTS
  TypeOK
  ItemsInOrder
  IterationsAreComplete
PROPERTIES
  WalksEnd
CHECK_DEADLOCK FALSE
