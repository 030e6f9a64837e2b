SPECIFICATION Spec
CONSTANTS
  None = None
  Interval = 2
  Timeout = 12
  MaxPoll = 2
INVARIANT
  ExpiredIsFinal
CHECK_DEADLOCK FALSE
