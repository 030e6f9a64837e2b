SPECIFICATION Spec
CONSTANTS
  None = None
  Interval = 2
  Timeout = 12
  MaxPoll = 2
INVARIANTS
  TypeOK
  OutcomeIsTrue
  WaitIsBounded
  EndStatesAreNoticed
  NothingVisibleIsMissed
PROPERTIES
  NoPollAfterAbort
  EveryWaitSettles
CHECK_DEADLOCK FALSE
