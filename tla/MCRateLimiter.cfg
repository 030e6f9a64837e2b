SPECIFICATION Spec
CONSTANTS
  Callers = {c1, c2, c3}
  Rps = 2
  MsPerSecond = 3
  Horizon = 5
INVARIANTS
  TypeOK
  DebtBounded
  NoOvertaking
  WindowConformance
PROPERTIES
  EveryWaiterSettles
