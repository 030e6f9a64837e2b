SPECIFICATION Spec
CONSTANTS
  Callers = {c1, c2}
  Rps = 2
  MsPerSecond = 3
  Horizon = 4
INVARIANT
  NeverOverdrawn
