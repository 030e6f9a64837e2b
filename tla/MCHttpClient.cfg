SPECIFICATION Spec
CONSTANTS
  None = None
  Callers = {c1, c2, c3}
  Urls = {u1}
  CacheSize = 1
  ErrorReplies <- GatewayReplies
  HookErrors <- HarmlessHookErrors
  Jitters = {100}
  MaxRetries = 1
  BaseDelay = 500
  MaxDelay = 10000
  MaxVersion = 1
  MaxDestroys = 1
SYMMETRY CallerSymmetry
INVARIANTS
  TypeOK
  PromisesAreRunning
  SingleFlight
PROPERTIES
  FreshData
