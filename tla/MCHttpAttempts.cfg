SPECIFICATION Spec
CONSTANTS
  None = None
  Callers = {c1, c2}
  Urls = {u1}
  CacheSize = 1
  ErrorReplies <- TroubleReplies
  HookErrors <- AllHookErrors
  Jitters = {100}
  MaxRetries = 2
  BaseDelay = 500
  MaxDelay = 10000
  MaxVersion = 0
  MaxDestroys = 0
PROPERTIES
  NoRetryAfterAbort
  RetriesAreSpentOnTransientFailures
  EveryCallSettles
