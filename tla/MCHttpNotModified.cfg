SPECIFICATION Spec
CONSTANTS
  None = None
  Callers = {c1, c2, c3}
  Urls = {u1}
  CacheSize = 1
  ErrorReplies <- GatewayReplies
  HookErrors <- HarmlessHookErrors
  Jitters = {100}
  MaxRetries = 0
  BaseDelay = 500
  MaxDelay = 10000
  MaxVersion = 0
  MaxDestroys = 0
PROPERTIES
  NotModifiedReturnsCachedBody
