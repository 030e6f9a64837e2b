SPECIFICATION Spec
CONSTANTS
  None = None
  Callers = {c1}
  Urls = {u1}
  CacheSize = 1
  ErrorReplies <- ThrottlingReplies
  HookErrors <- HarmlessHookErrors
  Jitters = {100}
  MaxRetries = 1
  BaseDelay = 500
  MaxDelay = 10000
  MaxVersion = 0
  MaxDestroys = 0
PROPERTIES
  RetryAfterIsHonoured
