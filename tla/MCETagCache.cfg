SPECIFICATION Spec
CONSTANTS
  Keys = {k1, k2, k3}
  Values = {v1, v2}
  MaxSize = 2
  Ttl = 1
  MaxTime = 3
INVARIANTS
  TypeOK
  RecentKeysAreRetained
PROPERTIES
  RepliesAreCurrent
  ImplementsLru
