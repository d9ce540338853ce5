SPECIFICATION FairSpec
CONSTANTS
  w1 = w1
  w2 = w2
  w3 = w3
  a1 = a1
  a2 = a2
  None = None
  Workers = {w1, w2, w3}
  RmIds = {a1, a2}
INVARIANTS
  NoConcurrentMapAccess
  RightManager
  CachedIsReused
  NobodyIsStuck
PROPERTIES
  CallsReturn
