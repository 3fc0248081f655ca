SPECIFICATION FairSpec
CONSTANTS
  k1 = k1
  k2 = k2
  c1 = c1
  c2 = c2
  c3 = c3
  o1 = o1
  o2 = o2
  o3 = o3
  None = None
  Keys <- TwoKeys
  Callers <- ThreeCallers
  States <- ThreeStates
  MaxKeys = 2
  MaxWaiters = 2
  MaxClears = 1
INVARIANTS
  TypeOK
  QueueHasHolder
PROPERTIES
  ImplementsKeyedMutex
  WaitersSettle
CHECK_DEADLOCK FALSE
