SPECIFICATION FairSpec
CONSTANTS
  None = None
  k1 = k1
  k2 = k2
  k3 = k3
  t1 = t1
  t2 = t2
  t3 = t3
  t4 = t4
  t5 = t5
  Keys <- ThreeKeys
  Tasks <- FiveTasks
  Concurrency = 2
  MaxSize = 2
  MaxKeys = 2
  MaxPending = 2
  MaxRunning = 2
INVARIANTS
  TypeOK
  LineExact
  WorkConserving
  CountersExact
PROPERTIES
  NoQueueJumping
  TasksSettle
  DrainsSettle
CHECK_DEADLOCK FALSE
