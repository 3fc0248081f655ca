SPECIFICATION FairSpec
CONSTANTS
  s1 = s1
  s2 = s2
  Sockets <- OneSocket
  MaxPending = 1
  CloseOnOverflow = TRUE
  MaxFrames = 3
  MaxJobs = 2
PROPERTIES
  HeldFramesSettle
  ShutdownSettles
CHECK_DEADLOCK FALSE
