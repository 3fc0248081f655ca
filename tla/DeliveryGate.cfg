SPECIFICATION Spec
CONSTANTS
  s1 = s1
  s2 = s2
  Sockets <- TwoSockets
  MaxPending = 1
  CloseOnOverflow = TRUE
  MaxFrames = 3
  MaxJobs = 1
SYMMETRY SocketSymmetry
INVARIANTS
  TypeOK
  HeldIsBounded
  EndingsExact
PROPERTIES
  NoOvertaking
  NothingAfterRefusal
  DecidedLate
CHECK_DEADLOCK FALSE
