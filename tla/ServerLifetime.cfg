SPECIFICATION FairSpec
CONSTANTS
  Nobody = Nobody
  h1 = h1
  h2 = h2
  h3 = h3
  r1 = r1
  Handshakes <- ThreeHandshakes
  Requests <- OneRequest
  MaxConcurrent = 2
  CursorMax = 1
  MaxConnections = 2
  PerTick = 1
  MaxDeferred = 2
INVARIANTS
  TypeOK
  CountersExact
  PacingExact
  CleanExit
PROPERTIES
  NoSocketBehindDrain
  HandshakesSettle
  ShutdownEnds
CHECK_DEADLOCK FALSE
