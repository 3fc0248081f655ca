SPECIFICATION FairSpec
CONSTANTS
  MaxPubs = 3
  MaxConns = 3
  MaxRestarts = 0
  MaxUpsets = 1
  MaxRetries = 0
  MaxHeld = 1
  RingSize = 1
  Hooks = {"compares"}
PROPERTIES
  OffsetAwaitsItsAck
CHECK_DEADLOCK FALSE
