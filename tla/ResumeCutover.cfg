SPECIFICATION FairSpec
CONSTANTS
  MaxPubs = 3
  MaxConns = 3
  MaxRestarts = 1
  MaxUpsets = 1
  MaxRetries = 1
  MaxHeld = 1
  RingSize = 1
  Hooks = {"compares", "ignores"}
INVARIANTS
  TypeOK
  NoSilentGap
  QuietIsComplete
PROPERTIES
  LiveInOrder
  Converges
CHECK_DEADLOCK FALSE
