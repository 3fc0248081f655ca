SPECIFICATION Spec
CONSTANTS
  MaxPubs = 1
  MaxConns = 3
  MaxRestarts = 1
  MaxUpsets = 1
  MaxRetries = 0
  MaxHeld = 1
  RingSize = 1
  Hooks = {"compares"}
INVARIANTS
  OffsetKeepsItsEpoch
CHECK_DEADLOCK FALSE
