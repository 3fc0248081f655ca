SPECIFICATION Spec
CONSTANTS
  room = room
  owned = owned
  a1 = a1
  a2 = a2
  a3 = a3
  Topics <- TwoTopics
  Attempts <- ThreeAttempts
  PluginOwned <- OwnedOnly
  Lanes <- EveryLane
  HookKinds <- Deciding
  MaxSubs = 2
  MaxPending = 2
  MaxEpoch = 1
SYMMETRY AttemptSymmetry
INVARIANTS
  TypeOK
  GrantsAreAuthorized
  NoResurrection
  PendingExact
  WithinCaps
PROPERTIES
  AcksAreBacked
  RevokedNeverInstalls
  HistoryIsAuthorized
  ArmedGateJudgesInFlight
CHECK_DEADLOCK FALSE
