SPECIFICATION Spec
CONSTANTS
  room = room
  owned = owned
  a1 = a1
  a2 = a2
  a3 = a3
  Topics <- OneTopic
  Attempts <- TwoAttempts
  PluginOwned = {}
  Lanes <- ServerAndBatch
  HookKinds <- Deciding
  MaxSubs = 2
  MaxPending = 2
  MaxEpoch = 1
SYMMETRY AttemptSymmetry
INVARIANT
  RefusalOutranksMembership
CHECK_DEADLOCK FALSE
