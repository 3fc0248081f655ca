SPECIFICATION Spec
CONSTANTS
  room = room
  owned = owned
  a1 = a1
  a2 = a2
  a3 = a3
  Topics <- OneTopic
  Attempts <- TwoAttempts
  PluginOwned = {}
  Lanes <- DerivedOnly
  HookKinds <- Deciding
  MaxSubs = 2
  MaxPending = 2
  MaxEpoch = 1
SYMMETRY AttemptSymmetry
PROPERTY
  TapHonoursRevocation
CHECK_DEADLOCK FALSE
