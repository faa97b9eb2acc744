SPECIFICATION Spec
CONSTANTS
  t1 = t1
  t2 = t2
  Threads <- TwoThreads
  Envs <- MixedEnvs
  Features <- TwoStrong
  Requested <- TwoModes
  ModelPicks <- TwoModes
  Window = 2
  Cooldown = 1
  CallLimit = 6
INVARIANTS
  ActiveIsMarked
  EventPerWindow
