SPECIFICATION Spec
CONSTANTS
  t1 = t1
  t2 = t2
  Threads <- OneThread
  Envs <- RuleEnvs
  Features <- AllWindows
  Requested <- NoModes
  ModelPicks <- NoModes
  Window = 2
  Cooldown = 2
  CallLimit = 12
INVARIANTS
  CooldownSpacesSwitches
  SettlesOnRule
CHECK_DEADLOCK FALSE
