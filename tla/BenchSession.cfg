SPECIFICATION FairSpec
CONSTANTS
  b1 = b1
  b2 = b2
  b3 = b3
  b4 = b4
  Blocks = {b1, b2, b3, b4}
  Sizes = {1, 2}
  NSlots = 3
  Workers = 2
  Iters = 3
  Every = 2
  FailLimit = 1
  Null = Null
  Configs <- SessionConfigs
  ModeCount = 2
  PhaseMs = 3
INVARIANTS
  FreesAreDeliberate
  NothingLeftBehind
  AlarmsOnlyFromNumbering
PROPERTIES
  PublishedIsLive
  SnapshotsAdvance
  Exits
