SPECIFICATION Spec
CONSTANTS
  t1 = t1
  t2 = t2
  r1 = r1
  r2 = r2
  r3 = r3
  Threads = {t1, t2}
  Regions = {r1, r2, r3}
  Modes <- TwoModes
  Sizes = {1, 2}
  Overhead = 1
  CacheLimit = 2
  CacheMax = 8
  RepeatLimit = 1
  ResetLimit = 1
SYMMETRY Symmetry
INVARIANTS
  HeldIsIntact
  QuarantineKept
  GaugesAreCurrent
