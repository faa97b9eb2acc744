SPECIFICATION Spec
CONSTANTS
  t1 = t1
  t2 = t2
  t3 = t3
  Threads = {t1, t2, t3}
  Pages <- MCPages
  Regions <- MCRegions
  TableSize = 4
  ProbeLimit = 2
SYMMETRY Symmetry
INVARIANTS
  HoldsMappedOnce
  OwnedIsFound
