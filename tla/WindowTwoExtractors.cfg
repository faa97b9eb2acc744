SPECIFICATION WindowSpec
CONSTANTS
  t1 = t1
  t2 = t2
  N = 2
  Extractors <- TwoThreads
  Resetters <- NoThreads
  EventLimit = 3
INVARIANTS
  NothingTwice
