SPECIFICATION WindowSpec
CONSTANTS
  t1 = t1
  t2 = t2
  N = 3
  Extractors <- OneThread
  Resetters <- OneThread
  EventLimit = 3
INVARIANTS
  ReportsPartition
  NothingTwice
