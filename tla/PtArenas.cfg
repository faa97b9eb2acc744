SPECIFICATION FairSpec
CHECK_DEADLOCK FALSE
CONSTANTS
  Threads = {t1, t2}
  MAX_ARENAS = 2
  MaxHeaps = 2
  MaxCalls = 4
  None = None
INVARIANTS
  LocksMatchWork
  OneThreadPerHeap
  ArenasBounded
PROPERTIES
  PtCallsReturn
