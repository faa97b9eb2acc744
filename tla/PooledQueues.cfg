SPECIFICATION Spec
CONSTANTS
  t1 = t1
  t2 = t2
  p1 = p1
  p2 = p2
  c1 = c1
  c2 = c2
  Threads = {t1, t2}
  Pages = {p1}
  Classes = {c1}
  Capacity = 3
  Modes = {"balanced", "cross", "compact"}
  Policy <- MCPolicy
  NumBuckets = 2
  Home <- SameHome
  DrainLimit = 1
  NoThread = NoThread
  NoClass = NoClass
  NoMode = NoMode
  NoBlock = NoBlock
SYMMETRY Symmetry
INVARIANTS
  OneListPerBlock
  PendingExact
  MagicMeansLive
  QueuedForOwner
  LiveCountExact
  MagazineBounded
