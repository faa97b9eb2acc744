SPECIFICATION FairSpec
CONSTANTS
  t1 = t1
  t2 = t2
  p1 = p1
  p2 = p2
  c1 = c1
  c2 = c2
  Threads = {t1, t2}
  Pages = {p1, p2}
  Classes = {c1, c2}
  Capacity = 1
  Modes = {"cross", "compact"}
  Policy <- CrossCompact
  NumBuckets = 1
  Home <- SameHome
  DrainLimit = 1
  NoThread = NoThread
  NoClass = NoClass
  NoMode = NoMode
  NoBlock = NoBlock
INVARIANTS
  RightClass
  ReallocSourceLive
  EmptyPagesBounded
PROPERTIES
  KeepsPromise
  CallsReturn
