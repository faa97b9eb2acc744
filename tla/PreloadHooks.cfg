SPECIFICATION Spec
CONSTANTS
  l1 = l1
  l2 = l2
  a1 = a1
  a2 = a2
  Libc = {l1, l2}
  Adaptive = {a1, a2}
  BufSize = 6
  Unit = 2
  HookSizes = {0, 1, 2, 3}
  TableSize = 2
  Null = Null
SYMMETRY Symmetry
INVARIANTS
  RoutedHome
  TableExact
