CONSTANTS
  SLOTS = 1
  LARGES = 2
  BITS = 1
  TINY = 2
  SMALL = 4
  METASIZE = 1
  INDEX_UNIT = 2
  PAGE = 4
  PAGES = 7
  Bases = {1, 2, 4}
  SIZE_MAX = 63
  INT_MAX = 31
  Values = {0}
  Sizes = {0, 4}
  t1 = t1
  t2 = t2
  Threads <- TwoThreads
  Counts = {3, 16}
  MaxForks = 1
  MaxCalls = 3
  ExitFrees = FALSE
SPECIFICATION Spec
SYMMETRY AnyOrder
INVARIANTS
  TypeOK
  CallsAreAtomic
  TablesMatch
  CallsStartWhole
  ShowIsSnapshot
  NoSelfDeadlock
