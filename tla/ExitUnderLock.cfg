CONSTANTS
  SLOTS = 1
  LARGES = 2
  BITS = 1
  TINY = 2
  SMALL = 4
  METASIZE = 1
  INDEX_UNIT = 2
  PAGE = 4
  PAGES = 7
  Bases = {1, 2, 4}
  SIZE_MAX = 63
  INT_MAX = 15
  Values = {0}
  Sizes = {1, 4}
  t1 = t1
  t2 = t2
  Threads <- TwoThreads
  Counts = {2}
  MaxForks = 0
  MaxCalls = 2
  ExitFrees = TRUE
SPECIFICATION Spec
SYMMETRY AnyOrder
INVARIANT NoSelfDeadlock
