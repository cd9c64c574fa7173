CONSTANTS
  SLOTS = 1
  LARGES = 1
  BITS = 1
  TINY = 2
  SMALL = 4
  METASIZE = 1
  INDEX_UNIT = 2
  PAGE = 4
  PAGES = 7
  Bases = {1, 2, 3}
  SIZE_MAX = 63
  INT_MAX = 31
  Values = {0}
  Sizes = {1, 4}
  t1 = t1
  t2 = t2
  Threads <- TwoThreads
  Counts = {16}
  MaxForks = 1
  MaxCalls = 2
  ExitFrees = FALSE
SPECIFICATION Spec
PROPERTY CallsReturn
