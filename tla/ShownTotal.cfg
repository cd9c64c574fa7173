CONSTANTS
  SLOTS = 2
  LARGES = 2
  BITS = 1
  TINY = 2
  SMALL = 4
  METASIZE = 1
  INDEX_UNIT = 2
  PAGE = 4
  PAGES = 10
  Bases = {1, 2, 4, 7}
  SIZE_MAX = 63
  INT_MAX = 15
  Values = {0}
  Sizes = {4, 8}
  Counts = {}
  Pointers <- OddPointers
SPECIFICATION Spec
INVARIANT ShownTotalIsRequested
CHECK_DEADLOCK FALSE
