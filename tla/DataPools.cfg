CONSTANTS
  SLOTS = 2
  LARGES = 1
  BITS = 1
  TINY = 2
  SMALL = 4
  METASIZE = 1
  INDEX_UNIT = 2
  PAGE = 4
  PAGES = 4
  Bases = {1, 2}
  SIZE_MAX = 63
  INT_MAX = 15
  Values = {0, 1}
  Sizes = {1, 3}
  Counts = {1, 22}
  Pointers <- OddPointers
SPECIFICATION Spec
INVARIANT ContentsKept
CHECK_DEADLOCK FALSE
