CONSTANTS
  SLOTS = 1
  LARGES = 2
  BITS = 1
  TINY = 2
  SMALL = 4
  METASIZE = 1
  INDEX_UNIT = 2
  PAGE = 4
  PAGES = 7
  Bases = {1, 2, 4}
  SIZE_MAX = 63
  INT_MAX = 3
  Values = {0, 1}
  Sizes = {1, 4, 8}
  Counts = {32}
  Pointers <- OddPointers
SPECIFICATION Spec
INVARIANT Agreement
PROPERTY ImplementsHeap
CHECK_DEADLOCK FALSE
