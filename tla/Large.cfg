CONSTANTS
  SLOTS = 1
  LARGES = 3
  BITS = 1
  TINY = 4
  SMALL = 8
  METASIZE = 2
  INDEX_UNIT = 2
  PAGE = 8
  PAGES = 10
  Bases = {1, 2, 4, 7}
  SIZE_MAX = 63
  INT_MAX = 15
  Values = {0}
  Sizes = {2, 7, 15, 18, 28, 63}
  Counts = {}
  Pointers <- EntryPointers
SPECIFICATION Spec
INVARIANTS
  LargeTable
  MappedExactly
  ShownTotalIsLive
CHECK_DEADLOCK FALSE
