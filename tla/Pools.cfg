CONSTANTS
  SLOTS = 2
  LARGES = 1
  BITS = 1
  TINY = 2
  SMALL = 4
  METASIZE = 1
  INDEX_UNIT = 2
  PAGE = 4
  PAGES = 6
  Bases <- AllPages
  SIZE_MAX = 63
  INT_MAX = 15
  Values = {0}
  Sizes = {0, 1, 2, 3, 4, 63}
  Counts = {}
  Pointers <- AllPointers
SPECIFICATION Spec
INVARIANTS
  TypeOK
  PoolTables
  Agreement
  NoOverlap
  NoAlias
  NullExplained
  ListingIsLive
CHECK_DEADLOCK FALSE
