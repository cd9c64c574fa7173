CONSTANTS
  NULL = NULL
  Formats <- AllFormats
  Ints <- SomeInts
  UInts <- SomeUInts
  Addresses <- SomeAddresses
  Strings <- SomeStrings
  INT_MIN <- Least
  INT_MAX = 127
  MaxFaults = 2
SPECIFICATION Spec
INVARIANTS
  Rendered
  ReplyCounts
  MinusOneMeansError
  StaysInString
