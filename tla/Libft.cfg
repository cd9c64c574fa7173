CONSTANTS
  Size = 7
  Bytes = {0, 1, 2}
  Lengths <- AllLengths
  SIZE_MAX = 15
  CHAR_MAX = 1
  INT_MAX = 127
  LLONG_MAX = 1279
SPECIFICATION Spec
INVARIANTS
  TrimsBothEnds
  SplitsAtSeparators
  CallocIsWhole
  SeesBytes
  FindsString
  SubstrIsMiddle
  SplitKeepsNothing
  NumbersComeBack
PROPERTIES
  MoveIsCopy
  StaysInBuffer
  TruncationShows
