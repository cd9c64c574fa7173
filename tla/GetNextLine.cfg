CONSTANTS
  f1 = f1
  f2 = f2
  a = a
  NL = NL
  Fds <- TwoFds
  OnlyFd = f1
  BUFFER_SIZE = 3
  Chars <- TwoChars
  Texts <- SomeTexts
SPECIFICATION Spec
INVARIANTS
  NothingLost
  LinesOrSplit
  NullMeansEnd
PROPERTIES
  LossIsTold
  CallReturns
