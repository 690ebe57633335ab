SPECIFICATION FailingSpec
CONSTANTS
  RegisterCount = 8
  ValueCount = 64
  WordBits = 13
  Program1Size = 3
  Program2Size = 2
  Scrolls <- FailureScrolls
  Chars <- BootChars
  CodeIds = {k1, k2, k3}
  NoCode = NoCode
  MaxArrays = 4
  MaxArraySize = 3
  MaxOutput = 1
SYMMETRY Symmetry
INVARIANTS
  TypeOK
  CodeOwnership
  RunLocalsFresh
  SourceLink
  SearchSurvives
PROPERTIES
  RecompileRestartsEarlierPlatter
  OtherArraysKept
  CoherenceKept
  LinksKept
CHECK_DEADLOCK FALSE
