SPECIFICATION FairSpec
CONSTANTS
  RegisterCount = 8
  ValueCount = 64
  WordBits = 13
  Program1Size = 3
  Program2Size = 2
  Scrolls <- StraightLineScrolls
  Chars <- StraightLineChars
  CodeIds = {k1, k2}
  NoCode = NoCode
  MaxArrays = 5
  MaxArraySize = 9
  MaxOutput = 1
PROPERTIES
  RunEndsOrAmendsLast
CHECK_DEADLOCK FALSE
