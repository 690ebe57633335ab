SPECIFICATION Spec
CONSTANTS
  RegisterCount = 8
  ValueCount = 64
  WordBits = 13
  Program1Size = 3
  Program2Size = 2
  Scrolls <- BootScrolls
  Chars <- BootChars
  CodeIds = {k1, k2, k3}
  NoCode = NoCode
  MaxArrays = 4
  MaxArraySize = 3
  MaxOutput = 1
SYMMETRY Symmetry
PROPERTIES
  RecompileRestartsSamePlatter
CHECK_DEADLOCK FALSE
