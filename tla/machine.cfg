SPECIFICATION SafeSpec
CONSTANTS
  RegisterCount = 8
  ValueCount = 64
  WordBits = 13
  Program1Size = 3
  Program2Size = 2
  Scrolls <- MachineScrolls
  Chars <- BootChars
  CodeIds = {k1, k2, k3}
  NoCode = NoCode
  MaxArrays = 4
  MaxArraySize = 9
  MaxOutput = 4
SYMMETRY Symmetry
INVARIANTS
  FingerPositionInTable
  MinEmptyIsSmallest
  InductiveInvariant
  CodeCoherent
PROPERTIES
  ImplementsUniversalMachine
CHECK_DEADLOCK FALSE
