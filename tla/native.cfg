SPECIFICATION Spec
CONSTANTS
  RegisterCount = 4
  ValueCount = 16
  WordBits = 10
  Heaps <- SmallHeaps
  RegisterFiles <- SmallRegisters
  Answers <- SmallAnswers
INVARIANTS
  TypeOK
  OnTheRails
  CodeWhole
PROPERTIES
  ImplementsContext
CHECK_DEADLOCK FALSE
