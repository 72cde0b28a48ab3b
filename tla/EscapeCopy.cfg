SPECIFICATION Spec
CONSTANTS
  MaxLen = 4
INVARIANTS
  CopyOfInput
CHECK_DEADLOCK FALSE
