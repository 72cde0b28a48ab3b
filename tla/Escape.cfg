SPECIFICATION Spec
CONSTANTS
  MaxLen = 8
INVARIANTS
  StaysQuoted
  QuotesEscapedOnce
  EscapedKept
  ReadsBack
CHECK_DEADLOCK FALSE
