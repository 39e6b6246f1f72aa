SPECIFICATION Spec
CONSTANTS
  Uids <- MCAscii
  Chars <- MCAsciiLength
  Bytes <- MCAsciiLength
  MaxLen = 2
INVARIANT
  PanicLeavesItsStack
CHECK_DEADLOCK FALSE
