SPECIFICATION Spec
CONSTANTS
  Uids <- MCCyrillic
  Chars <- MCCyrillicChars
  Bytes <- MCCyrillicBytes
  MaxLen = 2
INVARIANT
  StoredIsReadable
CHECK_DEADLOCK FALSE
