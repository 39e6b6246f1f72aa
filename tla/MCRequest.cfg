SPECIFICATION FairSpec
CONSTANTS
  Uids <- MCAscii
  Chars <- MCAsciiLength
  Bytes <- MCAsciiLength
  MaxLen = 2
INVARIANTS
  TypeOK
  OneAnswer
  LogTellsStatus
  PanicAnswered
  StoredIsReadable
PROPERTY
  EveryRequestLogged
CHECK_DEADLOCK FALSE
