SPECIFICATION FairSpec
CONSTANTS
  Requests = {r1, r2}
  Blanks <- MCBlanks
  LogLevels <- MCLogLevels
  LogFormats <- MCLogFormats
  Environments <- MCNoHandlerTimeout
  ShutdownGrace = 1
  MaxConnectBackoff = 2
  MaxFaults = 2
PROPERTY
  ExitsAnyway
CHECK_DEADLOCK FALSE
