SPECIFICATION FairSpec
CONSTANTS
  Requests = {r1, r2}
  Blanks <- MCBlanks
  LogLevels <- MCLogLevels
  LogFormats <- MCLogFormats
  Environments <- MCEnvironments
  ShutdownGrace = 1
  MaxConnectBackoff = 2
  MaxFaults = 2
INVARIANTS
  TypeOK
  StartsUsable
  FailureIsReported
  CleanExitDrained
  TimeoutMeansStuck
PROPERTIES
  SharedFate
  StopsInTheEnd
  StartEnds
CHECK_DEADLOCK FALSE
