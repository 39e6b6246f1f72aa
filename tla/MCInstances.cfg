SPECIFICATION FairSpec
CONSTANTS
  a = a
  p1 = p1
  p2 = p2
  i1 = i1
  i2 = i2
  Absent = Absent
  Instances <- MCInstances
  Uids <- MCUids
  Partitions <- MCPartitions
  Topic <- MCTopic
  LogLength = 2
  MaxFaults = 1
INVARIANTS
  TypeOK
  NoAckedOrderLost
  StaleOnlyByOthers
PROPERTIES
  RegressNeedsOverlap
  ContractUntilOverlap
  EveryOrderStored
  ConvergesWithoutOverlap
CHECK_DEADLOCK FALSE
