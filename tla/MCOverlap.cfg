SPECIFICATION Spec
CONSTANTS
  a = a
  p1 = p1
  p2 = p2
  i1 = i1
  i2 = i2
  Absent = Absent
  Instances <- MCInstances
  Uids <- MCUids
  Partitions <- MCOnePartition
  Topic <- MCShortTopic
  LogLength = 2
  MaxFaults = 2
PROPERTY
  RedeliveryIsHarmless
CHECK_DEADLOCK FALSE
