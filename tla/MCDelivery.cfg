SPECIFICATION FairSpec
CONSTANTS
  a = a
  b = b
  c = c
  p1 = p1
  p2 = p2
  r1 = r1
  r2 = r2
  Absent = Absent
  Uids <- MCTwoUids
  Versions <- MCVersions
  Partitions <- MCPartitions
  Readers <- MCReaders
  Topics <- MCTwoUidTopics
  Capacity = 2
  WarmupLimit = 2
  LogLength = 2
  MaxAttempts = 2
  MaxFaults = 3
INVARIANTS
  CacheFresh
PROPERTIES
  ImplementsDelivery
  Converges
