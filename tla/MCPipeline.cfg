SPECIFICATION Spec
CONSTANTS
  a = a
  b = b
  c = c
  p1 = p1
  p2 = p2
  r1 = r1
  r2 = r2
  Absent = Absent
  Uids <- MCUids
  Versions <- MCVersions
  Partitions <- MCPartitions
  Readers <- MCReaders
  Topics <- MCTopics
  Capacity = 2
  WarmupLimit = 3
  LogLength = 2
  MaxAttempts = 2
  MaxFaults = 3
INVARIANTS
  TypeOK
  NoAckedOrderLost
  CacheWasCommitted
  WarmupKeepsFreshest
PROPERTY
  RedeliveryNeverRegresses
