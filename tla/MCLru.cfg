SPECIFICATION UseSpec
CONSTANTS
  u1 = u1
  u2 = u2
  u3 = u3
  u4 = u4
  v1 = v1
  v2 = v2
  Absent = Absent
  Nil = Nil
  Uids <- MCUids
  Versions <- MCVersions
  Capacity = 3
  MaxLookups = 3
INVARIANTS
  TypeOK
  ListSound
  MostRecentlyUsedKept
PROPERTY
  ImplementsLruCache
