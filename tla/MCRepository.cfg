SPECIFICATION FairSpec
CONSTANTS
  a = a
  b = b
  w1 = w1
  w2 = w2
  t1 = t1
  t2 = t2
  t3 = t3
  r1 = r1
  x = x
  y = y
  Absent = Absent
  Uids <- MCUids
  Items <- MCItems
  Writers <- MCWriters
  Sessions <- MCSessions
  Readers <- MCReaders
  Saves <- MCSaves
  MaxLosses = 2
INVARIANTS
  TypeOK
  OrdersWhole
  ReadsAreWhole
  ReturnedSavesStay
PROPERTIES
  LateCommitHarmless
  ImplementsOrderStore
  SavesFinish
