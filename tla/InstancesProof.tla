--------------------------- MODULE InstancesProof ---------------------------
(***************************************************************************)
(* Proofs about OrderInstances.  A reader is only ever past messages that  *)
(* are stored, but for the one its consumer has in hand; so an offset that *)
(* is committed, whoever commits it and whatever it was before, covers     *)
(* stored messages only.  A cached version that is not the one of Postgres *)
(* is traced through the query and the consumer's hands to the writer that *)
(* made it old.                                                            *)
(***************************************************************************)
EXTENDS InstancesProperties, TLAPS

Valid(p, k) == Topic[p][k].kind = "valid"

(* Each valid message of p up to n is stored. *)
Stored(p, n) == \A k \in 1..n : Valid(p, k) => <<p, k>> \in applied

InHandStored(i) ==
  msg[i] # Absent =>
    /\ \A k \in 1..(msg[i][2] - 1) : Valid(msg[i][1], k) => <<msg[i][1], k>> \in applied
    /\ pc[i] \in {"cache", "commit"} /\ KindOf(msg[i]) = "valid" => msg[i] \in applied

ReadStored(i, p) ==
  reader[i][p] # Absent =>
    \A k \in 1..reader[i][p] :
      Valid(p, k) => <<p, k>> \in applied \/ msg[i] = <<p, k>>

Offsets ==
  /\ \A p \in Partitions : committed[p] <= Len(Topic[p]) /\ Stored(p, committed[p])
  /\ \A i \in Instances : InHandStored(i)
  /\ \A i \in Instances, p \in Partitions :
       /\ ReadStored(i, p)
       /\ reader[i][p] # Absent => reader[i][p] \in 0..Len(Topic[p])

DbOfOrder == \A u \in Uids : db[u] # Absent => UidOf(db[u]) = u

(* While the consumer of i has yet to cache what it stored, Postgres has    *)
(* that version, unless somebody else has written since.                    *)
ToBeCached ==
  \A i \in Instances :
    pc[i] = "cache" =>
      \/ db[UidOf(msg[i])] = msg[i]
      \/ writer[UidOf(msg[i])] # i

(* A version a request has read and may yet cache. *)
ToBeFilled ==
  query # NoQuery =>
    LET u == UidOf(query.version)
    IN  held[query.at][u] # Absent \/ query.version = db[u]
          \/ InHand(query.at, u) \/ writer[u] # query.at

CacheInv == DbOfOrder /\ ToBeCached /\ ToBeFilled /\ StaleOnlyByOthers

IInv == TypeOK /\ Offsets /\ CacheInv

LEMMA VersionFacts ==
  ASSUME NEW v \in Versions
  PROVE  /\ v[1] \in Partitions /\ v[2] \in 1..Len(Topic[v[1]]) /\ v = <<v[1], v[2]>>
         /\ UidOf(v) \in Uids /\ KindOf(v) \in Kinds
         /\ v # Absent
<1>1. PICK p \in Partitions : v \in {p} \X (1..Len(Topic[p]))
  BY DEF Versions
<1>2. v[1] = p /\ v[2] \in 1..Len(Topic[p]) /\ v = <<v[1], v[2]>>
  BY <1>1
<1>3. Topic[p] \in Seq(Message)
  BY LogAssumption
<1>4. Topic[p][v[2]] \in Message
  BY <1>2, <1>3
<1> QED BY <1>2, <1>4, VersionsAssumption DEF UidOf, KindOf, Message

LEMMA VersionAt ==
  ASSUME NEW p \in Partitions, NEW k \in 1..Len(Topic[p])
  PROVE  /\ <<p, k>> \in Versions /\ <<p, k>>[1] = p /\ <<p, k>>[2] = k
         /\ k \in Nat /\ KindOf(<<p, k>>) = Topic[p][k].kind
<1>1. Len(Topic[p]) \in Nat
  BY LogAssumption
<1>2. <<p, k>> \in {p} \X (1..Len(Topic[p]))
  OBVIOUS
<1> QED BY <1>1, <1>2 DEF Versions, KindOf

(* Whoever has left the fetch has a message in hand. *)
LEMMA AtHand ==
  ASSUME TypeOK, NEW i \in Instances, pc[i] # "fetch"
  PROVE  msg[i] \in Versions /\ msg[i] # Absent
BY DEF TypeOK

LEMMA LogBounds ==
  ASSUME NEW p \in Partitions
  PROVE  Len(Topic[p]) \in Nat /\ Len(Topic[p]) <= LogLength /\ LogLength \in Nat
BY LogAssumption

LEMMA InitIInv == Init => IInv
<1> SUFFICES ASSUME Init PROVE IInv
  OBVIOUS
<1>1. TypeOK
  <2>1. committed \in [Partitions -> 0..LogLength] /\ faults \in 0..MaxFaults
    BY LogAssumption, MaxFaultsAssumption DEF Init
  <2>2. overlapped \in BOOLEAN
    BY DEF Init
  <2>3. /\ db \in [Uids -> Versions \cup {Absent}] /\ applied \subseteq Versions
        /\ writer \in [Uids -> Instances \cup {Absent}] /\ orphans \subseteq Versions
        /\ up \subseteq Instances /\ member \subseteq up
    BY DEF Init
  <2>4. /\ reader \in [Instances -> [Partitions -> 0..LogLength \cup {Absent}]]
        /\ held \in [Instances -> [Uids -> Versions \cup {Absent}]]
        /\ query = NoQuery
    BY DEF Init, NotReading, EmptyCache
  <2>5. /\ pc \in [Instances -> {"fetch", "save", "backoff", "cache", "commit"}]
        /\ msg \in [Instances -> Versions \cup {Absent}]
        /\ \A i \in Instances : pc[i] = "fetch" <=> msg[i] = Absent
        /\ \A i, j \in member : \A p \in Partitions :
             reader[i][p] # Absent /\ reader[j][p] # Absent => i = j
    BY DEF Init
  <2> QED BY <2>1, <2>2, <2>3, <2>4, <2>5 DEF TypeOK
<1>2. Offsets
  <2>1. \A p \in Partitions : committed[p] = 0
    BY DEF Init
  <2>2. \A i \in Instances : msg[i] = Absent /\ \A p \in Partitions : reader[i][p] = Absent
    BY DEF Init, NotReading
  <2> QED BY <2>1, <2>2, LogBounds DEF Offsets, Stored, InHandStored, ReadStored
<1>3. CacheInv
  BY DEF Init, CacheInv, DbOfOrder, ToBeCached, ToBeFilled, StaleOnlyByOthers
<1> QED BY <1>1, <1>2, <1>3 DEF IInv

-----------------------------------------------------------------------------
(* What the steps keep of each conjunct. *)

(* Nothing that is read or in hand changes: what is stored stays stored. *)
LEMMA OffsetsKept ==
  ASSUME Offsets, applied \subseteq applied', UNCHANGED <<committed, reader, msg>>,
         \A i \in Instances :
           \/ pc'[i] = pc[i]
           \/ pc'[i] \in {"cache", "commit"} /\ KindOf(msg[i]) = "valid" => msg[i] \in applied'
  PROVE  Offsets'
<1>1. \A p \in Partitions : (committed[p] <= Len(Topic[p]) /\ Stored(p, committed[p]))'
  BY DEF Offsets, Stored
<1>2. ASSUME NEW i \in Instances PROVE InHandStored(i)'
  BY DEF Offsets, InHandStored
<1>3. ASSUME NEW i \in Instances, NEW p \in Partitions
      PROVE  (ReadStored(i, p) /\ (reader[i][p] # Absent => reader[i][p] \in 0..Len(Topic[p])))'
  BY DEF Offsets, ReadStored
<1> QED BY <1>1, <1>2, <1>3 DEF Offsets

(* The hand of a consumer moves on, without writing to Postgres or a cache. *)
LEMMA CachesKept ==
  ASSUME IInv, UNCHANGED <<db, writer, held, query>>, up' \subseteq up,
         \A i \in Instances : pc[i] = "cache" => pc'[i] = "cache" /\ msg'[i] = msg[i],
         \A i \in Instances : pc'[i] = "cache" => pc[i] = "cache"
  PROVE  CacheInv'
<1>1. DbOfOrder' /\ ToBeCached'
  BY DEF IInv, CacheInv, DbOfOrder, ToBeCached
<1>2. StaleOnlyByOthers'
  BY DEF IInv, TypeOK, CacheInv, StaleOnlyByOthers, InHand
<1>3. ToBeFilled'
  <2>1. query # NoQuery => query.at \in Instances
    BY DEF IInv, TypeOK
  <2> QED BY <2>1 DEF IInv, CacheInv, ToBeFilled, InHand
<1> QED BY <1>1, <1>2, <1>3 DEF CacheInv

LEMMA StartIInv ==
  ASSUME IInv, NEW i \in Instances, Start(i)
  PROVE  IInv'
<1> USE DEF Start, storeVars, groupVars
<1>1. TypeOK'
  BY DEF IInv, TypeOK, NoQuery
<1>2. Offsets'
  BY OffsetsKept DEF IInv
<1>3. CacheInv'
  <2>1. held'[i] = db /\ \A j \in Instances \ {i} : held'[j] = held[j]
    BY DEF IInv, TypeOK
  <2>2. query # NoQuery => query.at \in up
    BY DEF IInv, TypeOK
  <2>3. StaleOnlyByOthers'
    BY <2>1 DEF IInv, TypeOK, CacheInv, StaleOnlyByOthers, InHand
  <2>4. ToBeFilled'
    BY <2>1, <2>2 DEF IInv, TypeOK, CacheInv, ToBeFilled, InHand
  <2>5. DbOfOrder' /\ ToBeCached'
    BY DEF IInv, CacheInv, DbOfOrder, ToBeCached
  <2> QED BY <2>3, <2>4, <2>5 DEF CacheInv
<1> QED BY <1>1, <1>2, <1>3 DEF IInv

(* The end of a process, however it comes. *)
LEMMA GoneIInv ==
  ASSUME IInv, NEW i \in Instances, Gone(i),
         orphans' \subseteq Versions, faults' \in 0..MaxFaults
  PROVE  IInv'
<1> USE DEF Gone
<1>1. /\ \A j \in Instances \ {i} :
           reader'[j] = reader[j] /\ pc'[j] = pc[j] /\ msg'[j] = msg[j] /\ held'[j] = held[j]
      /\ reader'[i] = NotReading /\ pc'[i] = "fetch" /\ msg'[i] = Absent /\ held'[i] = EmptyCache
  BY DEF IInv, TypeOK
<1>2. query' = NoQuery \/ (query' = query /\ query.at # i /\ query.at \in Instances)
  BY InstancesAssumption DEF IInv, TypeOK
<1>3. TypeOK'
  <2>1. /\ reader' \in [Instances -> [Partitions -> 0..LogLength \cup {Absent}]]
        /\ held' \in [Instances -> [Uids -> Versions \cup {Absent}]]
        /\ pc' \in [Instances -> {"fetch", "save", "backoff", "cache", "commit"}]
        /\ msg' \in [Instances -> Versions \cup {Absent}]
    BY DEF IInv, TypeOK, NotReading, EmptyCache
  <2>2. /\ \A j \in Instances : pc'[j] = "fetch" <=> msg'[j] = Absent
        /\ \A j, k \in member' : \A p \in Partitions :
             reader'[j][p] # Absent /\ reader'[k][p] # Absent => j = k
    BY <1>1 DEF IInv, TypeOK
  <2>3. query' \in [at : up', version : Versions] \cup {NoQuery}
    BY DEF IInv, TypeOK
  <2> QED BY <2>1, <2>2, <2>3 DEF IInv, TypeOK
<1>4. Offsets'
  <2>1. \A p \in Partitions : (committed[p] <= Len(Topic[p]) /\ Stored(p, committed[p]))'
    BY DEF IInv, Offsets, Stored
  <2>2. ASSUME NEW j \in Instances PROVE InHandStored(j)'
    BY <1>1 DEF IInv, Offsets, InHandStored
  <2>3. ASSUME NEW j \in Instances, NEW p \in Partitions
        PROVE  (ReadStored(j, p) /\ (reader[j][p] # Absent => reader[j][p] \in 0..Len(Topic[p])))'
    BY <1>1 DEF IInv, Offsets, ReadStored, NotReading
  <2> QED BY <2>1, <2>2, <2>3 DEF Offsets
<1>5. CacheInv'
  <2>1. DbOfOrder' /\ ToBeCached'
    BY <1>1 DEF IInv, CacheInv, DbOfOrder, ToBeCached
  <2>2. StaleOnlyByOthers'
    BY <1>1 DEF IInv, TypeOK, CacheInv, StaleOnlyByOthers, InHand
  <2>3. ToBeFilled'
    BY <1>1, <1>2 DEF IInv, CacheInv, ToBeFilled, InHand
  <2> QED BY <2>1, <2>2, <2>3 DEF CacheInv
<1> QED BY <1>3, <1>4, <1>5 DEF IInv

LEMMA FaultBound == ASSUME TypeOK, Fault PROVE faults' \in 0..MaxFaults
BY MaxFaultsAssumption DEF TypeOK, Fault

LEMMA OrphansTyped ==
  ASSUME TypeOK, NEW i \in Instances, MaybeOrphaned(i)
  PROVE  orphans' \subseteq Versions
<1>1. AtCommit(i) => msg[i] \in Versions
  BY AtHand DEF AtCommit
<1> QED BY <1>1 DEF MaybeOrphaned, TypeOK

LEMMA EndStep ==
  ASSUME IInv, NEW i \in Instances, Crash(i) \/ SaveGivesUp(i) \/ CommitFails(i)
  PROVE  IInv'
<1>1. Gone(i)
  BY DEF Crash, SaveGivesUp, CommitFails
<1>2. faults' \in 0..MaxFaults
  BY FaultBound DEF Crash, SaveGivesUp, CommitFails, IInv, TypeOK
<1>3. orphans' \subseteq Versions
  BY OrphansTyped DEF Crash, SaveGivesUp, CommitFails, IInv, TypeOK
<1> QED BY <1>1, <1>2, <1>3, GoneIInv

(* Every reader of a member starts again from what is stored. *)
LEMMA RebalanceIInv ==
  ASSUME IInv, NEW members \in SUBSET up, NEW to \in [Partitions -> Instances],
         Rebalance(members, to)
  PROVE  IInv'
<1> USE DEF Rebalance, storeVars, cacheVars
<1>1. \A i \in Instances, p \in Partitions :
        reader'[i][p] = IF i \in members
                          THEN IF to[p] = i THEN committed[p] ELSE Absent
                          ELSE reader[i][p]
  BY DEF Assigned
<1>2. TypeOK'
  <2>1. reader' \in [Instances -> [Partitions -> 0..LogLength \cup {Absent}]]
    BY DEF IInv, TypeOK, Assigned
  <2>2. \A i, j \in member' : \A p \in Partitions :
          reader'[i][p] # Absent /\ reader'[j][p] # Absent => i = j
    BY <1>1 DEF IInv, TypeOK
  <2>3. faults' \in 0..MaxFaults
    BY FaultBound DEF IInv, TypeOK
  <2>4. overlapped' \in BOOLEAN
    BY DEF IInv, TypeOK
  <2> QED BY <2>1, <2>2, <2>3, <2>4 DEF IInv, TypeOK
<1>3. Offsets'
  <2>1. \A p \in Partitions : (committed[p] <= Len(Topic[p]) /\ Stored(p, committed[p]))'
    BY DEF IInv, Offsets, Stored
  <2>2. ASSUME NEW i \in Instances PROVE InHandStored(i)'
    BY DEF IInv, Offsets, InHandStored
  <2>3. ASSUME NEW i \in Instances, NEW p \in Partitions
        PROVE  (ReadStored(i, p) /\ (reader[i][p] # Absent => reader[i][p] \in 0..Len(Topic[p])))'
    <3>1. CASE reader'[i][p] = reader[i][p]
      BY <3>1 DEF IInv, Offsets, ReadStored
    <3>2. CASE reader'[i][p] = Absent
      BY <3>2 DEF ReadStored
    <3>3. CASE reader'[i][p] = committed[p]
      <4>1. committed[p] \in 0..Len(Topic[p])
        BY LogBounds DEF IInv, TypeOK, Offsets
      <4> QED BY <3>3, <4>1 DEF IInv, Offsets, Stored, ReadStored
    <3> QED BY <1>1, <3>1, <3>2, <3>3
  <2> QED BY <2>1, <2>2, <2>3 DEF Offsets
<1>4. CacheInv'
  BY CachesKept DEF IInv
<1> QED BY <1>2, <1>3, <1>4 DEF IInv

LEMMA FetchIInv ==
  ASSUME IInv, NEW i \in Instances, NEW p \in Partitions, Fetch(i, p)
  PROVE  IInv'
<1> USE DEF Fetch, storeVars, cacheVars
<1> DEFINE n == reader[i][p] + 1
<1>1. reader[i][p] \in 0..Len(Topic[p]) /\ n \in 1..Len(Topic[p]) /\ msg[i] = Absent
  BY LogBounds DEF IInv, TypeOK, Offsets
<1>2. <<p, n>> \in Versions /\ <<p, n>> # Absent
  BY <1>1, VersionAt, VersionsAssumption
<1>3. /\ \A j \in Instances \ {i} : reader'[j] = reader[j] /\ pc'[j] = pc[j] /\ msg'[j] = msg[j]
      /\ \A q \in Partitions \ {p} : reader'[i][q] = reader[i][q]
      /\ reader'[i][p] = n /\ msg'[i] = <<p, n>> /\ pc'[i] \in {"commit", "save"}
      /\ pc'[i] = "commit" => Topic[p][n].kind = "invalid"
  BY DEF IInv, TypeOK
<1>4. TypeOK'
  <2>1. n \in 0..LogLength
    BY <1>1, LogBounds
  <2>2. /\ reader' \in [Instances -> [Partitions -> 0..LogLength \cup {Absent}]]
        /\ pc' \in [Instances -> {"fetch", "save", "backoff", "cache", "commit"}]
        /\ msg' \in [Instances -> Versions \cup {Absent}]
    BY <1>2, <2>1 DEF IInv, TypeOK
  <2>3. \A j \in Instances : pc'[j] = "fetch" <=> msg'[j] = Absent
    BY <1>2, <1>3 DEF IInv, TypeOK
  <2>4. \A j, k \in member' : \A q \in Partitions :
          reader'[j][q] # Absent /\ reader'[k][q] # Absent => j = k
    <3>1. \A j \in Instances, q \in Partitions : reader'[j][q] # Absent => reader[j][q] # Absent
      BY <1>3
    <3> QED BY <3>1 DEF IInv, TypeOK
  <2> QED BY <2>2, <2>3, <2>4 DEF IInv, TypeOK
<1>5. Offsets'
  <2>1. \A q \in Partitions : (committed[q] <= Len(Topic[q]) /\ Stored(q, committed[q]))'
    BY DEF IInv, Offsets, Stored
  <2>2. ASSUME NEW j \in Instances PROVE InHandStored(j)'
    <3>1. CASE j = i
      <4>1. msg'[i][1] = p /\ msg'[i][2] = n /\ KindOf(msg'[i]) = Topic[p][n].kind
        BY <1>1, <1>3, VersionAt
      <4>2. \A k \in 1..(n - 1) : Valid(p, k) => <<p, k>> \in applied
        <5>1. ReadStored(i, p) /\ n - 1 = reader[i][p]
          BY <1>1 DEF IInv, Offsets
        <5>2. ASSUME NEW k \in 1..(n - 1) PROVE msg[i] # <<p, k>>
          <6>1. k \in 1..Len(Topic[p])
            BY <1>1, LogBounds
          <6> QED BY <1>1, <6>1, VersionAt, VersionsAssumption
        <5> QED BY <5>1, <5>2 DEF ReadStored
      <4> QED BY <1>3, <3>1, <4>1, <4>2 DEF InHandStored
    <3>2. CASE j # i
      BY <1>3, <3>2 DEF IInv, Offsets, InHandStored
    <3> QED BY <3>1, <3>2
  <2>3. ASSUME NEW j \in Instances, NEW q \in Partitions
        PROVE  (ReadStored(j, q) /\ (reader[j][q] # Absent => reader[j][q] \in 0..Len(Topic[q])))'
    <3>1. CASE j # i
      BY <1>3, <3>1 DEF IInv, Offsets, ReadStored
    <3>2. CASE j = i /\ q # p
      <4>1. ReadStored(i, q) /\ (reader[i][q] # Absent => reader[i][q] \in 0..Len(Topic[q]))
        BY DEF IInv, Offsets
      <4>2. ASSUME NEW k \in 1..reader[i][q], reader[i][q] # Absent PROVE msg[i] # <<q, k>>
        <5>1. k \in 1..Len(Topic[q])
          BY <4>1, <4>2, LogBounds
        <5> QED BY <1>1, <5>1, VersionAt, VersionsAssumption
      <4> QED BY <1>3, <3>2, <4>1, <4>2 DEF ReadStored
    <3>3. CASE j = i /\ q = p
      <4>1. \A k \in 1..n : k \in 1..reader[i][p] \/ k = n
        BY <1>1, LogBounds
      <4>2. ASSUME NEW k \in 1..reader[i][p] PROVE msg[i] # <<p, k>>
        <5>1. k \in 1..Len(Topic[p])
          BY <1>1, LogBounds
        <5> QED BY <1>1, <5>1, VersionAt, VersionsAssumption
      <4>3. n \in 0..Len(Topic[p])
        BY <1>1, LogBounds
      <4> QED BY <1>3, <3>3, <4>1, <4>2, <4>3 DEF IInv, Offsets, ReadStored
    <3> QED BY <3>1, <3>2, <3>3
  <2> QED BY <2>1, <2>2, <2>3 DEF Offsets
<1>6. CacheInv'
  BY <1>3, CachesKept DEF IInv, TypeOK
<1> QED BY <1>4, <1>5, <1>6 DEF IInv

(* A version gets into Postgres, by the hand of w or of no instance. *)
LEMMA StoredKeeps ==
  ASSUME IInv, NEW v \in Versions, NEW w \in Instances \cup {Absent}, StoredBy(w, v),
         UNCHANGED <<groupVars, cacheVars, up, msg>>,
         \A i \in Instances : i # w => pc'[i] = pc[i],
         w \in Instances => msg[w] = v /\ pc[w] = "save" /\ pc'[w] = "cache"
  PROVE  Offsets' /\ CacheInv'
<1> USE DEF StoredBy, groupVars, cacheVars
<1> DEFINE u == UidOf(v)
<1>1. /\ u \in Uids /\ v # Absent
      /\ db'[u] = v /\ writer'[u] = w /\ v \in applied' /\ applied \subseteq applied'
      /\ \A x \in Uids \ {u} : db'[x] = db[x] /\ writer'[x] = writer[x]
  BY VersionFacts DEF IInv, TypeOK
<1>2. Offsets'
  BY <1>1, OffsetsKept DEF IInv
<1>3. DbOfOrder'
  BY <1>1 DEF IInv, CacheInv, DbOfOrder
<1>4. ToBeCached'
  <2> SUFFICES ASSUME NEW i \in Instances, pc'[i] = "cache"
               PROVE  db'[UidOf(msg[i])] = msg[i] \/ writer'[UidOf(msg[i])] # i
    BY DEF ToBeCached
  <2>1. CASE i = w
    BY <1>1, <2>1
  <2>2. CASE i # w
    <3>1. UidOf(msg[i]) \in Uids
      BY <2>2, AtHand, VersionFacts DEF IInv
    <3> QED BY <1>1, <2>2, <3>1 DEF IInv, CacheInv, ToBeCached
  <2> QED BY <2>1, <2>2
<1>5. StaleOnlyByOthers'
  <2> SUFFICES ASSUME NEW i \in up, NEW x \in Uids, held[i][x] \notin {Absent, db'[x]}
               PROVE  InHand(i, x)' \/ writer'[x] # i
    BY DEF StaleOnlyByOthers
  <2>1. i \in Instances
    BY DEF IInv, TypeOK
  <2>2. CASE x = u
    BY <1>1, <2>1, <2>2 DEF InHand
  <2>3. CASE x # u
    BY <1>1, <2>1, <2>3 DEF IInv, CacheInv, StaleOnlyByOthers, InHand
  <2> QED BY <2>2, <2>3
<1>6. ToBeFilled'
  <2> SUFFICES ASSUME query # NoQuery
               PROVE  ToBeFilled'
    BY DEF ToBeFilled
  <2>1. query.at \in Instances /\ UidOf(query.version) \in Uids
    BY VersionFacts DEF IInv, TypeOK
  <2>2. CASE UidOf(query.version) = u
    BY <1>1, <2>1, <2>2 DEF ToBeFilled, InHand
  <2>3. CASE UidOf(query.version) # u
    BY <1>1, <2>1, <2>3 DEF IInv, CacheInv, ToBeFilled, InHand
  <2> QED BY <2>2, <2>3
<1> QED BY <1>2, <1>3, <1>4, <1>5, <1>6 DEF CacheInv

LEMMA StoresIInv ==
  ASSUME IInv, NEW i \in Instances, SaveStores(i)
  PROVE  IInv'
<1> USE DEF SaveStores, AtCommit, groupVars, cacheVars
<1>1. msg[i] \in Versions /\ UidOf(msg[i]) \in Uids
  BY AtHand, VersionFacts DEF IInv
<1>2. pc' = [pc EXCEPT ![i] = "cache"] /\ pc[i] = "save"
  OBVIOUS
<1>3. TypeOK'
  BY <1>1 DEF IInv, TypeOK, StoredBy
<1>4. Offsets' /\ CacheInv'
  <2>1. \A j \in Instances : j # i => pc'[j] = pc[j]
    BY <1>2 DEF IInv, TypeOK
  <2>2. pc'[i] = "cache"
    BY <1>2 DEF IInv, TypeOK
  <2> QED BY <1>1, <1>2, <2>1, <2>2, StoredKeeps
<1> QED BY <1>3, <1>4 DEF IInv

LEMMA OrphanIInv ==
  ASSUME IInv, NEW v \in orphans, OrphanCommits(v) \/ OrphanAborts(v)
  PROVE  IInv'
<1> USE DEF groupVars, cacheVars
<1>1. v \in Versions /\ UidOf(v) \in Uids
  BY VersionFacts DEF IInv, TypeOK
<1>2. CASE OrphanCommits(v)
  <2>1. TypeOK'
    BY <1>1, <1>2 DEF IInv, TypeOK, OrphanCommits, StoredBy
  <2>2. Offsets' /\ CacheInv'
    BY <1>1, <1>2, StoredKeeps, InstancesAssumption DEF OrphanCommits
  <2> QED BY <2>1, <2>2 DEF IInv
<1>3. CASE OrphanAborts(v)
  <2>1. TypeOK'
    BY <1>3 DEF IInv, TypeOK, OrphanAborts
  <2>2. Offsets'
    BY <1>3, OffsetsKept DEF OrphanAborts, IInv
  <2>3. CacheInv'
    BY <1>3, CachesKept DEF OrphanAborts, IInv
  <2> QED BY <2>1, <2>2, <2>3 DEF IInv
<1> QED BY <1>2, <1>3

LEMMA CachesIInv ==
  ASSUME IInv, NEW i \in Instances, SaveCaches(i)
  PROVE  IInv'
<1> USE DEF SaveCaches, storeVars, groupVars
<1> DEFINE u == UidOf(msg[i])
<1>1. msg[i] \in Versions /\ u \in Uids /\ msg[i] # Absent
  BY AtHand, VersionFacts DEF IInv
<1>2. /\ held'[i][u] = msg[i] /\ \A x \in Uids \ {u} : held'[i][x] = held[i][x]
      /\ \A j \in Instances \ {i} : held'[j] = held[j] /\ pc'[j] = pc[j]
      /\ pc'[i] = "commit"
  BY <1>1 DEF IInv, TypeOK
<1>3. TypeOK'
  <2>1. held' \in [Instances -> [Uids -> Versions \cup {Absent}]]
    BY <1>1 DEF IInv, TypeOK
  <2>2. /\ pc' \in [Instances -> {"fetch", "save", "backoff", "cache", "commit"}]
        /\ \A j \in Instances : pc'[j] = "fetch" <=> msg'[j] = Absent
    BY <1>1, <1>2 DEF IInv, TypeOK
  <2> QED BY <2>1, <2>2 DEF IInv, TypeOK
<1>4. Offsets'
  <2>1. KindOf(msg[i]) = "valid" => msg[i] \in applied
    BY <1>1 DEF IInv, Offsets, InHandStored
  <2> QED BY <1>2, <2>1, OffsetsKept DEF IInv
<1>5. CacheInv'
  <2>1. DbOfOrder' /\ ToBeCached'
    BY <1>2 DEF IInv, CacheInv, DbOfOrder, ToBeCached
  <2>2. StaleOnlyByOthers'
    <3> SUFFICES ASSUME NEW j \in up, NEW x \in Uids, held'[j][x] \notin {Absent, db[x]}
                 PROVE  InHand(j, x)' \/ writer[x] # j
      BY DEF StaleOnlyByOthers
    <3>1. j \in Instances
      BY DEF IInv, TypeOK
    <3>2. CASE j = i /\ x = u
      BY <1>2, <3>2 DEF IInv, CacheInv, ToBeCached
    <3>3. CASE j = i /\ x # u
      BY <1>2, <3>3 DEF IInv, CacheInv, StaleOnlyByOthers, InHand
    <3>4. CASE j # i
      BY <1>2, <3>1, <3>4 DEF IInv, CacheInv, StaleOnlyByOthers, InHand
    <3> QED BY <3>2, <3>3, <3>4
  <2>3. ToBeFilled'
    <3> SUFFICES ASSUME query # NoQuery PROVE ToBeFilled'
      BY DEF ToBeFilled
    <3>1. query.at \in Instances /\ UidOf(query.version) \in Uids
      BY VersionFacts DEF IInv, TypeOK
    <3>2. CASE query.at = i /\ UidOf(query.version) = u
      BY <1>1, <1>2, <3>2 DEF ToBeFilled
    <3>3. CASE query.at = i /\ UidOf(query.version) # u
      BY <1>2, <3>1, <3>3 DEF IInv, CacheInv, ToBeFilled, InHand
    <3>4. CASE query.at # i
      BY <1>2, <3>1, <3>4 DEF IInv, CacheInv, ToBeFilled, InHand
    <3> QED BY <3>2, <3>3, <3>4
  <2> QED BY <2>1, <2>2, <2>3 DEF CacheInv
<1> QED BY <1>3, <1>4, <1>5 DEF IInv

(* The steps that only move the consumer on with the message it has. *)
LEMMA HandIInv ==
  ASSUME IInv, NEW i \in Instances, SaveRefused(i) \/ SaveRetries(i) \/ BackoffElapses(i)
  PROVE  IInv'
<1> USE DEF storeVars, groupVars, cacheVars
<1>1. /\ UNCHANGED <<db, applied, writer, groupVars, cacheVars, up, msg>>
      /\ pc[i] \in {"save", "backoff"}
      /\ \E to \in {"commit", "backoff", "save"} :
           /\ pc' = [pc EXCEPT ![i] = to]
           /\ to = "commit" => KindOf(msg[i]) = "refused"
  BY DEF SaveRefused, SaveRetries, BackoffElapses
<1>2. /\ \A j \in Instances \ {i} : pc'[j] = pc[j]
      /\ pc'[i] \in {"commit", "backoff", "save"}
      /\ pc'[i] = "commit" => KindOf(msg[i]) = "refused"
  BY <1>1 DEF IInv, TypeOK
<1>3. TypeOK'
  <2>1. orphans' \subseteq Versions
    BY OrphansTyped DEF SaveRefused, SaveRetries, BackoffElapses, IInv, TypeOK
  <2>2. faults' \in 0..MaxFaults
    BY FaultBound DEF SaveRefused, SaveRetries, BackoffElapses, IInv, TypeOK
  <2>3. /\ pc' \in [Instances -> {"fetch", "save", "backoff", "cache", "commit"}]
        /\ \A j \in Instances : pc'[j] = "fetch" <=> msg'[j] = Absent
    BY <1>1, <1>2 DEF IInv, TypeOK
  <2> QED BY <1>1, <2>1, <2>2, <2>3 DEF IInv, TypeOK
<1>4. Offsets'
  BY <1>1, <1>2, OffsetsKept DEF IInv
<1>5. CacheInv'
  BY <1>1, <1>2, CachesKept DEF IInv
<1> QED BY <1>3, <1>4, <1>5 DEF IInv

(* The offset the consumer commits covers stored messages only. *)
LEMMA CommitIInv ==
  ASSUME IInv, NEW i \in Instances, CommitSucceeds(i)
  PROVE  IInv'
<1> USE DEF CommitSucceeds, OffsetCommitted, storeVars, cacheVars
<1> DEFINE p == msg[i][1]
           n == msg[i][2]
<1>1. msg[i] \in Versions /\ p \in Partitions /\ n \in 1..Len(Topic[p]) /\ msg[i] = <<p, n>>
  BY AtHand, VersionFacts DEF IInv
<1>2. /\ committed'[p] = n /\ \A q \in Partitions \ {p} : committed'[q] = committed[q]
      /\ pc'[i] = "fetch" /\ msg'[i] = Absent
      /\ \A j \in Instances \ {i} : pc'[j] = pc[j] /\ msg'[j] = msg[j]
  BY <1>1 DEF IInv, TypeOK
<1>3. Valid(p, n) => <<p, n>> \in applied
  <2>1. KindOf(msg[i]) = Topic[p][n].kind
    BY DEF KindOf
  <2> QED BY <1>1, <2>1, VersionsAssumption DEF IInv, Offsets, InHandStored, Valid
<1>4. Stored(p, n)
  <2>1. InHandStored(i) /\ msg[i] # Absent
    BY <1>1, VersionFacts DEF IInv, Offsets
  <2>2. \A k \in 1..n : k \in 1..(n - 1) \/ k = n
    BY <1>1, LogBounds
  <2> QED BY <1>3, <2>1, <2>2 DEF InHandStored, Stored
<1>5. TypeOK'
  <2>1. n \in 0..LogLength
    BY <1>1, LogBounds
  <2>2. /\ committed' \in [Partitions -> 0..LogLength]
        /\ pc' \in [Instances -> {"fetch", "save", "backoff", "cache", "commit"}]
        /\ msg' \in [Instances -> Versions \cup {Absent}]
    BY <1>1, <2>1 DEF IInv, TypeOK
  <2>3. \A j \in Instances : pc'[j] = "fetch" <=> msg'[j] = Absent
    BY <1>2 DEF IInv, TypeOK
  <2> QED BY <2>2, <2>3 DEF IInv, TypeOK
<1>6. Offsets'
  <2>1. ASSUME NEW q \in Partitions PROVE (committed[q] <= Len(Topic[q]) /\ Stored(q, committed[q]))'
    <3>1. CASE q = p
      BY <1>1, <1>2, <1>4, <3>1, LogBounds DEF Stored
    <3>2. CASE q # p
      BY <1>2, <3>2 DEF IInv, Offsets, Stored
    <3> QED BY <3>1, <3>2
  <2>2. ASSUME NEW j \in Instances PROVE InHandStored(j)'
    BY <1>2 DEF IInv, Offsets, InHandStored
  <2>3. ASSUME NEW j \in Instances, NEW q \in Partitions
        PROVE  (ReadStored(j, q) /\ (reader[j][q] # Absent => reader[j][q] \in 0..Len(Topic[q])))'
    <3>1. CASE j # i
      BY <1>2, <3>1 DEF IInv, Offsets, ReadStored
    <3>2. CASE j = i
      <4>1. ASSUME NEW k \in 1..reader[i][q], reader[i][q] # Absent, msg[i] = <<q, k>>, Valid(q, k)
            PROVE  <<q, k>> \in applied
        <5>1. reader[i][q] \in 0..Len(Topic[q])
          BY <4>1 DEF IInv, Offsets
        <5>2. q = p /\ k = n
          BY <1>1, <4>1
        <5> QED BY <1>3, <4>1, <5>2
      <4> QED BY <1>2, <3>2, <4>1 DEF IInv, Offsets, ReadStored
    <3> QED BY <3>1, <3>2
  <2> QED BY <2>1, <2>2, <2>3 DEF Offsets
<1>7. CacheInv'
  BY <1>2, CachesKept DEF IInv
<1> QED BY <1>5, <1>6, <1>7 DEF IInv

(* The two steps of a request that missed the cache. *)
LEMMA QueryIInv ==
  ASSUME IInv, NEW i \in Instances, NEW u \in Uids, Query(i, u)
  PROVE  IInv'
<1> USE DEF Query, storeVars, groupVars
<1>1. db[u] \in Versions /\ UidOf(db[u]) = u
  BY DEF IInv, TypeOK, CacheInv, DbOfOrder
<1>2. query' = [at |-> i, version |-> db[u]] /\ query'.at = i /\ query'.version = db[u]
  OBVIOUS
<1>3. TypeOK'
  BY <1>1, <1>2 DEF IInv, TypeOK
<1>4. Offsets'
  BY OffsetsKept DEF IInv
<1>5. CacheInv'
  <2>1. ToBeFilled'
    BY <1>1, <1>2 DEF ToBeFilled
  <2> QED BY <2>1 DEF IInv, CacheInv, DbOfOrder, ToBeCached, StaleOnlyByOthers, InHand
<1> QED BY <1>3, <1>4, <1>5 DEF IInv

LEMMA FillIInv ==
  ASSUME IInv, NEW i \in Instances, Fill(i)
  PROVE  IInv'
<1> USE DEF Fill, storeVars, groupVars
<1> DEFINE u == UidOf(query.version)
<1>1. query # NoQuery /\ query.version \in Versions /\ u \in Uids /\ query.version # Absent
  <2>1. query # NoQuery
    <3>1. query.at = i /\ NoQuery.at = Absent /\ i # Absent
      BY InstancesAssumption DEF NoQuery
    <3> QED BY <3>1
  <2> QED BY <2>1, VersionFacts DEF IInv, TypeOK
<1>2. /\ held'[i][u] = IF held[i][u] = Absent THEN query.version ELSE held[i][u]
      /\ \A x \in Uids \ {u} : held'[i][x] = held[i][x]
      /\ \A j \in Instances \ {i} : held'[j] = held[j]
  BY <1>1 DEF IInv, TypeOK
<1>3. TypeOK'
  <2>1. held[i][u] \in Versions \cup {Absent}
    BY <1>1 DEF IInv, TypeOK
  <2>2. held' \in [Instances -> [Uids -> Versions \cup {Absent}]]
    BY <1>1, <2>1 DEF IInv, TypeOK
  <2> QED BY <2>2 DEF IInv, TypeOK
<1>4. Offsets'
  BY OffsetsKept DEF IInv
<1>5. CacheInv'
  <2>1. DbOfOrder' /\ ToBeCached' /\ ToBeFilled'
    BY DEF IInv, CacheInv, DbOfOrder, ToBeCached, ToBeFilled
  <2>2. StaleOnlyByOthers'
    <3> SUFFICES ASSUME NEW j \in up, NEW x \in Uids, held'[j][x] \notin {Absent, db[x]}
                 PROVE  InHand(j, x) \/ writer[x] # j
      BY DEF StaleOnlyByOthers, InHand
    <3>1. j \in Instances
      BY DEF IInv, TypeOK
    <3>2. CASE held'[j][x] = held[j][x]
      BY <3>2 DEF IInv, CacheInv, StaleOnlyByOthers
    <3>3. CASE j = i /\ x = u /\ held[i][u] = Absent
      BY <1>1, <1>2, <3>3 DEF IInv, CacheInv, ToBeFilled
    <3> QED BY <1>2, <3>1, <3>2, <3>3
  <2> QED BY <2>1, <2>2 DEF CacheInv
<1> QED BY <1>3, <1>4, <1>5 DEF IInv

-----------------------------------------------------------------------------
LEMMA StepIInv == ASSUME IInv, [Next]_vars PROVE IInv'
<1>1. CASE Next
  <2>1. ASSUME NEW i \in Instances, Consume(i) PROVE IInv'
    BY <2>1, FetchIInv, StoresIInv, CachesIInv, HandIInv, CommitIInv, EndStep DEF Consume
  <2>2. CASE Coordinate
    BY <2>2, RebalanceIInv DEF Coordinate
  <2>3. CASE Settle
    BY <2>3, OrphanIInv DEF Settle
  <2> QED BY <1>1, <2>1, <2>2, <2>3, StartIInv, EndStep, HandIInv, QueryIInv, FillIInv DEF Next
<1>2. CASE UNCHANGED vars
  <2> USE <1>2 DEF vars, storeVars, groupVars, cacheVars
  <2>1. TypeOK'
    BY DEF IInv, TypeOK
  <2>2. Offsets'
    BY OffsetsKept DEF IInv
  <2>3. CacheInv'
    BY CachesKept DEF IInv
  <2> QED BY <2>1, <2>2, <2>3 DEF IInv
<1> QED BY <1>1, <1>2

(* The invariant behind the theorems: what readers, hands and offsets cover *)
(* is stored, for any instances, partitions, topic and number of faults.    *)
THEOREM InstancesSafety == Spec => []IInv
BY InitIInv, StepIInv, PTL DEF Spec

(* The types are kept, and the members read disjoint partitions. *)
THEOREM TypesCorrect == Spec => []TypeOK
<1>1. IInv => TypeOK
  BY DEF IInv
<1> QED BY <1>1, InstancesSafety, PTL

(* No order the group has acknowledged is missing in Postgres, however      *)
(* often its partition was taken away from a consumer at work on it.        *)
THEOREM NothingAckedIsLost == Spec => []NoAckedOrderLost
<1>1. IInv => NoAckedOrderLost
  BY DEF IInv, Offsets, Stored, Valid, NoAckedOrderLost
<1> QED BY <1>1, InstancesSafety, PTL

(* An instance that caches what Postgres does not hold is between its own   *)
(* two steps, or somebody else has written last.                            *)
THEOREM StalenessComesFromOthers == Spec => []StaleOnlyByOthers
<1>1. IInv => StaleOnlyByOthers
  BY DEF IInv, CacheInv
<1> QED BY <1>1, InstancesSafety, PTL

-----------------------------------------------------------------------------
(* The offsets and the orders only go forward as long as no partition is    *)
(* taken from an instance at work on it.  Reach(p, n) bounds what of p is   *)
(* in Postgres or may still get there.                                      *)

Reach(p, n) == \A v \in applied \cup orphans : v[1] = p => v[2] <= n

AtWorkInOrder(i) ==
  msg[i] # Absent =>
    LET p == msg[i][1] n == msg[i][2]
    IN  /\ reader[i][p] # Absent
        /\ n - 1 <= committed[p] /\ committed[p] <= n
        /\ n - 1 <= reader[i][p] /\ reader[i][p] <= n
        /\ Reach(p, n)

WaitsInOrder(i, p) ==
  reader[i][p] # Absent /\ ~StillAtWork(i, p) =>
    /\ reader[i][p] <= committed[p] /\ committed[p] <= reader[i][p] + 1
    /\ Reach(p, reader[i][p] + 1)

OrphansInOrder ==
  \A v \in orphans : \A w \in applied :
    UidOf(w) = UidOf(v) /\ w[1] = v[1] => w[2] <= v[2]

Ordered ==
  /\ \A i \in Instances, p \in Partitions : reader[i][p] # Absent => i \in member
  /\ \A i \in Instances : AtWorkInOrder(i)
  /\ \A i \in Instances, p \in Partitions : WaitsInOrder(i, p)
  /\ \A p \in Partitions : Reach(p, committed[p] + 1)
  /\ OrphansInOrder

(* One transaction at most waits for the row of an order. *)
OneOrphan == \A v, w \in orphans : UidOf(v) = UidOf(w) => v = w

OInv == IInv /\ OneOrphan /\ (~overlapped => Ordered)

(* What a step does to one order of the database and to one offset. *)
Forward ==
  /\ \A p \in Partitions : committed'[p] >= committed[p]
  /\ \A u \in Uids : db'[u] # db[u] =>
       \A v \in applied :
         UidOf(v) = u /\ v[1] = db'[u][1] => v[2] <= db'[u][2]

LEMMA Numbers ==
  ASSUME IInv
  PROVE  /\ \A p \in Partitions : committed[p] \in Nat
         /\ \A i \in Instances, p \in Partitions : reader[i][p] # Absent => reader[i][p] \in Nat
         /\ \A v \in applied \cup orphans : v \in Versions /\ v[2] \in Nat
         /\ \A i \in Instances : msg[i] # Absent =>
              msg[i] \in Versions /\ msg[i][1] \in Partitions /\ msg[i][2] \in Nat
<1>1. \A v \in Versions : v[1] \in Partitions /\ v[2] \in Nat
  BY VersionFacts, LogBounds
<1>2. \A p \in Partitions : committed[p] \in Nat
  BY LogAssumption DEF IInv, TypeOK
<1>3. \A i \in Instances, p \in Partitions : reader[i][p] # Absent => reader[i][p] \in Nat
  BY LogBounds DEF IInv, Offsets
<1> QED BY <1>1, <1>2, <1>3 DEF IInv, TypeOK

(* A step that leaves offsets, readers and hands alone, and adds nothing    *)
(* that may reach Postgres.                                                 *)
LEMMA OrderedKept ==
  ASSUME Ordered, UNCHANGED <<committed, member, reader, msg>>,
         applied' \cup orphans' \subseteq applied \cup orphans,
         OrphansInOrder'
  PROVE  Ordered'
<1>1. \A p : \A n : Reach(p, n) => Reach(p, n)'
  BY DEF Reach
<1>2. \A i \in Instances : AtWorkInOrder(i)'
  BY <1>1 DEF Ordered, AtWorkInOrder
<1>3. \A i \in Instances, p \in Partitions : WaitsInOrder(i, p)'
  BY <1>1 DEF Ordered, WaitsInOrder, StillAtWork
<1> QED BY <1>1, <1>2, <1>3 DEF Ordered

(* A version that goes on the way to Postgres comes from a hand that is in  *)
(* order, and no other of its order is on the way.                          *)
LEMMA OrphanAdded ==
  ASSUME IInv, OneOrphan, NEW i \in Instances, MaybeOrphaned(i), UNCHANGED applied
  PROVE  /\ OneOrphan'
         /\ Ordered => /\ OrphansInOrder'
                       /\ \A p, n : Reach(p, n) /\ (StillAtWork(i, p) => msg[i][2] <= n)
                                      => Reach(p, n)'
<1>1. CASE UNCHANGED orphans
  BY <1>1 DEF OneOrphan, Ordered, OrphansInOrder, Reach
<1>2. CASE AtCommit(i) /\ orphans' = orphans \cup {msg[i]}
  <2>1. msg[i] # Absent
    BY <1>2, AtHand DEF AtCommit, IInv
  <2>2. \A v \in orphans : UidOf(v) # UidOf(msg[i])
    BY <1>2 DEF AtCommit, RowLocked
  <2>3. OneOrphan'
    BY <1>2, <2>2 DEF OneOrphan, UidOf
  <2>4. ASSUME Ordered PROVE OrphansInOrder'
    <3>1. AtWorkInOrder(i)
      BY <2>4 DEF Ordered
    <3>2. Reach(msg[i][1], msg[i][2])
      BY <2>1, <3>1 DEF AtWorkInOrder
    <3> QED BY <1>2, <2>4, <3>2 DEF Ordered, OrphansInOrder, Reach, UidOf
  <2>5. \A p, n : Reach(p, n) /\ (StillAtWork(i, p) => msg[i][2] <= n) => Reach(p, n)'
    BY <1>2, <2>1 DEF Reach, StillAtWork
  <2> QED BY <2>3, <2>4, <2>5
<1> QED BY <1>1, <1>2 DEF MaybeOrphaned

(* The end of a process: what it had in hand is still within reach of the   *)
(* committed offset.                                                        *)
LEMMA EndOrdered ==
  ASSUME IInv, OneOrphan, NEW i \in Instances, Crash(i) \/ SaveGivesUp(i) \/ CommitFails(i)
  PROVE  OneOrphan' /\ (Ordered => Ordered') /\ Forward
<1>1. Gone(i) /\ MaybeOrphaned(i)
  BY DEF Crash, SaveGivesUp, CommitFails, MaybeOrphaned
<1>2. /\ UNCHANGED <<db, applied, committed>> /\ member' = member \ {i}
      /\ \A j \in Instances \ {i} : reader'[j] = reader[j] /\ msg'[j] = msg[j]
      /\ \A p \in Partitions : reader'[i][p] = Absent
      /\ msg'[i] = Absent
  BY <1>1 DEF Gone, IInv, TypeOK, NotReading
<1>3. Forward
  BY <1>2, Numbers DEF Forward
<1>4. ASSUME Ordered PROVE Ordered'
  <2>1. /\ OrphansInOrder'
        /\ \A p, n : Reach(p, n) /\ (StillAtWork(i, p) => msg[i][2] <= n) => Reach(p, n)'
    BY <1>1, <1>2, <1>4, OrphanAdded
  <2>2. \A p \in Partitions : StillAtWork(i, p) =>
           /\ msg[i][2] <= committed[p] + 1 /\ reader[i][p] # Absent
    BY <1>4, Numbers DEF Ordered, AtWorkInOrder, StillAtWork
  <2>3. \A p \in Partitions : Reach(p, committed[p] + 1)'
    BY <1>2, <1>4, <2>1, <2>2 DEF Ordered
  <2>4. \A j \in Instances \ {i}, p \in Partitions :
          reader[j][p] # Absent => ~StillAtWork(i, p)
    BY <1>4, <2>2 DEF Ordered, IInv, TypeOK
  <2>5. ASSUME NEW j \in Instances PROVE AtWorkInOrder(j)'
    <3>1. CASE j = i
      BY <1>2, <3>1 DEF AtWorkInOrder
    <3>2. CASE j # i /\ msg[j] # Absent
      <4>1. msg[j][1] \in Partitions /\ AtWorkInOrder(j)
        BY <1>4, <3>2, Numbers DEF Ordered
      <4> QED BY <1>2, <2>1, <2>4, <3>2, <4>1 DEF AtWorkInOrder
    <3>3. CASE j # i /\ msg[j] = Absent
      BY <1>2, <3>3 DEF AtWorkInOrder
    <3> QED BY <3>1, <3>2, <3>3
  <2>6. ASSUME NEW j \in Instances, NEW p \in Partitions PROVE WaitsInOrder(j, p)'
    <3>1. CASE j = i
      BY <1>2, <3>1 DEF WaitsInOrder
    <3>2. CASE j # i
      BY <1>2, <1>4, <2>1, <2>4, <3>2 DEF Ordered, WaitsInOrder, StillAtWork
    <3> QED BY <3>1, <3>2
  <2>7. \A j \in Instances, p \in Partitions : reader'[j][p] # Absent => j \in member'
    BY <1>2, <1>4 DEF Ordered
  <2> QED BY <2>1, <2>3, <2>5, <2>6, <2>7 DEF Ordered
<1> QED BY <1>1, <1>2, <1>3, <1>4, OrphanAdded

(* A rebalance that takes no partition from an instance at work on it. *)
LEMMA RebalanceOrdered ==
  ASSUME IInv, OneOrphan, NEW members \in SUBSET up, NEW to \in [Partitions -> Instances],
         \A p \in Partitions : to[p] \in members,
         Rebalance(members, to)
  PROVE  OneOrphan' /\ (~overlapped' => ~overlapped) /\ (Ordered /\ ~overlapped' => Ordered') /\ Forward
<1> USE DEF Rebalance, storeVars, cacheVars
<1>1. OneOrphan' /\ Forward
  BY Numbers DEF OneOrphan, Forward
<1>2. ASSUME Ordered, ~overlapped' PROVE Ordered'
  <2>1. \A i \in Instances, p \in Partitions :
          reader'[i][p] = IF i \in members
                            THEN IF to[p] = i THEN committed[p] ELSE Absent
                            ELSE reader[i][p]
    BY DEF Assigned
  <2>2. \A i \in Instances \ members, p \in Partitions : reader[i][p] = Absent
    <3> SUFFICES ASSUME NEW i \in Instances \ members, NEW p \in Partitions, reader[i][p] # Absent
                 PROVE  FALSE
      OBVIOUS
    <3>1. i \in up
      BY <1>2 DEF Ordered, IInv, TypeOK
    <3>2. reader[i] # NotReading
      BY DEF NotReading
    <3> QED BY <1>2, <3>1, <3>2
  <2>3. \A i \in Instances, p \in Partitions : StillAtWork(i, p) => i \in members /\ to[p] = i
    <3> SUFFICES ASSUME NEW i \in Instances, NEW p \in Partitions, StillAtWork(i, p)
                 PROVE  i \in members /\ to[p] = i
      OBVIOUS
    <3>1. reader[i][p] # Absent
      BY <1>2 DEF Ordered, AtWorkInOrder, StillAtWork
    <3>2. i \in up
      BY <1>2, <3>1 DEF Ordered, IInv, TypeOK
    <3> QED BY <1>2, <2>2, <3>1, <3>2
  <2>4. \A p, n : Reach(p, n) => Reach(p, n)'
    BY DEF Reach
  <2>5. \A p \in Partitions : committed[p] \in Nat /\ committed[p] # Absent
    BY Numbers, InstancesAssumption
  <2>6. ASSUME NEW i \in Instances PROVE AtWorkInOrder(i)'
    <3> SUFFICES ASSUME msg[i] # Absent PROVE AtWorkInOrder(i)'
      BY DEF AtWorkInOrder
    <3>1. msg[i][1] \in Partitions /\ StillAtWork(i, msg[i][1]) /\ AtWorkInOrder(i)
      BY <1>2, Numbers DEF StillAtWork, Ordered
    <3>2. reader'[i][msg[i][1]] = committed[msg[i][1]]
      BY <2>1, <2>3, <3>1
    <3> QED BY <2>4, <2>5, <3>1, <3>2 DEF AtWorkInOrder
  <2>7. ASSUME NEW i \in Instances, NEW p \in Partitions PROVE WaitsInOrder(i, p)'
    <3>1. CASE reader'[i][p] = Absent
      BY <3>1 DEF WaitsInOrder
    <3>2. CASE reader'[i][p] = committed[p]
      BY <1>2, <2>4, <2>5, <3>2 DEF Ordered, WaitsInOrder
    <3> QED BY <2>1, <2>2, <3>1, <3>2
  <2>8. \A i \in Instances, p \in Partitions : reader'[i][p] # Absent => i \in member'
    BY <2>1, <2>2
  <2> QED BY <1>2, <2>4, <2>6, <2>7, <2>8 DEF Ordered, OrphansInOrder
<1> QED BY <1>1, <1>2 DEF IInv, TypeOK

LEMMA FetchOrdered ==
  ASSUME IInv, OneOrphan, NEW i \in Instances, NEW p \in Partitions, Fetch(i, p)
  PROVE  OneOrphan' /\ (Ordered => Ordered') /\ Forward
<1> USE DEF Fetch, storeVars, cacheVars
<1> DEFINE n == reader[i][p] + 1
<1>1. OneOrphan' /\ Forward
  BY Numbers DEF OneOrphan, Forward
<1>2. /\ reader[i][p] \in Nat /\ msg[i] = Absent /\ n # Absent
      /\ <<p, n>> # Absent /\ <<p, n>>[1] = p /\ <<p, n>>[2] = n
  <2>1. n \in 1..Len(Topic[p]) /\ n \in Nat
    BY LogBounds, Numbers DEF IInv, Offsets
  <2> QED BY <2>1, Numbers, VersionAt, VersionsAssumption, InstancesAssumption DEF IInv, TypeOK
<1>3. /\ \A j \in Instances \ {i} : reader'[j] = reader[j] /\ msg'[j] = msg[j]
      /\ \A q \in Partitions \ {p} : reader'[i][q] = reader[i][q]
      /\ reader'[i][p] = n /\ msg'[i] = <<p, n>>
  BY DEF IInv, TypeOK
<1>4. ASSUME Ordered PROVE Ordered'
  <2>1. \A q, k : Reach(q, k) => Reach(q, k)'
    BY DEF Reach
  <2>2. /\ reader[i][p] <= committed[p] /\ committed[p] <= n /\ Reach(p, n)
    BY <1>2, <1>4 DEF Ordered, WaitsInOrder, StillAtWork
  <2>3. ASSUME NEW j \in Instances PROVE AtWorkInOrder(j)'
    <3>1. CASE j = i
      BY <1>2, <1>3, <2>1, <2>2, <3>1, Numbers DEF AtWorkInOrder
    <3>2. CASE j # i
      BY <1>3, <1>4, <2>1, <3>2 DEF Ordered, AtWorkInOrder
    <3> QED BY <3>1, <3>2
  <2>4. ASSUME NEW j \in Instances, NEW q \in Partitions PROVE WaitsInOrder(j, q)'
    <3>1. CASE j = i /\ q = p
      BY <1>2, <1>3, <3>1 DEF WaitsInOrder, StillAtWork
    <3>2. CASE j = i /\ q # p
      BY <1>2, <1>3, <1>4, <2>1, <3>2 DEF Ordered, WaitsInOrder, StillAtWork
    <3>3. CASE j # i
      BY <1>3, <1>4, <2>1, <3>3 DEF Ordered, WaitsInOrder, StillAtWork
    <3> QED BY <3>1, <3>2, <3>3
  <2>5. \A j \in Instances, q \in Partitions : reader'[j][q] # Absent => j \in member'
    BY <1>3, <1>4 DEF Ordered
  <2> QED BY <1>4, <2>1, <2>3, <2>4, <2>5 DEF Ordered, OrphansInOrder
<1> QED BY <1>1, <1>4

LEMMA StoresOrdered ==
  ASSUME IInv, OneOrphan, NEW i \in Instances, SaveStores(i)
  PROVE  OneOrphan' /\ (Ordered => Ordered' /\ Forward)
<1> USE DEF SaveStores, AtCommit, StoredBy, groupVars, cacheVars
<1> DEFINE v == msg[i]
<1>1. v # Absent /\ v \in Versions /\ v[1] \in Partitions /\ v[2] \in Nat /\ UidOf(v) \in Uids
  BY AtHand, Numbers, VersionFacts DEF IInv
<1>2. OneOrphan'
  BY DEF OneOrphan
<1>3. ASSUME Ordered PROVE Ordered' /\ Forward
  <2>1. AtWorkInOrder(i) /\ Reach(v[1], v[2]) /\ reader[i][v[1]] # Absent
    BY <1>1, <1>3 DEF Ordered, AtWorkInOrder
  <2>2. Forward
    <3>1. \A p \in Partitions : committed'[p] >= committed[p]
      BY Numbers
    <3>2. ASSUME NEW u \in Uids, db'[u] # db[u] PROVE db'[u] = v
      BY <3>2 DEF IInv, TypeOK
    <3> QED BY <2>1, <3>1, <3>2 DEF Forward, Reach
  <2>3. \A p, n : Reach(p, n) /\ (p = v[1] => v[2] <= n) => Reach(p, n)'
    BY DEF Reach
  <2>4. \A j \in Instances \ {i} : reader[j][v[1]] = Absent
    BY <1>1, <1>3, <2>1 DEF Ordered, IInv, TypeOK
  <2>5. ASSUME NEW j \in Instances PROVE AtWorkInOrder(j)'
    <3>1. CASE j = i
      BY <1>1, <2>1, <2>3, <3>1 DEF AtWorkInOrder
    <3>2. CASE j # i
      BY <1>3, <2>3, <2>4, <3>2 DEF Ordered, AtWorkInOrder
    <3> QED BY <3>1, <3>2
  <2>6. ASSUME NEW j \in Instances, NEW p \in Partitions PROVE WaitsInOrder(j, p)'
    <3>1. CASE p = v[1]
      BY <1>1, <2>4, <3>1 DEF WaitsInOrder, StillAtWork
    <3>2. CASE p # v[1]
      BY <1>3, <2>3, <3>2 DEF Ordered, WaitsInOrder, StillAtWork
    <3> QED BY <3>1, <3>2
  <2>7. ASSUME NEW p \in Partitions PROVE Reach(p, committed[p] + 1)'
    <3>1. p = v[1] => v[2] <= committed[p] + 1
      BY <1>1, <2>1, Numbers DEF AtWorkInOrder
    <3>2. Reach(p, committed[p] + 1)
      BY <1>3 DEF Ordered
    <3>3. \A w \in applied' \cup orphans' : w[1] = p => w[2] <= committed[p] + 1
      BY <3>1, <3>2 DEF Reach
    <3> QED BY <3>3 DEF Reach
  <2>8. OrphansInOrder'
    <3>1. \A w \in orphans : UidOf(w) # UidOf(v)
      BY DEF RowLocked
    <3> QED BY <1>3, <3>1 DEF Ordered, OrphansInOrder, UidOf
  <2> QED BY <1>3, <2>2, <2>5, <2>6, <2>7, <2>8 DEF Ordered
<1> QED BY <1>2, <1>3

LEMMA OrphanOrdered ==
  ASSUME IInv, OneOrphan, NEW v \in orphans, OrphanCommits(v) \/ OrphanAborts(v)
  PROVE  OneOrphan' /\ (Ordered => Ordered' /\ Forward)
<1> USE DEF groupVars, cacheVars
<1>1. /\ orphans' = orphans \ {v} /\ UNCHANGED <<committed, member, reader, msg>>
      /\ applied' \subseteq applied \cup {v}
  BY DEF OrphanCommits, OrphanAborts, StoredBy
<1>2. OneOrphan'
  BY <1>1 DEF OneOrphan
<1>3. ASSUME Ordered PROVE Ordered' /\ Forward
  <2>1. OrphansInOrder'
    <3> SUFFICES ASSUME NEW w \in orphans', NEW x \in applied', UidOf(x) = UidOf(w), x[1] = w[1]
                 PROVE  x[2] <= w[2]
      BY DEF OrphansInOrder, UidOf
    <3>1. x # v
      BY <1>1 DEF OneOrphan
    <3> QED BY <1>1, <1>3, <3>1 DEF Ordered, OrphansInOrder
  <2>2. Ordered'
    BY <1>1, <1>3, <2>1, OrderedKept
  <2>3. \A u \in Uids : db'[u] # db[u] => db'[u] = v /\ UidOf(v) = u
    BY DEF OrphanCommits, OrphanAborts, StoredBy, IInv, TypeOK
  <2>4. Forward
    BY <1>1, <1>3, <2>3, Numbers DEF Forward, Ordered, OrphansInOrder
  <2> QED BY <2>2, <2>4
<1> QED BY <1>2, <1>3

LEMMA CommitOrdered ==
  ASSUME IInv, OneOrphan, NEW i \in Instances, CommitSucceeds(i)
  PROVE  OneOrphan' /\ (Ordered => Ordered' /\ Forward)
<1> USE DEF CommitSucceeds, OffsetCommitted, storeVars, cacheVars
<1> DEFINE p == msg[i][1]
           n == msg[i][2]
<1>1. msg[i] # Absent /\ p \in Partitions /\ n \in Nat
  BY AtHand, Numbers DEF IInv
<1>2. /\ committed'[p] = n /\ \A q \in Partitions \ {p} : committed'[q] = committed[q]
      /\ msg'[i] = Absent /\ \A j \in Instances \ {i} : msg'[j] = msg[j]
  BY <1>1 DEF IInv, TypeOK
<1>3. OneOrphan'
  BY DEF OneOrphan
<1>4. ASSUME Ordered PROVE Ordered' /\ Forward
  <2>1. /\ reader[i][p] # Absent /\ reader[i][p] \in Nat /\ committed[p] \in Nat
        /\ n - 1 <= committed[p] /\ committed[p] <= n
        /\ n - 1 <= reader[i][p] /\ reader[i][p] <= n
        /\ Reach(p, n)
    BY <1>1, <1>4, Numbers DEF Ordered, AtWorkInOrder
  <2>2. Forward
    BY <1>1, <1>2, <2>1, Numbers DEF Forward
  <2>3. \A q, k : Reach(q, k) => Reach(q, k)'
    BY DEF Reach
  <2>4. \A k \in Nat : n <= k => Reach(p, k)
    BY <1>1, <2>1, Numbers DEF Reach
  <2>5. \A j \in Instances \ {i} : reader[j][p] = Absent
    BY <1>1, <1>4, <2>1 DEF Ordered, IInv, TypeOK
  <2>6. ASSUME NEW j \in Instances PROVE AtWorkInOrder(j)'
    <3>1. CASE j = i
      BY <1>2, <3>1 DEF AtWorkInOrder
    <3>2. CASE j # i /\ msg[j] # Absent
      <4>1. msg[j][1] \in Partitions \ {p} /\ AtWorkInOrder(j)
        BY <1>4, <2>5, <3>2, Numbers DEF Ordered, AtWorkInOrder
      <4> QED BY <1>2, <2>3, <3>2, <4>1 DEF AtWorkInOrder
    <3>3. CASE j # i /\ msg[j] = Absent
      BY <1>2, <3>3 DEF AtWorkInOrder
    <3> QED BY <3>1, <3>2, <3>3
  <2>7. ASSUME NEW j \in Instances, NEW q \in Partitions PROVE WaitsInOrder(j, q)'
    <3>1. CASE q = p /\ j = i
      <4>1. Reach(p, reader[i][p] + 1)
        BY <1>1, <2>1, <2>4
      <4> QED BY <1>1, <1>2, <2>1, <2>3, <3>1, <4>1 DEF WaitsInOrder
    <3>2. CASE q = p /\ j # i
      BY <2>5, <3>2 DEF WaitsInOrder
    <3>3. CASE q # p
      BY <1>2, <1>4, <2>3, <3>3 DEF Ordered, WaitsInOrder, StillAtWork
    <3> QED BY <3>1, <3>2, <3>3
  <2>8. ASSUME NEW q \in Partitions PROVE Reach(q, committed[q] + 1)'
    <3>1. CASE q = p
      <4>1. Reach(p, n + 1)
        BY <1>1, <2>4
      <4> QED BY <1>2, <2>3, <3>1, <4>1
    <3>2. CASE q # p
      <4>1. Reach(q, committed[q] + 1)
        BY <1>4 DEF Ordered
      <4> QED BY <1>2, <2>3, <3>2, <4>1
    <3> QED BY <3>1, <3>2
  <2> QED BY <1>4, <2>2, <2>6, <2>7, <2>8 DEF Ordered, OrphansInOrder
<1> QED BY <1>3, <1>4

(* The steps that leave offsets, readers and hands alone. *)
LEMMA HandOrdered ==
  ASSUME IInv, OneOrphan, NEW i \in Instances, SaveRefused(i) \/ SaveRetries(i) \/ BackoffElapses(i)
  PROVE  OneOrphan' /\ (Ordered => Ordered') /\ Forward
<1> USE DEF storeVars, groupVars, cacheVars
<1>1. /\ UNCHANGED <<db, applied, committed, member, reader, msg>>
      /\ MaybeOrphaned(i)
  BY DEF SaveRefused, SaveRetries, BackoffElapses, MaybeOrphaned
<1>2. Forward
  BY <1>1, Numbers DEF Forward
<1>3. ASSUME Ordered PROVE Ordered'
  <2>1. /\ OrphansInOrder'
        /\ \A p, n : Reach(p, n) /\ (StillAtWork(i, p) => msg[i][2] <= n) => Reach(p, n)'
    BY <1>1, <1>3, OrphanAdded
  <2>2. \A p \in Partitions : StillAtWork(i, p) =>
           msg[i][2] <= committed[p] + 1 /\ reader[i][p] # Absent
    BY <1>3, Numbers DEF Ordered, AtWorkInOrder, StillAtWork
  <2>3. \A j \in Instances \ {i}, p \in Partitions : reader[j][p] # Absent => ~StillAtWork(i, p)
    BY <1>3, <2>2 DEF Ordered, IInv, TypeOK
  <2>4. ASSUME NEW j \in Instances PROVE AtWorkInOrder(j)'
    <3> SUFFICES ASSUME msg[j] # Absent PROVE AtWorkInOrder(j)'
      BY <1>1 DEF AtWorkInOrder
    <3>1. msg[j][1] \in Partitions /\ msg[j][2] \in Nat /\ AtWorkInOrder(j)
      BY <1>3, Numbers DEF Ordered
    <3>2. j = i \/ ~StillAtWork(i, msg[j][1])
      BY <2>3, <3>1 DEF AtWorkInOrder
    <3> QED BY <1>1, <2>1, <3>1, <3>2 DEF AtWorkInOrder
  <2>5. ASSUME NEW j \in Instances, NEW p \in Partitions PROVE WaitsInOrder(j, p)'
    <3>1. reader[j][p] # Absent /\ ~StillAtWork(j, p) => ~StillAtWork(i, p)
      BY <2>3
    <3> QED BY <1>1, <1>3, <2>1, <3>1 DEF Ordered, WaitsInOrder, StillAtWork
  <2>6. \A p \in Partitions : Reach(p, committed[p] + 1)'
    BY <1>1, <1>3, <2>1, <2>2 DEF Ordered
  <2> QED BY <1>1, <1>3, <2>1, <2>4, <2>5, <2>6 DEF Ordered
<1> QED BY <1>1, <1>2, <1>3, OrphanAdded

LEMMA AloneOrdered ==
  ASSUME IInv, OneOrphan, UNCHANGED <<db, applied, orphans, committed, member, reader, msg>>
  PROVE  OneOrphan' /\ (Ordered => Ordered') /\ Forward
<1>1. OneOrphan' /\ Forward
  BY Numbers DEF OneOrphan, Forward
<1>2. ASSUME Ordered PROVE Ordered'
  BY <1>2, OrderedKept DEF Ordered, OrphansInOrder
<1> QED BY <1>1, <1>2

LEMMA InitOInv == Init => OInv
<1> SUFFICES ASSUME Init PROVE OInv
  OBVIOUS
<1>1. OneOrphan
  BY DEF Init, OneOrphan
<1>2. Ordered
  BY DEF Init, NotReading, Ordered, AtWorkInOrder, WaitsInOrder, Reach, OrphansInOrder
<1> QED BY <1>1, <1>2, InitIInv DEF OInv

LEMMA StepOInv ==
  ASSUME OInv, [Next]_vars
  PROVE  OInv' /\ (~overlapped' => Forward)
<1>1. IInv /\ OneOrphan /\ IInv'
  BY StepIInv DEF OInv
<1>2. OneOrphan' /\ (~overlapped' => Ordered' /\ Forward)
  <2>1. CASE UNCHANGED <<db, applied, orphans, committed, member, reader, msg, overlapped>>
    BY <1>1, <2>1, AloneOrdered DEF OInv
  <2>2. ASSUME NEW i \in Instances,
               Start(i) \/ SaveCaches(i) \/ Fill(i) \/ \E u \in Uids : Query(i, u)
        PROVE  UNCHANGED <<db, applied, orphans, committed, member, reader, msg, overlapped>>
    BY <2>2 DEF Start, SaveCaches, Fill, Query, storeVars, groupVars
  <2>3. ASSUME NEW i \in Instances, NEW p \in Partitions, Fetch(i, p)
        PROVE  OneOrphan' /\ (~overlapped' => Ordered' /\ Forward)
    <3>1. UNCHANGED overlapped
      BY <2>3 DEF Fetch
    <3> QED BY <1>1, <2>3, <3>1, FetchOrdered DEF OInv
  <2>4. ASSUME NEW i \in Instances, SaveStores(i) \/ CommitSucceeds(i)
        PROVE  OneOrphan' /\ (~overlapped' => Ordered' /\ Forward)
    <3>1. UNCHANGED overlapped
      BY <2>4 DEF SaveStores, CommitSucceeds, groupVars
    <3> QED BY <1>1, <2>4, <3>1, StoresOrdered, CommitOrdered DEF OInv
  <2>5. ASSUME NEW i \in Instances, SaveRefused(i) \/ SaveRetries(i) \/ BackoffElapses(i)
        PROVE  OneOrphan' /\ (~overlapped' => Ordered' /\ Forward)
    <3>1. UNCHANGED overlapped
      BY <2>5 DEF SaveRefused, SaveRetries, BackoffElapses, groupVars
    <3> QED BY <1>1, <2>5, <3>1, HandOrdered DEF OInv
  <2>6. ASSUME NEW i \in Instances, Crash(i) \/ SaveGivesUp(i) \/ CommitFails(i)
        PROVE  OneOrphan' /\ (~overlapped' => Ordered' /\ Forward)
    <3>1. UNCHANGED overlapped
      BY <2>6 DEF Crash, SaveGivesUp, CommitFails, Gone
    <3> QED BY <1>1, <2>6, <3>1, EndOrdered DEF OInv
  <2>7. ASSUME NEW v \in orphans, OrphanCommits(v) \/ OrphanAborts(v)
        PROVE  OneOrphan' /\ (~overlapped' => Ordered' /\ Forward)
    <3>1. UNCHANGED overlapped
      BY <2>7 DEF OrphanCommits, OrphanAborts, groupVars
    <3> QED BY <1>1, <2>7, <3>1, OrphanOrdered DEF OInv
  <2>8. CASE Coordinate
    BY <1>1, <2>8, RebalanceOrdered DEF Coordinate, OInv
  <2>9. CASE UNCHANGED vars
    BY <2>1, <2>9 DEF vars, storeVars, groupVars
  <2> QED BY <2>1, <2>2, <2>3, <2>4, <2>5, <2>6, <2>7, <2>8, <2>9
      DEF Next, Consume, Settle
<1> QED BY <1>1, <1>2 DEF OInv

(* As long as no partition is taken from an instance at work on it, neither *)
(* offsets nor orders go back, for any number of instances, partitions,     *)
(* rebalances, crashes and transactions that outlive their process.         *)
THEOREM OverlapIsTheOnlyWayBack == Spec => RegressNeedsOverlap
<1>1. OInv /\ [Next]_vars =>
        OInv' /\ [~overlapped' =>
                   /\ \A p \in Partitions : committed'[p] >= committed[p]
                   /\ \A u \in Uids : db'[u] # db[u] =>
                        \A v \in applied :
                          UidOf(v) = u /\ v[1] = db'[u][1] => v[2] <= db'[u][2]]_vars
  BY StepOInv DEF Forward
<1> QED BY <1>1, InitOInv, PTL DEF Spec, RegressNeedsOverlap

-----------------------------------------------------------------------------
(* What Postgres holds of an order is one of the versions it has taken, all *)
(* of them valid; until an overlap it is the last it took of that partition.*)

ValidOnTheWay == \A v \in applied \cup orphans : KindOf(v) = "valid"

HoldsApplied ==
  /\ \A u \in Uids : db[u] # Absent => db[u] \in applied
  /\ \A v \in applied : db[UidOf(v)] # Absent

LatestOfItsPartition ==
  \A u \in Uids : db[u] # Absent =>
    \A v \in applied : UidOf(v) = u /\ v[1] = db[u][1] => v[2] <= db[u][2]

HInv ==
  /\ OInv /\ ValidOnTheWay /\ HoldsApplied
  /\ ~overlapped => LatestOfItsPartition

(* A step takes one valid version into the database, or none; and a         *)
(* partition that was taken too early stays so.                             *)
LEMMA TakesOneOrNone ==
  ASSUME IInv, ValidOnTheWay, [Next]_vars
  PROVE  /\ ValidOnTheWay'
         /\ overlapped => overlapped'
         /\ \/ UNCHANGED <<db, applied>>
            \/ \E v \in Versions :
                 /\ db' = [db EXCEPT ![UidOf(v)] = v]
                 /\ applied' = applied \cup {v}
<1> DEFINE None == /\ UNCHANGED <<db, applied>>
                   /\ \A v \in orphans' : v \in orphans \/ KindOf(v) = "valid"
                   /\ overlapped => overlapped'
           One == \E v \in Versions :
                    /\ db' = [db EXCEPT ![UidOf(v)] = v] /\ applied' = applied \cup {v}
                    /\ KindOf(v) = "valid" /\ orphans' \subseteq orphans
                    /\ UNCHANGED overlapped
<1>1. ASSUME NEW i \in Instances, MaybeOrphaned(i)
      PROVE  \A v \in orphans' : v \in orphans \/ KindOf(v) = "valid"
  BY <1>1 DEF MaybeOrphaned, AtCommit
<1>2. ASSUME NEW i \in Instances,
             Start(i) \/ SaveCaches(i) \/ SaveRefused(i) \/ BackoffElapses(i)
               \/ CommitSucceeds(i) \/ Fill(i)
      PROVE  None
  BY <1>2 DEF Start, SaveCaches, SaveRefused, BackoffElapses, CommitSucceeds, Fill,
              storeVars, groupVars
<1>3. ASSUME NEW i \in Instances, Crash(i) \/ SaveRetries(i) \/ SaveGivesUp(i) \/ CommitFails(i)
      PROVE  None
  <2>1. MaybeOrphaned(i)
    BY <1>3 DEF Crash, SaveRetries, SaveGivesUp, CommitFails, MaybeOrphaned
  <2> QED BY <1>1, <1>3, <2>1 DEF Crash, SaveRetries, SaveGivesUp, CommitFails, Gone, groupVars
<1>4. ASSUME NEW i \in Instances, SaveStores(i)
      PROVE  One
  <2>1. msg[i] \in Versions /\ KindOf(msg[i]) = "valid"
    BY <1>4, AtHand DEF SaveStores, AtCommit, IInv
  <2> QED BY <1>4, <2>1 DEF SaveStores, StoredBy, groupVars
<1>5. ASSUME NEW v \in orphans, OrphanCommits(v)
      PROVE  One
  <2>1. v \in Versions /\ KindOf(v) = "valid"
    BY DEF IInv, TypeOK, ValidOnTheWay
  <2> QED BY <1>5, <2>1 DEF OrphanCommits, StoredBy, groupVars
<1>6. ASSUME NEW v \in orphans, OrphanAborts(v)
      PROVE  None
  BY <1>6 DEF OrphanAborts, groupVars
<1>7. ASSUME NEW i \in Instances,
             (\E p \in Partitions : Fetch(i, p)) \/ \E u \in Uids : Query(i, u)
      PROVE  None
  BY <1>7 DEF Fetch, Query, storeVars, groupVars
<1>8. CASE Coordinate
  <2>1. None
    BY <1>8 DEF Coordinate, Rebalance, storeVars
  <2> QED BY <2>1 DEF ValidOnTheWay
<1>9. CASE UNCHANGED vars
  <2>1. None
    BY <1>9 DEF vars, storeVars, groupVars
  <2> QED BY <2>1 DEF ValidOnTheWay
<1>10. CASE None
  BY <1>10 DEF ValidOnTheWay
<1>11. CASE One
  <2> PICK v \in Versions : /\ db' = [db EXCEPT ![UidOf(v)] = v] /\ applied' = applied \cup {v}
                            /\ KindOf(v) = "valid" /\ orphans' \subseteq orphans
                            /\ UNCHANGED overlapped
    BY <1>11
  <2>1. ValidOnTheWay'
    BY DEF ValidOnTheWay, KindOf
  <2> QED BY <2>1
<1> HIDE DEF None, One
<1> QED BY <1>2, <1>3, <1>4, <1>5, <1>6, <1>7, <1>8, <1>9, <1>10, <1>11
        DEF Next, Consume, Settle

LEMMA InitHInv == Init => HInv
BY InitOInv DEF Init, HInv, ValidOnTheWay, HoldsApplied, LatestOfItsPartition

LEMMA StepHInv ==
  ASSUME HInv, [Next]_vars
  PROVE  HInv'
<1>1. OInv' /\ (~overlapped' => Forward)
  BY StepOInv DEF HInv
<1>2. ValidOnTheWay' /\ (overlapped => overlapped')
  BY TakesOneOrNone DEF HInv, OInv
<1>3. CASE UNCHANGED <<db, applied>>
  BY <1>1, <1>2, <1>3 DEF HInv, HoldsApplied, LatestOfItsPartition, UidOf
<1>4. ASSUME NEW v \in Versions,
             db' = [db EXCEPT ![UidOf(v)] = v], applied' = applied \cup {v}
      PROVE  HInv'
  <2>1. UidOf(v) \in Uids /\ v # Absent /\ v[2] \in Nat /\ db \in [Uids -> Versions \cup {Absent}]
        /\ \A w \in applied : w[2] \in Nat
    BY VersionFacts, Numbers DEF HInv, OInv, IInv, TypeOK
  <2>2. db'[UidOf(v)] = v /\ \A u \in Uids \ {UidOf(v)} : db'[u] = db[u]
    BY <1>4, <2>1
  <2>3. HoldsApplied'
    BY <1>4, <2>1, <2>2 DEF HInv, HoldsApplied, UidOf
  <2>4. ASSUME ~overlapped' PROVE LatestOfItsPartition'
    <3>1. LatestOfItsPartition /\ Forward
      BY <1>1, <1>2, <2>4 DEF HInv
    <3>2. ASSUME NEW u \in Uids, NEW w \in applied', UidOf(w) = u, w[1] = db'[u][1], db'[u] # Absent
          PROVE  w[2] <= db'[u][2]
      <4>1. CASE u # UidOf(v)
        BY <1>4, <2>2, <3>1, <3>2, <4>1 DEF LatestOfItsPartition
      <4>2. CASE u = UidOf(v) /\ w = v
        BY <2>1, <2>2, <4>2
      <4>3. CASE u = UidOf(v) /\ w # v /\ db[u] = v
        BY <1>4, <2>1, <2>2, <3>1, <3>2, <4>3 DEF LatestOfItsPartition
      <4>4. CASE u = UidOf(v) /\ w # v /\ db[u] # v
        BY <1>4, <2>2, <3>1, <3>2, <4>4 DEF Forward
      <4> QED BY <4>1, <4>2, <4>3, <4>4
    <3> QED BY <3>2 DEF LatestOfItsPartition, UidOf
  <2> QED BY <1>1, <1>2, <2>3, <2>4 DEF HInv
<1> QED BY <1>3, <1>4, TakesOneOrNone DEF HInv, OInv

(* What instances leave behind in Postgres: valid versions only, and until  *)
(* an overlap the latest of the partition it comes from.                    *)
THEOREM HoldsLatest == Spec => []HInv
BY InitHInv, StepHInv, PTL DEF Spec

(* Once the group is through with the topic and no partition was taken too  *)
(* early, Postgres has the last version of every order, of one of the       *)
(* partitions that have it: what ConvergesWithoutOverlap says of the end,   *)
(* but for the progress that leads there.                                   *)
WorkedOffIsLatest ==
  ~overlapped /\ (\A p \in Partitions : committed[p] = Len(Topic[p])) =>
    \A u \in Uids : (\E p \in Partitions : LastOf(u, p) # {}) =>
      \E p \in Partitions : db[u] \in {p} \X LastOf(u, p)

THEOREM GroupEndsWithLatest == Spec => []WorkedOffIsLatest
<1>1. ASSUME HInv PROVE WorkedOffIsLatest
  <2> SUFFICES ASSUME ~overlapped, \A p \in Partitions : committed[p] = Len(Topic[p]),
                      NEW u \in Uids, NEW p \in Partitions, NEW n \in LastOf(u, p)
               PROVE  \E q \in Partitions : db[u] \in {q} \X LastOf(u, q)
    BY DEF WorkedOffIsLatest
  <2>1. \A q \in Partitions : \A k \in 1..Len(Topic[q]) :
          Topic[q][k].kind = "valid" => <<q, k>> \in applied
    BY <1>1 DEF HInv, OInv, IInv, Offsets, Stored, Valid
  <2>2. db[u] # Absent
    <3>1. n \in 1..Len(Topic[p]) /\ Topic[p][n].uid = u /\ Topic[p][n].kind = "valid"
      BY DEF LastOf
    <3>2. <<p, n>> \in applied /\ UidOf(<<p, n>>) = u
      BY <2>1, <3>1 DEF UidOf
    <3> QED BY <1>1, <3>2 DEF HInv, HoldsApplied
  <2> DEFINE q == db[u][1]
             m == db[u][2]
  <2>3. /\ db[u] \in applied /\ db[u] = <<q, m>> /\ q \in Partitions /\ m \in 1..Len(Topic[q])
        /\ Topic[q][m].uid = u /\ Topic[q][m].kind = "valid"
    <3>1. db[u] \in applied /\ UidOf(db[u]) = u /\ KindOf(db[u]) = "valid" /\ db[u] \in Versions
      BY <1>1, <2>2 DEF HInv, OInv, IInv, TypeOK, CacheInv, DbOfOrder, HoldsApplied, ValidOnTheWay
    <3> QED BY <3>1, VersionFacts DEF UidOf, KindOf
  <2>4. ASSUME NEW k \in 1..Len(Topic[q]), Topic[q][k].uid = u, Topic[q][k].kind = "valid"
        PROVE  k <= m
    <3>1. <<q, k>> \in applied /\ UidOf(<<q, k>>) = u /\ <<q, k>>[1] = q /\ <<q, k>>[2] = k
      BY <2>1, <2>3, <2>4 DEF UidOf
    <3>2. LatestOfItsPartition
      BY <1>1 DEF HInv
    <3> QED BY <2>2, <3>1, <3>2 DEF LatestOfItsPartition
  <2>5. m \in LastOf(u, q)
    BY <2>3, <2>4 DEF LastOf
  <2> QED BY <2>3, <2>5
<1> QED BY <1>1, HoldsLatest, PTL

(* What consumer.go says of a redelivery holds until an overlap: a version  *)
(* that was stored before changes its order only when a message of another  *)
(* partition has come in between (RedeliveryIsHarmless, which a run refutes *)
(* with an overlap, says that it never does).                               *)
HarmlessUntilOverlap ==
  [][~overlapped' =>
       \A u \in Uids : db'[u] # db[u] /\ db'[u] \in applied =>
         db[u] # Absent /\ db[u][1] # db'[u][1]]_vars

THEOREM RedeliveriesHarmless == Spec => HarmlessUntilOverlap
<1>1. ASSUME HInv, [Next]_vars, ~overlapped',
             NEW u \in Uids, db'[u] # db[u], db'[u] \in applied
      PROVE  db[u] # Absent /\ db[u][1] # db'[u][1]
  <2>1. /\ Forward /\ HInv'
        /\ LatestOfItsPartition /\ HoldsApplied
    BY <1>1, StepOInv, StepHInv, TakesOneOrNone DEF HInv, OInv
  <2>2. db'[u] \in Versions
    BY <1>1, Numbers DEF HInv, OInv
  <2>3. db'[u] # Absent
    BY <2>2, VersionFacts
  <2>4. UidOf(db'[u]) = u
    BY <2>1, <2>3 DEF HInv, OInv, IInv, CacheInv, DbOfOrder, UidOf
  <2>5. db[u] # Absent
    BY <1>1, <2>1, <2>4 DEF HoldsApplied
  <2>6. ASSUME db[u][1] = db'[u][1] PROVE FALSE
    <3>1. db[u] \in applied /\ db[u] \in Versions /\ UidOf(db[u]) = u
      BY <1>1, <2>1, <2>5, Numbers DEF HoldsApplied, HInv, OInv, IInv, CacheInv, DbOfOrder
    <3>2. db'[u][2] <= db[u][2] /\ db[u][2] <= db'[u][2]
      BY <1>1, <2>1, <2>4, <2>5, <2>6, <3>1 DEF Forward, LatestOfItsPartition
    <3>3. db[u][2] \in Nat /\ db'[u][2] \in Nat
      BY <1>1, <3>1, Numbers DEF HInv, OInv
    <3>4. db[u] = <<db[u][1], db[u][2]>> /\ db'[u] = <<db'[u][1], db'[u][2]>>
      BY <2>2, <3>1, VersionFacts
    <3> QED BY <1>1, <2>6, <3>2, <3>3, <3>4
  <2> QED BY <2>5, <2>6
<1>2. HInv /\ [Next]_vars =>
        [~overlapped' =>
           \A u \in Uids : db'[u] # db[u] /\ db'[u] \in applied =>
             db[u] # Absent /\ db[u][1] # db'[u][1]]_vars
  BY <1>1
<1> QED BY <1>2, HoldsLatest, PTL DEF Spec, HarmlessUntilOverlap

-----------------------------------------------------------------------------
(* Until an overlap the group as a whole implements the contract of one     *)
(* consumer: a version that commits is the one after the offset, or one     *)
(* that is stored already, and the offset moves by one or not at all.       *)

LEMMA ContractStore ==
  ASSUME HInv, NEW v \in Versions, KindOf(v) = "valid", v[2] <= committed[v[1]] + 1,
         applied' = applied \cup {v}, UNCHANGED committed
  PROVE  Delivery!ContractNext \/ UNCHANGED <<committed, applied>>
<1> DEFINE p == v[1]
           n == v[2]
<1>1. /\ p \in Partitions /\ n \in 1..Len(Topic[p]) /\ v = <<p, n>> /\ Valid(p, n)
      /\ committed[p] \in Nat /\ Len(Topic[p]) \in Nat
  BY VersionFacts, Numbers, LogBounds DEF HInv, OInv, KindOf, Valid
<1>2. CASE n <= committed[p]
  <2>1. v \in applied
    BY <1>1, <1>2 DEF HInv, OInv, IInv, Offsets, Stored
  <2> QED BY <2>1
<1>3. CASE n = committed[p] + 1
  <2>1. Delivery!Store(p)
    BY <1>1, <1>3 DEF Delivery!Store, Delivery!NextMessage, Delivery!NextIsValid, Valid
  <2> QED BY <1>1, <2>1 DEF Delivery!ContractNext
<1> QED BY <1>1, <1>2, <1>3

LEMMA ContractSettle ==
  ASSUME HInv, ~overlapped, NEW i \in Instances, CommitSucceeds(i)
  PROVE  Delivery!ContractNext \/ UNCHANGED <<committed, applied>>
<1> DEFINE p == msg[i][1]
           n == msg[i][2]
<1>1. IInv /\ Ordered /\ msg[i] # Absent
  BY AtHand DEF HInv, OInv, IInv, CommitSucceeds
<1>2. /\ p \in Partitions /\ n \in 1..Len(Topic[p]) /\ msg[i] = <<p, n>>
      /\ committed[p] \in Nat /\ Len(Topic[p]) \in Nat
      /\ n - 1 <= committed[p] /\ committed[p] <= n
  BY <1>1, VersionFacts, Numbers, LogBounds DEF Ordered, AtWorkInOrder
<1>3. committed \in [Partitions -> 0..LogLength] /\ committed' = [committed EXCEPT ![p] = n]
      /\ UNCHANGED applied
  BY <1>1 DEF IInv, TypeOK, CommitSucceeds, OffsetCommitted, storeVars
<1>4. CASE committed[p] = n
  BY <1>3, <1>4
<1>5. CASE committed[p] = n - 1
  <2>1. Topic[p][n].kind = "valid" => <<p, n>> \in applied
    BY <1>1, <1>2 DEF IInv, Offsets, InHandStored, CommitSucceeds, KindOf
  <2>2. committed[p] + 1 = n /\ committed[p] < Len(Topic[p])
    BY <1>2, <1>5
  <2>3. Delivery!Settle(p)
    BY <1>3, <2>1, <2>2 DEF Delivery!Settle, Delivery!NextMessage, Delivery!NextIsValid
  <2> QED BY <1>2, <2>3 DEF Delivery!ContractNext
<1> QED BY <1>2, <1>4, <1>5

LEMMA ContractStep ==
  ASSUME HInv, [Next]_vars, ~overlapped'
  PROVE  Delivery!ContractNext \/ UNCHANGED <<committed, applied>>
<1>1. ~overlapped /\ IInv /\ Ordered
  BY TakesOneOrNone DEF HInv, OInv
<1>2. CASE UNCHANGED <<committed, applied>>
  BY <1>2
<1>3. ASSUME NEW i \in Instances, SaveStores(i)
      PROVE  Delivery!ContractNext \/ UNCHANGED <<committed, applied>>
  <2>1. msg[i] # Absent /\ msg[i] \in Versions /\ KindOf(msg[i]) = "valid"
    BY <1>1, <1>3, AtHand DEF IInv, SaveStores, AtCommit
  <2>2. msg[i][2] <= committed[msg[i][1]] + 1
    BY <1>1, <2>1, Numbers DEF Ordered, AtWorkInOrder
  <2> QED BY <1>3, <2>1, <2>2, ContractStore DEF SaveStores, StoredBy, groupVars
<1>4. ASSUME NEW v \in orphans, OrphanCommits(v)
      PROVE  Delivery!ContractNext \/ UNCHANGED <<committed, applied>>
  <2>1. v \in Versions /\ KindOf(v) = "valid" /\ v[1] \in Partitions
    BY VersionFacts DEF HInv, OInv, IInv, TypeOK, ValidOnTheWay
  <2>2. v[2] <= committed[v[1]] + 1
    BY <1>1, <2>1 DEF Ordered, Reach
  <2> QED BY <1>4, <2>1, <2>2, ContractStore DEF OrphanCommits, StoredBy, groupVars
<1>5. ASSUME NEW i \in Instances, CommitSucceeds(i)
      PROVE  Delivery!ContractNext \/ UNCHANGED <<committed, applied>>
  BY <1>1, <1>5, ContractSettle
<1>6. ASSUME NEW i \in Instances,
             \/ Start(i) \/ SaveCaches(i) \/ SaveRefused(i) \/ BackoffElapses(i)
             \/ SaveRetries(i) \/ Fill(i)
             \/ (\E p \in Partitions : Fetch(i, p)) \/ \E u \in Uids : Query(i, u)
      PROVE  UNCHANGED <<committed, applied>>
  BY <1>6 DEF Start, SaveCaches, SaveRefused, BackoffElapses, SaveRetries, Fill, Fetch, Query,
              storeVars, groupVars
<1>7. ASSUME NEW i \in Instances, Crash(i) \/ SaveGivesUp(i) \/ CommitFails(i)
      PROVE  UNCHANGED <<committed, applied>>
  BY <1>7 DEF Crash, SaveGivesUp, CommitFails, Gone
<1>8. ASSUME NEW v \in orphans, OrphanAborts(v)
      PROVE  UNCHANGED <<committed, applied>>
  BY <1>8 DEF OrphanAborts, groupVars
<1>9. CASE Coordinate
  BY <1>2, <1>9 DEF Coordinate, Rebalance, storeVars
<1>10. CASE UNCHANGED vars
  BY <1>2, <1>10 DEF vars, storeVars, groupVars
<1> QED BY <1>2, <1>3, <1>4, <1>5, <1>6, <1>7, <1>8, <1>9, <1>10 DEF Next, Consume, Settle

(* The group implements the contract of the consumer as long as every       *)
(* partition is taken from nobody at work on it, whatever else happens.     *)
THEOREM GroupKeepsContract == Spec => ContractUntilOverlap
<1>1. Init => Delivery!ContractInit
  BY DEF Init, Delivery!ContractInit
<1>2. HInv /\ [Next]_vars =>
        [~overlapped' => Delivery!ContractNext \/ UNCHANGED <<committed, applied>>]_vars
  BY ContractStep
<1> QED BY <1>1, <1>2, HoldsLatest, PTL DEF Spec, ContractUntilOverlap
-----------------------------------------------------------------------------
(* Why the group gets through the topic, but for the fairness itself: as    *)
(* long as something is left to do, somebody FairSpec is fair to can go on. *)

(* The guards of those steps, beside Settle and Start: Consume(i), and the  *)
(* rebalance that is due.                                                   *)
ConsumerCanGoOn(i) ==
  /\ i \in up
  /\ \/ pc[i] = "fetch" /\ \E p \in Partitions :
          reader[i][p] # Absent /\ reader[i][p] < Len(Topic[p])
     \/ pc[i] = "save" /\ KindOf(msg[i]) = "valid" /\ ~RowLocked(UidOf(msg[i]))
     \/ pc[i] = "save" /\ KindOf(msg[i]) = "refused"
     \/ pc[i] \in {"backoff", "cache", "commit"}
CoordinatorCanGoOn == NeedsRebalance /\ up # {}

(* A valid message nobody has stored, or, as long as nobody was overlapped, *)
(* one the offsets have not passed.                                         *)
WorkLeft ==
  \E p \in Partitions : \E n \in 1..Len(Topic[p]) :
    \/ Valid(p, n) /\ <<p, n>> \notin applied
    \/ ~overlapped /\ committed[p] < n

(* The group does not come to a halt over an order it has not stored: some  *)
(* consumer has work, or Postgres, the restart of a process or a rebalance  *)
(* is still to come.  In particular no reader is past a message it does not *)
(* have in hand, no row stays locked by a connection that was lost, and no  *)
(* partition is without a reader (consumer.go, Run; order_repo.go, Save).   *)
GroupNeverStuck ==
  WorkLeft =>
    \/ orphans # {} \/ up # Instances \/ CoordinatorCanGoOn
    \/ \E i \in Instances : ConsumerCanGoOn(i)

HandToSave ==
  \A i \in Instances : pc[i] \in {"save", "backoff"} => KindOf(msg[i]) \in {"valid", "refused"}

LEMMA HandToSaveStep ==
  ASSUME IInv, HandToSave, [Next]_vars
  PROVE  HandToSave'
<1>1. ASSUME NEW i \in Instances, NEW p \in Partitions, Fetch(i, p)
      PROVE  HandToSave'
  <2> DEFINE n == reader[i][p] + 1
  <2>1. n \in 1..Len(Topic[p])
    BY <1>1, LogBounds DEF Fetch, IInv, TypeOK, Offsets
  <2>2. <<p, n>> \in Versions /\ KindOf(<<p, n>>) = Topic[p][n].kind
    BY <2>1, VersionAt
  <2>3. KindOf(<<p, n>>) \in Kinds
    BY <2>2, VersionFacts
  <2>4. /\ pc' = [pc EXCEPT ![i] = IF Topic[p][n].kind = "invalid" THEN "commit" ELSE "save"]
        /\ msg' = [msg EXCEPT ![i] = <<p, n>>]
    BY <1>1 DEF Fetch
  <2> HIDE DEF n
  <2>5. msg'[i] = <<p, n>> /\ (pc'[i] = "save" => Topic[p][n].kind # "invalid")
        /\ pc'[i] # "backoff"
    BY <2>4 DEF IInv, TypeOK
  <2>6. \A j \in Instances \ {i} : pc'[j] = pc[j] /\ msg'[j] = msg[j]
    BY <2>4 DEF IInv, TypeOK
  <2>7. KindOf(msg'[i]) = Topic[p][n].kind
    BY <2>2, <2>5
  <2>8. \A j \in Instances : pc'[j] \in {"save", "backoff"} => KindOf(msg'[j]) \in {"valid", "refused"}
    BY <2>2, <2>3, <2>5, <2>6, <2>7 DEF Kinds, HandToSave
  <2> QED BY <2>8 DEF HandToSave, KindOf
<1>2. ASSUME NEW i \in Instances,
             \/ SaveStores(i) \/ SaveCaches(i) \/ SaveRefused(i) \/ SaveRetries(i)
             \/ BackoffElapses(i) \/ CommitSucceeds(i)
      PROVE  HandToSave'
  <2>1. /\ \A j \in Instances \ {i} : pc'[j] = pc[j] /\ msg'[j] = msg[j]
        /\ pc'[i] \in {"save", "backoff"} => msg'[i] = msg[i] /\ pc[i] \in {"save", "backoff"}
    BY <1>2 DEF IInv, TypeOK, SaveStores, SaveCaches, SaveRefused, SaveRetries, BackoffElapses,
       CommitSucceeds
  <2> QED BY <2>1 DEF HandToSave, KindOf
<1>3. ASSUME NEW i \in Instances, Gone(i)
      PROVE  HandToSave'
  <2>1. /\ \A j \in Instances \ {i} : pc'[j] = pc[j] /\ msg'[j] = msg[j]
        /\ pc'[i] = "fetch"
    BY <1>3 DEF IInv, TypeOK, Gone
  <2> QED BY <2>1 DEF HandToSave, KindOf
<1>4. CASE UNCHANGED <<pc, msg>>
  BY <1>4 DEF HandToSave, KindOf
<1>5. CASE Settle \/ Coordinate \/ UNCHANGED vars
  BY <1>4, <1>5 DEF Settle, OrphanCommits, OrphanAborts, Coordinate, Rebalance, vars
<1>6. ASSUME NEW i \in Instances, Start(i) \/ Fill(i) \/ \E u \in Uids : Query(i, u)
      PROVE  HandToSave'
  BY <1>4, <1>6 DEF Start, Fill, Query
<1> QED BY <1>1, <1>2, <1>3, <1>5, <1>6 DEF Next, Consume, Crash, SaveGivesUp, CommitFails

THEOREM GroupGoesOn ==
  ASSUME Instances # {}
  PROVE  Spec => []GroupNeverStuck
<1>1. Init => HandToSave
  BY DEF Init, HandToSave
<1>2. ASSUME OInv, HandToSave PROVE GroupNeverStuck
  <2> SUFFICES ASSUME WorkLeft, orphans = {}, up = Instances, ~CoordinatorCanGoOn,
                      \A i \in Instances : ~ConsumerCanGoOn(i)
               PROVE  FALSE
    BY DEF GroupNeverStuck
  <2>1. PICK p \in Partitions : \E n \in 1..Len(Topic[p]) :
               \/ Valid(p, n) /\ <<p, n>> \notin applied
               \/ ~overlapped /\ committed[p] < n
    BY DEF WorkLeft
  <2>2. PICK n \in 1..Len(Topic[p]) :
               \/ Valid(p, n) /\ <<p, n>> \notin applied
               \/ ~overlapped /\ committed[p] < n
    BY <2>1
  <2>3. IInv
    BY <1>2 DEF OInv
  <2>4. PICK i \in Instances : reader[i][p] # Absent
    BY <2>3 DEF CoordinatorCanGoOn, NeedsRebalance, IInv, TypeOK
  <2>5. msg[i] = Absent /\ pc[i] = "fetch"
    <3>1. pc[i] \in {"fetch", "save", "backoff", "cache", "commit"} /\ (pc[i] = "fetch" <=> msg[i] = Absent)
      BY <2>3 DEF IInv, TypeOK
    <3>2. pc[i] \in {"save", "backoff"} => KindOf(msg[i]) \in {"valid", "refused"}
      BY <1>2 DEF HandToSave
    <3>3. ~RowLocked(UidOf(msg[i]))
      BY DEF RowLocked
    <3> QED BY <3>1, <3>2, <3>3 DEF ConsumerCanGoOn
  <2>6. reader[i][p] \in 0..Len(Topic[p]) /\ ReadStored(i, p)
    BY <2>3, <2>4 DEF IInv, Offsets
  <2>7. reader[i][p] = Len(Topic[p])
    <3>1. ~(reader[i][p] < Len(Topic[p]))
      BY <2>4, <2>5 DEF ConsumerCanGoOn
    <3> QED BY <2>6, <3>1, LogBounds
  <2>8. Valid(p, n) => <<p, n>> \in applied
    <3>1. <<p, n>> # Absent
      BY VersionAt, VersionsAssumption
    <3> QED BY <2>4, <2>5, <2>6, <2>7, <3>1 DEF ReadStored
  <2>9. ~overlapped => committed[p] >= n
    <3>1. ASSUME ~overlapped PROVE reader[i][p] <= committed[p]
      BY <1>2, <2>4, <2>5, <3>1 DEF OInv, Ordered, WaitsInOrder, StillAtWork
    <3>2. committed[p] \in Nat
      BY <2>3, Numbers
    <3> QED BY <2>7, <3>1, <3>2, LogBounds
  <2>10. committed[p] \in Nat /\ n \in Nat
    BY <2>3, Numbers, LogBounds
  <2> QED BY <2>2, <2>8, <2>9, <2>10
<1>3. OInv /\ HandToSave /\ [Next]_vars => OInv' /\ HandToSave'
  BY StepOInv, HandToSaveStep DEF OInv
<1> QED BY <1>1, <1>2, <1>3, InitOInv, PTL DEF Spec
=============================================================================
