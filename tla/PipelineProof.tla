---------------------------- MODULE PipelineProof ----------------------------
(***************************************************************************)
(* Proofs about OrderPipeline, for every number of partitions, requests,   *)
(* attempts and faults and every topic: its type invariant, that nothing   *)
(* acknowledged is lost, that the cache shows committed orders only, that  *)
(* redelivery never undoes a write, and that it implements the safety part *)
(* of DeliveryContract.  The inductive invariant is built in layers; each  *)
(* layer is preserved by every step, given the layers below it.            *)
(***************************************************************************)
EXTENDS PipelineProperties, FiniteSetTheorems, TLAPS

(* Layer 1: types, and how the consumer's program counter, its message and  *)
(* the process belong together.                                             *)
ControlInv ==
  /\ pc = "backoff" => attempt < MaxAttempts
  /\ pc = "fetch" => msg = Absent
  /\ proc \in {"down", "starting"} => pc = "done" /\ msg = Absent
  /\ msg # Absent => msg[2] <= Len(topic[msg[1]])
  /\ \A r \in Readers :
       /\ gets[r].pc # "idle" => gets[r].uid \in Uids
       /\ gets[r].pc = "fill" => gets[r].got \in Versions

TypeInv == TypeOK /\ ControlInv

(* Layer 2: the offsets.  After a rebalance the reader may be one message   *)
(* behind what is committed, never more; so a message in hand is the next   *)
(* unsettled one of its partition, or the last settled one once more.       *)
Lag(p) ==
  IF msg # Absent /\ msg[1] = p
  THEN /\ committed[p] \in {msg[2] - 1, msg[2]}
       /\ position[p] \in {msg[2] - 1, msg[2]}
  ELSE position[p] \in {committed[p] - 1, committed[p]}

OffsetInv ==
  /\ \A p \in Partitions : committed[p] <= Len(topic[p])
  /\ Running => \A p \in Partitions : Lag(p)

(* Layer 3: what is stored.  At most the next unsettled message of a        *)
(* partition is stored early, and then it is the one the reader is at.      *)
StoredInv ==
  /\ NoAckedOrderLost
  /\ pc = "cache" => KindOf(msg) = "valid"
  /\ pc \in {"cache", "commit"} /\ KindOf(msg) = "valid" => msg \in applied
  /\ \A v \in applied : v[2] <= committed[v[1]] + 1
  /\ Running => \A v \in applied : v[2] = committed[v[1]] + 1 =>
       /\ position[v[1]] >= committed[v[1]]
       /\ msg # Absent /\ msg[1] = v[1] => msg[2] = v[2]

(* Layer 4: every copy of an order, wherever it is, was committed.          *)
CopiesInv ==
  /\ CacheWasCommitted
  /\ \A u \in Stored : db[u] \in applied /\ UidOf(db[u]) = u
  /\ \A i \in 1..Len(warmup.listing) :
       LET row == warmup.listing[i]
       IN  row.order \in applied /\ UidOf(row.order) = row.uid

(* Layer 5, when no order is ever evicted: the cache, a listing being       *)
(* cached and a fill into an empty entry all agree with the database.       *)
FreshInv ==
  /\ CacheFresh
  /\ pc = "cache" => db[UidOf(msg)] = msg
  /\ proc = "starting" => \A i \in 1..Len(warmup.listing) :
       warmup.listing[i].order = db[warmup.listing[i].uid]
  /\ \A r \in Readers :
       gets[r].pc = "fill" /\ gets[r].uid \notin Cached =>
         gets[r].got = db[gets[r].uid] \/ InHand(gets[r].uid)
-----------------------------------------------------------------------------
(* The cache operations keep the types of the cache. *)

CacheTypes ==
  /\ held \in [Uids -> Versions \cup {Absent}]
  /\ recency \in Seq(Uids)

LEMMA MovedToFrontType ==
  ASSUME recency \in Seq(Uids), NEW u \in Uids
  PROVE  MovedToFront(u) \in Seq(Uids)
<1>1. \A i \in 1..Len(recency) : recency[i] \in Uids
  OBVIOUS
<1>2. DEFINE at == CHOOSE i \in 1..Len(recency) : recency[i] = u
             moved == [i \in 1..Len(recency) |->
                         CASE i = 1 -> u
                           [] i > 1 /\ i <= at -> recency[i - 1]
                           [] OTHER -> recency[i]]
<1>3. MovedToFront(u) = moved
  BY DEF MovedToFront
<1>4. \A i \in 1..Len(recency) : moved[i] \in Uids
  BY <1>1
<1>5. moved \in [1..Len(recency) -> Uids]
  BY <1>4
<1>6. Len(recency) \in Nat
  OBVIOUS
<1> QED
  BY <1>3, <1>5, <1>6

LEMMA InsertType ==
  ASSUME CacheTypes, NEW u \in Uids, NEW v \in Versions, Insert(u, v)
  PROVE  CacheTypes'
<1> DEFINE grown  == <<u>> \o recency
           victim == grown[Len(grown)]
<1>1. grown \in Seq(Uids) /\ Len(grown) = Len(recency) + 1 /\ Len(recency) \in Nat
  BY DEF CacheTypes
<1>2. CASE Cardinality(Cached \cup {u}) > Capacity
  <2>1. /\ held' = [held EXCEPT ![u] = v, ![victim] = Absent]
        /\ recency' = SubSeq(grown, 1, Len(grown) - 1)
    BY <1>2 DEF Insert
  <2>2. SubSeq(grown, 1, Len(grown) - 1) \in Seq(Uids)
    BY <1>1
  <2> QED
    BY <2>1, <2>2 DEF CacheTypes
<1>3. CASE ~(Cardinality(Cached \cup {u}) > Capacity)
  BY <1>1, <1>3 DEF Insert, CacheTypes
<1> QED
  BY <1>2, <1>3

LEMMA CacheSetType ==
  ASSUME CacheTypes, NEW u \in Uids, NEW v \in Versions,
         CacheSet(u, v) \/ CacheSetIfAbsent(u, v)
  PROVE  CacheTypes'
<1>1. CASE Insert(u, v)
  BY <1>1, InsertType
<1>2. CASE held' = [held EXCEPT ![u] = v] /\ recency' = MovedToFront(u)
  BY <1>2, MovedToFrontType DEF CacheTypes
<1>3. CASE UNCHANGED cacheVars
  BY <1>3 DEF CacheTypes, cacheVars
<1> QED
  BY <1>1, <1>2, <1>3 DEF CacheSet, CacheSetIfAbsent

LEMMA ListRecentType ==
  ASSUME db \in [Uids -> Versions \cup {Absent}], ListRecent
  PROVE  /\ warmup'.listing \in Seq([uid : Uids, order : Versions])
         /\ warmup'.left \in 0..Len(warmup'.listing)
<1>1. Cardinality(Stored) \in Nat
  BY UidsAssumption, FS_Subset, FS_CardinalityType DEF Stored
<1>2. PICK s \in Listings :
        warmup' = [listing |-> [i \in DOMAIN s |-> [uid |-> s[i], order |-> db[s[i]]]],
                   left    |-> Len(s)]
  BY DEF ListRecent
<1>3. PICK n \in Nat : s \in [1..n -> Stored]
  BY <1>1, WarmupAssumption DEF Listings
<1>4. DOMAIN s = 1..n /\ Len(s) = n
  BY <1>3
<1>5. \A i \in 1..n : s[i] \in Uids /\ db[s[i]] \in Versions
  BY <1>3 DEF Stored
<1>6. [i \in DOMAIN s |-> [uid |-> s[i], order |-> db[s[i]]]]
        \in [1..n -> [uid : Uids, order : Versions]]
  BY <1>4, <1>5
<1> QED
  BY <1>2, <1>4, <1>6
-----------------------------------------------------------------------------
(* Layer 1. *)

LEMMA ServiceTypes ==
  ASSUME TypeOK, NEW u \in Uids, NEW v \in Versions, SaveInDb(u, v)
  PROVE  /\ db' \in [Uids -> Versions \cup {Absent}]
         /\ applied' \subseteq Versions
         /\ UNCHANGED <<cacheVars, gets, warmup>>
BY DEF TypeOK, SaveInDb

LEMMA MessageType ==
  ASSUME TypeOK, msg # Absent
  PROVE  /\ msg \in Versions /\ msg = <<msg[1], msg[2]>>
         /\ msg[1] \in Partitions /\ msg[2] \in 1..LogLength
BY VersionsAssumption DEF TypeOK

LEMMA TopicType ==
  ASSUME TypeOK, NEW p \in Partitions
  PROVE  /\ topic[p] \in Seq(Message) /\ Len(topic[p]) \in 0..LogLength
         /\ \A i \in 1..Len(topic[p]) : topic[p][i] \in Message
<1>1. topic \in [Partitions -> Seq(Message)] /\ Len(topic[p]) <= LogLength
  BY TopicsAssumption DEF TypeOK
<1> QED
  BY <1>1, TopicsAssumption

LEMMA UidType ==
  ASSUME TypeInv, msg # Absent
  PROVE  UidOf(msg) \in Uids
BY MessageType, TopicType DEF TypeInv, ControlInv, UidOf, Message

LEMMA FaultType ==
  ASSUME TypeOK, UNCHANGED faults \/ Fault
  PROVE  faults' \in 0..MaxFaults
BY FaultsAssumption DEF TypeOK, Fault

LEMMA ElementType ==
  ASSUME NEW S, NEW s \in Seq(S), NEW i \in 1..Len(s)
  PROVE  s[i] \in S
OBVIOUS

LEMMA ListingType ==
  ASSUME TypeOK, NEW i \in 1..Len(warmup.listing)
  PROVE  /\ warmup.listing[i].uid \in Uids
         /\ warmup.listing[i].order \in Versions
<1> DEFINE Row == [uid : Uids, order : Versions]
<1>1. warmup.listing \in Seq(Row)
  BY DEF TypeOK
<1>2. warmup.listing[i] \in Row
  BY <1>1, ElementType
<1> QED
  BY <1>2

LEMMA TypeInit == Init => TypeInv
<1> SUFFICES ASSUME Init PROVE TypeInv
  OBVIOUS
<1> USE DEF Init, ServiceInit, CacheInit, NoWarmup, NoGet
<1>1. TypeOK
  <2>1. gets \in [Readers -> GetStates]
    BY DEF GetStates
  <2> QED
    BY <2>1, TopicsAssumption, AttemptsAssumption, FaultsAssumption DEF TypeOK
<1>2. ControlInv
  BY DEF ControlInv
<1> QED
  BY <1>1, <1>2 DEF TypeInv

LEMMA TypeStep == TypeInv /\ [Next]_vars => TypeInv'
<1> SUFFICES ASSUME TypeInv, [Next]_vars PROVE TypeInv'
  OBVIOUS
<1> USE DEF TypeInv
<1>c. CacheTypes
  BY DEF TypeOK, CacheTypes
<1>1. CASE Start
  <2>1. ListRecent /\ UNCHANGED <<cacheVars, storeVars, gets, kafkaVars, consumerVars, faults>>
        /\ proc' = "starting" /\ pc = "done" /\ msg = Absent
    BY <1>1 DEF Start, ListRecent, ControlInv
  <2>2. TypeOK'
    BY <2>1, ListRecentType
    DEF TypeOK, cacheVars, storeVars, kafkaVars, consumerVars
  <2>3. ControlInv'
    BY <2>1 DEF ControlInv, consumerVars, kafkaVars
  <2> QED
    BY <2>2, <2>3
<1>2. CASE WarmStep
  <2> DEFINE row == warmup.listing[warmup.left]
  <2>1. /\ warmup.left > 0 /\ CacheSet(row.uid, row.order)
        /\ warmup' = [warmup EXCEPT !.left = @ - 1]
        /\ UNCHANGED <<storeVars, gets, kafkaVars, consumerVars, proc, faults>>
    BY <1>2 DEF WarmStep, WarmOne
  <2>2. row.uid \in Uids /\ row.order \in Versions
    <3>1. warmup.left \in 1..Len(warmup.listing)
      BY <2>1 DEF TypeOK
    <3> QED
      BY <3>1, ListingType
  <2>3. CacheTypes'
    BY <1>c, <2>1, <2>2, CacheSetType
  <2>4. warmup'.listing = warmup.listing /\ warmup'.left \in 0..Len(warmup'.listing)
    BY <2>1 DEF TypeOK
  <2>5. TypeOK'
    BY <2>1, <2>3, <2>4 DEF TypeOK, CacheTypes, storeVars, kafkaVars, consumerVars
  <2>6. ControlInv'
    BY <2>1 DEF ControlInv, kafkaVars, consumerVars
  <2> QED
    BY <2>5, <2>6
<1>3. CASE Serve
  BY <1>3 DEF Serve, TypeOK, ControlInv, cacheVars, storeVars, NoWarmup
<1>4. CASE Stop
  BY <1>4, FaultType DEF Stop, TypeOK, ControlInv, serviceVars, cacheVars, storeVars,
              kafkaVars, consumerVars
<1>5. CASE ProcessGone /\ (UNCHANGED faults \/ Fault)
  <2>1. gets' \in [Readers -> GetStates] /\ \A r \in Readers : gets'[r] = NoGet
    BY <1>5 DEF ProcessGone, ServiceLost, NoGet, GetStates
  <2>2. TypeOK'
    BY <1>5, <2>1, AttemptsAssumption, FaultType
    DEF ProcessGone, ServiceLost, NoWarmup, TypeOK, kafkaVars, storeVars
  <2>3. ControlInv'
    BY <1>5, <2>1 DEF ProcessGone, NoGet, ControlInv
  <2> QED
    BY <2>2, <2>3
<1>6. ASSUME NEW p \in Partitions, Fetch(p) PROVE TypeInv'
  <2>1. position[p] + 1 \in 1..LogLength /\ position[p] + 1 <= Len(topic[p])
    BY <1>6, TopicType, TopicsAssumption DEF Fetch, TypeOK
  <2>2. <<p, position[p] + 1>> \in Versions
    BY <2>1, VersionsAssumption
  <2>3. position' \in [Partitions -> 0..LogLength]
    BY <1>6, <2>1, TopicsAssumption DEF Fetch, TypeOK
  <2>4. msg' \in Versions /\ msg' # Absent /\ attempt' \in 0..MaxAttempts
    BY <1>6, <2>2, AbsentAssumption, AttemptsAssumption DEF Fetch
  <2>5. TypeOK'
    BY <1>6, <2>3, <2>4 DEF Fetch, TypeOK, serviceVars, cacheVars, storeVars
  <2>6. ControlInv'
    BY <1>6, <2>1
    DEF Fetch, Running, ControlInv, serviceVars, cacheVars, storeVars
  <2> QED
    BY <2>5, <2>6
<1>7. CASE FetchFails \/ BackoffCancelled \/ SaveRefused
  BY <1>7, FaultType DEF FetchFails, BackoffCancelled, SaveRefused, ConsumerReturns,
    Running, TypeOK, ControlInv, serviceVars, cacheVars, storeVars, kafkaVars
<1>8. CASE SaveStores
  <2>1. UidOf(msg) \in Uids /\ msg \in Versions
    BY <1>8, UidType, MessageType DEF SaveStores, TypeOK
  <2>2. TypeOK'
    BY <1>8, <2>1, ServiceTypes DEF SaveStores, TypeOK, cacheVars, kafkaVars
  <2>3. ControlInv'
    BY <1>8, <2>1, ServiceTypes DEF SaveStores, Running, ControlInv, kafkaVars
  <2> QED
    BY <2>2, <2>3
<1>9. CASE SaveCaches
  <2>1. UidOf(msg) \in Uids /\ msg \in Versions
    BY <1>9, UidType, MessageType DEF SaveCaches, TypeOK
  <2>2. CacheTypes'
    BY <1>9, <1>c, <2>1, CacheSetType DEF SaveCaches, SaveInCache
  <2>3. TypeOK'
    BY <1>9, <2>2 DEF SaveCaches, SaveInCache, CacheTypes, TypeOK, storeVars, kafkaVars
  <2>4. ControlInv'
    BY <1>9 DEF SaveCaches, SaveInCache, Running, ControlInv, kafkaVars
  <2> QED
    BY <2>3, <2>4
<1>10. CASE SaveRetries \/ SaveGivesUp
  <2>1. pc = "save" /\ MaybeStored
    BY <1>10 DEF SaveRetries, SaveGivesUp
  <2>2. UidOf(msg) \in Uids /\ msg \in Versions
    BY <2>1, UidType, MessageType DEF TypeOK
  <2>3. /\ db' \in [Uids -> Versions \cup {Absent}] /\ applied' \subseteq Versions
        /\ UNCHANGED <<cacheVars, gets, warmup>>
    BY <2>1, <2>2, ServiceTypes DEF MaybeStored, TypeOK, serviceVars, storeVars
  <2>4. TypeOK'
    BY <1>10, <2>3, FaultType
    DEF SaveRetries, SaveGivesUp, ConsumerReturns, TypeOK, cacheVars, kafkaVars
  <2>5. ControlInv'
    BY <1>10, <2>3
    DEF SaveRetries, SaveGivesUp, ConsumerReturns, Running, ControlInv, kafkaVars
  <2> QED
    BY <2>4, <2>5
<1>11. CASE BackoffElapses
  <2>1. attempt + 1 \in 0..MaxAttempts
    BY <1>11, AttemptsAssumption DEF BackoffElapses, TypeOK, ControlInv
  <2> QED
    BY <1>11, <2>1 DEF BackoffElapses, Running, TypeOK, ControlInv,
      serviceVars, cacheVars, storeVars, kafkaVars
<1>12. CASE CommitSucceeds \/ CommitFails
  <2>1. pc = "commit" /\ msg[1] \in Partitions /\ msg[2] \in 1..LogLength
    BY <1>12, MessageType DEF CommitSucceeds, CommitFails, TypeOK
  <2>2. committed' \in [Partitions -> 0..LogLength]
    <3>1. committed \in [Partitions -> 0..LogLength]
      BY DEF TypeOK
    <3>2. msg[2] \in 0..LogLength
      BY <2>1, TopicsAssumption
    <3>3. OffsetCommitted \/ UNCHANGED committed
      BY <1>12 DEF CommitSucceeds, CommitFails
    <3> QED
      BY <2>1, <3>1, <3>2, <3>3 DEF OffsetCommitted
  <2>3. TypeOK'
    BY <1>12, <2>2, AttemptsAssumption, FaultType
    DEF CommitSucceeds, CommitFails, ConsumerReturns, TypeOK, serviceVars, cacheVars, storeVars
  <2>4. ControlInv'
    BY <1>12 DEF CommitSucceeds, CommitFails, ConsumerReturns, Running,
      ControlInv, serviceVars, cacheVars, storeVars
  <2> QED
    BY <2>3, <2>4
<1>13. CASE Rejoin
  BY <1>13, FaultType DEF Rejoin, Running, TypeOK, ControlInv, serviceVars, cacheVars,
               storeVars, consumerVars
<1>14. ASSUME NEW r \in Readers, Request(r) PROVE TypeInv'
  <2>1. ASSUME CacheTypes', gets' \in [Readers -> GetStates],
               gets'[r].pc # "idle" => gets'[r].uid \in Uids,
               gets'[r].pc = "fill" => gets'[r].got \in Versions,
               \A q \in Readers \ {r} : gets'[q] = gets[q],
               UNCHANGED <<storeVars, warmup>>
        PROVE  TypeInv'
    <3>1. UNCHANGED <<kafkaVars, consumerVars, proc, faults>>
      BY <1>14 DEF Request
    <3>2. TypeOK'
      BY <2>1, <3>1 DEF TypeOK, CacheTypes, storeVars, kafkaVars, consumerVars
    <3>3. ControlInv'
      BY <2>1, <3>1 DEF ControlInv, kafkaVars, consumerVars
    <3> QED
      BY <3>2, <3>3
  <2>2. ASSUME NEW u \in Uids, GetHit(r, u) PROVE TypeInv'
    <3>1. CacheTypes'
      BY <1>c, <2>2, MovedToFrontType DEF GetHit, CacheGetHit, CacheTypes
    <3> QED
      BY <2>1, <2>2, <3>1 DEF GetHit, TypeOK, ControlInv
  <2>3. ASSUME NEW u \in Uids, GetMiss(r, u) PROVE TypeInv'
    BY <1>c, <2>1, <2>3
    DEF GetMiss, CacheGetMiss, CacheTypes, cacheVars, TypeOK, ControlInv, GetStates
  <2>4. CASE GetFound(r)
    <3>1. gets[r].uid \in Uids /\ db[gets[r].uid] \in Versions
      BY <2>4 DEF GetFound, Stored, ControlInv, TypeOK
    <3> DEFINE g == [pc |-> "fill", uid |-> gets[r].uid, got |-> db[gets[r].uid]]
    <3>2. gets' = [gets EXCEPT ![r] = g]
      BY <2>4 DEF GetFound
    <3>3. g \in GetStates
      BY <3>1 DEF GetStates
    <3>4. gets' \in [Readers -> GetStates] /\ gets'[r] = g
      BY <3>2, <3>3 DEF TypeOK
    <3> QED
      BY <1>c, <2>1, <2>4, <3>1, <3>2, <3>4 DEF GetFound, CacheTypes, cacheVars, TypeOK
  <2>5. CASE GetFails(r)
    BY <1>c, <2>1, <2>5
    DEF GetFails, CacheTypes, cacheVars, TypeOK, NoGet, GetStates
  <2>6. CASE GetFill(r)
    <3>1. gets[r].uid \in Uids /\ gets[r].got \in Versions
      BY <2>6 DEF GetFill, ControlInv
    <3>2. CacheTypes'
      BY <1>c, <2>6, <3>1, CacheSetType DEF GetFill
    <3> QED
      BY <2>1, <2>6, <3>2 DEF GetFill, TypeOK, NoGet, GetStates
  <2> QED
    BY <1>14, <2>2, <2>3, <2>4, <2>5, <2>6 DEF Request
<1>15. CASE UNCHANGED vars
  BY <1>15 DEF vars, TypeOK, ControlInv, serviceVars, cacheVars, storeVars,
               kafkaVars, consumerVars
<1> QED
  BY <1>1, <1>2, <1>3, <1>4, <1>5, <1>6, <1>7, <1>8, <1>9, <1>10, <1>11, <1>12,
     <1>13, <1>14, <1>15
  DEF Next, Consume, Disturb, Exit, Crash

-----------------------------------------------------------------------------
(* Layer 2. *)

LEMMA OffsetStep == TypeInv /\ OffsetInv /\ [Next]_vars => OffsetInv'
<1> SUFFICES ASSUME TypeInv, OffsetInv, [Next]_vars PROVE OffsetInv'
  OBVIOUS
<1>t. /\ committed \in [Partitions -> 0..LogLength]
      /\ position \in [Partitions -> 0..LogLength]
      /\ \A p \in Partitions : Len(topic[p]) \in 0..LogLength
  BY TopicType DEF TypeInv, TypeOK
<1>1. ASSUME UNCHANGED <<topic, committed, position, msg>>, Running' => Running
      PROVE  OffsetInv'
  BY <1>1 DEF OffsetInv, Lag
<1>2. ASSUME UNCHANGED <<topic, committed>>, ~Running'
      PROVE  OffsetInv'
  BY <1>2 DEF OffsetInv
<1>3. CASE Start \/ WarmStep \/ Exit \/ Crash
  BY <1>2, <1>3 DEF Start, WarmStep, Exit, Crash, ProcessGone, Running, kafkaVars
<1>4. CASE Stop \/ FetchFails \/ BackoffElapses \/ BackoffCancelled
  BY <1>1, <1>4 DEF Stop, FetchFails, BackoffElapses, BackoffCancelled,
    ConsumerReturns, Running, kafkaVars, consumerVars
<1>5. CASE SaveStores \/ SaveCaches \/ SaveRefused \/ SaveRetries \/ SaveGivesUp
  BY <1>1, <1>5 DEF SaveStores, SaveCaches, SaveRefused, SaveRetries, SaveGivesUp,
    ConsumerReturns, Running, kafkaVars
<1>6. ASSUME NEW r \in Readers, Request(r) PROVE OffsetInv'
  BY <1>1, <1>6 DEF Request, Running, kafkaVars, consumerVars
<1>7. CASE UNCHANGED vars
  BY <1>1, <1>7 DEF vars, Running, kafkaVars, consumerVars
<1>8. CASE Serve
  <2>1. msg = Absent /\ msg' = Absent /\ position' = committed
        /\ UNCHANGED <<topic, committed>>
    BY <1>8 DEF Serve, TypeInv, ControlInv
  <2> QED
    BY <1>t, <2>1 DEF OffsetInv, Lag
<1>9. ASSUME NEW p \in Partitions, Fetch(p) PROVE OffsetInv'
  <2>1. /\ Running /\ msg = Absent /\ msg' = <<p, position[p] + 1>>
        /\ position' = [position EXCEPT ![p] = @ + 1]
        /\ UNCHANGED <<topic, committed>>
    BY <1>9 DEF Fetch, TypeInv, ControlInv
  <2>2. \A q \in Partitions : position[q] \in {committed[q] - 1, committed[q]}
    BY <2>1 DEF OffsetInv, Lag
  <2>3. ASSUME NEW q \in Partitions PROVE Lag(q)'
    <3>1. position[q] \in 0..LogLength /\ committed[q] \in 0..LogLength
      BY <1>t
    <3>2. msg' # Absent /\ msg'[1] = p /\ msg'[2] = position[p] + 1
      BY <1>9, <2>1, TypeStep DEF Fetch, TypeInv, TypeOK
    <3>3. CASE q = p
      BY <1>t, <2>1, <2>2, <3>1, <3>2, <3>3 DEF Lag
    <3>4. CASE q # p
      BY <1>t, <2>1, <2>2, <3>1, <3>2, <3>4 DEF Lag
    <3> QED
      BY <3>3, <3>4
  <2> QED
    BY <2>1, <2>3 DEF OffsetInv
<1>10. CASE Rejoin
  <2>1. Running /\ position' = committed /\ UNCHANGED <<topic, committed, msg>>
    BY <1>10 DEF Rejoin, consumerVars
  <2>2. ASSUME NEW q \in Partitions PROVE Lag(q)'
    <3>1. Lag(q)
      BY <2>1 DEF OffsetInv
    <3> QED
      BY <1>t, <2>1, <3>1 DEF Lag
  <2> QED
    BY <2>1, <2>2 DEF OffsetInv
<1>11. CASE CommitSucceeds \/ CommitFails
  <2>1. /\ Running /\ msg # Absent /\ UNCHANGED <<topic, position>>
        /\ \/ OffsetCommitted /\ (msg' = Absent \/ msg' = msg)
           \/ UNCHANGED <<committed, msg>>
    BY <1>11 DEF CommitSucceeds, CommitFails, TypeInv, TypeOK
  <2>2. msg[1] \in Partitions /\ msg[2] \in 1..LogLength /\ msg[2] <= Len(topic[msg[1]])
    BY <2>1, MessageType DEF TypeInv, ControlInv
  <2>3. \A q \in Partitions : committed'[q] <= Len(topic'[q])
    BY <1>t, <2>1, <2>2 DEF OffsetInv, OffsetCommitted
  <2>4. ASSUME NEW q \in Partitions PROVE Lag(q)'
    <3>1. Lag(q)
      BY <2>1 DEF OffsetInv
    <3>2. CASE UNCHANGED <<committed, msg>>
      BY <2>1, <3>1, <3>2 DEF Lag
    <3>3. CASE OffsetCommitted /\ q = msg[1]
      BY <1>t, <2>1, <2>2, <3>1, <3>3 DEF Lag, OffsetCommitted
    <3>4. CASE OffsetCommitted /\ q # msg[1]
      BY <1>t, <2>1, <2>2, <3>1, <3>4 DEF Lag, OffsetCommitted
    <3> QED
      BY <2>1, <3>2, <3>3, <3>4
  <2> QED
    BY <2>3, <2>4 DEF OffsetInv
<1> QED
  BY <1>3, <1>4, <1>5, <1>6, <1>7, <1>8, <1>9, <1>10, <1>11 DEF Next, Consume, Disturb

-----------------------------------------------------------------------------
(* Layer 3. *)

(* Storing the message in hand keeps what is known of the stored versions. *)
LEMMA StoreKeeps ==
  ASSUME TypeInv, OffsetInv, StoredInv, Running, msg # Absent,
         applied' = applied \cup {msg}, UNCHANGED <<topic, committed, position, msg>>
  PROVE  /\ NoAckedOrderLost'
         /\ \A v \in applied' : v[2] <= committed'[v[1]] + 1
         /\ \A v \in applied' : v[2] = committed'[v[1]] + 1 =>
              /\ position'[v[1]] >= committed'[v[1]]
              /\ msg' # Absent /\ msg'[1] = v[1] => msg'[2] = v[2]
<1>1. Lag(msg[1]) /\ msg[1] \in Partitions /\ msg[2] \in 1..LogLength
  BY MessageType DEF OffsetInv, TypeInv
<1>2. committed[msg[1]] \in Nat /\ position[msg[1]] \in Nat /\ msg[2] \in Nat
  BY <1>1, TopicsAssumption DEF TypeInv, TypeOK
<1>3. msg[2] <= committed[msg[1]] + 1
  BY <1>1, <1>2 DEF Lag
<1>4. msg[2] = committed[msg[1]] + 1 => position[msg[1]] >= committed[msg[1]]
  BY <1>1, <1>2 DEF Lag
<1> QED
  BY <1>3, <1>4 DEF StoredInv, NoAckedOrderLost

LEMMA StoredStep == TypeInv /\ OffsetInv /\ StoredInv /\ [Next]_vars => StoredInv'
<1> SUFFICES ASSUME TypeInv, OffsetInv, StoredInv, [Next]_vars PROVE StoredInv'
  OBVIOUS
<1>t. /\ committed \in [Partitions -> 0..LogLength]
      /\ position \in [Partitions -> 0..LogLength]
      /\ \A p \in Partitions : Len(topic[p]) \in 0..LogLength
      /\ \A v \in applied : v[1] \in Partitions /\ v[2] \in 1..LogLength
  BY TopicType, VersionsAssumption DEF TypeInv, TypeOK
<1>1. ASSUME UNCHANGED <<topic, committed, position, msg, applied>>,
             Running' => Running,
             pc' \in {"cache", "commit"} /\ KindOf(msg) = "valid" => pc \in {"cache", "commit"},
             pc' = "cache" => pc = "cache"
      PROVE  StoredInv'
  BY <1>1 DEF StoredInv, NoAckedOrderLost, KindOf
<1>2. ASSUME UNCHANGED <<topic, committed, applied>>, ~Running', pc' = "done"
      PROVE  StoredInv'
  BY <1>2 DEF StoredInv, NoAckedOrderLost
<1>3. CASE Start \/ WarmStep \/ Exit \/ Crash
  BY <1>2, <1>3 DEF Start, WarmStep, Exit, Crash, ProcessGone, Running, kafkaVars,
    ListRecent, WarmOne, ServiceLost, storeVars, consumerVars, TypeInv, ControlInv
<1>4. CASE Stop \/ FetchFails \/ BackoffElapses \/ BackoffCancelled \/ SaveRefused
  BY <1>1, <1>4 DEF Stop, FetchFails, BackoffElapses, BackoffCancelled, SaveRefused,
    ConsumerReturns, Running, kafkaVars, consumerVars, serviceVars, storeVars
<1>5. CASE SaveCaches
  BY <1>1, <1>5 DEF SaveCaches, SaveInCache, Running, kafkaVars, storeVars
<1>6. ASSUME NEW r \in Readers, Request(r) PROVE StoredInv'
  BY <1>1, <1>6 DEF Request, GetHit, GetMiss, GetFound, GetFails, GetFill,
    Running, kafkaVars, consumerVars, storeVars
<1>7. CASE UNCHANGED vars
  BY <1>1, <1>7 DEF vars, Running, kafkaVars, consumerVars, serviceVars, storeVars
<1>8. CASE SaveStores \/ SaveRetries \/ SaveGivesUp
  <2>1. /\ Running /\ msg # Absent /\ UNCHANGED <<topic, committed, position, msg>>
        /\ pc' \in {"backoff", "done"} \/ SaveStores
    BY <1>8 DEF SaveStores, SaveRetries, SaveGivesUp, ConsumerReturns, Running,
      kafkaVars, TypeInv, TypeOK
  <2>2. CASE UNCHANGED applied /\ pc' \in {"backoff", "done"}
    BY <1>1, <2>1, <2>2
  <2>3. CASE applied' = applied \cup {msg} /\ pc' \in {"backoff", "done"}
    BY <2>1, <2>3, StoreKeeps DEF StoredInv
  <2>4. CASE SaveStores
    <3>1. applied' = applied \cup {msg} /\ pc' = "cache" /\ KindOf(msg) = "valid"
      BY <2>4 DEF SaveStores, SaveInDb
    <3> QED
      BY <2>1, <3>1, StoreKeeps DEF StoredInv, KindOf
  <2> QED
    BY <1>8, <2>1, <2>2, <2>3, <2>4
    DEF SaveRetries, SaveGivesUp, MaybeStored, SaveInDb, serviceVars, storeVars
<1>9. CASE Serve
  <2>1. /\ msg' = Absent /\ position' = committed /\ pc' = "fetch"
        /\ UNCHANGED <<topic, committed, applied>>
    BY <1>9 DEF Serve, TypeInv, ControlInv, storeVars
  <2> QED
    BY <1>t, <2>1 DEF StoredInv, NoAckedOrderLost
<1>10. ASSUME NEW p \in Partitions, Fetch(p) PROVE StoredInv'
  <2>1. /\ Running /\ msg = Absent /\ msg' = <<p, position[p] + 1>>
        /\ position' = [position EXCEPT ![p] = @ + 1]
        /\ UNCHANGED <<topic, committed, applied>>
        /\ pc' = "save" \/ (pc' = "commit" /\ KindOf(msg') = "invalid")
    BY <1>10 DEF Fetch, TypeInv, ControlInv, serviceVars, storeVars, KindOf
  <2>2. position[p] \in {committed[p] - 1, committed[p]}
    BY <2>1 DEF OffsetInv, Lag
  <2>3. ASSUME NEW v \in applied, v[2] = committed[v[1]] + 1
        PROVE  position'[v[1]] >= committed[v[1]] /\ (p = v[1] => msg'[2] = v[2])
    BY <1>t, <2>1, <2>2, <2>3 DEF StoredInv
  <2> QED
    BY <2>1, <2>3 DEF StoredInv, NoAckedOrderLost, KindOf
<1>11. CASE Rejoin
  <2>1. Running /\ position' = committed /\ UNCHANGED <<topic, committed, applied, pc, msg>>
    BY <1>11 DEF Rejoin, consumerVars, serviceVars, storeVars
  <2> QED
    BY <1>t, <2>1 DEF StoredInv, NoAckedOrderLost, KindOf
<1>12. CASE CommitSucceeds \/ CommitFails
  <2>1. /\ Running /\ pc = "commit" /\ msg # Absent
        /\ UNCHANGED <<topic, position, applied>>
        /\ pc' \in {"fetch", "done"}
        /\ msg' = Absent \/ msg' = msg
    BY <1>12 DEF CommitSucceeds, CommitFails, ConsumerReturns, TypeInv, TypeOK,
      serviceVars, storeVars
  <2>2. CASE UNCHANGED <<committed, msg>>
    BY <1>1, <2>1, <2>2, <1>12 DEF CommitSucceeds, CommitFails, ConsumerReturns, Running
  <2>3. CASE OffsetCommitted
    <3> DEFINE p == msg[1]
               i == msg[2]
    <3>1. p \in Partitions /\ i \in 1..LogLength /\ msg = <<p, i>>
      BY <2>1, MessageType DEF TypeInv
    <3>2. committed[p] \in {i - 1, i}
      BY <2>1, <3>1 DEF OffsetInv, Lag
    <3>3. committed' = [committed EXCEPT ![p] = i]
      BY <2>3 DEF OffsetCommitted
    <3>4. NoAckedOrderLost'
      <4>1. topic[p][i].kind = "valid" => <<p, i>> \in applied
        BY <2>1, <3>1 DEF StoredInv, KindOf
      <4>2. ASSUME NEW q \in Partitions, NEW j \in 1..committed'[q],
                   topic'[q][j].kind = "valid"
            PROVE  <<q, j>> \in applied'
        <5>1. CASE j \in 1..committed[q]
          BY <2>1, <4>2, <5>1 DEF StoredInv, NoAckedOrderLost
        <5>2. CASE j \notin 1..committed[q]
          <6>1. q = p /\ j = i
            BY <1>t, <3>1, <3>2, <3>3, <4>2, <5>2
          <6> QED
            BY <2>1, <4>1, <4>2, <6>1
        <5> QED
          BY <5>1, <5>2
      <4> QED
        BY <4>2 DEF NoAckedOrderLost
    <3>5. ASSUME NEW v \in applied, v[1] = p PROVE v[2] <= i
      <4>1. v[2] <= committed[p] + 1 /\ (v[2] = committed[p] + 1 => i = v[2])
        BY <2>1, <3>5 DEF StoredInv
      <4> QED
        BY <1>t, <3>1, <3>2, <3>5, <4>1
    <3>6. ASSUME NEW v \in applied
          PROVE  /\ v[2] <= committed'[v[1]] + 1
                 /\ v[2] = committed'[v[1]] + 1 =>
                      /\ position'[v[1]] >= committed'[v[1]]
                      /\ msg' # Absent /\ msg'[1] = v[1] => msg'[2] = v[2]
      <4>1. CASE v[1] = p
        BY <1>t, <3>1, <3>3, <3>5, <4>1
      <4>2. CASE v[1] # p
        BY <1>t, <2>1, <3>1, <3>3, <4>2 DEF StoredInv
      <4> QED
        BY <4>1, <4>2
    <3> QED
      BY <2>1, <3>4, <3>6 DEF StoredInv
  <2> QED
    BY <1>12, <2>2, <2>3 DEF CommitSucceeds, CommitFails
<1> QED
  BY <1>3, <1>4, <1>5, <1>6, <1>7, <1>8, <1>9, <1>10, <1>11, <1>12
  DEF Next, Consume, Disturb

-----------------------------------------------------------------------------
(* Layer 4. *)

(* Storing u touches no other uid, except that it may evict one. *)
LEMMA CacheEffect ==
  ASSUME CacheTypes, NEW u \in Uids, NEW v \in Versions,
         CacheSet(u, v) \/ CacheSetIfAbsent(u, v)
  PROVE  \A w \in Uids : held'[w] \in {held[w], Absent} \/ (w = u /\ held'[w] = v)
<1>1. CASE Insert(u, v)
  <2>1. PICK victim :
          \/ held' = [held EXCEPT ![u] = v, ![victim] = Absent]
          \/ held' = [held EXCEPT ![u] = v]
    BY <1>1 DEF Insert
  <2> QED
    BY <2>1 DEF CacheTypes
<1>2. CASE held' = [held EXCEPT ![u] = v]
  BY <1>2 DEF CacheTypes
<1>3. CASE UNCHANGED held
  BY <1>3
<1> QED
  BY <1>1, <1>2, <1>3 DEF CacheSet, CacheSetIfAbsent, cacheVars

(* The only writes to the database are those of the message in hand. *)
LEMMA StoreStep ==
  ASSUME TypeInv, [Next]_vars
  PROVE  /\ topic' = topic
         /\ \/ UNCHANGED storeVars
            \/ /\ Running /\ pc = "save" /\ msg # Absent /\ KindOf(msg) = "valid"
               /\ SaveInDb(UidOf(msg), msg)
               /\ msg' = msg /\ committed' = committed
               /\ pc' \in {"cache", "backoff", "done"}
<1> USE DEF storeVars, serviceVars, kafkaVars
<1>1. CASE Start \/ WarmStep \/ Serve \/ Stop \/ Exit \/ Crash
  BY <1>1 DEF Start, WarmStep, Serve, Stop, Exit, Crash, ProcessGone, ListRecent,
    WarmOne, ServiceLost
<1>2. CASE \/ \E p \in Partitions : Fetch(p)
           \/ FetchFails \/ SaveCaches \/ SaveRefused \/ BackoffElapses
           \/ BackoffCancelled \/ CommitSucceeds \/ CommitFails \/ Rejoin
  BY <1>2 DEF Fetch, FetchFails, SaveCaches, SaveInCache, SaveRefused, BackoffElapses,
    BackoffCancelled, CommitSucceeds, CommitFails, Rejoin
<1>3. CASE SaveStores \/ SaveRetries \/ SaveGivesUp
  BY <1>3 DEF SaveStores, SaveRetries, SaveGivesUp, MaybeStored, ConsumerReturns,
    Running, TypeInv, TypeOK
<1>4. ASSUME NEW r \in Readers, Request(r)
      PROVE  topic' = topic /\ UNCHANGED storeVars
  BY <1>4 DEF Request, GetHit, GetMiss, GetFound, GetFails, GetFill
<1>5. CASE UNCHANGED vars
  BY <1>5 DEF vars
<1> QED
  BY <1>1, <1>2, <1>3, <1>4, <1>5 DEF Next, Consume, Disturb

LEMMA CopiesStep == TypeInv /\ StoredInv /\ CopiesInv /\ [Next]_vars => CopiesInv'
<1> SUFFICES ASSUME TypeInv, StoredInv, CopiesInv, [Next]_vars PROVE CopiesInv'
  OBVIOUS
<1> DEFINE Good(x, u) == x \in applied /\ UidOf(x) = u
<1>c. CacheTypes
  BY DEF TypeInv, TypeOK, CacheTypes
<1>m. /\ \A x, u : Good(x, u) => Good(x, u)'
      /\ db' \in [Uids -> Versions \cup {Absent}]
  BY StoreStep, TypeStep DEF SaveInDb, storeVars, UidOf, TypeInv, TypeOK
<1>d. \A u \in Stored' : Good(db[u], u)' \/ db'[u] = db[u]
  <2>1. CASE UNCHANGED storeVars
    BY <2>1 DEF storeVars, TypeInv, TypeOK
  <2>2. CASE SaveInDb(UidOf(msg), msg) /\ topic' = topic
    <3>1. db' = [db EXCEPT ![UidOf(msg)] = msg] /\ msg \in applied'
      BY <2>2 DEF SaveInDb
    <3>2. \A u \in Uids : db'[u] = IF u = UidOf(msg) THEN msg ELSE db[u]
      BY <3>1 DEF TypeInv, TypeOK
    <3> QED
      BY <2>2, <3>1, <3>2 DEF Stored, UidOf
  <2> QED
    BY <2>1, <2>2, StoreStep
<1>s. \A u \in Stored' : Good(db[u], u)'
  BY <1>m, <1>d DEF CopiesInv, Stored
<1>1. ASSUME \A u \in Uids : held'[u] \in {held[u], Absent} \/ Good(held'[u], u),
             \A r \in Readers : gets'[r] \in {gets[r], NoGet},
             \A i \in 1..Len(warmup'.listing) : warmup'.listing[i] = warmup.listing[i],
             Len(warmup'.listing) \in {0, Len(warmup.listing)}
      PROVE  CopiesInv'
  <2>1. ASSUME NEW u \in Cached' PROVE Good(held[u], u)'
    BY <1>1, <1>m, <2>1, StoreStep DEF CopiesInv, CacheWasCommitted, Cached, UidOf
  <2>2. ASSUME NEW r \in Readers, gets'[r].got # Absent
        PROVE  Good(gets[r].got, gets[r].uid)'
    BY <1>1, <1>m, <2>2 DEF CopiesInv, CacheWasCommitted, NoGet
  <2>3. ASSUME NEW i \in 1..Len(warmup'.listing)
        PROVE  Good(warmup.listing[i].order, warmup.listing[i].uid)'
    BY <1>1, <1>m, <2>3 DEF CopiesInv
  <2> QED
    BY <1>s, <2>1, <2>2, <2>3 DEF CopiesInv, CacheWasCommitted
<1>2. CASE Start
  <2>1. PICK s \in Listings : warmup' =
          [listing |-> [i \in DOMAIN s |-> [uid |-> s[i], order |-> db[s[i]]]],
           left    |-> Len(s)]
    BY <1>2 DEF Start, ListRecent
  <2>2. Cardinality(Stored) \in Nat
    BY UidsAssumption, FS_Subset, FS_CardinalityType DEF Stored
  <2>3. PICK n \in Nat : s \in [1..n -> Stored]
    BY <2>2, WarmupAssumption DEF Listings
  <2>4. Len(warmup'.listing) = n
    BY <2>1, <2>3
  <2>5. ASSUME NEW i \in 1..n
        PROVE  Good(warmup.listing[i].order, warmup.listing[i].uid)'
    <3>1. warmup'.listing[i] = [uid |-> s[i], order |-> db[s[i]]] /\ s[i] \in Stored
      BY <2>1, <2>3
    <3> QED
      BY <1>m, <3>1 DEF CopiesInv
  <2>6. CacheWasCommitted'
    BY <1>2, <1>m DEF Start, ListRecent, cacheVars, CopiesInv, CacheWasCommitted, Cached
  <2> QED
    BY <1>s, <2>4, <2>5, <2>6 DEF CopiesInv
<1>3. CASE WarmStep
  <2> DEFINE row == warmup.listing[warmup.left]
  <2>1. /\ warmup.left \in 1..Len(warmup.listing)
        /\ CacheSet(row.uid, row.order) /\ UNCHANGED <<storeVars, gets, topic>>
        /\ warmup' = [warmup EXCEPT !.left = @ - 1]
    BY <1>3 DEF WarmStep, WarmOne, TypeInv, TypeOK, kafkaVars
  <2>2. row.uid \in Uids /\ row.order \in Versions
    BY <2>1, ListingType DEF TypeInv
  <2>3. Good(row.order, row.uid)
    BY <2>1 DEF CopiesInv
  <2>4. \A u \in Uids : held'[u] \in {held[u], Absent} \/ Good(held'[u], u)
    BY <1>c, <2>1, <2>2, <2>3, CacheEffect
  <2>5. warmup'.listing = warmup.listing
    BY <2>1 DEF TypeInv, TypeOK
  <2> QED
    BY <1>1, <2>1, <2>4, <2>5
<1>4. CASE SaveCaches
  <2>1. UidOf(msg) \in Uids /\ msg \in Versions /\ Good(msg, UidOf(msg))
    BY <1>4, UidType, MessageType DEF SaveCaches, TypeInv, TypeOK, StoredInv
  <2>2. \A u \in Uids : held'[u] \in {held[u], Absent} \/ Good(held'[u], u)
    BY <1>c, <1>4, <2>1, CacheEffect DEF SaveCaches, SaveInCache
  <2> QED
    BY <1>1, <1>4, <2>2 DEF SaveCaches, SaveInCache
<1>5. ASSUME UNCHANGED <<cacheVars, gets, warmup>> PROVE CopiesInv'
  BY <1>1, <1>5 DEF cacheVars
<1>6. CASE ServiceLost
  BY <1>1, <1>6 DEF ServiceLost, NoWarmup
<1>7. CASE Serve
  BY <1>1, <1>7 DEF Serve, NoWarmup, cacheVars
<1>8. ASSUME NEW r \in Readers, Request(r) PROVE CopiesInv'
  <2>1. CASE \E u \in Uids : GetHit(r, u)
    BY <1>1, <2>1 DEF GetHit, CacheGetHit
  <2>2. ASSUME NEW g, gets' = [gets EXCEPT ![r] = g], g.got = Absent \/ Good(g.got, g.uid),
               UNCHANGED <<cacheVars, warmup, storeVars>>
        PROVE  CopiesInv'
    <3>1. \A q \in Readers : gets'[q] = IF q = r THEN g ELSE gets[q]
      BY <2>2 DEF TypeInv, TypeOK
    <3>2. CacheWasCommitted'
      BY <1>m, <2>2, <3>1 DEF CopiesInv, CacheWasCommitted, Cached, cacheVars
    <3> QED
      BY <1>s, <1>m, <2>2, <3>2 DEF CopiesInv
  <2>3. CASE \E u \in Uids : GetMiss(r, u)
    BY <2>2, <2>3 DEF GetMiss, CacheGetMiss
  <2>4. CASE GetFound(r)
    <3>1. gets[r].uid \in Stored
      BY <2>4 DEF GetFound
    <3>2. Good(db[gets[r].uid], gets[r].uid)
      BY <3>1 DEF CopiesInv
    <3> QED
      BY <2>2, <2>4, <3>2 DEF GetFound
  <2>5. CASE GetFails(r)
    BY <2>2, <2>5 DEF GetFails, NoGet
  <2>6. CASE GetFill(r)
    <3>1. gets[r].uid \in Uids /\ gets[r].got \in Versions
      BY <2>6 DEF GetFill, TypeInv, ControlInv
    <3>2. Good(gets[r].got, gets[r].uid)
      BY <3>1, AbsentAssumption DEF CopiesInv, CacheWasCommitted
    <3>3. \A u \in Uids : held'[u] \in {held[u], Absent} \/ Good(held'[u], u)
      BY <1>c, <2>6, <3>1, <3>2, CacheEffect DEF GetFill
    <3> QED
      BY <1>1, <2>6, <3>3 DEF GetFill, TypeInv, TypeOK
  <2> QED
    BY <1>8, <2>1, <2>3, <2>4, <2>5, <2>6 DEF Request
<1>9. CASE SaveStores \/ SaveRetries \/ SaveGivesUp
  BY <1>5, <1>9 DEF SaveStores, SaveRetries, SaveGivesUp, MaybeStored, SaveInDb, serviceVars
<1>10. CASE \/ \E p \in Partitions : Fetch(p)
            \/ FetchFails \/ SaveRefused \/ BackoffElapses \/ BackoffCancelled
            \/ CommitSucceeds \/ CommitFails \/ Rejoin \/ Stop \/ UNCHANGED vars
  BY <1>5, <1>10 DEF Fetch, FetchFails, SaveRefused, BackoffElapses, BackoffCancelled,
    CommitSucceeds, CommitFails, Rejoin, Stop, serviceVars, vars
<1> QED
  BY <1>2, <1>3, <1>4, <1>6, <1>7, <1>8, <1>9, <1>10
  DEF Next, Consume, Disturb, Exit, Crash, ProcessGone

-----------------------------------------------------------------------------
(* The theorems. *)

SafetyInv == TypeInv /\ OffsetInv /\ StoredInv /\ CopiesInv

LEMMA SafetyInit == Init => SafetyInv
<1> SUFFICES ASSUME Init PROVE SafetyInv
  OBVIOUS
<1> USE DEF Init, ServiceInit, CacheInit
<1>1. TypeInv
  BY TypeInit
<1>2. OffsetInv
  <2>1. \A p \in Partitions : Len(topic[p]) \in 0..LogLength
    BY <1>1, TopicType DEF TypeInv
  <2> QED
    BY <2>1, TopicsAssumption DEF OffsetInv, Running
<1>3. StoredInv
  BY DEF StoredInv, NoAckedOrderLost
<1>4. CopiesInv
  BY DEF CopiesInv, CacheWasCommitted, Cached, Stored, NoGet, NoWarmup
<1> QED
  BY <1>1, <1>2, <1>3, <1>4 DEF SafetyInv

LEMMA SafetyStep == SafetyInv /\ [Next]_vars => SafetyInv'
BY TypeStep, OffsetStep, StoredStep, CopiesStep DEF SafetyInv

THEOREM Safety == Spec => []SafetyInv
BY SafetyInit, SafetyStep, PTL DEF Spec

(* The variables of OrderPipeline keep their types, and the consumer never  *)
(* makes more than MaxAttempts attempts (consumer.go, save).                *)
THEOREM TypesCorrect == Spec => []TypeOK
<1>1. SafetyInv => TypeOK
  BY DEF SafetyInv, TypeInv
<1> QED
  BY <1>1, Safety, PTL

(* No acknowledged order is lost: what the offsets have passed and was      *)
(* valid is in Postgres (consumer.go, Run).                                 *)
THEOREM AckedOrdersKept == Spec => []NoAckedOrderLost
<1>1. SafetyInv => NoAckedOrderLost
  BY DEF SafetyInv, StoredInv
<1> QED
  BY <1>1, Safety, PTL

(* Whatever the cache or a request about to fill it holds was committed to  *)
(* Postgres under that uid (order_service.go, Save).                        *)
THEOREM CommittedBeforeCached == Spec => []CacheWasCommitted
<1>1. SafetyInv => CacheWasCommitted
  BY DEF SafetyInv, CopiesInv
<1> QED
  BY <1>1, Safety, PTL

(* A redelivered message never overwrites what a later message of its       *)
(* partition has stored (consumer.go, Run).                                 *)
THEOREM RedeliverySafe == Spec => RedeliveryNeverRegresses
<1> DEFINE Regress == \A u \in Uids : db'[u] # db[u] =>
                        \A v \in applied : v[1] = db'[u][1] => v[2] <= db'[u][2]
<1>1. SafetyInv /\ [Next]_vars => Regress
  <2> SUFFICES ASSUME SafetyInv, [Next]_vars, NEW u \in Uids, db'[u] # db[u],
                      NEW v \in applied, v[1] = db'[u][1]
               PROVE  v[2] <= db'[u][2]
    OBVIOUS
  <2>1. Running /\ msg # Absent /\ db' = [db EXCEPT ![UidOf(msg)] = msg]
    BY StoreStep DEF SafetyInv, storeVars, SaveInDb
  <2>2. db'[u] = msg
    BY <2>1 DEF SafetyInv, TypeInv, TypeOK
  <2>3. msg[1] \in Partitions /\ msg[2] \in 1..LogLength
    BY <2>1, MessageType DEF SafetyInv, TypeInv
  <2>4. committed[msg[1]] \in {msg[2] - 1, msg[2]}
    BY <2>1, <2>3 DEF SafetyInv, OffsetInv, Lag
  <2>5. v[2] <= committed[msg[1]] + 1 /\ (v[2] = committed[msg[1]] + 1 => msg[2] = v[2])
    BY <2>1, <2>2 DEF SafetyInv, StoredInv
  <2>6. committed[msg[1]] \in 0..LogLength /\ v[2] \in 1..LogLength
    BY <2>3, VersionsAssumption DEF SafetyInv, TypeInv, TypeOK
  <2> QED
    BY <2>2, <2>3, <2>4, <2>5, <2>6, TopicsAssumption
<1>2. [Regress]_vars <=> Regress \/ UNCHANGED vars
  OBVIOUS
<1> QED
  BY <1>1, Safety, PTL DEF Spec, RedeliveryNeverRegresses

(* What the database has of an order is a version it has taken, all of them *)
(* valid messages of the topic, and the latest taken of that partition.     *)
LatestInv ==
  /\ \A v \in applied :
       v[2] <= Len(topic[v[1]]) /\ KindOf(v) = "valid" /\ db[UidOf(v)] # Absent
  /\ \A u \in Stored : \A v \in applied :
       UidOf(v) = u /\ v[1] = db[u][1] => v[2] <= db[u][2]

LEMMA LatestStep == SafetyInv /\ LatestInv /\ [Next]_vars => LatestInv'
<1> SUFFICES ASSUME SafetyInv, LatestInv, [Next]_vars PROVE LatestInv'
  OBVIOUS
<1>1. TypeInv /\ topic' = topic
  BY StoreStep DEF SafetyInv
<1>2. CASE UNCHANGED storeVars
  BY <1>1, <1>2 DEF LatestInv, Stored, storeVars, UidOf, KindOf
<1>3. CASE /\ Running /\ pc = "save" /\ msg # Absent /\ KindOf(msg) = "valid"
           /\ SaveInDb(UidOf(msg), msg)
  <2> DEFINE u == UidOf(msg)
  <2>1. /\ u \in Uids /\ msg[1] \in Partitions /\ msg[2] \in 1..LogLength /\ msg \in Versions
        /\ msg[2] <= Len(topic[msg[1]])
    BY <1>1, <1>3, UidType, MessageType DEF TypeInv, ControlInv
  <2>2. /\ applied' = applied \cup {msg} /\ db'[u] = msg
        /\ \A w \in Uids \ {u} : db'[w] = db[w]
    BY <1>1, <1>3, <2>1 DEF SaveInDb, TypeInv, TypeOK
  <2>3. ASSUME NEW v \in applied, v[1] = msg[1] PROVE v[2] <= msg[2]
    <3>1. v[2] <= committed[v[1]] + 1 /\ (v[2] = committed[v[1]] + 1 => msg[2] = v[2])
      BY <1>3, <2>3 DEF SafetyInv, StoredInv
    <3>2. committed[msg[1]] \in {msg[2] - 1, msg[2]}
      BY <1>3, <2>1 DEF SafetyInv, OffsetInv, Lag
    <3>3. v[2] \in 1..LogLength /\ committed[msg[1]] \in 0..LogLength
      BY <1>1, <2>1, VersionsAssumption DEF TypeInv, TypeOK
    <3> QED BY <2>1, <2>3, <3>1, <3>2, <3>3, TopicsAssumption
  <2>4. ASSUME NEW v \in applied'
        PROVE  (v[2] <= Len(topic[v[1]]) /\ KindOf(v) = "valid" /\ db[UidOf(v)] # Absent)'
    <3>1. msg # Absent /\ UidOf(v)' = UidOf(v) /\ KindOf(v)' = KindOf(v)
      BY <1>1, <1>3 DEF UidOf, KindOf
    <3>2. CASE v = msg
      BY <1>1, <1>3, <2>1, <2>2, <3>1, <3>2
    <3>3. CASE v # msg
      <4>1. /\ v[2] <= Len(topic[v[1]]) /\ KindOf(v) = "valid" /\ db[UidOf(v)] # Absent
            /\ v \in Versions
        BY <1>1, <2>2, <3>3 DEF LatestInv, TypeInv, TypeOK
      <4>2. UidOf(v) \in Uids
        BY <1>1, <4>1, TopicType, VersionsAssumption, TopicsAssumption DEF TypeInv, UidOf, Message
      <4> QED BY <1>1, <1>3, <2>2, <3>1, <4>1, <4>2
    <3> QED BY <3>2, <3>3
  <2>5. ASSUME NEW w \in Stored', NEW v \in applied', UidOf(v) = w, v[1] = db'[w][1]
        PROVE  v[2] <= db'[w][2]
    <3>1. CASE w = u
      BY <2>1, <2>2, <2>3, <2>5, <3>1, TopicsAssumption
    <3>2. CASE w # u
      BY <2>2, <2>5, <3>2 DEF LatestInv, Stored
    <3> QED BY <3>1, <3>2
  <2> QED BY <1>1, <2>4, <2>5 DEF LatestInv, UidOf
<1> QED BY <1>1, <1>2, <1>3, StoreStep

(* Whenever every partition is worked off, each order that has a valid      *)
(* message is in the database in the last version of one of its partitions: *)
(* what Converges says of the database, but for the progress that gets the  *)
(* consumer there.                                                          *)
WorkedOffIsLatest ==
  (\A p \in Partitions : committed[p] = Len(topic[p])) =>
    \A u \in Uids : (\E p \in Partitions : LastOf(u, p) # {}) =>
      \E p \in Partitions : db[u] \in {p} \X LastOf(u, p)

THEOREM EndsWithLatest == Spec => []WorkedOffIsLatest
<1>1. Init => LatestInv
  BY DEF Init, ServiceInit, LatestInv, Stored
<1>2. ASSUME SafetyInv, LatestInv PROVE WorkedOffIsLatest
  <2> SUFFICES ASSUME \A p \in Partitions : committed[p] = Len(topic[p]),
                      NEW u \in Uids, NEW p \in Partitions, NEW n \in LastOf(u, p)
               PROVE  \E q \in Partitions : db[u] \in {q} \X LastOf(u, q)
    BY DEF WorkedOffIsLatest
  <2>1. \A q \in Partitions : \A k \in 1..Len(topic[q]) :
          topic[q][k].kind = "valid" => <<q, k>> \in applied
    BY <1>2 DEF SafetyInv, StoredInv, NoAckedOrderLost
  <2>2. u \in Stored
    <3>1. n \in 1..Len(topic[p]) /\ topic[p][n].uid = u /\ topic[p][n].kind = "valid"
      BY DEF LastOf
    <3>2. <<p, n>> \in applied /\ UidOf(<<p, n>>) = u
      BY <2>1, <3>1 DEF UidOf
    <3> QED BY <1>2, <3>2 DEF LatestInv, Stored
  <2> DEFINE q == db[u][1]
             m == db[u][2]
  <2>3. /\ db[u] = <<q, m>> /\ q \in Partitions /\ m \in 1..Len(topic[q])
        /\ topic[q][m].uid = u /\ topic[q][m].kind = "valid"
    <3>1. db[u] \in applied /\ UidOf(db[u]) = u
      BY <1>2, <2>2 DEF SafetyInv, CopiesInv
    <3>2. db[u] = <<q, m>> /\ q \in Partitions /\ m \in 1..LogLength
      BY <1>2, <3>1, VersionsAssumption DEF SafetyInv, TypeInv, TypeOK
    <3>3. m <= Len(topic[q]) /\ KindOf(db[u]) = "valid"
      BY <1>2, <3>1 DEF LatestInv
    <3>4. Len(topic[q]) \in 0..LogLength
      BY <1>2, <3>2, TopicType DEF SafetyInv, TypeInv
    <3> QED BY <3>1, <3>2, <3>3, <3>4, TopicsAssumption DEF UidOf, KindOf
  <2>4. ASSUME NEW k \in 1..Len(topic[q]), topic[q][k].uid = u, topic[q][k].kind = "valid"
        PROVE  k <= m
    <3>1. <<q, k>> \in applied /\ UidOf(<<q, k>>) = u /\ <<q, k>>[1] = q /\ <<q, k>>[2] = k
      BY <2>1, <2>3, <2>4 DEF UidOf
    <3> QED BY <1>2, <2>2, <3>1 DEF LatestInv
  <2>5. m \in LastOf(u, q)
    BY <2>3, <2>4 DEF LastOf
  <2> QED BY <2>3, <2>5
<1> QED BY <1>1, <1>2, LatestStep, Safety, PTL DEF Spec

(* The instance, with all its failures and restarts, delivers what the doc  *)
(* of Run promises: each partition in order, each valid order stored before *)
(* its offset is passed.                                                    *)
THEOREM ImplementsContract == Spec => Contract!ContractSpec
<1>1. Init => Contract!ContractInit
  BY DEF Init, ServiceInit, Contract!ContractInit
<1>2. SafetyInv /\ SafetyInv' /\ [Next]_vars =>
        [Contract!ContractNext]_(Contract!contractVars)
  <2> SUFFICES ASSUME SafetyInv, SafetyInv', [Next]_vars,
                      ~ UNCHANGED <<topic, committed, applied>>
               PROVE  Contract!ContractNext
    BY DEF Contract!contractVars
  <2> DEFINE p == msg[1]
             i == msg[2]
  <2>1. CASE applied' # applied
    <3>1. /\ Running /\ msg # Absent /\ KindOf(msg) = "valid"
          /\ applied' = applied \cup {msg} /\ UNCHANGED <<topic, committed>>
      BY <2>1, StoreStep DEF SafetyInv, storeVars, SaveInDb
    <3>2. /\ p \in Partitions /\ i \in 1..LogLength /\ msg = <<p, i>>
          /\ i <= Len(topic[p])
      BY <3>1, MessageType DEF SafetyInv, TypeInv, ControlInv
    <3>3. committed[p] \in {i - 1, i} /\ committed[p] \in 0..LogLength
      BY <3>1, <3>2 DEF SafetyInv, OffsetInv, Lag, TypeInv, TypeOK
    <3>4. committed[p] # i
      <4> SUFFICES ASSUME committed[p] = i PROVE FALSE
        OBVIOUS
      <4>1. topic[p][i].kind = "valid"
        BY <3>1 DEF KindOf
      <4>2. <<p, i>> \in applied
        BY <3>2, <4>1, TopicsAssumption DEF SafetyInv, StoredInv, NoAckedOrderLost
      <4> QED
        BY <2>1, <3>1, <3>2, <4>2
    <3>5. committed[p] + 1 = i /\ committed[p] < Len(topic[p])
      BY <3>2, <3>3, <3>4, TopicType, TopicsAssumption DEF SafetyInv, TypeInv
    <3>6. Contract!Store(p)
      BY <3>1, <3>2, <3>5
      DEF Contract!Store, Contract!NextIsValid, Contract!NextMessage, KindOf
    <3> QED
      BY <3>2, <3>6 DEF Contract!ContractNext
  <2>2. CASE applied' = applied
    <3>1. topic' = topic /\ committed' # committed
      BY <2>2, StoreStep DEF SafetyInv
    <3>2. /\ Running /\ pc = "commit" /\ OffsetCommitted
      <4>1. CASE CommitSucceeds \/ CommitFails
        BY <3>1, <4>1 DEF CommitSucceeds, CommitFails
      <4>2. CASE ~(CommitSucceeds \/ CommitFails)
        BY <3>1, <4>2 DEF Next, Consume, Disturb, Start, WarmStep, Serve, Exit, Crash,
          ProcessGone, Stop, Fetch, FetchFails, SaveStores, SaveCaches, SaveRefused,
          SaveRetries, SaveGivesUp, BackoffElapses, BackoffCancelled, Rejoin, Request,
          kafkaVars, vars
      <4> QED
        BY <4>1, <4>2
    <3>3. /\ msg # Absent /\ p \in Partitions /\ i \in 1..LogLength /\ msg = <<p, i>>
          /\ i <= Len(topic[p])
      BY <3>2, MessageType DEF SafetyInv, TypeInv, TypeOK, ControlInv
    <3>4. committed[p] \in {i - 1, i} /\ committed \in [Partitions -> 0..LogLength]
      BY <3>2, <3>3 DEF SafetyInv, OffsetInv, Lag, TypeInv, TypeOK
    <3>5. committed' = [committed EXCEPT ![p] = i]
      BY <3>2 DEF OffsetCommitted
    <3>6. committed[p] # i
      BY <3>1, <3>4, <3>5
    <3>7. committed[p] + 1 = i /\ committed[p] < Len(topic[p])
      BY <3>3, <3>4, <3>6, TopicType, TopicsAssumption DEF SafetyInv, TypeInv
    <3>8. topic[p][i].kind = "valid" => <<p, i>> \in applied
      BY <3>2, <3>3 DEF SafetyInv, StoredInv, KindOf
    <3>9. Contract!Settle(p)
      BY <2>2, <3>1, <3>5, <3>7, <3>8
      DEF Contract!Settle, Contract!NextIsValid, Contract!NextMessage
    <3> QED
      BY <3>3, <3>9 DEF Contract!ContractNext
  <2> QED
    BY <2>1, <2>2
<1> QED
  BY <1>1, <1>2, Safety, PTL DEF Spec, Contract!ContractSpec

-----------------------------------------------------------------------------
(* Layer 5: the cache is fresh as long as it never has to evict. *)

LEMMA NoEviction ==
  ASSUME Cardinality(Uids) <= Capacity, NEW u \in Uids, NEW v \in Versions, Insert(u, v)
  PROVE  held' = [held EXCEPT ![u] = v]
<1>1. IsFiniteSet(Uids) /\ Cached \cup {u} \subseteq Uids
  BY UidsAssumption DEF Cached
<1>2. Cardinality(Cached \cup {u}) <= Cardinality(Uids)
  BY <1>1, FS_Subset
<1>3. Cardinality(Uids) \in Nat /\ Cardinality(Cached \cup {u}) \in Nat
  BY <1>1, FS_Subset, FS_CardinalityType
<1>4. ~(Cardinality(Cached \cup {u}) > Capacity)
  BY <1>2, <1>3, CapacityAssumption
<1> QED
  BY <1>4 DEF Insert

LEMMA FreshStep ==
  ASSUME Cardinality(Uids) <= Capacity, SafetyInv, FreshInv, [Next]_vars
  PROVE  FreshInv'
<1>t. /\ TypeOK /\ TypeInv
      /\ held \in [Uids -> Versions \cup {Absent}]
      /\ db \in [Uids -> Versions \cup {Absent}]
      /\ topic' = topic
  BY StoreStep DEF SafetyInv, TypeInv, TypeOK
<1>1. ASSUME UNCHANGED <<held, db, gets, warmup, topic>>,
             \A u \in Uids : InHand(u) => InHand(u)',
             pc' = "cache" => pc = "cache" /\ msg' = msg,
             proc' = "starting" => proc = "starting"
      PROVE  FreshInv'
  <2>1. \A r \in Readers : gets[r].pc # "idle" => gets[r].uid \in Uids
    BY <1>t DEF TypeInv, ControlInv
  <2> QED
    BY <1>1, <2>1 DEF FreshInv, CacheFresh, Cached, UidOf
<1>2. CASE Start
  <2>1. /\ UNCHANGED <<held, db, gets, msg, pc, topic>>
        /\ pc = "done" /\ msg = Absent
    BY <1>2, <1>t DEF Start, ListRecent, cacheVars, storeVars, consumerVars,
      TypeInv, ControlInv
  <2>2. \A i \in 1..Len(warmup'.listing) :
          warmup'.listing[i].order = db[warmup'.listing[i].uid]
    <3>1. PICK s \in Listings : warmup' =
            [listing |-> [i \in DOMAIN s |-> [uid |-> s[i], order |-> db[s[i]]]],
             left    |-> Len(s)]
      BY <1>2 DEF Start, ListRecent
    <3>2. Cardinality(Stored) \in Nat
      BY UidsAssumption, FS_Subset, FS_CardinalityType DEF Stored
    <3>3. PICK n \in Nat : s \in [1..n -> Stored]
      BY <3>2, WarmupAssumption DEF Listings
    <3> QED
      BY <3>1, <3>3
  <2>3. \A u : InHand(u)' <=> InHand(u)
    BY <2>1 DEF InHand, UidOf, KindOf
  <2> QED
    BY <2>1, <2>2, <2>3 DEF FreshInv, CacheFresh, Cached
<1>3. CASE WarmStep
  <2> DEFINE row == warmup.listing[warmup.left]
  <2>1. /\ warmup.left \in 1..Len(warmup.listing) /\ CacheSet(row.uid, row.order)
        /\ UNCHANGED <<db, gets, msg, pc, topic>> /\ proc = "starting"
        /\ warmup' = [warmup EXCEPT !.left = @ - 1]
    BY <1>3, <1>t DEF WarmStep, WarmOne, storeVars, consumerVars, TypeOK
  <2>2. pc = "done" /\ msg = Absent /\ row.uid \in Uids /\ row.order \in Versions
    BY <2>1, <1>t, ListingType DEF TypeInv, ControlInv
  <2>3. held' = [held EXCEPT ![row.uid] = row.order]
    BY <2>1, <2>2, NoEviction DEF CacheSet
  <2>4. row.order = db[row.uid]
    BY <2>1 DEF FreshInv
  <2>5. warmup'.listing = warmup.listing
    BY <2>1, <1>t DEF TypeOK
  <2>6. CacheFresh'
    BY <1>t, <2>1, <2>2, <2>3, <2>4 DEF FreshInv, CacheFresh, Cached, InHand
  <2>7. ASSUME NEW r \in Readers, gets[r].pc = "fill", gets[r].uid \notin Cached'
        PROVE  gets[r].got = db[gets[r].uid]
    BY <1>t, <2>2, <2>3, <2>7, AbsentAssumption
    DEF FreshInv, Cached, InHand
  <2> QED
    BY <2>1, <2>2, <2>5, <2>6, <2>7 DEF FreshInv
<1>4. CASE Serve
  <2>1. UNCHANGED <<held, db, gets, msg, topic>> /\ pc' = "fetch" /\ proc' = "up"
        /\ msg = Absent
    BY <1>4, <1>t DEF Serve, cacheVars, storeVars, TypeInv, ControlInv
  <2> QED
    BY <2>1 DEF FreshInv, CacheFresh, Cached, InHand
<1>5. CASE ProcessGone
  BY <1>5 DEF ProcessGone, ServiceLost, NoGet, FreshInv, CacheFresh, Cached
<1>6. ASSUME Running, pc = "save", msg # Absent, KindOf(msg) = "valid",
             SaveInDb(UidOf(msg), msg), msg' = msg, pc' \in {"cache", "backoff", "done"},
             Running'
      PROVE  FreshInv'
  <2>1. UidOf(msg) \in Uids /\ msg \in Versions
    BY <1>t, <1>6, UidType, MessageType
  <2>2. db' = [db EXCEPT ![UidOf(msg)] = msg] /\ UNCHANGED <<held, gets>>
    BY <1>6 DEF SaveInDb, cacheVars
  <2>3. InHand(UidOf(msg))' /\ \A u : InHand(u)' => u = UidOf(msg)
    BY <1>t, <1>6 DEF InHand, KindOf, UidOf
  <2>4. \A u : InHand(u) => u = UidOf(msg)
    BY DEF InHand
  <2>5. \A r \in Readers : gets[r].pc = "fill" => gets[r].uid \in Uids
    BY <1>t DEF TypeInv, ControlInv
  <2>6. CacheFresh'
    BY <1>t, <2>1, <2>2, <2>3, <2>4 DEF FreshInv, CacheFresh, Cached
  <2>7. ASSUME NEW r \in Readers, gets[r].pc = "fill", gets[r].uid \notin Cached
        PROVE  gets[r].got = db'[gets[r].uid] \/ InHand(gets[r].uid)'
    BY <1>t, <2>1, <2>2, <2>3, <2>4, <2>5, <2>7 DEF FreshInv
  <2>8. UidOf(msg)' = UidOf(msg)
    BY <1>t, <1>6 DEF UidOf
  <2> QED
    BY <1>t, <1>6, <2>1, <2>2, <2>6, <2>7, <2>8 DEF FreshInv, Cached, Running
<1>7. CASE SaveStores
  BY <1>6, <1>7, <1>t DEF SaveStores, Running, TypeOK
<1>8. CASE SaveRetries \/ SaveGivesUp
  <2>1. /\ pc = "save" /\ msg # Absent /\ msg' = msg /\ Running /\ Running'
        /\ pc' \in {"backoff", "done"} /\ MaybeStored
    BY <1>8, <1>t DEF SaveRetries, SaveGivesUp, ConsumerReturns, Running, TypeOK
  <2>2. CASE UNCHANGED serviceVars
    BY <1>1, <1>t, <2>1, <2>2
    DEF serviceVars, cacheVars, storeVars, InHand, KindOf, UidOf, Running
  <2> QED
    BY <1>6, <2>1, <2>2 DEF MaybeStored
<1>9. CASE SaveCaches
  <2>1. /\ pc = "cache" /\ msg # Absent /\ msg' = msg /\ Running /\ Running' /\ pc' = "commit"
        /\ CacheSet(UidOf(msg), msg) /\ UNCHANGED <<db, gets>>
    BY <1>9, <1>t DEF SaveCaches, SaveInCache, storeVars, Running, TypeOK
  <2>2. UidOf(msg) \in Uids /\ msg \in Versions
    BY <1>t, <2>1, UidType, MessageType
  <2>3. held' = [held EXCEPT ![UidOf(msg)] = msg]
    BY <2>1, <2>2, NoEviction DEF CacheSet
  <2>4. db[UidOf(msg)] = msg
    BY <2>1 DEF FreshInv
  <2>5. \A u : InHand(u) => u = UidOf(msg)
    BY DEF InHand
  <2>6. CacheFresh'
    BY <1>t, <2>1, <2>2, <2>3, <2>4, <2>5 DEF FreshInv, CacheFresh, Cached
  <2>7. ASSUME NEW r \in Readers, gets[r].pc = "fill", gets[r].uid \notin Cached'
        PROVE  gets[r].got = db[gets[r].uid]
    <3>1. gets[r].uid \in Uids
      BY <1>t, <2>7 DEF TypeInv, ControlInv
    <3> QED
      BY <1>t, <2>2, <2>3, <2>5, <2>7, <3>1, AbsentAssumption DEF FreshInv, Cached
  <2> QED
    BY <2>1, <2>6, <2>7 DEF FreshInv, Running
<1>10. ASSUME NEW r \in Readers, Request(r) PROVE FreshInv'
  <2>1. UNCHANGED <<msg, pc, proc>> /\ \A u : InHand(u)' <=> InHand(u)
    BY <1>10, <1>t DEF Request, consumerVars, InHand, KindOf, UidOf
  <2>2. CASE \E u \in Uids : GetHit(r, u)
    BY <1>1, <1>t, <2>1, <2>2 DEF GetHit, CacheGetHit, storeVars
  <2>3. ASSUME NEW g, gets' = [gets EXCEPT ![r] = g],
               g.pc = "fill" => g.got = db[g.uid],
               UNCHANGED <<cacheVars, storeVars, warmup>>
        PROVE  FreshInv'
    <3>1. \A q \in Readers : gets'[q] = IF q = r THEN g ELSE gets[q]
      BY <1>t, <2>3 DEF TypeOK
    <3> QED
      BY <1>t, <2>1, <2>3, <3>1
      DEF FreshInv, CacheFresh, Cached, UidOf, cacheVars, storeVars
  <2>4. CASE \E u \in Uids : GetMiss(r, u)
    BY <2>3, <2>4 DEF GetMiss, CacheGetMiss
  <2>5. CASE GetFound(r)
    BY <2>3, <2>5 DEF GetFound
  <2>6. CASE GetFails(r)
    BY <2>3, <2>6 DEF GetFails, NoGet
  <2>7. CASE GetFill(r)
    <3> DEFINE u == gets[r].uid
    <3>1. /\ u \in Uids /\ gets[r].got \in Versions
          /\ UNCHANGED <<db, warmup>> /\ gets' = [gets EXCEPT ![r] = NoGet]
      BY <1>t, <2>7 DEF GetFill, storeVars, TypeInv, ControlInv
    <3>2. held' = IF u \in Cached THEN held ELSE [held EXCEPT ![u] = gets[r].got]
      BY <2>7, <3>1, NoEviction DEF GetFill, CacheSetIfAbsent, cacheVars
    <3>3. u \notin Cached => gets[r].got = db[u] \/ InHand(u)
      BY <2>7 DEF GetFill, FreshInv
    <3>4. CacheFresh'
      BY <1>t, <2>1, <3>1, <3>2, <3>3 DEF FreshInv, CacheFresh, Cached
    <3>5. ASSUME NEW q \in Readers, gets'[q].pc = "fill", gets'[q].uid \notin Cached'
          PROVE  gets'[q].got = db[gets'[q].uid] \/ InHand(gets'[q].uid)
      <4>1. gets'[q] = gets[q]
        BY <1>t, <3>1, <3>5 DEF TypeOK, NoGet
      <4>2. gets[q].uid \notin Cached
        BY <1>t, <3>1, <3>2, <3>5, <4>1, AbsentAssumption DEF Cached
      <4> QED
        BY <3>5, <4>1, <4>2 DEF FreshInv
    <3> QED
      BY <1>t, <2>1, <3>1, <3>4, <3>5 DEF FreshInv, UidOf
  <2> QED
    BY <1>10, <2>2, <2>4, <2>5, <2>6, <2>7 DEF Request
<1>11. CASE \/ \E p \in Partitions : Fetch(p)
            \/ FetchFails \/ SaveRefused \/ BackoffElapses \/ BackoffCancelled
            \/ CommitSucceeds \/ CommitFails \/ Rejoin \/ Stop \/ UNCHANGED vars
  <2>1. UNCHANGED <<held, db, gets, warmup>>
    BY <1>11 DEF Fetch, FetchFails, SaveRefused, BackoffElapses, BackoffCancelled,
      CommitSucceeds, CommitFails, Rejoin, Stop, vars, serviceVars, cacheVars, storeVars
  <2>2. \A u \in Uids : InHand(u) => InHand(u)'
    BY <1>11, <1>t DEF Fetch, FetchFails, SaveRefused, BackoffElapses, BackoffCancelled,
      CommitSucceeds, CommitFails, Rejoin, Stop, vars, ConsumerReturns, consumerVars,
      InHand, KindOf, UidOf, TypeInv, ControlInv
  <2>3. /\ pc' = "cache" => pc = "cache" /\ msg' = msg
        /\ proc' = "starting" => proc = "starting"
    BY <1>11 DEF Fetch, FetchFails, SaveRefused, BackoffElapses, BackoffCancelled,
      CommitSucceeds, CommitFails, Rejoin, Stop, vars, ConsumerReturns, consumerVars
  <2> QED
    BY <1>1, <1>t, <2>1, <2>2, <2>3
<1> QED
  BY <1>2, <1>3, <1>4, <1>5, <1>7, <1>8, <1>9, <1>10, <1>11
  DEF Next, Consume, Disturb, Exit, Crash

(* A cache with room for every order is never stale: once the consumer has  *)
(* set what it stored, the cache holds what Postgres holds, whatever fills  *)
(* the readers had begun.  The assumption is needed: with fewer places than *)
(* orders TLC shows a stale fill after an eviction.                         *)
THEOREM FreshWithoutEviction ==
  ASSUME Cardinality(Uids) <= Capacity
  PROVE  Spec => []CacheFresh
<1>1. Init => FreshInv
  BY DEF Init, ServiceInit, CacheInit, NoGet, NoWarmup, FreshInv, CacheFresh, Cached
<1>2. SafetyInv /\ FreshInv /\ [Next]_vars => FreshInv'
  BY FreshStep
<1>3. FreshInv => CacheFresh
  BY DEF FreshInv
<1> QED
  BY <1>1, <1>2, <1>3, Safety, PTL DEF Spec
-----------------------------------------------------------------------------
(* Why the topic is worked off, but for the fairness itself: as long as     *)
(* there is a message to settle, a step that FairSpec is fair to is         *)
(* possible.  These are the guards: Start, WarmStep or Serve, and Exit;     *)
(* and Consume.                                                             *)
ProcessCanGoOn ==
  \/ proc = "down" /\ Listings # {}
  \/ proc = "starting"
  \/ proc = "stopping"
ConsumerCanGoOn ==
  /\ Running
  /\ \/ pc = "fetch" /\ \E p \in Partitions : position[p] < Len(topic[p])
     \/ pc = "save" /\ KindOf(msg) \in {"valid", "refused"}
     \/ pc \in {"backoff", "cache", "commit"}

(* No message blocks the topic: whatever came before, a rebalance in the    *)
(* middle of a message included, there is a way to go on until the offsets  *)
(* have passed them all; and a process that is down can always read what it *)
(* warms its cache with (consumer.go, Run and handle; main.go, run).        *)
TopicNeverStuck ==
  (\E p \in Partitions : committed[p] < Len(topic[p])) => ProcessCanGoOn \/ ConsumerCanGoOn

LEMMA ListingExists == Listings # {}
<1> DEFINE c == Cardinality(Stored)
           n == IF WarmupLimit <= c THEN WarmupLimit ELSE c
<1>1. IsFiniteSet(Stored)
  BY UidsAssumption, FS_Subset DEF Stored
<1>2. c \in Nat /\ Bijection(1..c, Stored) # {}
  BY <1>1, FS_CardinalityType DEF ExistsBijection
<1>3. PICK f \in [1..c -> Stored] : \A i, j \in 1..c : f[i] = f[j] => i = j
  BY <1>2 DEF Bijection, Injection, IsInjective
<1>4. n \in Nat /\ n <= c
  BY <1>2, WarmupAssumption
<1> HIDE DEF c
<1>5. Listings = {s \in [1..n -> Stored] : \A i, j \in 1..n : s[i] = s[j] => i = j}
  BY DEF Listings, c
<1> HIDE DEF n
<1>6. 1..n \subseteq 1..c
  BY <1>2, <1>4
<1> DEFINE s == [i \in 1..n |-> f[i]]
<1>7. s \in [1..n -> Stored] /\ \A i, j \in 1..n : s[i] = s[j] => i = j
  BY <1>3, <1>6
<1> HIDE DEF s
<1> QED BY <1>5, <1>7

(* While the process is up the consumer has not returned; what it saves has *)
(* passed its decoding.                                                     *)
AtWork ==
  /\ proc = "up" => pc # "done"
  /\ pc \in {"save", "backoff"} => KindOf(msg) \in {"valid", "refused"}

LEMMA AtWorkStep ==
  ASSUME TypeInv, AtWork, [Next]_vars
  PROVE  AtWork'
<1>1. CASE \E p \in Partitions : Fetch(p)
  <2>1. PICK p \in Partitions : Fetch(p)
    BY <1>1
  <2> DEFINE n == position[p] + 1
  <2>2. position[p] \in Nat /\ Len(topic[p]) \in Nat /\ position[p] < Len(topic[p])
    BY <2>1, TopicType, TopicsAssumption DEF Fetch, TypeInv, TypeOK
  <2>3. n \in 1..Len(topic[p])
    BY <2>2
  <2>4. topic[p][n].kind \in Kinds
    BY <2>3, TopicType DEF TypeInv, Message
  <2>5. /\ msg' = <<p, n>> /\ topic' = topic
        /\ pc' = IF topic[p][n].kind = "invalid" THEN "commit" ELSE "save"
    BY <2>1 DEF Fetch
  <2> HIDE DEF n
  <2> QED BY <2>4, <2>5 DEF AtWork, KindOf, Kinds
<1>2. CASE SaveStores \/ SaveCaches \/ SaveRefused \/ SaveRetries \/ BackoffElapses \/ CommitSucceeds
  BY <1>2 DEF AtWork, KindOf, SaveStores, SaveCaches, SaveRefused, SaveRetries, BackoffElapses,
     CommitSucceeds, kafkaVars
<1>3. CASE FetchFails \/ SaveGivesUp \/ BackoffCancelled \/ CommitFails
  BY <1>3 DEF AtWork, FetchFails, SaveGivesUp, BackoffCancelled, CommitFails, ConsumerReturns
<1>4. CASE Start \/ WarmStep \/ Serve \/ Exit \/ Crash \/ Stop
  BY <1>4 DEF AtWork, KindOf, TypeInv, ControlInv, Start, WarmStep, Serve, Exit, Crash, Stop,
     ProcessGone, kafkaVars, consumerVars
<1>5. CASE Rejoin \/ (\E r \in Readers : Request(r)) \/ UNCHANGED vars
  BY <1>5 DEF AtWork, KindOf, Rejoin, Request, vars, kafkaVars, consumerVars
<1> QED BY <1>1, <1>2, <1>3, <1>4, <1>5 DEF Next, Consume, Disturb

THEOREM TopicGoesOn == Spec => []TopicNeverStuck
<1>1. Init => AtWork
  BY DEF Init, AtWork
<1>2. SafetyInv /\ AtWork /\ [Next]_vars => AtWork'
  BY AtWorkStep DEF SafetyInv
<1>3. ASSUME SafetyInv, AtWork PROVE TopicNeverStuck
  <2> SUFFICES ASSUME NEW p \in Partitions, committed[p] < Len(topic[p]), proc = "up"
               PROVE  ConsumerCanGoOn
    BY <1>3, ListingExists DEF TopicNeverStuck, ProcessCanGoOn, SafetyInv, TypeInv, TypeOK
  <2>1. Running /\ pc \in {"fetch", "save", "backoff", "cache", "commit"}
    BY <1>3 DEF AtWork, Running, SafetyInv, TypeInv, TypeOK
  <2>2. CASE pc = "fetch"
    <3>1. position[p] \in {committed[p] - 1, committed[p]}
      BY <1>3, <2>1, <2>2 DEF SafetyInv, TypeInv, ControlInv, OffsetInv, Lag
    <3>2. committed[p] \in Nat /\ Len(topic[p]) \in Nat
      BY <1>3, TopicType, TopicsAssumption DEF SafetyInv, TypeInv, TypeOK
    <3>3. position[p] < Len(topic[p])
      BY <3>1, <3>2
    <3> QED BY <2>1, <2>2, <3>3 DEF ConsumerCanGoOn
  <2>3. CASE pc # "fetch"
    BY <1>3, <2>1, <2>3 DEF AtWork, ConsumerCanGoOn
  <2> QED BY <2>2, <2>3
<1> QED BY <1>1, <1>2, <1>3, Safety, PTL DEF Spec
=============================================================================
