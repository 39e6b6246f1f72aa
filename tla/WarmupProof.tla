---------------------------- MODULE WarmupProof ----------------------------
(***************************************************************************)
(* Proof that a warmup keeps the newest orders of its listing, for every   *)
(* capacity and every limit.  The cache is empty when the listing is read, *)
(* the uids of the listing are distinct, and nobody else uses the cache    *)
(* before the service serves: so each Set puts a new order at the front,   *)
(* and what it pushes out of a full cache is the one put first.            *)
(***************************************************************************)
EXTENDS PipelineProof

(* No order is listed twice. *)
ListedOnce ==
  \A i, j \in 1..Len(warmup.listing) :
    warmup.listing[i].uid = warmup.listing[j].uid => i = j

(* The recency list has every cached uid. *)
AllRecent == \A u \in Cached : \E i \in 1..Len(recency) : recency[i] = u

WarmInv ==
  /\ proc = "down" => Cached = {} /\ recency = << >>
  /\ proc = "starting" => ListedOnce /\ AllRecent /\ WarmupKeepsFreshest

LEMMA WarmInit == Init => WarmInv
BY DEF Init, ServiceInit, CacheInit, WarmInv, Cached

(* A listing has every order at most once, and all of it is still to be put. *)
LEMMA FreshListing ==
  ASSUME db \in [Uids -> Versions \cup {Absent}], ListRecent
  PROVE  ListedOnce' /\ warmup'.left = Len(warmup'.listing) /\ Len(warmup'.listing) \in Nat
<1>1. Cardinality(Stored) \in Nat
  BY UidsAssumption, FS_Subset, FS_CardinalityType DEF Stored
<1>2. PICK s \in Listings :
        warmup' = [listing |-> [i \in DOMAIN s |-> [uid |-> s[i], order |-> db[s[i]]]],
                   left    |-> Len(s)]
  BY DEF ListRecent
<1>3. PICK n \in Nat : /\ s \in [1..n -> Stored]
                       /\ \A i, j \in 1..n : s[i] = s[j] => i = j
  BY <1>1, WarmupAssumption DEF Listings
<1>4. DOMAIN s = 1..n /\ Len(s) = n
  BY <1>3
<1>5. /\ Len(warmup'.listing) = n /\ warmup'.left = n
      /\ \A i \in 1..n : warmup'.listing[i].uid = s[i]
  BY <1>2, <1>4
<1> QED
  BY <1>3, <1>5 DEF ListedOnce

(* While it warms up the cache is as long as its recency list. *)
LEMMA CachedCount ==
  ASSUME TypeOK, WarmInv, proc = "starting"
  PROVE  IsFiniteSet(Cached) /\ Cardinality(Cached) = Len(recency)
<1> DEFINE n == Len(recency)
<1>1. /\ n \in Nat /\ recency \in [1..n -> Uids]
      /\ warmup.left \in 0..Len(warmup.listing) /\ Len(warmup.listing) \in Nat
  BY DEF TypeOK
<1>2. n <= Len(warmup.listing) - warmup.left
  BY <1>1, CapacityAssumption DEF WarmInv, WarmupKeepsFreshest
<1>3. \A i \in 1..n : /\ recency[i] = warmup.listing[warmup.left + i].uid
                      /\ held[recency[i]] = warmup.listing[warmup.left + i].order
  BY DEF WarmInv, WarmupKeepsFreshest
<1>4. \A i \in 1..n : warmup.left + i \in 1..Len(warmup.listing)
  BY <1>1, <1>2
<1>5. \A i \in 1..n : recency[i] \in Cached
  BY <1>1, <1>3, <1>4, ListingType, AbsentAssumption DEF Cached
<1>6. ASSUME NEW i \in 1..n, NEW j \in 1..n, recency[i] = recency[j] PROVE i = j
  <2> DEFINE x == warmup.left + i
             y == warmup.left + j
  <2>1. x \in 1..Len(warmup.listing) /\ y \in 1..Len(warmup.listing)
    BY <1>4
  <2>2. warmup.listing[x].uid = warmup.listing[y].uid
    BY <1>3, <1>6
  <2>3. x = y
    <3> HIDE DEF x, y
    <3> QED
      BY <2>1, <2>2 DEF WarmInv, ListedOnce
  <2> QED
    BY <1>1, <2>3
<1>7. recency \in [1..n -> Cached]
  BY <1>1, <1>5
<1>8. recency \in Bijection(1..n, Cached)
  BY <1>6, <1>7 DEF WarmInv, AllRecent, Bijection, Injection, IsInjective, Surjection
<1>9. ExistsBijection(1..n, Cached)
  BY <1>8 DEF ExistsBijection
<1> HIDE DEF n
<1>10. IsFiniteSet(Cached)
  BY <1>1, <1>9, FS_NatBijection
<1>11. Cardinality(Cached) = n
  BY <1>1, <1>9, FS_CountingElements
<1> QED
  BY <1>10, <1>11 DEF n

(* One Set of Warmup: a new uid goes to the front, and out of a full cache  *)
(* goes the last one.                                                       *)
LEMMA WarmOneEffect ==
  ASSUME TypeOK, WarmInv, proc = "starting", WarmOne
  PROVE  LET row == warmup.listing[warmup.left]
             n == Len(recency)
         IN  /\ row.uid \in Uids /\ row.order \in Versions /\ row.uid \notin Cached
             /\ n \in Nat /\ n <= Capacity
             /\ warmup' = [warmup EXCEPT !.left = @ - 1]
             /\ Len(recency') = IF n = Capacity THEN n ELSE n + 1
             /\ recency'[1] = row.uid
             /\ \A i \in 2..Len(recency') : recency'[i] = recency[i - 1]
             /\ held'[row.uid] = row.order
             /\ \A u \in Uids \ {row.uid} :
                  held'[u] = IF n = Capacity /\ u = recency[Capacity]
                             THEN Absent ELSE held[u]
<1> DEFINE row == warmup.listing[warmup.left]
           n == Len(recency)
           grown == <<row.uid>> \o recency
           victim == grown[Len(grown)]
<1>1. /\ recency \in Seq(Uids) /\ n \in Nat
      /\ warmup.left \in 1..Len(warmup.listing) /\ Len(warmup.listing) \in Nat
      /\ Capacity \in Nat \ {0}
  BY CapacityAssumption DEF TypeOK, WarmOne
<1>2. n <= Capacity /\ n <= Len(warmup.listing) - warmup.left
  BY <1>1 DEF WarmInv, WarmupKeepsFreshest
<1>3. row.uid \in Uids /\ row.order \in Versions
  BY <1>1, ListingType
<1>4. row.uid \notin Cached
  <2>1. SUFFICES ASSUME row.uid \in Cached PROVE FALSE
    OBVIOUS
  <2>2. PICK i \in 1..n : recency[i] = row.uid
    BY <2>1 DEF WarmInv, AllRecent
  <2>3. warmup.left + i \in 1..Len(warmup.listing)
    BY <1>1, <1>2
  <2>4. warmup.listing[warmup.left + i].uid = row.uid
    BY <2>2 DEF WarmInv, WarmupKeepsFreshest
  <2>5. warmup.left + i = warmup.left
    BY <1>1, <2>3, <2>4 DEF WarmInv, ListedOnce
  <2> QED
    BY <1>1, <2>5
<1>5. Cardinality(Cached \cup {row.uid}) = n + 1
  BY <1>4, CachedCount, FS_AddElement
<1>6. Insert(row.uid, row.order) /\ warmup' = [warmup EXCEPT !.left = @ - 1]
  BY <1>4 DEF WarmOne, CacheSet
<1>7. /\ grown \in Seq(Uids) /\ Len(grown) = n + 1 /\ grown[1] = row.uid
      /\ \A i \in 2..(n + 1) : grown[i] = recency[i - 1]
  BY <1>1, <1>3
<1>8. held \in [Uids -> Versions \cup {Absent}]
  BY DEF TypeOK
<1>9. CASE n = Capacity
  <2>1. /\ held' = [held EXCEPT ![row.uid] = row.order, ![victim] = Absent]
        /\ recency' = SubSeq(grown, 1, Len(grown) - 1)
    BY <1>1, <1>5, <1>6, <1>9 DEF Insert
  <2>2. /\ recency' \in Seq(Uids) /\ Len(recency') = n
        /\ \A i \in 1..n : recency'[i] = grown[i]
    BY <1>1, <1>7, <2>1
  <2>3. victim = recency[Capacity] /\ Capacity \in 1..n
    BY <1>1, <1>7, <1>9
  <2>4. victim \in Cached
    <3>1. recency[Capacity] = warmup.listing[warmup.left + Capacity].uid
          /\ held[recency[Capacity]] = warmup.listing[warmup.left + Capacity].order
      BY <2>3 DEF WarmInv, WarmupKeepsFreshest
    <3>2. warmup.left + Capacity \in 1..Len(warmup.listing)
      BY <1>1, <1>2, <2>3
    <3> QED
      BY <2>3, <3>1, <3>2, ListingType, AbsentAssumption DEF Cached
  <2>5. victim # row.uid /\ victim \in Uids
    BY <1>4, <2>4 DEF Cached
  <2>6. held'[row.uid] = row.order
    BY <1>3, <1>8, <2>1, <2>5
  <2>7. \A u \in Uids \ {row.uid} : held'[u] = IF u = victim THEN Absent ELSE held[u]
    BY <1>8, <2>1
  <2>8. recency'[1] = row.uid /\ \A i \in 2..n : recency'[i] = recency[i - 1]
    BY <1>1, <1>7, <1>9, <2>2
  <2> QED
    BY <1>1, <1>2, <1>3, <1>4, <1>6, <1>9, <2>2, <2>3, <2>6, <2>7, <2>8
<1>10. CASE n # Capacity
  <2>1. held' = [held EXCEPT ![row.uid] = row.order] /\ recency' = grown
    BY <1>1, <1>2, <1>5, <1>6, <1>10 DEF Insert
  <2>2. /\ held'[row.uid] = row.order
        /\ \A u \in Uids \ {row.uid} : held'[u] = held[u]
    BY <1>3, <1>8, <2>1
  <2>3. /\ Len(recency') = n + 1 /\ recency'[1] = row.uid
        /\ \A i \in 2..Len(recency') : recency'[i] = recency[i - 1]
    BY <1>1, <1>7, <2>1
  <2> QED
    BY <1>1, <1>2, <1>3, <1>4, <1>6, <1>10, <2>2, <2>3
<1> QED
  BY <1>9, <1>10

LEMMA WarmStepKeeps ==
  ASSUME TypeOK, WarmInv, WarmStep
  PROVE  WarmInv'
<1> DEFINE row == warmup.listing[warmup.left]
           n == Len(recency)
           m == Len(recency')
           put == Len(warmup.listing) - warmup.left
<1>1. /\ proc = "starting" /\ proc' = "starting" /\ WarmOne
      /\ warmup.left \in 1..Len(warmup.listing) /\ Len(warmup.listing) \in Nat
      /\ Capacity \in Nat \ {0} /\ recency \in Seq(Uids) /\ n \in Nat
  BY CapacityAssumption DEF WarmStep, WarmOne, TypeOK
<1>2. /\ row.uid \in Uids /\ row.uid \notin Cached
      /\ n <= Capacity
      /\ warmup' = [warmup EXCEPT !.left = @ - 1]
      /\ m = IF n = Capacity THEN n ELSE n + 1
      /\ recency'[1] = row.uid
      /\ \A i \in 2..m : recency'[i] = recency[i - 1]
      /\ held'[row.uid] = row.order
      /\ \A u \in Uids \ {row.uid} :
           held'[u] = IF n = Capacity /\ u = recency[Capacity] THEN Absent ELSE held[u]
  BY <1>1, WarmOneEffect
<1>3. warmup'.listing = warmup.listing /\ warmup'.left = warmup.left - 1
  BY <1>1, <1>2 DEF TypeOK
<1>4. /\ n = IF put <= Capacity THEN put ELSE Capacity
      /\ \A i \in 1..n : /\ recency[i] = warmup.listing[warmup.left + i].uid
                         /\ held[recency[i]] = warmup.listing[warmup.left + i].order
      /\ ListedOnce /\ AllRecent
  BY <1>1 DEF WarmInv, WarmupKeepsFreshest
<1>5. \A i \in 1..n : recency[i] \in Uids
  BY <1>1
<1>6. m = IF put + 1 <= Capacity THEN put + 1 ELSE Capacity
  BY <1>1, <1>2, <1>4
<1>7. ASSUME NEW i \in 1..n, NEW j \in 1..n, recency[i] = recency[j] PROVE i = j
  <2>1. warmup.left + i \in 1..Len(warmup.listing) /\ warmup.left + j \in 1..Len(warmup.listing)
    BY <1>1, <1>4
  <2>2. warmup.left + i = warmup.left + j
    BY <1>4, <1>7, <2>1 DEF ListedOnce
  <2> QED
    BY <1>1, <2>2
<1>8. ASSUME NEW i \in 1..m
      PROVE  LET r == warmup.listing[warmup.left - 1 + i]
             IN  recency'[i] = r.uid /\ held'[r.uid] = r.order
  <2>1. CASE i = 1
    BY <1>1, <1>2, <2>1
  <2>2. CASE i # 1
    <3> DEFINE k == i - 1
    <3>1. i \in 2..m /\ k \in 1..n /\ (n = Capacity => k # Capacity)
      BY <1>1, <1>2, <2>2
    <3>2. recency'[i] = recency[k] /\ warmup.left - 1 + i = warmup.left + k
      BY <1>1, <1>2, <3>1
    <3>3. held[recency[k]] = warmup.listing[warmup.left + k].order
          /\ recency[k] = warmup.listing[warmup.left + k].uid
      BY <1>4, <3>1
    <3>4. recency[k] # row.uid /\ recency[k] \in Uids
      <4>1. warmup.left + k \in 1..Len(warmup.listing)
        BY <1>1, <1>4, <3>1
      <4>2. recency[k] = row.uid => warmup.left + k = warmup.left
        BY <1>1, <1>4, <3>3, <4>1 DEF ListedOnce
      <4> QED
        BY <1>1, <1>5, <3>1, <4>2
    <3>5. n = Capacity => recency[k] # recency[Capacity]
      BY <1>1, <1>7, <3>1
    <3>6. held'[recency[k]] = held[recency[k]]
      BY <1>2, <3>4, <3>5
    <3> QED
      BY <3>2, <3>3, <3>6
  <2> QED
    BY <2>1, <2>2
<1>9. WarmupKeepsFreshest'
  BY <1>1, <1>3, <1>6, <1>8 DEF WarmupKeepsFreshest
<1>10. ASSUME NEW u \in Cached' PROVE \E i \in 1..m : recency'[i] = u
  <2>0. u \in Uids /\ held'[u] # Absent
    BY <1>10 DEF Cached
  <2>1. CASE u = row.uid
    <3>1. 1 \in 1..m
      BY <1>1, <1>2
    <3> QED
      BY <1>2, <2>1, <3>1
  <2>2. CASE u # row.uid
    <3>1. held'[u] = held[u] /\ u \in Cached /\ ~(n = Capacity /\ u = recency[Capacity])
      BY <1>2, <2>0, <2>2 DEF Cached
    <3>2. PICK k \in 1..n : recency[k] = u
      BY <1>4, <3>1 DEF AllRecent
    <3>3. k + 1 \in 2..m /\ k \in Nat /\ m \in Nat
      BY <1>1, <1>2, <3>1, <3>2
    <3>4. recency'[k + 1] = recency[k] /\ k + 1 \in 1..m
      BY <1>2, <3>3
    <3> QED
      BY <3>2, <3>4
  <2> QED
    BY <2>1, <2>2
<1>11. ListedOnce' /\ AllRecent'
  BY <1>3, <1>4, <1>10 DEF ListedOnce, AllRecent
<1> QED
  BY <1>1, <1>9, <1>11 DEF WarmInv

LEMMA WarmInvStep ==
  TypeInv /\ WarmInv /\ [Next]_vars => WarmInv'
<1> SUFFICES ASSUME TypeInv, WarmInv, [Next]_vars PROVE WarmInv'
  OBVIOUS
<1>t. TypeOK
  BY DEF TypeInv
<1>1. CASE Start
  <2>1. /\ proc = "down" /\ proc' = "starting" /\ ListRecent
        /\ Cached = {} /\ recency = << >> /\ UNCHANGED cacheVars
    BY <1>1 DEF Start, ListRecent, WarmInv
  <2>2. ListedOnce' /\ warmup'.left = Len(warmup'.listing) /\ Len(warmup'.listing) \in Nat
    BY <1>t, <2>1, FreshListing DEF TypeOK
  <2>3. recency' = << >> /\ Cached' = {}
    BY <2>1 DEF cacheVars, Cached
  <2>4. WarmupKeepsFreshest' /\ AllRecent'
    BY <2>2, <2>3, CapacityAssumption DEF WarmupKeepsFreshest, AllRecent
  <2> QED
    BY <2>1, <2>2, <2>4 DEF WarmInv
<1>2. CASE WarmStep
  BY <1>t, <1>2, WarmStepKeeps
<1>3. CASE Serve
  BY <1>3 DEF Serve, WarmInv
<1>4. CASE Exit \/ Crash
  BY <1>4 DEF Exit, Crash, ProcessGone, ServiceLost, WarmInv, Cached
<1>5. CASE Consume \/ (Disturb /\ ~Crash) \/ \E r \in Readers : Request(r)
  <2>1. proc' \in {"up", "stopping"}
    BY <1>5 DEF Consume, Disturb, Request, Running, Fetch, SaveStores, SaveCaches,
      SaveRefused, BackoffElapses, CommitSucceeds, FetchFails, SaveRetries, SaveGivesUp,
      BackoffCancelled, CommitFails, Rejoin, Stop, ConsumerReturns
  <2> QED
    BY <2>1 DEF WarmInv
<1>6. CASE UNCHANGED vars
  BY <1>6 DEF vars, serviceVars, cacheVars, storeVars, WarmInv, Cached, ListedOnce,
    AllRecent, WarmupKeepsFreshest
<1> QED
  BY <1>1, <1>2, <1>3, <1>4, <1>5, <1>6 DEF Next, Disturb

(* A warmup keeps the newest orders of its listing, also when the listing   *)
(* is longer than the cache (order_service.go, the comment in Warmup).      *)
THEOREM WarmupKeepsNewest == Spec => []WarmupKeepsFreshest
<1>1. SafetyInv => TypeInv
  BY DEF SafetyInv
<1>2. WarmInv => WarmupKeepsFreshest
  BY DEF WarmInv, WarmupKeepsFreshest
<1> QED
  BY <1>1, <1>2, Safety, WarmInit, WarmInvStep, PTL DEF Spec
=============================================================================
