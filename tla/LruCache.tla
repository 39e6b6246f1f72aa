------------------------------ MODULE LruCache ------------------------------
(***************************************************************************)
(* The order cache of internal/cache/lru.go as its callers see it: which   *)
(* order it holds under each uid and how recently each uid was used.  The  *)
(* mutex of the Go type makes every method one atomic step, so every       *)
(* method is one action here.  LruList models the doubly linked list that  *)
(* implements it; OrderPipeline uses these actions as the service's cache. *)
(***************************************************************************)
EXTENDS Naturals, Sequences, FiniteSets

CONSTANTS
  Uids,       \* order_uid values
  Versions,   \* the contents an order can have
  Absent,     \* "no order": a uid that is not a key of the map
  Capacity    \* CACHE_CAPACITY

\* New refuses a capacity below one.
ASSUME CapacityAssumption == Capacity \in Nat \ {0}
ASSUME AbsentAssumption == Absent \notin Versions

VARIABLES
  held,       \* held[u]: the order stored under u, or Absent
  recency     \* the cached uids, the most recently used first

cacheVars == <<held, recency>>

Cached == {u \in Uids : held[u] # Absent}

(* recency with u, which occurs in it, moved to the front *)
MovedToFront(u) ==
  LET at == CHOOSE i \in 1..Len(recency) : recency[i] = u
  IN  [i \in 1..Len(recency) |-> CASE i = 1 -> u
                                   [] i > 1 /\ i <= at -> recency[i - 1]
                                   [] OTHER -> recency[i]]

CacheInit ==
  /\ held = [u \in Uids |-> Absent]
  /\ recency = << >>

-----------------------------------------------------------------------------
(* Get: a hit refreshes the uid, a miss changes nothing the callers see. *)
CacheGetHit(u) ==
  /\ u \in Cached
  /\ recency' = MovedToFront(u)
  /\ UNCHANGED held

CacheGetMiss(u) ==
  /\ u \notin Cached
  /\ UNCHANGED cacheVars

(* insert: the new order goes to the front; above capacity the last one goes *)
Insert(u, v) ==
  LET grown  == <<u>> \o recency
      victim == grown[Len(grown)]
  IN  IF Cardinality(Cached \cup {u}) > Capacity
      THEN /\ held' = [held EXCEPT ![u] = v, ![victim] = Absent]
           /\ recency' = SubSeq(grown, 1, Len(grown) - 1)
      ELSE /\ held' = [held EXCEPT ![u] = v]
           /\ recency' = grown

CacheSet(u, v) ==
  \/ /\ u \in Cached
     /\ held' = [held EXCEPT ![u] = v]
     /\ recency' = MovedToFront(u)
  \/ /\ u \notin Cached
     /\ Insert(u, v)

CacheSetIfAbsent(u, v) ==
  \/ /\ u \in Cached
     /\ UNCHANGED cacheVars
  \/ /\ u \notin Cached
     /\ Insert(u, v)

-----------------------------------------------------------------------------
CacheNext ==
  \E u \in Uids :
    \/ CacheGetHit(u)
    \/ CacheGetMiss(u)
    \/ \E v \in Versions : CacheSet(u, v) \/ CacheSetIfAbsent(u, v)

CacheSpec == CacheInit /\ [][CacheNext]_cacheVars
=============================================================================
