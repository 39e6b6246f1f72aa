------------------------------- MODULE LruList -------------------------------
(***************************************************************************)
(* internal/cache/lru.go as it is written: a map from uid to node and a    *)
(* hand-made doubly linked list threaded through the nodes.  A node in the *)
(* map is named by its uid, which is what the map guarantees; Nil is Go's  *)
(* nil pointer.  Every public method runs under c.mu, so it is one action. *)
(***************************************************************************)
EXTENDS Naturals, FiniteSets

CONSTANTS
  Uids,        \* order_uid values
  Versions,    \* the contents an order can have
  Absent,      \* a uid that is not a key of c.nodes
  Nil,         \* the nil *node
  Capacity,    \* CACHE_CAPACITY
  MaxLookups   \* bound of the model: Get calls counted by hits and misses

ASSUME CapacityAssumption == Capacity \in Nat \ {0}
ASSUME SentinelAssumption == Absent \notin Versions /\ Nil \notin Uids
ASSUME UidsAssumption == IsFiniteSet(Uids)
ASSUME BoundAssumption == MaxLookups \in Nat

VARIABLES
  order,   \* order[u]: nodes[u].order, or Absent when u is not in the map
  list,    \* head, tail and the prev and next fields of the nodes
  hits,
  misses

vars == <<order, list, hits, misses>>

Ptr == Uids \cup {Nil}
Lists == [head : Ptr, tail : Ptr, prev : [Uids -> Ptr], next : [Uids -> Ptr]]

(* the keys of c.nodes *)
Cached == {u \in Uids : order[u] # Absent}

-----------------------------------------------------------------------------
(* The list operations, on a list value l and a node t. *)

PushFront(l, t) ==
  [head |-> t,
   tail |-> IF l.tail = Nil THEN t ELSE l.tail,
   prev |-> [u \in Uids |-> IF u = l.head THEN t
                            ELSE IF u = t THEN Nil ELSE l.prev[u]],
   next |-> [u \in Uids |-> IF u = t THEN l.head ELSE l.next[u]]]

(* Mutant: unlinking the last node forgets to move c.tail. *)
UnlinkKeepsTail(l, t) ==
  LET before == l.prev[t]
      after  == l.next[t]
  IN  [head |-> IF before = Nil THEN after ELSE l.head,
       tail |-> l.tail,
       prev |-> [u \in Uids |-> IF u = t THEN Nil
                                ELSE IF u = after THEN before ELSE l.prev[u]],
       next |-> [u \in Uids |-> IF u = t THEN Nil
                                ELSE IF u = before THEN after ELSE l.next[u]]]

Unlink(l, t) ==
  LET before == l.prev[t]
      after  == l.next[t]
  IN  [head |-> IF before = Nil THEN after ELSE l.head,
       tail |-> IF after = Nil THEN before ELSE l.tail,
       prev |-> [u \in Uids |-> IF u = t THEN Nil
                                ELSE IF u = after THEN before ELSE l.prev[u]],
       next |-> [u \in Uids |-> IF u = t THEN Nil
                                ELSE IF u = before THEN after ELSE l.next[u]]]

(* Mutant: a use does not refresh the node, eviction is by age (FIFO). *)
MoveToFrontNever(l, t) == l

MoveToFront(l, t) ==
  IF l.head = t THEN l ELSE PushFront(Unlink(l, t), t)

-----------------------------------------------------------------------------
Init ==
  /\ order = [u \in Uids |-> Absent]
  /\ list = [head |-> Nil, tail |-> Nil,
             prev |-> [u \in Uids |-> Nil], next |-> [u \in Uids |-> Nil]]
  /\ hits = 0
  /\ misses = 0

GetHit(u) ==
  /\ u \in Cached
  /\ hits + misses < MaxLookups
  /\ list' = MoveToFront(list, u)
  /\ hits' = hits + 1
  /\ UNCHANGED <<order, misses>>

GetMiss(u) ==
  /\ u \notin Cached
  /\ hits + misses < MaxLookups
  /\ misses' = misses + 1
  /\ UNCHANGED <<order, list, hits>>

(* Mutant: the capacity test is off by one. *)
InsertOneTooMany(u, v) ==
  LET grown == PushFront(list, u)
  IN  IF Cardinality(Cached) > Capacity /\ grown.tail # Nil
      THEN /\ list' = Unlink(grown, grown.tail)
           /\ order' = [order EXCEPT ![u] = v, ![grown.tail] = Absent]
      ELSE /\ list' = grown
           /\ order' = [order EXCEPT ![u] = v]

(* Mutant: evict takes the node after the head, not the tail. *)
InsertEvictsSecond(u, v) ==
  LET grown  == PushFront(list, u)
      victim == grown.next[u]
  IN  IF Cardinality(Cached \cup {u}) > Capacity /\ victim # Nil
      THEN /\ list' = Unlink(grown, victim)
           /\ order' = [order EXCEPT ![u] = v, ![victim] = Absent]
      ELSE /\ list' = grown
           /\ order' = [order EXCEPT ![u] = v]

(* insert, with the evict it calls when the map has outgrown the capacity *)
Insert(u, v) ==
  LET grown == PushFront(list, u)
  IN  IF Cardinality(Cached \cup {u}) > Capacity /\ grown.tail # Nil
      THEN /\ list' = Unlink(grown, grown.tail)
           /\ order' = [order EXCEPT ![u] = v, ![grown.tail] = Absent]
      ELSE /\ list' = grown
           /\ order' = [order EXCEPT ![u] = v]

Set(u, v) ==
  /\ \/ /\ u \in Cached
        /\ order' = [order EXCEPT ![u] = v]
        /\ list' = MoveToFront(list, u)
     \/ /\ u \notin Cached
        /\ Insert(u, v)
  /\ UNCHANGED <<hits, misses>>

SetIfAbsent(u, v) ==
  /\ \/ /\ u \in Cached
        /\ UNCHANGED <<order, list>>
     \/ /\ u \notin Cached
        /\ Insert(u, v)
  /\ UNCHANGED <<hits, misses>>

Next ==
  \E u \in Uids :
    \/ GetHit(u)
    \/ GetMiss(u)
    \/ \E v \in Versions : Set(u, v) \/ SetIfAbsent(u, v)

Spec == Init /\ [][Next]_vars

-----------------------------------------------------------------------------
(* Every field has its type and the map never outgrows the capacity, which *)
(* is what insert calls evict for.                                          *)
TypeOK ==
  /\ order \in [Uids -> Versions \cup {Absent}]
  /\ list \in Lists
  /\ hits \in Nat /\ misses \in Nat
  /\ Cardinality(Cached) <= Capacity

(* s, of length n, spells out the nodes of l from head to tail: the next    *)
(* pointers walk s forwards, the prev pointers backwards, the ends are nil, *)
(* and a node that is not in the list points nowhere.                       *)
Chain(l, n, s) ==
  /\ \A i, j \in 1..n : s[i] = s[j] => i = j
  /\ l.head = IF n = 0 THEN Nil ELSE s[1]
  /\ l.tail = IF n = 0 THEN Nil ELSE s[n]
  /\ \A i \in 1..n : l.next[s[i]] = IF i = n THEN Nil ELSE s[i + 1]
  /\ \A i \in 1..n : l.prev[s[i]] = IF i = 1 THEN Nil ELSE s[i - 1]
  /\ \A u \in Uids : (\A i \in 1..n : s[i] # u) =>
                         l.next[u] = Nil /\ l.prev[u] = Nil

Spells(n, s) == \A u \in Uids : u \in Cached <=> \E i \in 1..n : s[i] = u

(* After any sequence of Get, Set and SetIfAbsent the list is one acyclic   *)
(* chain, consistent in both directions, over exactly the keys of the map,  *)
(* and it never exceeds the capacity: a pointer slip in unlink, pushFront   *)
(* or evict would leave a lost or looping node here.                        *)
ListSound ==
  \E n \in 0..Capacity : \E s \in [1..n -> Uids] :
    Chain(list, n, s) /\ Spells(n, s)

(* The first n nodes of l from its head on. *)
Walked(l, n) ==
  LET at[i \in 1..n] == IF i = 1 THEN l.head ELSE l.next[at[i - 1]]
  IN  at

(* The abstract recency order: the list read from its head. *)
Walk == Walked(list, Cardinality(Cached))

Lru == INSTANCE LruCache WITH held <- order, recency <- Walk

(* The pointer structure implements the cache its callers rely on: each     *)
(* method of lru.go does to the list what LruCache says it does to the      *)
(* recency order, so the victim of evict is the least recently used order.  *)
ImplementsLruCache == Lru!CacheSpec
=============================================================================
