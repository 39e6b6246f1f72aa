---------------------------- MODULE OrderService ----------------------------
(***************************************************************************)
(* service.OrderService over its two dependencies: the orders of Postgres  *)
(* (one transaction is one step) and the LRU cache of LruCache.  A method  *)
(* that calls both is split where another goroutine can come between: Save *)
(* into its database and its cache half, Get into the cache lookup, the    *)
(* query and the fill, Warmup into the query and one Set per order.        *)
(*                                                                         *)
(* This module has no next-state relation: OrderPipeline says who calls    *)
(* which method, and when.                                                 *)
(***************************************************************************)
EXTENDS LruCache, Integers

CONSTANTS
  Readers,       \* the HTTP requests that can be in flight at once
  WarmupLimit    \* CACHE_WARMUP_LIMIT

ASSUME UidsAssumption == IsFiniteSet(Uids) /\ Absent \notin Uids
ASSUME WarmupAssumption == WarmupLimit \in Nat

VARIABLES
  db,        \* db[u]: the version of order u that Postgres holds, or Absent
  applied,   \* history: every version a transaction has committed
  gets,      \* gets[r]: where request r is inside Get
  warmup     \* what Warmup has read and how much of it is still to be cached

storeVars == <<db, applied>>
serviceVars == <<cacheVars, storeVars, gets, warmup>>

(* Outside Get a request has no uid and no order. *)
NoGet == [pc |-> "idle", uid |-> Absent, got |-> Absent]
NoWarmup == [listing |-> << >>, left |-> 0]

Stored == {u \in Uids : db[u] # Absent}

ServiceInit ==
  /\ CacheInit
  /\ db = [u \in Uids |-> Absent]
  /\ applied = {}
  /\ gets = [r \in Readers |-> NoGet]
  /\ warmup = NoWarmup

-----------------------------------------------------------------------------
(* Save: the transaction of repo.Save commits, then cache.Set. *)

SaveInDb(u, v) ==
  /\ db' = [db EXCEPT ![u] = v]
  /\ applied' = applied \cup {v}
  /\ UNCHANGED <<cacheVars, gets, warmup>>

SaveInCache(u, v) ==
  /\ CacheSet(u, v)
  /\ UNCHANGED <<storeVars, gets, warmup>>

-----------------------------------------------------------------------------
(* Get: the lookup, the query on a miss, and the fill. *)

GetHit(r, u) ==
  /\ gets[r].pc = "idle"
  /\ CacheGetHit(u)
  /\ UNCHANGED <<storeVars, gets, warmup>>

GetMiss(r, u) ==
  /\ gets[r].pc = "idle"
  /\ CacheGetMiss(u)
  /\ gets' = [gets EXCEPT ![r] = [pc |-> "query", uid |-> u, got |-> Absent]]
  /\ UNCHANGED <<storeVars, warmup>>

GetFound(r) ==
  /\ gets[r].pc = "query"
  /\ gets[r].uid \in Stored
  /\ gets' = [gets EXCEPT ![r] =
                [pc |-> "fill", uid |-> gets[r].uid, got |-> db[gets[r].uid]]]
  /\ UNCHANGED <<cacheVars, storeVars, warmup>>

(* ErrNotFound, a database error or the handler's timeout: nothing is cached. *)
GetFails(r) ==
  /\ gets[r].pc = "query"
  /\ gets' = [gets EXCEPT ![r] = NoGet]
  /\ UNCHANGED <<cacheVars, storeVars, warmup>>

(* Mutant: the fill uses Set. *)
GetFillOverwrites(r) ==
  /\ gets[r].pc = "fill"
  /\ CacheSet(gets[r].uid, gets[r].got)
  /\ gets' = [gets EXCEPT ![r] = NoGet]
  /\ UNCHANGED <<storeVars, warmup>>

GetFill(r) ==
  /\ gets[r].pc = "fill"
  /\ CacheSetIfAbsent(gets[r].uid, gets[r].got)
  /\ gets' = [gets EXCEPT ![r] = NoGet]
  /\ UNCHANGED <<storeVars, warmup>>

-----------------------------------------------------------------------------
(* Warmup: ListRecent, then one Set per order from the oldest to the newest. *)

(* The rows ListRecent can return: the query orders by date_created, which  *)
(* the model leaves open, so any stored orders in any order.                *)
Listings ==
  LET Smaller(a, b) == IF a <= b THEN a ELSE b
      n == Smaller(WarmupLimit, Cardinality(Stored))
  IN  {s \in [1..n -> Stored] : \A i, j \in 1..n : s[i] = s[j] => i = j}

ListRecent ==
  /\ \E s \in Listings :
       warmup' = [listing |-> [i \in DOMAIN s |-> [uid |-> s[i], order |-> db[s[i]]]],
                  left    |-> Len(s)]
  /\ UNCHANGED <<cacheVars, storeVars, gets>>

(* Mutant: the listing is cached in its own order, the newest first. *)
WarmOneForwards ==
  LET row == warmup.listing[Len(warmup.listing) + 1 - warmup.left]
  IN  /\ warmup.left > 0
      /\ CacheSet(row.uid, row.order)
      /\ warmup' = [warmup EXCEPT !.left = @ - 1]
      /\ UNCHANGED <<storeVars, gets>>

WarmOne ==
  LET row == warmup.listing[warmup.left]
  IN  /\ warmup.left > 0
      /\ CacheSet(row.uid, row.order)
      /\ warmup' = [warmup EXCEPT !.left = @ - 1]
      /\ UNCHANGED <<storeVars, gets>>

(* The process is gone: the cache and the requests in flight go with it. *)
ServiceLost ==
  /\ held' = [u \in Uids |-> Absent]
  /\ recency' = << >>
  /\ gets' = [r \in Readers |-> NoGet]
  /\ warmup' = NoWarmup
  /\ UNCHANGED storeVars
=============================================================================
