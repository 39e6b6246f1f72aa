----------------------------- MODULE LruRecency -----------------------------
(***************************************************************************)
(* LruList with a history variable: every uid ever used, the latest use    *)
(* first, never truncated.  A use is a Get that hits, a Set, or a          *)
(* SetIfAbsent that stores; it is what the doc of lru.go counts when it    *)
(* says that the orders not asked for the longest are dropped.             *)
(***************************************************************************)
EXTENDS LruList, Sequences

VARIABLE used

(* u moves to the front of the history, from where it was if it was used.   *)
Used(u) ==
  used' = IF \E k \in 1..Len(used) : used[k] = u
            THEN [i \in 1..Len(used) |->
                    IF i = 1 THEN u
                    ELSE IF \E k \in i..Len(used) : used[k] = u THEN used[i - 1]
                    ELSE used[i]]
            ELSE <<u>> \o used

UseInit == Init /\ used = << >>

UseNext ==
  \E u \in Uids :
    \/ GetHit(u) /\ Used(u)
    \/ GetMiss(u) /\ UNCHANGED used
    \/ \E v \in Versions : Set(u, v) /\ Used(u)
    \/ \E v \in Versions : SetIfAbsent(u, v) /\ u \in Cached /\ UNCHANGED used
    \/ \E v \in Versions : SetIfAbsent(u, v) /\ u \notin Cached /\ Used(u)

UseSpec == UseInit /\ [][UseNext]_<<vars, used>>

(* The cache keeps exactly the Capacity most recently used orders, whatever *)
(* mix of reads and writes led here: an order in steady use is never the    *)
(* one evicted.                                                             *)
MostRecentlyUsedKept ==
  \A i \in 1..Len(used) : used[i] \in Cached <=> i <= Capacity
=============================================================================
