---------------------------- MODULE MCRepository ----------------------------
(* Values for RepositoryProperties: one writer updates an order and drops   *)
(* an item, another one saves the same order after one that is refused.     *)
EXTENDS RepositoryProperties

CONSTANTS a, b, w1, w2, t1, t2, t3, r1, x, y

MCUids == {a, b}
MCItems == {x, y}
MCWriters == {w1, w2}
MCSessions == {t1, t2, t3}
MCReaders == {r1}

O(u, s, ref) == [uid |-> u, items |-> s, refused |-> ref]
MCSaves ==
  [w \in MCWriters |->
     IF w = w1 THEN <<O(a, <<x, y>>, FALSE), O(a, <<y>>, FALSE)>>
               ELSE <<O(a, <<x>>, TRUE), O(b, <<x>>, FALSE)>>]
=============================================================================
