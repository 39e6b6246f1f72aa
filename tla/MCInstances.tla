---------------------------- MODULE MCInstances ----------------------------
(* Values for InstancesProperties: an order updated twice in one partition, *)
(* and once more, after a refused message, in another.                      *)
EXTENDS InstancesProperties

CONSTANTS a, p1, p2, i1, i2

MCInstances == {i1, i2}
MCUids == {a}
MCPartitions == {p1, p2}

M(u, k) == [uid |-> u, kind |-> k]

MCTopic ==
  [p \in MCPartitions |->
     IF p = p1 THEN <<M(a, "valid"), M(a, "valid")>> ELSE <<M(a, "refused"), M(a, "valid")>>]

(* The overlap needs one partition and one order only. *)
MCOnePartition == {p1}
MCShortTopic == [p \in MCOnePartition |-> <<M(a, "valid"), M(a, "valid")>>]
=============================================================================
