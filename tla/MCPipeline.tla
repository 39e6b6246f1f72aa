----------------------------- MODULE MCPipeline -----------------------------
(* Values for PipelineProperties: two partitions, logs that repeat uids     *)
(* within and across them and mix good, invalid and refused messages.       *)
EXTENDS PipelineProperties

CONSTANTS a, b, c, p1, p2, r1, r2

MCUids == {a, b, c}
MCTwoUids == {a, b}
MCPartitions == {p1, p2}
MCReaders == {r1, r2}
MCVersions == MCPartitions \X (1..LogLength)

M(u, k) == [uid |-> u, kind |-> k]
Log(l1, l2) == [p \in MCPartitions |-> IF p = p1 THEN l1 ELSE l2]

(* An order updated twice, another order and a third one beside it. *)
MCTopics ==
  {Log(<<M(a, "valid"), M(a, "valid")>>, <<M(b, "valid"), M(c, "valid")>>),
   Log(<<M(a, "valid"), M(b, "refused")>>, <<M(b, "invalid"), M(a, "valid")>>)}

MCTwoUidTopics ==
  {Log(<<M(a, "valid"), M(a, "valid")>>, <<M(b, "valid")>>),
   Log(<<M(b, "refused"), M(a, "valid")>>, <<M(a, "invalid"), M(a, "valid")>>)}
=============================================================================
