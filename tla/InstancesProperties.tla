------------------------ MODULE InstancesProperties ------------------------
(***************************************************************************)
(* What instances that share a consumer group and a database have to       *)
(* satisfy, and what they satisfy only as long as no partition changes     *)
(* hands while its reader is still at work.                                *)
(***************************************************************************)
EXTENDS OrderInstances

(* Every variable has its type, and the members read disjoint partitions. *)
TypeOK ==
  /\ db \in [Uids -> Versions \cup {Absent}]
  /\ applied \subseteq Versions
  /\ writer \in [Uids -> Instances \cup {Absent}]
  /\ orphans \subseteq Versions
  /\ committed \in [Partitions -> 0..LogLength]
  /\ up \subseteq Instances
  /\ member \subseteq up
  /\ reader \in [Instances -> [Partitions -> 0..LogLength \cup {Absent}]]
  /\ \A i, j \in member : \A p \in Partitions :
       reader[i][p] # Absent /\ reader[j][p] # Absent => i = j
  /\ pc \in [Instances -> {"fetch", "save", "backoff", "cache", "commit"}]
  /\ msg \in [Instances -> Versions \cup {Absent}]
  /\ \A i \in Instances : pc[i] = "fetch" <=> msg[i] = Absent
  /\ held \in [Instances -> [Uids -> Versions \cup {Absent}]]
  /\ query \in [at : up, version : Versions] \cup {NoQuery}
  /\ overlapped \in BOOLEAN
  /\ faults \in 0..MaxFaults

(* No acknowledged order is lost, whoever acknowledges it: a valid order    *)
(* whose offset is committed is in Postgres, also when the commit comes     *)
(* from an instance that lost the partition, or went back from a later      *)
(* offset (consumer.go, the doc of Run).                                    *)
NoAckedOrderLost ==
  \A p \in Partitions : \A n \in 1..committed[p] :
    Topic[p][n].kind = "valid" => <<p, n>> \in applied

InHand(i, u) == pc[i] = "cache" /\ UidOf(msg[i]) = u

(* A cached copy that is not what Postgres holds is never the instance's    *)
(* own fault: between its transaction and its Set apart, the last write of  *)
(* that order came from another instance or from a lost connection.  A      *)
(* request's fill does not displace what the consumer of the same instance  *)
(* has put (order_service.go, the comments in Save and Get).                *)
StaleOnlyByOthers ==
  \A i \in up, u \in Uids :
    held[i][u] \notin {Absent, db[u]} => InHand(i, u) \/ writer[u] # i

(* As long as no partition is taken from an instance that is still at work  *)
(* on it, neither the orders nor the offsets of the group go back, through  *)
(* rebalances, kills, restarts and transactions that commit after their     *)
(* process: a redelivery starts where nothing later has been saved.         *)
RegressNeedsOverlap ==
  [][~overlapped' =>
       /\ \A p \in Partitions : committed'[p] >= committed[p]
       /\ \A u \in Uids : db'[u] # db[u] =>
            \A v \in applied :
              UidOf(v) = u /\ v[1] = db'[u][1] => v[2] <= db'[u][2]]_vars

(* What one instance promises of the topic (DeliveryContract, the doc of    *)
(* Consumer.Run), the group promises as a whole until that happens: through *)
(* rebalances, kills, retries and transactions that outlive their process,  *)
(* the messages of a partition are settled one by one and in order, and     *)
(* nothing but the next valid one of a partition enters the database.       *)
Delivery == INSTANCE DeliveryContract WITH
  Topics <- {Topic}, topic <- Topic, settled <- committed, stored <- applied

ContractUntilOverlap ==
  /\ Delivery!ContractInit
  /\ [][~overlapped' => Delivery!ContractNext \/ UNCHANGED <<committed, applied>>]_vars

(* Every valid order of the topic is stored in the end, by one instance or  *)
(* another; without an overlap the group is through with the topic, too.    *)
(* After one its offset may stay behind: the messages are read once more    *)
(* after the next rebalance.                                                *)
EveryOrderStored ==
  <>(\A p \in Partitions : \A n \in 1..Len(Topic[p]) :
       /\ Topic[p][n].kind = "valid" => <<p, n>> \in applied
       /\ overlapped \/ n <= committed[p])

LastOf(u, p) ==
  {n \in 1..Len(Topic[p]) :
     /\ Topic[p][n].uid = u /\ Topic[p][n].kind = "valid"
     /\ \A k \in 1..Len(Topic[p]) :
          Topic[p][k].uid = u /\ Topic[p][k].kind = "valid" => k <= n}

(* Without such an overlap the database ends with the last version of every *)
(* order (of one of the partitions that have it).                           *)
ConvergesWithoutOverlap ==
  <>[] (overlapped \/ \A u \in Uids :
          (\E p \in Partitions : LastOf(u, p) # {}) =>
            \E p \in Partitions : db[u] \in {p} \X LastOf(u, p))

(* What consumer.go says of a redelivery, that the write is idempotent: to  *)
(* save an order again that has been saved before changes nothing.  It does *)
(* not hold with a second instance: an instance that waits to retry an old  *)
(* version writes it over the newer one that the new owner of the partition *)
(* has saved meanwhile.                                                     *)
RedeliveryIsHarmless ==
  [][\A u \in Uids : db'[u] # db[u] => db'[u] \notin applied]_vars
=============================================================================
