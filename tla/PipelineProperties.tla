------------------------- MODULE PipelineProperties -------------------------
(***************************************************************************)
(* What OrderPipeline has to satisfy: nothing acknowledged is lost, the    *)
(* cache shows only what the database committed, redelivery never undoes a *)
(* later write, and the topic is worked off.                               *)
(***************************************************************************)
EXTENDS OrderPipeline

GetStates ==
  [pc : {"idle", "query", "fill"}, uid : Uids \cup {Absent},
   got : Versions \cup {Absent}]

(* Every variable has its type; the consumer has a message in its hands     *)
(* exactly while it works on one, and it never makes more attempts at it    *)
(* than the configuration allows.                                           *)
TypeOK ==
  /\ held \in [Uids -> Versions \cup {Absent}]
  /\ recency \in Seq(Uids)
  /\ db \in [Uids -> Versions \cup {Absent}]
  /\ applied \subseteq Versions
  /\ gets \in [Readers -> GetStates]
  /\ warmup.listing \in Seq([uid : Uids, order : Versions])
  /\ warmup.left \in 0..Len(warmup.listing)
  /\ topic \in Topics
  /\ committed \in [Partitions -> 0..LogLength]
  /\ position \in [Partitions -> 0..LogLength]
  /\ proc \in {"down", "starting", "up", "stopping"}
  /\ pc \in {"fetch", "save", "backoff", "cache", "commit", "done"}
  /\ msg \in Versions \cup {Absent}
  /\ pc \in {"save", "backoff", "cache", "commit"} => msg # Absent
  /\ attempt \in 0..MaxAttempts
  /\ faults \in 0..MaxFaults

(* No acknowledged order is lost: a valid order whose offset is committed   *)
(* has been committed to Postgres, through any run of failures, retries,    *)
(* rebalances, kills and restarts (consumer.go, the doc of Run).            *)
NoAckedOrderLost ==
  \A p \in Partitions : \A i \in 1..committed[p] :
    topic[p][i].kind = "valid" => <<p, i>> \in applied

(* Neither the cache nor a request about to fill it ever has an order that  *)
(* Postgres has not committed, and each has it under its own uid            *)
(* (order_service.go, the doc of Save).                                     *)
CacheWasCommitted ==
  /\ \A u \in Cached : held[u] \in applied /\ UidOf(held[u]) = u
  /\ \A r \in Readers : gets[r].got # Absent =>
       gets[r].got \in applied /\ UidOf(gets[r].got) = gets[r].uid

(* While Warmup runs the cache holds the newest of the orders put so far,   *)
(* in the order of the listing: a listing longer than the cache loses its   *)
(* old end, not its new one (order_service.go, the comment in Warmup).      *)
WarmupKeepsFreshest ==
  proc = "starting" =>
    LET put == Len(warmup.listing) - warmup.left
    IN  /\ Len(recency) = IF put <= Capacity THEN put ELSE Capacity
        /\ \A i \in 1..Len(recency) :
             LET row == warmup.listing[warmup.left + i]
             IN  recency[i] = row.uid /\ held[row.uid] = row.order

(* A message that is delivered again never undoes the write of a later      *)
(* message of its partition: "the write is idempotent" is not enough for    *)
(* that, no later message may have been saved before the redelivery         *)
(* (consumer.go, the comment in Run on stopping at a failed message).       *)
RedeliveryNeverRegresses ==
  [][\A u \in Uids : db'[u] # db[u] =>
       \A v \in applied : v[1] = db'[u][1] => v[2] <= db'[u][2]]_vars

(* The consumer has begun to save a valid message of u and not yet cached it. *)
InHand(u) ==
  /\ msg # Absent
  /\ KindOf(msg) = "valid" /\ UidOf(msg) = u
  /\ pc # "commit"

(* A stale copy never stays in the cache: what is cached under u is what    *)
(* Postgres holds, unless the consumer is still between the write and the   *)
(* Set for u (order_service.go, the comment in Get: the copy a reader       *)
(* fetched must not displace the newer version the consumer has put).       *)
CacheFresh ==
  \A u \in Cached : held[u] = db[u] \/ InHand(u)

Contract == INSTANCE DeliveryContract WITH settled <- committed, stored <- applied

(* The instance with all its restarts settles the topic as the contract     *)
(* says: in order, each valid order stored first, and every partition to    *)
(* its end.                                                                 *)
ImplementsDelivery == Contract!ContractFairSpec

LastOf(u, p) ==
  {i \in 1..Len(topic[p]) :
     /\ topic[p][i].uid = u /\ topic[p][i].kind = "valid"
     /\ \A j \in 1..Len(topic[p]) :
          topic[p][j].uid = u /\ topic[p][j].kind = "valid" => j <= i}

(* Once the faults are over database and cache converge: every order that   *)
(* has a valid message is stored, in the last version of a partition that   *)
(* has one, and the cache holds that version or nothing.                    *)
Converges ==
  <>[] \A u \in Uids :
         /\ (\E p \in Partitions : LastOf(u, p) # {}) =>
              \E p \in Partitions : db[u] \in {p} \X LastOf(u, p)
         /\ held[u] \in {Absent, db[u]}
=============================================================================
