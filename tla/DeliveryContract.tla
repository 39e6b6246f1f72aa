-------------------------- MODULE DeliveryContract --------------------------
(***************************************************************************)
(* What the doc of Consumer.Run promises of the topic, without the process *)
(* that keeps the promise: the messages of a partition are settled one by  *)
(* one, in order, and a valid order is in the database before its message  *)
(* is settled ("at-least-once").  OrderPipeline implements it.             *)
(***************************************************************************)
EXTENDS Naturals, Sequences

CONSTANTS Partitions, Topics

VARIABLES
  topic,     \* the messages of each partition
  settled,   \* settled[p]: messages of p that will not be delivered again
  stored     \* the versions the database has taken

contractVars == <<topic, settled, stored>>

ContractInit ==
  /\ topic \in Topics
  /\ settled = [p \in Partitions |-> 0]
  /\ stored = {}

NextMessage(p) == <<p, settled[p] + 1>>
NextIsValid(p) == topic[p][settled[p] + 1].kind = "valid"

Store(p) ==
  /\ settled[p] < Len(topic[p])
  /\ NextIsValid(p)
  /\ stored' = stored \cup {NextMessage(p)}
  /\ UNCHANGED <<topic, settled>>

Settle(p) ==
  /\ settled[p] < Len(topic[p])
  /\ NextIsValid(p) => NextMessage(p) \in stored
  /\ settled' = [settled EXCEPT ![p] = @ + 1]
  /\ UNCHANGED <<topic, stored>>

ContractNext == \E p \in Partitions : Store(p) \/ Settle(p)

ContractSpec == ContractInit /\ [][ContractNext]_contractVars

(* Every partition is worked off, whatever the other partitions hold. *)
ContractFairSpec ==
  ContractSpec /\ \A p \in Partitions : WF_contractVars(Store(p) \/ Settle(p))
=============================================================================
