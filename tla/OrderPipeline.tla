---------------------------- MODULE OrderPipeline ----------------------------
(***************************************************************************)
(* One instance of orders-service from the Kafka topic to the HTTP reader: *)
(* kafka.Consumer.Run with the retries of save, service.OrderService over  *)
(* Postgres and the LRU cache, and the process that run() in               *)
(* cmd/orders-service/main.go warms up, serves with and stops.  Consumer   *)
(* and requests interleave at every call that leaves the process; the      *)
(* process can be stopped or killed at any step and is started again.      *)
(***************************************************************************)
EXTENDS OrderService

CONSTANTS
  Partitions,    \* partitions of the topic
  Topics,        \* the topic contents the runs start from
  LogLength,     \* bound of the model: messages in a partition
  MaxAttempts,   \* KAFKA_MAX_ATTEMPTS, after New's max(cfg.MaxAttempts, 1)
  MaxFaults      \* bound of the model: faults the environment may inject

(* invalid: decode or the validator refuses it; refused: Postgres does, with *)
(* a constraint or data error, the classes 22 and 23 of classifyError.       *)
Kinds == {"valid", "invalid", "refused"}
Message == [uid : Uids, kind : Kinds]

(* A version is named by the message that carries it. *)
ASSUME VersionsAssumption == Versions = Partitions \X (1..LogLength)
ASSUME TopicsAssumption ==
  /\ Absent \notin Partitions
  /\ LogLength \in Nat
  /\ Topics \subseteq [Partitions -> Seq(Message)]
  /\ \A t \in Topics, p \in Partitions : Len(t[p]) <= LogLength
ASSUME AttemptsAssumption == MaxAttempts \in Nat \ {0}
ASSUME FaultsAssumption == MaxFaults \in Nat

VARIABLES
  topic,       \* the messages of each partition; never changes
  committed,   \* committed[p]: messages of p the group's offset has passed
  position,    \* position[p]: messages of p the reader has handed out
  proc,        \* the process: down, starting, up, stopping
  pc,          \* where the consumer goroutine is
  msg,         \* the message in its hands, or Absent
  attempt,     \* attempts made at saving it
  faults       \* faults injected so far

kafkaVars == <<topic, committed, position>>
consumerVars == <<pc, msg, attempt>>
vars == <<serviceVars, kafkaVars, consumerVars, proc, faults>>

UidOf(v) == topic[v[1]][v[2]].uid
KindOf(v) == topic[v[1]][v[2]].kind

Running == proc \in {"up", "stopping"}

(* A failure of the environment, one of the MaxFaults the model allows. *)
Fault == faults < MaxFaults /\ faults' = faults + 1

(* Run returns: errgroup cancels the context and run() begins to stop. *)
ConsumerReturns == pc' = "done" /\ proc' = "stopping"

Init ==
  /\ ServiceInit
  /\ topic \in Topics
  /\ committed = [p \in Partitions |-> 0]
  /\ position = [p \in Partitions |-> 0]
  /\ proc = "down"
  /\ pc = "done"
  /\ msg = Absent
  /\ attempt = 0
  /\ faults = 0

-----------------------------------------------------------------------------
(* The process: run() in main.go. *)

(* Pool and migrations, then Warmup reads its listing. *)
Start ==
  /\ proc = "down"
  /\ ListRecent
  /\ proc' = "starting"
  /\ UNCHANGED <<kafkaVars, consumerVars, faults>>

WarmStep ==
  /\ proc = "starting"
  /\ WarmOne
  /\ UNCHANGED <<kafkaVars, consumerVars, proc, faults>>

(* Mutant: StartOffset is left at its default, the end of the topic. *)
ServeFromLastOffset ==
  /\ proc = "starting"
  /\ warmup.left = 0
  /\ proc' = "up"
  /\ warmup' = NoWarmup
  /\ pc' = "fetch"
  /\ position' = [p \in Partitions |->
                    IF committed[p] = 0 THEN Len(topic[p]) ELSE committed[p]]
  /\ UNCHANGED <<cacheVars, storeVars, gets, topic, committed, msg, attempt, faults>>

(* The consumer joins the group and resumes from the committed offsets, or  *)
(* from the first message of a partition that has none.                     *)
Serve ==
  /\ proc = "starting"
  /\ warmup.left = 0
  /\ proc' = "up"
  /\ warmup' = NoWarmup
  /\ pc' = "fetch"
  /\ position' = committed
  /\ UNCHANGED <<cacheVars, storeVars, gets, topic, committed, msg, attempt, faults>>

(* SIGTERM, or the HTTP server returns an error: the context is cancelled. *)
Stop ==
  /\ proc = "up"
  /\ Fault
  /\ proc' = "stopping"
  /\ UNCHANGED <<serviceVars, kafkaVars, consumerVars>>

ProcessGone ==
  /\ ServiceLost
  /\ proc' = "down"
  /\ pc' = "done"
  /\ msg' = Absent
  /\ attempt' = 0
  /\ UNCHANGED kafkaVars

(* run() returns, when its goroutines have or when the shutdown timeout ends. *)
Exit ==
  /\ proc = "stopping"
  /\ ProcessGone
  /\ UNCHANGED faults

(* Killed while it serves, or killed or failing while it starts. *)
Crash ==
  /\ proc \in {"starting", "up"}
  /\ Fault
  /\ ProcessGone

-----------------------------------------------------------------------------
(* The consumer: Run, handle and save. *)

(* FetchMessage and decode.  A cancelled context does not keep FetchMessage *)
(* from returning a message that is already there.                          *)
Fetch(p) ==
  /\ Running
  /\ pc = "fetch"
  /\ position[p] < Len(topic[p])
  /\ position' = [position EXCEPT ![p] = @ + 1]
  /\ msg' = <<p, position[p] + 1>>
  /\ pc' = IF topic[p][position[p] + 1].kind = "invalid" THEN "commit" ELSE "save"
  /\ attempt' = 1
  /\ UNCHANGED <<serviceVars, topic, committed, proc, faults>>

FetchFails ==
  /\ Running
  /\ pc = "fetch"
  /\ \/ proc = "stopping" /\ UNCHANGED faults
     \/ proc = "up" /\ Fault
  /\ ConsumerReturns
  /\ UNCHANGED <<serviceVars, kafkaVars, msg, attempt>>

(* The transaction of repo.Save commits. *)
SaveStores ==
  /\ Running
  /\ pc = "save"
  /\ KindOf(msg) = "valid"
  /\ SaveInDb(UidOf(msg), msg)
  /\ pc' = "cache"
  /\ UNCHANGED <<kafkaVars, msg, attempt, proc, faults>>

SaveCaches ==
  /\ Running
  /\ pc = "cache"
  /\ SaveInCache(UidOf(msg), msg)
  /\ pc' = "commit"
  /\ UNCHANGED <<kafkaVars, msg, attempt, proc, faults>>

(* Mutant: a constraint error is taken for a transient one. *)
SaveRefusedStops ==
  /\ Running
  /\ pc = "save"
  /\ KindOf(msg) = "refused"
  /\ ConsumerReturns
  /\ UNCHANGED <<serviceVars, kafkaVars, msg, attempt, faults>>

(* A permanent error: handle logs it and lets the offset go on. *)
SaveRefused ==
  /\ Running
  /\ pc = "save"
  /\ KindOf(msg) = "refused"
  /\ pc' = "commit"
  /\ UNCHANGED <<serviceVars, kafkaVars, msg, attempt, proc, faults>>

(* What a transaction whose Save returned a transient error left behind: *)
(* nothing, or everything when only the answer to its COMMIT was lost.   *)
MaybeStored ==
  \/ UNCHANGED serviceVars
  \/ KindOf(msg) = "valid" /\ SaveInDb(UidOf(msg), msg)

(* Mutant: the attempt count is compared after one attempt more. *)
SaveRetriesOnceMore ==
  /\ proc = "up"
  /\ pc = "save"
  /\ attempt <= MaxAttempts
  /\ Fault
  /\ MaybeStored
  /\ pc' = "backoff"
  /\ UNCHANGED <<kafkaVars, msg, attempt, proc>>

(* Mutant: Save puts the order into the cache before its transaction. *)
SaveRetriesCached ==
  /\ proc = "up"
  /\ pc = "save"
  /\ attempt < MaxAttempts
  /\ Fault
  /\ SaveInCache(UidOf(msg), msg)
  /\ pc' = "backoff"
  /\ UNCHANGED <<kafkaVars, msg, attempt, proc>>

SaveRetries ==
  /\ proc = "up"
  /\ pc = "save"
  /\ attempt < MaxAttempts
  /\ Fault
  /\ MaybeStored
  /\ pc' = "backoff"
  /\ UNCHANGED <<kafkaVars, msg, attempt, proc>>

(* Mutant: after the last attempt the message is skipped. *)
SaveSkips ==
  /\ Running
  /\ pc = "save"
  /\ \/ proc = "stopping" /\ UNCHANGED faults
     \/ proc = "up" /\ attempt = MaxAttempts /\ Fault
  /\ MaybeStored
  /\ pc' = "commit"
  /\ UNCHANGED <<kafkaVars, msg, attempt, proc>>

(* The last attempt failed, or the context is cancelled: Run returns. *)
SaveGivesUp ==
  /\ Running
  /\ pc = "save"
  /\ \/ proc = "stopping" /\ UNCHANGED faults
     \/ proc = "up" /\ attempt = MaxAttempts /\ Fault
  /\ MaybeStored
  /\ ConsumerReturns
  /\ UNCHANGED <<kafkaVars, msg, attempt>>

BackoffElapses ==
  /\ Running
  /\ pc = "backoff"
  /\ pc' = "save"
  /\ attempt' = attempt + 1
  /\ UNCHANGED <<serviceVars, kafkaVars, msg, proc, faults>>

BackoffCancelled ==
  /\ proc = "stopping"
  /\ pc = "backoff"
  /\ ConsumerReturns
  /\ UNCHANGED <<serviceVars, kafkaVars, msg, attempt, faults>>

OffsetCommitted == committed' = [committed EXCEPT ![msg[1]] = msg[2]]

CommitSucceeds ==
  /\ Running
  /\ pc = "commit"
  /\ OffsetCommitted
  /\ pc' = "fetch"
  /\ msg' = Absent
  /\ attempt' = 0
  /\ UNCHANGED <<serviceVars, topic, position, proc, faults>>

(* Mutant: a failed commit is logged and the loop goes on. *)
CommitFailsUnnoticed ==
  /\ Running
  /\ pc = "commit"
  /\ \/ proc = "stopping" /\ UNCHANGED faults
     \/ proc = "up" /\ Fault
  /\ UNCHANGED committed
  /\ pc' = "fetch"
  /\ msg' = Absent
  /\ attempt' = 0
  /\ UNCHANGED <<serviceVars, topic, position, proc>>

(* CommitMessages returns an error: the broker may still have the offset. *)
CommitFails ==
  /\ Running
  /\ pc = "commit"
  /\ \/ proc = "stopping" /\ UNCHANGED faults
     \/ proc = "up" /\ Fault
  /\ OffsetCommitted \/ UNCHANGED committed
  /\ ConsumerReturns
  /\ UNCHANGED <<serviceVars, topic, position, msg, attempt>>

(* The group rebalances, for instance after a session timeout: kafka-go     *)
(* starts again from the committed offsets, whatever Run has in its hands.  *)
Rejoin ==
  /\ Running
  /\ Fault
  /\ position' = committed
  /\ UNCHANGED <<serviceVars, topic, committed, consumerVars, proc>>

-----------------------------------------------------------------------------
(* The HTTP requests. *)

Request(r) ==
  /\ Running
  /\ \/ \E u \in Uids : GetHit(r, u) \/ GetMiss(r, u)
     \/ GetFound(r)
     \/ GetFails(r)
     \/ GetFill(r)
  /\ UNCHANGED <<kafkaVars, consumerVars, proc, faults>>

Consume ==
  \/ \E p \in Partitions : Fetch(p)
  \/ SaveStores \/ SaveCaches \/ SaveRefused
  \/ BackoffElapses \/ CommitSucceeds

Disturb ==
  \/ FetchFails \/ SaveRetries \/ SaveGivesUp \/ BackoffCancelled
  \/ CommitFails \/ Rejoin \/ Stop \/ Crash

Next ==
  \/ Start \/ WarmStep \/ Serve \/ Exit
  \/ Consume
  \/ Disturb
  \/ \E r \in Readers : Request(r)

Spec == Init /\ [][Next]_vars

(* The process is restarted when it ends (docker-compose: restart), a start *)
(* and a shutdown come to their end, and the consumer goroutine is          *)
(* scheduled; each is one weakly fair alternative that stays enabled.       *)
Fairness ==
  /\ WF_vars(Start)
  /\ WF_vars(WarmStep)
  /\ WF_vars(Serve)
  /\ WF_vars(Exit)
  /\ WF_vars(Consume)

FairSpec == Spec /\ Fairness
=============================================================================
