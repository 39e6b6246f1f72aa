--------------------------- MODULE OrderInstances ---------------------------
(***************************************************************************)
(* Several instances of orders-service in one consumer group over one      *)
(* database.  The group hands each partition to one member; a rebalance    *)
(* moves it while its last reader may still have a message of it in hand,  *)
(* and a member that was expelled reads on until it notices.  Each         *)
(* instance has a cache of its own.  What one instance does by itself      *)
(* (attempts, eviction, the steps of its start and stop) is OrderPipeline; *)
(* here a consumer that returns takes its process with it at once, and the *)
(* cache has room for every order.                                         *)
(***************************************************************************)
EXTENDS Naturals, Sequences, FiniteSets

CONSTANTS
  Instances,
  Partitions,
  Uids,
  Topic,       \* Topic[p]: the messages of partition p
  LogLength,   \* bound of the model: messages in a partition
  MaxFaults,   \* bound of the model: faults the environment may inject
  Absent

Kinds == {"valid", "invalid", "refused"}
Message == [uid : Uids, kind : Kinds]

ASSUME InstancesAssumption == Absent \notin Instances \cup Uids \cup Nat
ASSUME LogAssumption ==
  /\ LogLength \in Nat
  /\ Topic \in [Partitions -> Seq(Message)]
  /\ \A p \in Partitions : Len(Topic[p]) <= LogLength
ASSUME MaxFaultsAssumption == MaxFaults \in Nat

(* A version of an order is named by the message that carries it. *)
Versions == UNION {{p} \X (1..Len(Topic[p])) : p \in Partitions}
ASSUME VersionsAssumption == Absent \notin Versions

VARIABLES
  db,          \* db[u]: the version of order u that Postgres holds, or Absent
  applied,     \* history: every version a transaction has committed
  writer,      \* history: writer[u], the instance that wrote db[u], if one did
  orphans,     \* versions whose COMMIT was sent on a connection since lost
  committed,   \* committed[p]: messages of p the group's offset has passed
  member,      \* the instances the group coordinator counts as its members
  reader,      \* reader[i][p]: messages of p that i has read, Absent if it reads none
  up,          \* the instances whose process runs
  pc,          \* pc[i]: where the consumer goroutine of i is
  msg,         \* msg[i]: the message in its hands, or Absent
  held,        \* held[i][u]: what the cache of i has under u, or Absent
  query,       \* a request that has read a version and not yet cached it, or Absent
  overlapped,  \* history: a partition was taken from an instance still at work on it
  faults       \* faults injected so far

storeVars == <<db, applied, writer, orphans>>
groupVars == <<committed, member, reader, overlapped>>
cacheVars == <<held, query>>
vars == <<storeVars, groupVars, cacheVars, up, pc, msg, faults>>

UidOf(v) == Topic[v[1]][v[2]].uid
KindOf(v) == Topic[v[1]][v[2]].kind

NotReading == [p \in Partitions |-> Absent]
EmptyCache == [u \in Uids |-> Absent]
NoQuery == [at |-> Absent, version |-> Absent]
Fault == faults < MaxFaults /\ faults' = faults + 1

(* An upsert waits for the transaction that has the row of its order. *)
RowLocked(u) == \E v \in orphans : UidOf(v) = u

Init ==
  /\ db = [u \in Uids |-> Absent]
  /\ applied = {}
  /\ writer = [u \in Uids |-> Absent]
  /\ orphans = {}
  /\ committed = [p \in Partitions |-> 0]
  /\ member = {}
  /\ reader = [i \in Instances |-> NotReading]
  /\ up = {}
  /\ pc = [i \in Instances |-> "fetch"]
  /\ msg = [i \in Instances |-> Absent]
  /\ held = [i \in Instances |-> EmptyCache]
  /\ query = NoQuery
  /\ overlapped = FALSE
  /\ faults = 0

-----------------------------------------------------------------------------
(* The processes and the group. *)

(* run(): the warmup caches what the database holds, then the consumer runs. *)
Start(i) ==
  /\ i \notin up
  /\ up' = up \cup {i}
  /\ held' = [held EXCEPT ![i] = db]
  /\ UNCHANGED <<storeVars, groupVars, query, pc, msg, faults>>

(* The process of i ends.  A transaction it had in flight is rolled back, or *)
(* had its COMMIT on the way: then nobody hears what becomes of it.          *)
Gone(i) ==
  /\ up' = up \ {i}
  /\ member' = member \ {i}
  /\ reader' = [reader EXCEPT ![i] = NotReading]
  /\ pc' = [pc EXCEPT ![i] = "fetch"]
  /\ msg' = [msg EXCEPT ![i] = Absent]
  /\ held' = [held EXCEPT ![i] = EmptyCache]
  /\ query' = IF query.at = i THEN NoQuery ELSE query
  /\ UNCHANGED <<db, applied, writer, committed, overlapped>>

AtCommit(i) == pc[i] = "save" /\ KindOf(msg[i]) = "valid" /\ ~RowLocked(UidOf(msg[i]))

MaybeOrphaned(i) ==
  \/ UNCHANGED orphans
  \/ AtCommit(i) /\ orphans' = orphans \cup {msg[i]}

Crash(i) ==
  /\ i \in up
  /\ Fault
  /\ MaybeOrphaned(i)
  /\ Gone(i)

NeedsRebalance ==
  \/ member # up
  \/ \E p \in Partitions : \A i \in member : reader[i][p] = Absent

(* i is still at work on p when the partition goes to somebody else. *)
StillAtWork(i, p) == msg[i] # Absent /\ msg[i][1] = p

(* Mutant: a member keeps the readers of its last generation. *)
AssignedOnTop(members, to) ==
  [i \in Instances |->
     [p \in Partitions |->
        IF i \in members /\ to[p] = i THEN committed[p] ELSE reader[i][p]]]

Assigned(members, to) ==
  [i \in Instances |->
     IF i \in members
       THEN [p \in Partitions |-> IF to[p] = i THEN committed[p] ELSE Absent]
       ELSE reader[i]]

(* The coordinator settles on members and hands out the partitions; every   *)
(* reader starts again from the committed offsets.  All running instances   *)
(* become members, unless the fault is that one of them was not heard of.   *)
(* Such a one keeps its readers: it learns of it with its next heartbeat.   *)
Rebalance(members, to) ==
  /\ members # {}
  /\ \/ NeedsRebalance /\ members = up /\ UNCHANGED faults
     \/ members \subseteq up /\ Fault
  /\ member' = members
  /\ reader' = Assigned(members, to)
  /\ overlapped' = (overlapped \/ \E i \in up :
       \/ i \notin members /\ reader[i] # NotReading
       \/ \E p \in Partitions : to[p] # i /\ StillAtWork(i, p))
  /\ UNCHANGED <<storeVars, cacheVars, committed, up, pc, msg>>

-----------------------------------------------------------------------------
(* The consumer of an instance: Run, handle, save. *)

Fetch(i, p) ==
  /\ i \in up
  /\ pc[i] = "fetch"
  /\ reader[i][p] # Absent
  /\ reader[i][p] < Len(Topic[p])
  /\ reader' = [reader EXCEPT ![i][p] = @ + 1]
  /\ msg' = [msg EXCEPT ![i] = <<p, reader[i][p] + 1>>]
  /\ pc' = [pc EXCEPT ![i] =
              IF Topic[p][reader[i][p] + 1].kind = "invalid" THEN "commit" ELSE "save"]
  /\ UNCHANGED <<storeVars, cacheVars, committed, member, overlapped, up, faults>>

(* The transaction of repo.Save commits. *)
StoredBy(w, v) ==
  /\ db' = [db EXCEPT ![UidOf(v)] = v]
  /\ writer' = [writer EXCEPT ![UidOf(v)] = w]
  /\ applied' = applied \cup {v}

(* Mutant: the upsert of the order is ON CONFLICT DO NOTHING. *)
SaveStoresOnce(i) ==
  /\ i \in up
  /\ AtCommit(i)
  /\ IF db[UidOf(msg[i])] = Absent
       THEN StoredBy(i, msg[i])
       ELSE applied' = applied \cup {msg[i]} /\ UNCHANGED <<db, writer>>
  /\ pc' = [pc EXCEPT ![i] = "cache"]
  /\ UNCHANGED <<groupVars, cacheVars, orphans, up, msg, faults>>

SaveStores(i) ==
  /\ i \in up
  /\ AtCommit(i)
  /\ StoredBy(i, msg[i])
  /\ pc' = [pc EXCEPT ![i] = "cache"]
  /\ UNCHANGED <<groupVars, cacheVars, orphans, up, msg, faults>>

(* Mutant: the path of the write fills the cache with SetIfAbsent. *)
SaveCachesIfAbsent(i) ==
  /\ i \in up
  /\ pc[i] = "cache"
  /\ held' = [held EXCEPT ![i][UidOf(msg[i])] = IF @ = Absent THEN msg[i] ELSE @]
  /\ pc' = [pc EXCEPT ![i] = "commit"]
  /\ UNCHANGED <<storeVars, groupVars, query, up, msg, faults>>

SaveCaches(i) ==
  /\ i \in up
  /\ pc[i] = "cache"
  /\ held' = [held EXCEPT ![i][UidOf(msg[i])] = msg[i]]
  /\ pc' = [pc EXCEPT ![i] = "commit"]
  /\ UNCHANGED <<storeVars, groupVars, query, up, msg, faults>>

SaveRefused(i) ==
  /\ i \in up
  /\ pc[i] = "save"
  /\ KindOf(msg[i]) = "refused"
  /\ pc' = [pc EXCEPT ![i] = "commit"]
  /\ UNCHANGED <<storeVars, groupVars, cacheVars, up, msg, faults>>

(* A transient error: the consumer waits and saves the same message again. *)
SaveRetries(i) ==
  /\ i \in up
  /\ pc[i] = "save"
  /\ Fault
  /\ MaybeOrphaned(i)
  /\ pc' = [pc EXCEPT ![i] = "backoff"]
  /\ UNCHANGED <<db, applied, writer, groupVars, cacheVars, up, msg>>

(* Mutant: after the last attempt the message is skipped. *)
SaveSkips(i) ==
  /\ i \in up
  /\ pc[i] = "save"
  /\ Fault
  /\ MaybeOrphaned(i)
  /\ pc' = [pc EXCEPT ![i] = "commit"]
  /\ UNCHANGED <<db, applied, writer, groupVars, cacheVars, up, msg>>

(* Mutant: Run returns outside an errgroup, the process and its place in    *)
(* the group stay.                                                          *)
SaveGivesUpQuietly(i) ==
  /\ i \in up
  /\ pc[i] = "save"
  /\ Fault
  /\ MaybeOrphaned(i)
  /\ pc' = [pc EXCEPT ![i] = "done"]
  /\ UNCHANGED <<db, applied, writer, groupVars, cacheVars, up, msg>>

(* The last attempt failed: Run returns, and the process ends with it. *)
SaveGivesUp(i) ==
  /\ i \in up
  /\ pc[i] = "save"
  /\ Fault
  /\ MaybeOrphaned(i)
  /\ Gone(i)

BackoffElapses(i) ==
  /\ i \in up
  /\ pc[i] = "backoff"
  /\ pc' = [pc EXCEPT ![i] = "save"]
  /\ UNCHANGED <<storeVars, groupVars, cacheVars, up, msg, faults>>

OffsetCommitted(i) == committed' = [committed EXCEPT ![msg[i][1]] = msg[i][2]]

(* The group takes any offset from a member of its current generation, also *)
(* one of a partition that was handed to another member.                    *)
CommitSucceeds(i) ==
  /\ i \in member
  /\ pc[i] = "commit"
  /\ OffsetCommitted(i)
  /\ pc' = [pc EXCEPT ![i] = "fetch"]
  /\ msg' = [msg EXCEPT ![i] = Absent]
  /\ UNCHANGED <<storeVars, cacheVars, member, reader, overlapped, up, faults>>

(* Mutant: a failed commit is logged and the loop goes on. *)
CommitFailsUnnoticed(i) ==
  /\ i \in up
  /\ pc[i] = "commit"
  /\ Fault
  /\ pc' = [pc EXCEPT ![i] = "fetch"]
  /\ msg' = [msg EXCEPT ![i] = Absent]
  /\ UNCHANGED <<storeVars, cacheVars, groupVars, up>>

(* CommitMessages returns an error, as it does to who is no member any more: *)
(* Run returns.  (An offset that arrives all the same before its answer is   *)
(* lost is CommitSucceeds and then Crash.)                                   *)
CommitFails(i) ==
  /\ i \in up
  /\ pc[i] = "commit"
  /\ \/ i \notin member /\ UNCHANGED faults
     \/ i \in member /\ Fault
  /\ Gone(i)
  /\ UNCHANGED orphans

(* Postgres comes to the COMMIT of a lost connection, or finds it gone. *)
OrphanCommits(v) ==
  /\ v \in orphans
  /\ StoredBy(Absent, v)
  /\ orphans' = orphans \ {v}
  /\ UNCHANGED <<groupVars, cacheVars, up, pc, msg, faults>>

OrphanAborts(v) ==
  /\ v \in orphans
  /\ orphans' = orphans \ {v}
  /\ UNCHANGED <<db, applied, writer, groupVars, cacheVars, up, pc, msg, faults>>

-----------------------------------------------------------------------------
(* A request at i that misses the cache: the query, then the fill.  One     *)
(* request in flight is enough: a fill leaves alone what is there.          *)

Query(i, u) ==
  /\ i \in up
  /\ query = NoQuery
  /\ held[i][u] = Absent
  /\ db[u] # Absent
  /\ query' = [at |-> i, version |-> db[u]]
  /\ UNCHANGED <<storeVars, groupVars, held, up, pc, msg, faults>>

Fill(i) ==
  /\ query.at = i
  /\ held' = [held EXCEPT ![i][UidOf(query.version)] =
                IF @ = Absent THEN query.version ELSE @]
  /\ query' = NoQuery
  /\ UNCHANGED <<storeVars, groupVars, up, pc, msg, faults>>

-----------------------------------------------------------------------------
Consume(i) ==
  \/ \E p \in Partitions : Fetch(i, p)
  \/ SaveStores(i) \/ SaveCaches(i) \/ SaveRefused(i)
  \/ BackoffElapses(i)
  \/ CommitSucceeds(i) \/ CommitFails(i)

Settle == \E v \in orphans : OrphanCommits(v) \/ OrphanAborts(v)

Coordinate == \E members \in SUBSET up, to \in [Partitions -> Instances] :
  (\A p \in Partitions : to[p] \in members) /\ Rebalance(members, to)

Next ==
  \/ \E i \in Instances :
       \/ Start(i) \/ Crash(i)
       \/ Consume(i)
       \/ SaveRetries(i) \/ SaveGivesUp(i)
       \/ Fill(i)
       \/ \E u \in Uids : Query(i, u)
  \/ Settle
  \/ Coordinate

Spec == Init /\ [][Next]_vars

(* A process that ended is started again (docker-compose: restart), the     *)
(* coordinator completes a rebalance that is due, Postgres settles what a   *)
(* lost connection left, and each consumer goroutine is scheduled.          *)
FairSpec ==
  /\ Spec
  /\ WF_vars(Settle)
  /\ WF_vars(NeedsRebalance /\ Coordinate)
  /\ \A i \in Instances : WF_vars(Start(i)) /\ WF_vars(Consume(i))
=============================================================================
