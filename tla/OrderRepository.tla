--------------------------- MODULE OrderRepository ---------------------------
(***************************************************************************)
(* repository/postgres/order_repo.go, statement by statement.  Save sends  *)
(* BEGIN and one batch (upsert the order, its delivery and its payment,    *)
(* delete its items, insert its items), waits for the results of the batch *)
(* and sends COMMIT; the session that serves it runs on its own, also when *)
(* the client has lost the connection and tries again on another one.      *)
(* GetByUID and ListRecent read the orders and their items with two        *)
(* queries over one repeatable-read snapshot.                              *)
(*                                                                         *)
(* Postgres is modelled as far as the code relies on it: the upsert waits  *)
(* for the transaction that holds the row of the order, and DELETE sees    *)
(* what was committed before it.  Orders, deliveries and payments are      *)
(* written by the same upserts under the same lock: header stands for all  *)
(* three of them.                                                          *)
(***************************************************************************)
EXTENDS Integers, Sequences

CONSTANTS
  Uids,
  Items,       \* the contents of an item
  Writers,     \* the consumers that save orders, one Save each at a time
  Readers,     \* the queries of GetByUID and ListRecent that run at once
  Sessions,    \* server sessions, those of lost connections included
  Saves,       \* Saves[w]: the orders w has to save, in this order
  MaxLosses,   \* bound of the model: statements and connections that fail
  Absent

(* refused: a CHECK of the schema fails, class 23 of classifyError. *)
Order == [uid : Uids, items : Seq(Items), refused : BOOLEAN]

ASSUME SavesAssumption == Saves \in [Writers -> Seq(Order)]
ASSUME LossesAssumption == MaxLosses \in Nat

(* A version is named by who saves it and by its place in Saves. *)
Versions == {v \in Writers \X Nat : v[2] \in 1..Len(Saves[v[1]])}
OrderOf(v) == Saves[v[1]][v[2]]

ASSUME AbsentAssumption ==
  Absent \notin Versions \cup Sessions \cup [version : Versions, items : Seq(Items)]

VARIABLES
  header,    \* header[u]: the version whose orders row is committed, or Absent
  items,     \* items[u]: the committed rows of items, by id
  session,   \* session[t]: the transaction that server session t runs
  client,    \* client[w]: the session that serves the Save of w, or Absent
  next,      \* next[w]: which of its orders w is at
  view,      \* view[r]: what the transaction of reader r has read
  losses,    \* failures so far
  saved      \* history: every version a transaction has committed

tables == <<header, items, saved>>
vars == <<tables, session, client, next, view, losses>>

(* cleared: rows of items the DELETE has seen; rows: rows inserted since;   *)
(* asked: COMMIT has been sent; open: the client still has the connection.  *)
NoTransaction ==
  [st |-> "free", ver |-> Absent, cleared |-> 0, rows |-> << >>,
   asked |-> FALSE, open |-> FALSE]
Begun(v) == [NoTransaction EXCEPT !.st = "begun", !.ver = v, !.open = TRUE]

NoView ==
  [pc |-> "idle", heads |-> [u \in {} |-> Absent], rows |-> [u \in {} |-> Absent]]

UidIn(t) == OrderOf(session[t].ver).uid
HoldsRow(t) == session[t].st \in {"locked", "cleared"}
BatchDone(t) ==
  session[t].st = "cleared" /\ Len(session[t].rows) = Len(OrderOf(session[t].ver).items)

HasNext(w) == next[w] <= Len(Saves[w])
Current(w) == <<w, next[w]>>

Loss == losses < MaxLosses /\ losses' = losses + 1

Init ==
  /\ header = [u \in Uids |-> Absent]
  /\ items = [u \in Uids |-> << >>]
  /\ saved = {}
  /\ session = [t \in Sessions |-> NoTransaction]
  /\ client = [w \in Writers |-> Absent]
  /\ next = [w \in Writers |-> 1]
  /\ view = [r \in Readers |-> NoView]
  /\ losses = 0

-----------------------------------------------------------------------------
(* Save, on the side of the client. *)

(* Mutant: a connection of the pool is handed out while it is in use. *)
BeginSaveOnBusy(w) ==
  /\ HasNext(w)
  /\ client[w] = Absent
  /\ \E t \in Sessions :
       /\ client' = [client EXCEPT ![w] = t]
       /\ session' = [session EXCEPT ![t] = Begun(Current(w))]
  /\ UNCHANGED <<tables, next, view, losses>>

(* BeginFunc takes a connection, begins and sends the batch. *)
BeginSave(w) ==
  /\ HasNext(w)
  /\ client[w] = Absent
  /\ \E t \in Sessions :
       /\ session[t].st = "free"
       /\ client' = [client EXCEPT ![w] = t]
       /\ session' = [session EXCEPT ![t] = Begun(Current(w))]
  /\ UNCHANGED <<tables, next, view, losses>>

(* Mutant: COMMIT is sent with the batch, before its results are read. *)
SendCommitWithBatch(w) ==
  /\ client[w] # Absent
  /\ ~session[client[w]].asked
  /\ ~OrderOf(Current(w)).refused
  /\ session' = [session EXCEPT ![client[w]].asked = TRUE]
  /\ UNCHANGED <<tables, client, next, view, losses>>

(* SendBatch(...).Close returned no error: BeginFunc sends COMMIT. *)
SendCommit(w) ==
  /\ client[w] # Absent
  /\ BatchDone(client[w])
  /\ ~session[client[w]].asked
  /\ ~OrderOf(Current(w)).refused
  /\ session' = [session EXCEPT ![client[w]].asked = TRUE]
  /\ UNCHANGED <<tables, client, next, view, losses>>

(* The answer to COMMIT: Save returns nil and its caller goes on. *)
SaveReturns(w) ==
  /\ client[w] # Absent
  /\ session[client[w]].st = "committed"
  /\ session' = [session EXCEPT ![client[w]] = NoTransaction]
  /\ client' = [client EXCEPT ![w] = Absent]
  /\ next' = [next EXCEPT ![w] = @ + 1]
  /\ UNCHANGED <<tables, view, losses>>

(* A statement of the batch, the first or a later one, violates a CHECK:    *)
(* BeginFunc rolls back, classifyError makes the error permanent, and the   *)
(* caller goes on without the order.                                        *)
SaveRefused(w) ==
  /\ client[w] # Absent
  /\ OrderOf(Current(w)).refused
  /\ session' = [session EXCEPT ![client[w]] = NoTransaction]
  /\ client' = [client EXCEPT ![w] = Absent]
  /\ next' = [next EXCEPT ![w] = @ + 1]
  /\ UNCHANGED <<tables, view, losses>>

(* Mutant: the error of the batch is returned without a rollback. *)
StatementFailsUnrolled(w) ==
  /\ client[w] # Absent
  /\ session[client[w]].st # "committed"
  /\ ~session[client[w]].asked
  /\ Loss
  /\ client' = [client EXCEPT ![w] = Absent]
  /\ UNCHANGED <<tables, session, next, view>>

(* A statement of the batch fails with an error a retry may cure: BeginFunc *)
(* rolls back, and the caller calls Save again.                             *)
StatementFails(w) ==
  /\ client[w] # Absent
  /\ session[client[w]].st # "committed"
  /\ ~session[client[w]].asked
  /\ Loss
  /\ session' = [session EXCEPT ![client[w]] = NoTransaction]
  /\ client' = [client EXCEPT ![w] = Absent]
  /\ UNCHANGED <<tables, next, view>>

(* Mutant: the error of COMMIT is taken for a success. *)
ConnectionLostIgnored(w) ==
  /\ client[w] # Absent
  /\ Loss
  /\ session' = [session EXCEPT ![client[w]].open = FALSE]
  /\ client' = [client EXCEPT ![w] = Absent]
  /\ next' = IF session[client[w]].asked
               THEN [next EXCEPT ![w] = @ + 1] ELSE next
  /\ UNCHANGED <<tables, view>>

(* The connection breaks, the context is cancelled, which closes it, or the *)
(* process of the client dies.  What the server has received it executes;   *)
(* the caller calls Save again, or the message is delivered again.          *)
ConnectionLost(w) ==
  /\ client[w] # Absent
  /\ Loss
  /\ session' = [session EXCEPT ![client[w]].open = FALSE]
  /\ client' = [client EXCEPT ![w] = Absent]
  /\ UNCHANGED <<tables, next, view>>

-----------------------------------------------------------------------------
(* Save, in the session that serves it. *)

UpsertOrder(t) ==
  /\ session[t].st = "begun"
  /\ \A t2 \in Sessions : HoldsRow(t2) => UidIn(t2) # UidIn(t)
  /\ session' = [session EXCEPT ![t].st = "locked"]
  /\ UNCHANGED <<tables, client, next, view, losses>>

(* Mutant: no DELETE before the inserts. *)
DeleteNoItems(t) ==
  /\ session[t].st = "locked"
  /\ session' = [session EXCEPT ![t].st = "cleared"]
  /\ UNCHANGED <<tables, client, next, view, losses>>

DeleteItems(t) ==
  /\ session[t].st = "locked"
  /\ session' = [session EXCEPT ![t].st = "cleared", ![t].cleared = Len(items[UidIn(t)])]
  /\ UNCHANGED <<tables, client, next, view, losses>>

InsertItem(t) ==
  LET all == OrderOf(session[t].ver).items
      n == Len(session[t].rows)
  IN  /\ session[t].st = "cleared"
      /\ n < Len(all)
      /\ session' = [session EXCEPT ![t].rows = Append(@, all[n + 1])]
      /\ UNCHANGED <<tables, client, next, view, losses>>

(* Rows of the order that the DELETE of t has not seen. *)
Unseen(t) == SubSeq(items[UidIn(t)], session[t].cleared + 1, Len(items[UidIn(t)]))

Commit(t) ==
  /\ BatchDone(t)
  /\ session[t].asked
  /\ header' = [header EXCEPT ![UidIn(t)] = session[t].ver]
  /\ items' = [items EXCEPT ![UidIn(t)] = Unseen(t) \o session[t].rows]
  /\ saved' = saved \cup {session[t].ver}
  /\ session' = IF session[t].open
                  THEN [session EXCEPT ![t].st = "committed", ![t].asked = FALSE]
                  ELSE [session EXCEPT ![t] = NoTransaction]
  /\ UNCHANGED <<client, next, view, losses>>

(* The server finds the connection broken, or fails itself. *)
Abort(t) ==
  /\ session[t].st # "free"
  /\ ~session[t].open
  /\ session' = [session EXCEPT ![t] = NoTransaction]
  /\ UNCHANGED <<tables, client, next, view, losses>>

-----------------------------------------------------------------------------
(* GetByUID, for one order, and ListRecent, for several. *)

(* The first query fixes the snapshot: the items are read from it later. *)
SelectOrders(r, us) ==
  /\ view[r].pc = "idle"
  /\ \A u \in us : header[u] # Absent
  /\ view' = [view EXCEPT ![r] =
                [pc |-> "items", heads |-> [u \in us |-> header[u]],
                 rows |-> [u \in us |-> items[u]]]]
  /\ UNCHANGED <<tables, session, client, next, losses>>

(* Mutant: the transaction is read committed. *)
LoadItemsLive(r) ==
  /\ view[r].pc = "items"
  /\ view' = [view EXCEPT ![r].pc = "done",
                          ![r].rows = [u \in DOMAIN @ |-> items[u]]]
  /\ UNCHANGED <<tables, session, client, next, losses>>

LoadItems(r) ==
  /\ view[r].pc = "items"
  /\ view' = [view EXCEPT ![r].pc = "done"]
  /\ UNCHANGED <<tables, session, client, next, losses>>

(* The orders are returned, or the transaction has failed on the way. *)
EndRead(r) ==
  /\ view[r].pc # "idle"
  /\ view' = [view EXCEPT ![r] = NoView]
  /\ UNCHANGED <<tables, session, client, next, losses>>

-----------------------------------------------------------------------------
Client(w) ==
  \/ BeginSave(w) \/ SendCommit(w) \/ SaveReturns(w) \/ SaveRefused(w)
Failure(w) == StatementFails(w) \/ ConnectionLost(w)
Server(t) ==
  \/ UpsertOrder(t) \/ DeleteItems(t) \/ InsertItem(t) \/ Commit(t) \/ Abort(t)
Reader(r) ==
  \/ \E us \in SUBSET Uids : SelectOrders(r, us)
  \/ LoadItems(r) \/ EndRead(r)

Next ==
  \/ \E w \in Writers : Client(w) \/ Failure(w)
  \/ \E t \in Sessions : Server(t)
  \/ \E r \in Readers : Reader(r)

Spec == Init /\ [][Next]_vars

(* A client that can go on does; a session executes what it has received,   *)
(* and finds out about a broken connection.                                 *)
Fairness ==
  /\ \A w \in Writers : WF_vars(Client(w))
  /\ \A t \in Sessions : WF_vars(Server(t))

FairSpec == Spec /\ Fairness
=============================================================================
