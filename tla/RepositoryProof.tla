--------------------------- MODULE RepositoryProof ---------------------------
(***************************************************************************)
(* Proofs about OrderRepository, for every set of orders, writers and      *)
(* sessions and every number of failures: its type invariant, that tables  *)
(* and reads hold whole orders, that a late commit undoes no later save,   *)
(* and that it implements OrderStore.  The inductive invariant is built in *)
(* layers; each layer is preserved by every step, given those below it.    *)
(***************************************************************************)
EXTENDS RepositoryProperties, SequenceTheorems, TLAPS

(* Layer 1: types, and what a session runs. *)
TypeInv ==
  /\ TypeOK
  /\ \A w \in Writers : next[w] >= 1
  /\ \A t \in Sessions :
       /\ session[t].st # "free" => session[t].ver \in Versions
       /\ session[t].asked => BatchDone(t) /\ ~OrderOf(session[t].ver).refused

(* Layer 2: the row of an order is held by one session, which has seen all  *)
(* of its items and has inserted a first part of those of its version.      *)
LockInv ==
  \A t \in Sessions : HoldsRow(t) =>
    \A t2 \in Sessions : HoldsRow(t2) /\ UidIn(t2) = UidIn(t) => t2 = t

BatchInv ==
  \A t \in Sessions :
    /\ session[t].st = "cleared" => session[t].cleared = Len(items[UidIn(t)])
    /\ session[t].st \notin {"free", "committed"} => \A i \in 1..Len(session[t].rows) :
         session[t].rows[i] = OrderOf(session[t].ver).items[i]

(* Layer 3: the tables. *)
TableInv ==
  /\ OrdersWhole
  /\ \A u \in Uids : header[u] # Absent => header[u] \in saved

(* Layer 4: a session that has been asked to commit runs the version its    *)
(* writer is at; once the writer's own session has the row, no other one of *)
(* that writer is still to commit.                                          *)
AskedInv ==
  /\ \A t \in Sessions : session[t].asked => session[t].ver = Current(session[t].ver[1])
  /\ \A w \in Writers : client[w] # Absent =>
       /\ session[client[w]].st = "committed" => Current(w) \in saved
       /\ session[client[w]].st \in {"locked", "cleared", "committed"} =>
            \A t \in Sessions :
              session[t].asked /\ session[t].ver[1] = w => t = client[w]

(* Layer 5: the reads. *)
ViewInv ==
  /\ view = [r \in Readers |-> view[r]]
  /\ \A r \in Readers :
       /\ view[r] = [pc |-> view[r].pc, heads |-> view[r].heads, rows |-> view[r].rows]
       /\ view[r].pc \in {"idle", "items", "done"}
       /\ view[r].pc = "idle" => view[r] = NoView
       /\ view[r].pc # "idle" => \A u \in DOMAIN view[r].heads :
            LET v == view[r].heads[u]
            IN  v \in saved /\ OrderOf(v).uid = u /\ view[r].rows[u] = OrderOf(v).items

-----------------------------------------------------------------------------
(* Versions. *)

LEMMA VersionFacts ==
  ASSUME NEW v \in Versions
  PROVE  /\ v[1] \in Writers /\ v[2] \in Nat /\ v[2] >= 1
         /\ v = <<v[1], v[2]>>
         /\ v[2] <= Len(Saves[v[1]])
         /\ OrderOf(v) \in Order
         /\ OrderOf(v).uid \in Uids
         /\ OrderOf(v).items \in Seq(Items)
         /\ Len(OrderOf(v).items) \in Nat
         /\ v # Absent
<1>1. v \in Writers \X Nat /\ v[2] \in 1..Len(Saves[v[1]])
  BY DEF Versions
<1>2. Saves[v[1]] \in Seq(Order)
  BY <1>1, SavesAssumption
<1>3. OrderOf(v) \in Order
  BY <1>1, <1>2 DEF OrderOf
<1>4. Len(OrderOf(v).items) \in Nat
  BY <1>3, LenProperties DEF Order
<1> QED BY <1>1, <1>2, <1>3, <1>4, AbsentAssumption DEF Order

LEMMA CurrentVersion ==
  ASSUME TypeInv, NEW w \in Writers, HasNext(w)
  PROVE  Current(w) \in Versions
  BY DEF TypeInv, TypeOK, HasNext, Current, Versions

LEMMA SessionFacts ==
  ASSUME TypeInv, NEW t \in Sessions, session[t].st # "free"
  PROVE  /\ session[t].ver \in Versions
         /\ UidIn(t) \in Uids
         /\ OrderOf(session[t].ver).items \in Seq(Items)
         /\ Len(OrderOf(session[t].ver).items) \in Nat
  BY VersionFacts DEF TypeInv, UidIn

(* The session a client waits for. *)
LEMMA ClientFacts ==
  ASSUME TypeInv, NEW w \in Writers, client[w] # Absent
  PROVE  /\ client[w] \in Sessions
         /\ session[client[w]].st # "free" /\ session[client[w]].open
         /\ session[client[w]].ver = Current(w)
         /\ Current(w) \in Versions
         /\ \A w2 \in Writers : client[w2] = client[w] => w2 = w
<1>1. \A w2 \in Writers : client[w2] # Absent =>
        /\ client[w2] \in Sessions
        /\ session[client[w2]].st # "free" /\ session[client[w2]].open
        /\ session[client[w2]].ver = Current(w2)
        /\ session[client[w2]].ver \in Versions
  BY DEF TypeInv, TypeOK
<1>2. \A w2 \in Writers : Current(w2) = Current(w) => w2 = w
  BY DEF Current
<1> QED BY <1>1, <1>2

LEMMA TransactionUpdates ==
  ASSUME NEW s \in Transactions, NEW n \in Nat, NEW q \in Seq(Items)
  PROVE  /\ [s EXCEPT !.st = "cleared", !.cleared = n] \in Transactions
         /\ [s EXCEPT !.rows = q] \in Transactions
         /\ [s EXCEPT !.st = "locked"] \in Transactions
         /\ [s EXCEPT !.st = "committed", !.asked = FALSE] \in Transactions
         /\ [s EXCEPT !.asked = TRUE] \in Transactions
         /\ [s EXCEPT !.open = FALSE] \in Transactions
<1>1. [s EXCEPT !.st = "cleared", !.cleared = n] \in Transactions
  BY DEF Transactions
<1>2. [s EXCEPT !.rows = q] \in Transactions
  BY DEF Transactions
<1>3. [s EXCEPT !.st = "locked"] \in Transactions
  BY DEF Transactions
<1>4. [s EXCEPT !.st = "committed", !.asked = FALSE] \in Transactions
  BY DEF Transactions
<1>5. [s EXCEPT !.asked = TRUE] \in Transactions
  BY DEF Transactions
<1>6. [s EXCEPT !.open = FALSE] \in Transactions
  BY DEF Transactions
<1> QED BY <1>1, <1>2, <1>3, <1>4, <1>5, <1>6

-----------------------------------------------------------------------------
(* Layer 1. *)

LEMMA TypeInit == Init => TypeInv
<1> SUFFICES ASSUME Init PROVE TypeInv
  OBVIOUS
<1>1. NoTransaction \in Transactions
  BY EmptySeq DEF NoTransaction, Transactions
<1>2. items \in [Uids -> Seq(Items)]
  BY EmptySeq DEF Init
<1> QED BY <1>1, <1>2, LossesAssumption DEF Init, TypeInv, TypeOK, NoTransaction

LEMMA TypeStep ==
  ASSUME TypeInv, [Next]_vars
  PROVE  TypeInv'
<1> USE DEF TypeInv, TypeOK, tables
<1>0. /\ NoTransaction \in Transactions
      /\ \A v \in Versions : Begun(v) \in Transactions
  BY EmptySeq DEF NoTransaction, Begun, Transactions
<1>1. ASSUME NEW w \in Writers, BeginSave(w) PROVE TypeInv'
  <2>1. PICK t \in Sessions :
          /\ session[t].st = "free"
          /\ client' = [client EXCEPT ![w] = t]
          /\ session' = [session EXCEPT ![t] = Begun(Current(w))]
    BY <1>1 DEF BeginSave
  <2>2. Current(w) \in Versions
    BY CurrentVersion, <1>1 DEF BeginSave
  <2>3. session' \in [Sessions -> Transactions]
    BY <1>0, <2>1, <2>2
  <2>4. \A w2 \in Writers : client'[w2] # Absent =>
          /\ session'[client'[w2]].st # "free" /\ session'[client'[w2]].open
          /\ session'[client'[w2]].ver = Current(w2)
    BY <2>1, AbsentAssumption DEF Begun, NoTransaction
  <2>5. \A t2 \in Sessions :
          /\ session'[t2].st # "free" => session'[t2].ver \in Versions
          /\ session'[t2].asked =>
               BatchDone(t2)' /\ ~OrderOf(session'[t2].ver).refused
    BY <2>1, <2>2 DEF Begun, NoTransaction, BatchDone
  <2> QED BY <1>1, <2>1, <2>3, <2>4, <2>5 DEF BeginSave, Current
<1>2. ASSUME NEW w \in Writers, SendCommit(w) PROVE TypeInv'
  <2>1. /\ client[w] # Absent /\ BatchDone(client[w])
        /\ ~OrderOf(Current(w)).refused
        /\ session' = [session EXCEPT ![client[w]].asked = TRUE]
        /\ UNCHANGED <<tables, client, next, view, losses>>
    BY <1>2 DEF SendCommit
  <2>2. client[w] \in Sessions /\ session[client[w]].ver = Current(w)
    BY <2>1, ClientFacts
  <2>3. session' \in [Sessions -> Transactions]
    <3>1. session' = [session EXCEPT ![client[w]] = [session[client[w]] EXCEPT !.asked = TRUE]]
      BY <2>1
    <3>2. [session[client[w]] EXCEPT !.asked = TRUE] \in Transactions
      BY <2>2, EmptySeq, TransactionUpdates
    <3> QED BY <3>1, <3>2
  <2>4. \A t \in Sessions :
          /\ session'[t].st = session[t].st /\ session'[t].ver = session[t].ver
          /\ session'[t].open = session[t].open /\ session'[t].rows = session[t].rows
          /\ t # client[w] => session'[t] = session[t]
    BY <2>1, <2>2 DEF Transactions
  <2>5. \A t \in Sessions : BatchDone(t)' = BatchDone(t)
    BY <2>4 DEF BatchDone
  <2>6. \A t \in Sessions :
          session'[t].asked => BatchDone(t)' /\ ~OrderOf(session'[t].ver).refused
    BY <2>1, <2>2, <2>4, <2>5
  <2> QED BY <2>1, <2>3, <2>4, <2>6 DEF Current
<1>3. ASSUME NEW w \in Writers, SaveReturns(w) \/ SaveRefused(w) PROVE TypeInv'
  <2>1. /\ client[w] # Absent
        /\ session' = [session EXCEPT ![client[w]] = NoTransaction]
        /\ client' = [client EXCEPT ![w] = Absent]
        /\ next' = [next EXCEPT ![w] = @ + 1]
        /\ UNCHANGED <<tables, losses>>
    BY <1>3 DEF SaveReturns, SaveRefused
  <2>2. \A t \in Sessions : session'[t] = IF t = client[w] THEN NoTransaction ELSE session[t]
    BY <2>1
  <2>3. \A w2 \in Writers : client'[w2] # Absent =>
          w2 # w /\ client'[w2] = client[w2] /\ client[w2] # client[w]
    BY <2>1, ClientFacts
  <2> QED BY <1>0, <2>1, <2>2, <2>3 DEF NoTransaction, BatchDone, Current
<1>4. ASSUME NEW w \in Writers, StatementFails(w) PROVE TypeInv'
  <2>1. /\ client[w] # Absent
        /\ session' = [session EXCEPT ![client[w]] = NoTransaction]
        /\ client' = [client EXCEPT ![w] = Absent]
        /\ losses' \in 0..MaxLosses
        /\ UNCHANGED <<tables, next>>
    BY <1>4, LossesAssumption DEF StatementFails, Loss
  <2>2. \A t \in Sessions : session'[t] = IF t = client[w] THEN NoTransaction ELSE session[t]
    BY <2>1
  <2>3. \A w2 \in Writers : client'[w2] # Absent =>
          w2 # w /\ client'[w2] = client[w2] /\ client[w2] # client[w]
    BY <2>1, ClientFacts
  <2> QED BY <1>0, <2>1, <2>2, <2>3 DEF NoTransaction, BatchDone, Current
<1>5. ASSUME NEW w \in Writers, ConnectionLost(w) PROVE TypeInv'
  <2>1. /\ client[w] # Absent
        /\ session' = [session EXCEPT ![client[w]].open = FALSE]
        /\ client' = [client EXCEPT ![w] = Absent]
        /\ losses' \in 0..MaxLosses
        /\ UNCHANGED <<tables, next>>
    BY <1>5, LossesAssumption DEF ConnectionLost, Loss
  <2>2. session' \in [Sessions -> Transactions]
    <3>1. session' = [session EXCEPT ![client[w]] = [session[client[w]] EXCEPT !.open = FALSE]]
      BY <2>1
    <3>2. [session[client[w]] EXCEPT !.open = FALSE] \in Transactions
      BY <2>1, ClientFacts, EmptySeq, TransactionUpdates
    <3> QED BY <3>1, <3>2
  <2>3. \A t \in Sessions :
          /\ session'[t].st = session[t].st /\ session'[t].ver = session[t].ver
          /\ session'[t].asked = session[t].asked /\ session'[t].rows = session[t].rows
          /\ t # client[w] => session'[t] = session[t]
    BY <2>1, ClientFacts DEF Transactions
  <2>4. \A w2 \in Writers : client'[w2] # Absent =>
          w2 # w /\ client'[w2] = client[w2] /\ client[w2] # client[w]
    BY <2>1, ClientFacts
  <2> QED BY <2>1, <2>2, <2>3, <2>4 DEF BatchDone, Current
<1>6. ASSUME NEW t \in Sessions, UpsertOrder(t) PROVE TypeInv'
  <2>1. /\ session[t].st = "begun"
        /\ session' = [session EXCEPT ![t].st = "locked"]
        /\ UNCHANGED <<tables, client, next, view, losses>>
    BY <1>6 DEF UpsertOrder
  <2>2. session' \in [Sessions -> Transactions]
    <3>1. session' = [session EXCEPT ![t] = [session[t] EXCEPT !.st = "locked"]]
      BY <2>1
    <3>2. [session[t] EXCEPT !.st = "locked"] \in Transactions
      BY EmptySeq, TransactionUpdates
    <3> QED BY <3>1, <3>2
  <2>3. \A t2 \in Sessions :
          /\ session'[t2].ver = session[t2].ver /\ session'[t2].open = session[t2].open
          /\ session'[t2].asked = session[t2].asked
          /\ t2 # t => session'[t2] = session[t2]
    BY <2>1 DEF Transactions
  <2>4. ~session[t].asked /\ session'[t].st = "locked"
    BY <2>1 DEF BatchDone, Transactions
  <2> QED BY <2>1, <2>2, <2>3, <2>4 DEF BatchDone, Current
<1>7. ASSUME NEW t \in Sessions, DeleteItems(t) PROVE TypeInv'
  <2>1. Len(items[UidIn(t)]) \in Nat
    BY <1>7, SessionFacts, LenProperties DEF DeleteItems
  <2>2. session' \in [Sessions -> Transactions]
    <3> DEFINE after == [session[t] EXCEPT !.st = "cleared", !.cleared = Len(items[UidIn(t)])]
    <3>1. after \in Transactions
      <4>1. session[t] \in Transactions /\ session[t].rows \in Seq(Items)
        BY DEF Transactions
      <4> QED BY <2>1, <4>1, TransactionUpdates
    <3>2. session' = [session EXCEPT ![t] = after]
      BY <1>7 DEF DeleteItems
    <3> QED BY <3>1, <3>2
  <2>3. ~session[t].asked
    BY <1>7 DEF DeleteItems, BatchDone
  <2>4. \A t2 \in Sessions :
          /\ session'[t2].ver = session[t2].ver /\ session'[t2].open = session[t2].open
          /\ session'[t2].asked = session[t2].asked
          /\ t2 # t => session'[t2] = session[t2]
    BY <1>7 DEF DeleteItems, Transactions
  <2>5. session[t].st # "free" /\ session'[t].st # "free"
    BY <1>7 DEF DeleteItems, Transactions
  <2> QED BY <1>7, <2>2, <2>3, <2>4, <2>5 DEF DeleteItems, BatchDone, Current
<1>8. ASSUME NEW t \in Sessions, InsertItem(t) PROVE TypeInv'
  <2>1. /\ session[t].st = "cleared"
        /\ Len(session[t].rows) < Len(OrderOf(session[t].ver).items)
        /\ session' = [session EXCEPT ![t].rows =
             Append(@, OrderOf(session[t].ver).items[Len(session[t].rows) + 1])]
    BY <1>8 DEF InsertItem
  <2>2. session[t].rows \in Seq(Items) /\ Len(session[t].rows) \in Nat
    BY LenProperties DEF Transactions
  <2>3. OrderOf(session[t].ver).items[Len(session[t].rows) + 1] \in Items
    <3>1. Len(session[t].rows) + 1 \in 1..Len(OrderOf(session[t].ver).items)
      BY <2>1, <2>2, SessionFacts
    <3> QED BY <2>1, <3>1, SessionFacts, ElementOfSeq
  <2>4. session' \in [Sessions -> Transactions]
    <3> DEFINE more == Append(session[t].rows, OrderOf(session[t].ver).items[Len(session[t].rows) + 1])
    <3>1. more \in Seq(Items)
      BY <2>2, <2>3, AppendProperties
    <3>2. [session[t] EXCEPT !.rows = more] \in Transactions
      BY <3>1, TransactionUpdates
    <3>3. session' = [session EXCEPT ![t] = [session[t] EXCEPT !.rows = more]]
      BY <2>1
    <3> QED BY <3>2, <3>3
  <2>5. ~session[t].asked
    BY <2>1, <2>2 DEF BatchDone
  <2>6. \A t2 \in Sessions :
          /\ session'[t2].ver = session[t2].ver /\ session'[t2].open = session[t2].open
          /\ session'[t2].asked = session[t2].asked /\ session'[t2].st = session[t2].st
          /\ t2 # t => session'[t2] = session[t2]
    BY <2>1 DEF Transactions
  <2> QED BY <1>8, <2>4, <2>5, <2>6 DEF InsertItem, BatchDone, Current
<1>9. ASSUME NEW t \in Sessions, Commit(t) PROVE TypeInv'
  <2>1. /\ session[t].st = "cleared" /\ session[t].ver \in Versions
        /\ UidIn(t) \in Uids
    BY <1>9, SessionFacts DEF Commit, BatchDone
  <2>2. items' \in [Uids -> Seq(Items)]
    <3>1. items[UidIn(t)] \in Seq(Items) /\ session[t].cleared + 1 \in Nat \ {0}
      BY <2>1 DEF Transactions
    <3>2. Unseen(t) \in Seq(Items)
      BY <3>1, LenProperties, ElementOfSeq, SubSeqProperties,
         \A i \in (session[t].cleared + 1)..Len(items[UidIn(t)]) :
           items[UidIn(t)][i] \in Items DEF Unseen
    <3>3. Unseen(t) \o session[t].rows \in Seq(Items)
      BY <3>2, ConcatProperties DEF Transactions
    <3> QED BY <1>9, <2>1, <3>3 DEF Commit
  <2>3. header' \in [Uids -> Versions \cup {Absent}] /\ saved' \subseteq Versions
    BY <1>9, <2>1 DEF Commit
  <2>4. session' \in [Sessions -> Transactions]
    <3>1. [session[t] EXCEPT !.st = "committed", !.asked = FALSE] \in Transactions
      BY EmptySeq, TransactionUpdates
    <3>2. CASE session[t].open
      <4>1. session' = [session EXCEPT ![t] =
                          [session[t] EXCEPT !.st = "committed", !.asked = FALSE]]
        BY <1>9, <3>2 DEF Commit
      <4> QED BY <3>1, <4>1
    <3>3. CASE ~session[t].open
      BY <1>0, <1>9, <3>3 DEF Commit
    <3> QED BY <3>2, <3>3
  <2>5. \A t2 \in Sessions : t2 # t => session'[t2] = session[t2]
    BY <1>9 DEF Commit
  <2>6. /\ session'[t].st # "free" => session'[t].ver = session[t].ver
        /\ ~session'[t].asked
        /\ session[t].open => session'[t].st # "free" /\ session'[t].open
    BY <1>9 DEF Commit, NoTransaction, Transactions
  <2>7. \A w \in Writers : client[w] = t => session'[t].ver = Current(w)
    BY <2>6, ClientFacts, AbsentAssumption
  <2> QED BY <1>9, <2>1, <2>2, <2>3, <2>4, <2>5, <2>6, <2>7 DEF Commit, BatchDone, Current
<1>10. ASSUME NEW t \in Sessions, Abort(t) PROVE TypeInv'
  BY <1>0, <1>10, SessionFacts DEF Abort, BatchDone, Current, NoTransaction
<1>11. ASSUME NEW r \in Readers, Reader(r) PROVE TypeInv'
  BY <1>11 DEF Reader, SelectOrders, LoadItems, EndRead, BatchDone, Current
<1>12. CASE UNCHANGED vars
  BY <1>12 DEF vars, BatchDone, Current
<1> QED
  BY <1>1, <1>2, <1>3, <1>4, <1>5, <1>6, <1>7, <1>8, <1>9, <1>10, <1>11, <1>12
     DEF Next, Client, Failure, Server

-----------------------------------------------------------------------------
(* Layer 2. *)

LEMMA LockStep ==
  ASSUME TypeInv, TypeInv', LockInv, [Next]_vars
  PROVE  LockInv'
<1> USE DEF LockInv, HoldsRow, UidIn
<1>1. ASSUME NEW t \in Sessions, ~HoldsRow(t)',
             \A t2 \in Sessions \ {t} : session'[t2] = session[t2]
      PROVE  LockInv'
  BY <1>1
<1>2. ASSUME NEW w \in Writers, BeginSave(w) PROVE LockInv'
  BY <1>2 DEF BeginSave, Begun, NoTransaction, TypeInv, TypeOK
<1>3. ASSUME NEW w \in Writers, SendCommit(w) PROVE LockInv'
  BY <1>3, ClientFacts DEF SendCommit, TypeInv, TypeOK, Transactions
<1>4. ASSUME NEW w \in Writers, SaveReturns(w) \/ SaveRefused(w) \/ StatementFails(w)
      PROVE  LockInv'
  <2>1. /\ client[w] \in Sessions
        /\ session' = [session EXCEPT ![client[w]] = NoTransaction]
    BY <1>4, ClientFacts DEF SaveReturns, SaveRefused, StatementFails
  <2> QED BY <1>1, <2>1 DEF NoTransaction, TypeInv, TypeOK
<1>5. ASSUME NEW w \in Writers, ConnectionLost(w) PROVE LockInv'
  BY <1>5, ClientFacts DEF ConnectionLost, TypeInv, TypeOK, Transactions
<1>6. ASSUME NEW t \in Sessions, UpsertOrder(t) PROVE LockInv'
  BY <1>6 DEF UpsertOrder, TypeInv, TypeOK, Transactions
<1>7. ASSUME NEW t \in Sessions, DeleteItems(t) \/ InsertItem(t) PROVE LockInv'
  <2>1. \A t2 \in Sessions :
          HoldsRow(t2)' = HoldsRow(t2) /\ session'[t2].ver = session[t2].ver
    <3>1. CASE DeleteItems(t)
      BY <3>1 DEF DeleteItems, TypeInv, TypeOK, Transactions
    <3>2. CASE InsertItem(t)
      <4>1. PICK q : session' = [session EXCEPT ![t].rows = q]
        BY <3>2 DEF InsertItem
      <4> QED BY <4>1 DEF TypeInv, TypeOK, Transactions
    <3> QED BY <1>7, <3>1, <3>2
  <2> QED BY <2>1
<1>8. ASSUME NEW t \in Sessions, Commit(t) \/ Abort(t) PROVE LockInv'
  <2>1. /\ ~HoldsRow(t)'
        /\ \A t2 \in Sessions \ {t} : session'[t2] = session[t2]
    BY <1>8 DEF Commit, Abort, NoTransaction, TypeInv, TypeOK, Transactions
  <2> QED BY <1>1, <2>1
<1>9. CASE session' = session
  BY <1>9
<1> QED
  BY <1>2, <1>3, <1>4, <1>5, <1>6, <1>7, <1>8, <1>9
     DEF Next, Client, Failure, Server, Reader, SelectOrders, LoadItems, EndRead, vars

LEMMA BatchStep ==
  ASSUME TypeInv, TypeInv', LockInv, BatchInv, [Next]_vars
  PROVE  BatchInv'
<1> USE DEF BatchInv, UidIn
<1>1. ASSUME NEW t \in Sessions, session'[t].st \in {"free", "committed"},
             \A t2 \in Sessions \ {t} : session'[t2] = session[t2], items' = items
      PROVE  BatchInv'
  BY <1>1
<1>2. ASSUME NEW w \in Writers, BeginSave(w) PROVE BatchInv'
  BY <1>2 DEF BeginSave, Begun, NoTransaction, TypeInv, TypeOK, tables
<1>3. ASSUME items' = items,
             \A t \in Sessions :
               /\ session'[t].st = session[t].st /\ session'[t].ver = session[t].ver
               /\ session'[t].cleared = session[t].cleared
               /\ session'[t].rows = session[t].rows
      PROVE  BatchInv'
  BY <1>3
<1>4. ASSUME NEW w \in Writers, SendCommit(w) \/ ConnectionLost(w) PROVE BatchInv'
  <2>1. client[w] \in Sessions /\ session \in [Sessions -> Transactions]
    BY <1>4, ClientFacts DEF SendCommit, ConnectionLost, TypeInv, TypeOK
  <2>2. \/ session' = [session EXCEPT ![client[w]].asked = TRUE]
        \/ session' = [session EXCEPT ![client[w]].open = FALSE]
    BY <1>4 DEF SendCommit, ConnectionLost
  <2>3. \A t \in Sessions :
          /\ session'[t].st = session[t].st /\ session'[t].ver = session[t].ver
          /\ session'[t].cleared = session[t].cleared
          /\ session'[t].rows = session[t].rows
    <3>1. CASE session' = [session EXCEPT ![client[w]].asked = TRUE]
      BY <2>1, <3>1 DEF Transactions
    <3>2. CASE session' = [session EXCEPT ![client[w]].open = FALSE]
      BY <2>1, <3>2 DEF Transactions
    <3> QED BY <2>2, <3>1, <3>2
  <2> QED BY <1>3, <1>4, <2>3 DEF SendCommit, ConnectionLost, tables
<1>5. ASSUME NEW w \in Writers, SaveReturns(w) \/ SaveRefused(w) \/ StatementFails(w)
      PROVE  BatchInv'
  <2>1. /\ client[w] \in Sessions
        /\ session' = [session EXCEPT ![client[w]] = NoTransaction]
        /\ items' = items
    BY <1>5, ClientFacts DEF SaveReturns, SaveRefused, StatementFails, tables
  <2> QED BY <1>1, <2>1 DEF NoTransaction, TypeInv, TypeOK
<1>6. ASSUME NEW t \in Sessions, UpsertOrder(t) PROVE BatchInv'
  BY <1>6 DEF UpsertOrder, TypeInv, TypeOK, Transactions, tables
<1>7. ASSUME NEW t \in Sessions, DeleteItems(t) PROVE BatchInv'
  <2>1. /\ session[t].st = "locked" /\ session[t] \in Transactions
        /\ session \in [Sessions -> Transactions]
        /\ session' = [session EXCEPT ![t] =
             [@ EXCEPT !.st = "cleared", !.cleared = Len(items[UidIn(t)])]]
        /\ items' = items
    BY <1>7 DEF DeleteItems, TypeInv, TypeOK, tables
  <2>2. /\ session'[t].ver = session[t].ver /\ session'[t].rows = session[t].rows
        /\ session'[t].cleared = Len(items[UidIn(t)])
        /\ \A t2 \in Sessions \ {t} : session'[t2] = session[t2]
    BY <2>1 DEF Transactions
  <2> QED BY <2>1, <2>2
<1>8. ASSUME NEW t \in Sessions, InsertItem(t) PROVE BatchInv'
  <2> DEFINE all == OrderOf(session[t].ver).items
             n == Len(session[t].rows)
             more == Append(session[t].rows, all[n + 1])
  <2>1. /\ session[t].st = "cleared" /\ session[t] \in Transactions
        /\ session' = [session EXCEPT ![t].rows = more]
        /\ items' = items
    BY <1>8 DEF InsertItem, TypeInv, TypeOK, tables
  <2>2. session[t].rows \in Seq(Items)
    BY <2>1 DEF Transactions
  <2>3. n \in Nat /\ Len(more) = n + 1 /\ more[n + 1] = all[n + 1]
    BY <2>2, Z3
  <2>4. \A i \in 1..n : more[i] = session[t].rows[i]
    BY <2>2, Z3
  <2>5. \A i \in 1..n : session[t].rows[i] = all[i]
    BY <2>1
  <2>6. \A i \in 1..Len(more) : more[i] = all[i]
    BY <2>3, <2>4, <2>5
  <2>7. /\ session'[t].st = "cleared" /\ session'[t].ver = session[t].ver
        /\ session'[t].cleared = session[t].cleared /\ session'[t].rows = more
        /\ \A t2 \in Sessions \ {t} : session'[t2] = session[t2]
    <3> HIDE DEF more
    <3>1. session \in [Sessions -> Transactions]
      BY DEF TypeInv, TypeOK
    <3> QED BY <2>1, <3>1 DEF Transactions
  <2> HIDE DEF more
  <2> QED BY <2>1, <2>6, <2>7
<1>9. ASSUME NEW t \in Sessions, Commit(t) PROVE BatchInv'
  <2>1. HoldsRow(t) /\ UidIn(t) \in Uids
    BY <1>9, SessionFacts DEF Commit, BatchDone, HoldsRow
  <2>2. session'[t].st \in {"free", "committed"}
    BY <1>9 DEF Commit, NoTransaction, TypeInv, TypeOK, Transactions
  <2>3. \A t2 \in Sessions \ {t} : session'[t2] = session[t2]
    BY <1>9 DEF Commit, TypeInv, TypeOK
  <2>4. \A u \in Uids : u # UidIn(t) => items'[u] = items[u]
    BY <1>9 DEF Commit, TypeInv, TypeOK
  <2>5. \A t2 \in Sessions \ {t} : session[t2].st = "cleared" =>
          UidIn(t2) \in Uids /\ UidIn(t2) # UidIn(t)
    BY <2>1, SessionFacts DEF LockInv, HoldsRow
  <2> QED BY <2>2, <2>3, <2>4, <2>5
<1>10. ASSUME NEW t \in Sessions, Abort(t) PROVE BatchInv'
  BY <1>1, <1>10 DEF Abort, NoTransaction, TypeInv, TypeOK, tables
<1>11. CASE session' = session /\ items' = items
  BY <1>11
<1> QED
  BY <1>2, <1>4, <1>5, <1>6, <1>7, <1>8, <1>9, <1>10, <1>11
     DEF Next, Client, Failure, Server, Reader, SelectOrders, LoadItems, EndRead, vars, tables

-----------------------------------------------------------------------------
(* Layer 3. *)

(* What a COMMIT puts into the tables is the order of its version, whole. *)
LEMMA CommitWritesWhole ==
  ASSUME TypeInv, BatchInv, NEW t \in Sessions, Commit(t)
  PROVE  /\ session[t].ver \in Versions /\ UidIn(t) \in Uids
         /\ header' = [header EXCEPT ![UidIn(t)] = session[t].ver]
         /\ items' = [items EXCEPT ![UidIn(t)] = OrderOf(session[t].ver).items]
         /\ saved' = saved \cup {session[t].ver}
<1> DEFINE all == OrderOf(session[t].ver).items
           rows == session[t].rows
<1>1. /\ session[t].st = "cleared" /\ Len(rows) = Len(all)
      /\ header' = [header EXCEPT ![UidIn(t)] = session[t].ver]
      /\ items' = [items EXCEPT ![UidIn(t)] = Unseen(t) \o rows]
      /\ saved' = saved \cup {session[t].ver}
  BY DEF Commit, BatchDone
<1>2. /\ session[t].ver \in Versions /\ UidIn(t) \in Uids
      /\ all \in Seq(Items) /\ rows \in Seq(Items)
      /\ items[UidIn(t)] \in Seq(Items)
  BY <1>1, SessionFacts DEF TypeInv, TypeOK, Transactions
<1>3. Unseen(t) = << >>
  <2>1. session[t].cleared = Len(items[UidIn(t)])
    BY <1>1 DEF BatchInv
  <2>2. Len(items[UidIn(t)]) \in Nat
    BY <1>2, LenProperties
  <2> QED BY <2>1, <2>2, SubSeqEmpty DEF Unseen
<1>4. rows = all
  <2>1. \A i \in 1..Len(rows) : rows[i] = all[i]
    BY <1>1 DEF BatchInv
  <2> QED BY <1>1, <1>2, <2>1, SeqEqual
<1>5. Unseen(t) \o rows = all
  BY <1>2, <1>3, <1>4, ConcatEmptySeq
<1> QED BY <1>1, <1>2, <1>5

LEMMA TableStep ==
  ASSUME TypeInv, TypeInv', BatchInv, TableInv, [Next]_vars
  PROVE  TableInv'
<1>1. CASE UNCHANGED tables
  BY <1>1 DEF TableInv, OrdersWhole, tables
<1>2. ASSUME NEW t \in Sessions, Commit(t) PROVE TableInv'
  <2>1. session[t].ver # Absent /\ OrderOf(session[t].ver).uid = UidIn(t)
    BY <1>2, CommitWritesWhole, VersionFacts DEF UidIn
  <2>2. /\ UidIn(t) \in Uids
        /\ \A u \in Uids : u # UidIn(t) => header'[u] = header[u] /\ items'[u] = items[u]
        /\ header'[UidIn(t)] = session[t].ver
        /\ items'[UidIn(t)] = OrderOf(session[t].ver).items
        /\ saved' = saved \cup {session[t].ver}
    BY <1>2, CommitWritesWhole DEF TypeInv, TypeOK
  <2>3. ASSUME NEW u \in Uids
        PROVE  /\ header'[u] # Absent => header'[u] \in saved'
               /\ IF header'[u] = Absent
                    THEN items'[u] = << >>
                    ELSE /\ OrderOf(header'[u]).uid = u
                         /\ items'[u] = OrderOf(header'[u]).items
    <3>1. CASE u = UidIn(t)
      BY <2>1, <2>2, <3>1
    <3>2. CASE u # UidIn(t)
      BY <2>2, <3>2 DEF TableInv, OrdersWhole
    <3> QED BY <3>1, <3>2
  <2> QED BY <2>3 DEF TableInv, OrdersWhole
<1> QED
  BY <1>1, <1>2
     DEF Next, Client, Failure, Server, Reader, BeginSave, SendCommit, SaveReturns,
         SaveRefused, StatementFails, ConnectionLost, UpsertOrder, DeleteItems,
         InsertItem, Abort, SelectOrders, LoadItems, EndRead, vars

-----------------------------------------------------------------------------
(* Layer 4. *)

LEMMA AskedStep ==
  ASSUME TypeInv, TypeInv', LockInv, AskedInv, [Next]_vars
  PROVE  AskedInv'
<1>1. ASSUME NEW w \in Writers, BeginSave(w) PROVE AskedInv'
  <2>1. PICK t \in Sessions :
          /\ session[t].st = "free"
          /\ client' = [client EXCEPT ![w] = t]
          /\ session' = [session EXCEPT ![t] = Begun(Current(w))]
          /\ saved' = saved /\ next' = next
    BY <1>1 DEF BeginSave, tables
  <2>2. ~session'[t].asked /\ session'[t].st = "begun"
    BY <2>1 DEF Begun, NoTransaction, TypeInv, TypeOK
  <2>3. \A t2 \in Sessions \ {t} : session'[t2] = session[t2]
    BY <2>1 DEF TypeInv, TypeOK
  <2>4. \A w2 \in Writers : client'[w2] # Absent =>
          IF w2 = w THEN client'[w2] = t
                    ELSE client'[w2] = client[w2] /\ client[w2] \in Sessions \ {t}
    BY <2>1, ClientFacts DEF TypeInv, TypeOK
  <2> QED BY <2>1, <2>2, <2>3, <2>4 DEF AskedInv, Current
<1>2. ASSUME NEW w \in Writers, SendCommit(w) PROVE AskedInv'
  <2>1. /\ client[w] \in Sessions /\ session[client[w]].ver = Current(w)
        /\ session' = [session EXCEPT ![client[w]] = [@ EXCEPT !.asked = TRUE]]
        /\ client' = client /\ saved' = saved /\ next' = next
        /\ session \in [Sessions -> Transactions]
    BY <1>2, ClientFacts DEF SendCommit, tables, TypeInv, TypeOK
  <2>2. \A t \in Sessions :
          /\ session'[t].st = session[t].st /\ session'[t].ver = session[t].ver
          /\ t # client[w] => session'[t].asked = session[t].asked
    BY <2>1 DEF Transactions
  <2>3. Current(w)[1] = w
    BY DEF Current
  <2>4. \A w2 \in Writers : client[w2] # Absent => client[w2] \in Sessions
    BY DEF TypeInv, TypeOK
  <2> QED BY <2>1, <2>2, <2>3, <2>4 DEF AskedInv, Current
<1>3. ASSUME NEW w \in Writers, SaveReturns(w) \/ SaveRefused(w) PROVE AskedInv'
  <2>1. /\ client[w] # Absent
        /\ session[client[w]].st = "committed" \/ OrderOf(Current(w)).refused
        /\ session' = [session EXCEPT ![client[w]] = NoTransaction]
        /\ client' = [client EXCEPT ![w] = Absent]
        /\ next' = [next EXCEPT ![w] = @ + 1]
        /\ saved' = saved
    BY <1>3 DEF SaveReturns, SaveRefused, tables
  <2>2. \A t \in Sessions :
          session'[t] = IF t = client[w] THEN NoTransaction ELSE session[t]
    BY <2>1 DEF TypeInv, TypeOK
  <2>3. \A t \in Sessions : session'[t].asked =>
          t # client[w] /\ session'[t] = session[t] /\ session[t].ver[1] # w
    <3>1. SUFFICES ASSUME NEW t \in Sessions, session'[t].asked
                   PROVE  session[t].ver[1] # w
      BY <2>2 DEF NoTransaction
    <3>2. t # client[w] /\ session[t].asked
      BY <2>2, <3>1 DEF NoTransaction
    <3>3. CASE session[client[w]].st = "committed"
      BY <2>1, <3>2, <3>3 DEF AskedInv
    <3>4. CASE OrderOf(Current(w)).refused
      <4>1. session[t].ver = Current(session[t].ver[1]) /\ ~OrderOf(session[t].ver).refused
        BY <3>2 DEF AskedInv, TypeInv
      <4> QED BY <3>4, <4>1
    <3> QED BY <2>1, <3>3, <3>4
  <2>4. \A w2 \in Writers : client'[w2] # Absent =>
          /\ w2 # w /\ client'[w2] = client[w2]
          /\ client[w2] \in Sessions /\ client[w2] # client[w]
    BY <2>1, ClientFacts DEF TypeInv, TypeOK
  <2>5. \A w2 \in Writers : w2 # w => next'[w2] = next[w2]
    BY <2>1 DEF TypeInv, TypeOK
  <2>6. \A t \in Sessions : session[t].asked => session[t].ver[1] \in Writers
    BY VersionFacts, SessionFacts DEF TypeInv, BatchDone
  <2> QED BY <2>1, <2>2, <2>3, <2>4, <2>5, <2>6 DEF AskedInv, Current
<1>4. ASSUME NEW w \in Writers, StatementFails(w) PROVE AskedInv'
  <2>1. /\ client[w] # Absent
        /\ session' = [session EXCEPT ![client[w]] = NoTransaction]
        /\ client' = [client EXCEPT ![w] = Absent]
        /\ next' = next /\ saved' = saved
    BY <1>4 DEF StatementFails, tables
  <2>2. \A t \in Sessions :
          session'[t] = IF t = client[w] THEN NoTransaction ELSE session[t]
    BY <2>1 DEF TypeInv, TypeOK
  <2>3. \A w2 \in Writers : client'[w2] # Absent =>
          /\ w2 # w /\ client'[w2] = client[w2]
          /\ client[w2] \in Sessions /\ client[w2] # client[w]
    BY <2>1, ClientFacts DEF TypeInv, TypeOK
  <2> QED BY <2>1, <2>2, <2>3 DEF AskedInv, Current, NoTransaction
<1>5. ASSUME NEW w \in Writers, ConnectionLost(w) PROVE AskedInv'
  <2>1. /\ client[w] \in Sessions
        /\ session' = [session EXCEPT ![client[w]] = [@ EXCEPT !.open = FALSE]]
        /\ client' = [client EXCEPT ![w] = Absent]
        /\ next' = next /\ saved' = saved
    BY <1>5, ClientFacts DEF ConnectionLost, tables
  <2>2. \A t \in Sessions :
          /\ session'[t].st = session[t].st /\ session'[t].ver = session[t].ver
          /\ session'[t].asked = session[t].asked
    BY <2>1 DEF TypeInv, TypeOK, Transactions
  <2>3. \A w2 \in Writers : client'[w2] # Absent =>
          client'[w2] = client[w2] /\ client[w2] \in Sessions
    BY <2>1 DEF TypeInv, TypeOK
  <2> QED BY <2>1, <2>2, <2>3 DEF AskedInv, Current
<1>6. ASSUME NEW t \in Sessions, UpsertOrder(t) PROVE AskedInv'
  <2>1. /\ session[t].st = "begun"
        /\ \A t2 \in Sessions : HoldsRow(t2) => UidIn(t2) # UidIn(t)
        /\ session' = [session EXCEPT ![t] = [@ EXCEPT !.st = "locked"]]
        /\ client' = client /\ next' = next /\ saved' = saved
    BY <1>6 DEF UpsertOrder, tables
  <2>2. \A t2 \in Sessions :
          /\ session'[t2].ver = session[t2].ver /\ session'[t2].asked = session[t2].asked
          /\ t2 # t => session'[t2].st = session[t2].st
    BY <2>1 DEF TypeInv, TypeOK, Transactions
  <2>3. session'[t].st = "locked"
    BY <2>1 DEF TypeInv, TypeOK, Transactions
  <2>4. \A t2 \in Sessions : session[t2].asked => HoldsRow(t2)
    BY DEF TypeInv, BatchDone, HoldsRow
  <2>5. \A w \in Writers, t2 \in Sessions :
          client[w] = t /\ session[t2].asked => session[t2].ver[1] # w
    <3> SUFFICES ASSUME NEW w \in Writers, NEW t2 \in Sessions, client[w] = t,
                        session[t2].asked, session[t2].ver[1] = w
                 PROVE  FALSE
      OBVIOUS
    <3>1. session[t].ver = Current(w)
      BY ClientFacts, AbsentAssumption
    <3>2. session[t2].ver = Current(w)
      BY DEF AskedInv
    <3> QED BY <2>1, <2>4, <3>1, <3>2 DEF UidIn
  <2>6. \A w \in Writers : client[w] # Absent => client[w] \in Sessions
    BY DEF TypeInv, TypeOK
  <2> QED BY <2>1, <2>2, <2>3, <2>5, <2>6 DEF AskedInv, Current
<1>7. ASSUME NEW t \in Sessions, DeleteItems(t) \/ InsertItem(t) PROVE AskedInv'
  <2>1. /\ client' = client /\ next' = next /\ saved' = saved
        /\ session[t].st \in {"locked", "cleared"}
        /\ session[t] \in Transactions
    BY <1>7 DEF DeleteItems, InsertItem, tables, TypeInv, TypeOK
  <2>2. \E n, q : session' = [session EXCEPT ![t] =
          [@ EXCEPT !.st = "cleared", !.cleared = n, !.rows = q]]
    <3>1. CASE DeleteItems(t)
      <4>1. session' = [session EXCEPT ![t] =
              [@ EXCEPT !.st = "cleared", !.cleared = Len(items[UidIn(t)]), !.rows = session[t].rows]]
        BY <2>1, <3>1 DEF DeleteItems, Transactions
      <4> QED BY <4>1
    <3>2. CASE InsertItem(t)
      <4> DEFINE q == Append(session[t].rows,
                             OrderOf(session[t].ver).items[Len(session[t].rows) + 1])
      <4>1. session[t].st = "cleared" /\ session' = [session EXCEPT ![t].rows = q]
        BY <3>2 DEF InsertItem
      <4> HIDE DEF q
      <4>2. session' = [session EXCEPT ![t] =
              [@ EXCEPT !.st = "cleared", !.cleared = session[t].cleared, !.rows = q]]
        BY <2>1, <4>1 DEF Transactions
      <4> QED BY <4>2
    <3> QED BY <1>7, <3>1, <3>2
  <2>3. /\ session'[t].st = "cleared"
        /\ session'[t].ver = session[t].ver /\ session'[t].asked = session[t].asked
        /\ \A t2 \in Sessions \ {t} : session'[t2] = session[t2]
    BY <2>1, <2>2 DEF TypeInv, TypeOK, Transactions
  <2>4. \A w \in Writers : client[w] # Absent => client[w] \in Sessions
    BY DEF TypeInv, TypeOK
  <2> QED BY <2>1, <2>3, <2>4 DEF AskedInv, Current
<1>8. ASSUME NEW t \in Sessions, Commit(t) PROVE AskedInv'
  <2>1. /\ session[t].st = "cleared"
        /\ session' = IF session[t].open
             THEN [session EXCEPT ![t] = [@ EXCEPT !.st = "committed", !.asked = FALSE]]
             ELSE [session EXCEPT ![t] = NoTransaction]
        /\ saved' = saved \cup {session[t].ver}
        /\ client' = client /\ next' = next
    BY <1>8 DEF Commit, BatchDone
  <2>2. /\ ~session'[t].asked
        /\ session'[t].st \in {"free", "committed"}
        /\ \A t2 \in Sessions \ {t} : session'[t2] = session[t2]
    BY <2>1 DEF TypeInv, TypeOK, Transactions, NoTransaction
  <2>3. \A w \in Writers : client[w] # Absent =>
          client[w] \in Sessions /\ session[client[w]].ver = Current(w)
    BY ClientFacts
  <2> QED BY <2>1, <2>2, <2>3 DEF AskedInv, Current
<1>9. ASSUME NEW t \in Sessions, Abort(t) PROVE AskedInv'
  <2>1. /\ session' = [session EXCEPT ![t] = NoTransaction]
        /\ client' = client /\ next' = next /\ saved' = saved
        /\ ~session[t].open
    BY <1>9 DEF Abort, tables
  <2>2. /\ ~session'[t].asked
        /\ \A t2 \in Sessions \ {t} : session'[t2] = session[t2]
    BY <2>1 DEF TypeInv, TypeOK, NoTransaction
  <2>3. \A w \in Writers : client[w] # Absent => client[w] \in Sessions \ {t}
    BY <2>1, ClientFacts
  <2> QED BY <2>1, <2>2, <2>3 DEF AskedInv, Current
<1>10. CASE UNCHANGED <<session, client, next, saved>>
  BY <1>10 DEF AskedInv, Current
<1> QED
  BY <1>1, <1>2, <1>3, <1>4, <1>5, <1>6, <1>7, <1>8, <1>9, <1>10
     DEF Next, Client, Failure, Server, Reader, SelectOrders, LoadItems, EndRead, vars, tables

-----------------------------------------------------------------------------
(* Layer 5. *)

LEMMA ViewStep ==
  ASSUME TypeInv, TypeInv', TableInv, ViewInv, [Next]_vars
  PROVE  ViewInv'
<1>1. saved \subseteq saved'
  BY DEF Next, Client, Failure, Server, Reader, BeginSave, SendCommit, SaveReturns,
         SaveRefused, StatementFails, ConnectionLost, UpsertOrder, DeleteItems,
         InsertItem, Commit, Abort, SelectOrders, LoadItems, EndRead, vars, tables
<1>2. CASE UNCHANGED view
  BY <1>1, <1>2 DEF ViewInv
<1>3. ASSUME NEW r \in Readers, NEW us \in SUBSET Uids, SelectOrders(r, us) PROVE ViewInv'
  <2> DEFINE fresh == [pc |-> "items", heads |-> [u \in us |-> header[u]],
                       rows |-> [u \in us |-> items[u]]]
  <2>1. /\ \A u \in us : header[u] # Absent
        /\ view' = [view EXCEPT ![r] = fresh]
    BY <1>3 DEF SelectOrders
  <2>2. \A u \in us :
          /\ header[u] \in saved /\ OrderOf(header[u]).uid = u
          /\ items[u] = OrderOf(header[u]).items
    BY <2>1 DEF TableInv, OrdersWhole
  <2>3. /\ view'[r] = fresh
        /\ \A q \in Readers \ {r} : view'[q] = view[q]
        /\ view' = [q \in Readers |-> view'[q]]
    BY <2>1 DEF ViewInv
  <2>4. ASSUME NEW q \in Readers, view'[q].pc # "idle", NEW u \in DOMAIN view'[q].heads
        PROVE  LET v == view'[q].heads[u]
               IN  v \in saved' /\ OrderOf(v).uid = u /\ view'[q].rows[u] = OrderOf(v).items
    <3>1. CASE q = r
      BY <1>1, <2>2, <2>3, <2>4, <3>1
    <3>2. CASE q # r
      BY <1>1, <2>3, <2>4, <3>2 DEF ViewInv
    <3> QED BY <3>1, <3>2
  <2>5. \A q \in Readers :
          /\ view'[q] = [pc |-> view'[q].pc, heads |-> view'[q].heads, rows |-> view'[q].rows]
          /\ view'[q].pc \in {"idle", "items", "done"}
          /\ view'[q].pc = "idle" => view'[q] = NoView
    BY <2>3 DEF ViewInv
  <2> QED BY <2>3, <2>4, <2>5 DEF ViewInv
<1>4. ASSUME NEW r \in Readers, LoadItems(r) \/ EndRead(r) PROVE ViewInv'
  <2>1. CASE LoadItems(r)
    <3>1. view' = [view EXCEPT ![r] =
                     [pc |-> "done", heads |-> view[r].heads, rows |-> view[r].rows]]
      <4>1. view[r] = [pc |-> view[r].pc, heads |-> view[r].heads, rows |-> view[r].rows]
        BY DEF ViewInv
      <4>2. [view[r] EXCEPT !.pc = "done"] =
              [pc |-> "done", heads |-> view[r].heads, rows |-> view[r].rows]
        BY <4>1
      <4> QED BY <2>1, <4>2 DEF LoadItems
    <3>2. view[r].pc # "idle"
      BY <2>1 DEF LoadItems
    <3> QED BY <1>1, <3>1, <3>2 DEF ViewInv
  <2>2. CASE EndRead(r)
    BY <1>1, <2>2 DEF EndRead, ViewInv, NoView
  <2> QED BY <1>4, <2>1, <2>2
<1> QED
  BY <1>2, <1>3, <1>4
     DEF Next, Client, Failure, Server, Reader, BeginSave, SendCommit, SaveReturns,
         SaveRefused, StatementFails, ConnectionLost, UpsertOrder, DeleteItems,
         InsertItem, Commit, Abort, vars

-----------------------------------------------------------------------------
(* The layers together, and the theorems. *)

RepositoryInv ==
  /\ TypeInv /\ LockInv /\ BatchInv /\ TableInv /\ AskedInv /\ ViewInv

LEMMA InitRepository == Init => RepositoryInv
<1> SUFFICES ASSUME Init PROVE RepositoryInv
  OBVIOUS
<1>1. TypeInv
  BY TypeInit
<1>2. \A t \in Sessions : session[t].st = "free" /\ ~session[t].asked
  BY DEF Init, NoTransaction
<1>3. LockInv /\ BatchInv
  BY <1>2 DEF LockInv, BatchInv, HoldsRow
<1>4. TableInv
  BY DEF Init, TableInv, OrdersWhole
<1>5. AskedInv
  BY <1>2 DEF Init, AskedInv
<1>6. ViewInv
  BY DEF Init, ViewInv, NoView
<1> QED BY <1>1, <1>3, <1>4, <1>5, <1>6 DEF RepositoryInv

LEMMA NextRepository == RepositoryInv /\ [Next]_vars => RepositoryInv'
  BY TypeStep, LockStep, BatchStep, TableStep, AskedStep, ViewStep DEF RepositoryInv

(* The six layers hold in every reachable state of the repository: they are *)
(* what keeps Save and the two reads apart (order_repo.go).                 *)
THEOREM RepositorySafety == Spec => []RepositoryInv
<1> QED BY InitRepository, NextRepository, PTL DEF Spec

(* The state of the tables, of the server sessions and of the clients that  *)
(* order_repo.go goes through is always well typed.                         *)
THEOREM TypesCorrect == Spec => []TypeOK
<1>1. RepositoryInv => TypeOK
  BY DEF RepositoryInv, TypeInv
<1> QED BY <1>1, RepositorySafety, PTL

(* Save never leaves an order in the tables whose items are not exactly     *)
(* those of the version in its row, whatever fails and whoever saves it.    *)
THEOREM SavedOrdersWhole == Spec => []OrdersWhole
<1>1. RepositoryInv => OrdersWhole
  BY DEF RepositoryInv, TableInv
<1> QED BY <1>1, RepositorySafety, PTL

(* GetByUID and ListRecent return orders as they were committed: the one    *)
(* snapshot of readOnlySnapshot is enough for it.                           *)
THEOREM ReadOrdersWhole == Spec => []ReadsAreWhole
<1>1. RepositoryInv => ReadsAreWhole
  BY DEF RepositoryInv, ViewInv, ReadsAreWhole
<1> QED BY <1>1, RepositorySafety, PTL

(* No commit of a Save that its caller has given up, retried and got        *)
(* through puts an older version back: the row is locked by the first       *)
(* statement of the batch and COMMIT is sent after the last.                *)
THEOREM NoLateCommit == Spec => LateCommitHarmless
<1>1. RepositoryInv /\ [Next]_vars =>
        [\A u \in Uids : header'[u] # header[u] =>
           header'[u] = Current(header'[u][1])]_vars
  <2> SUFFICES ASSUME RepositoryInv, Next, NEW u \in Uids, header'[u] # header[u]
               PROVE  header'[u] = Current(header'[u][1])
    OBVIOUS
  <2>1. PICK t \in Sessions : Commit(t)
    BY DEF Next, Client, Failure, Server, Reader, BeginSave, SendCommit, SaveReturns,
           SaveRefused, StatementFails, ConnectionLost, UpsertOrder, DeleteItems,
           InsertItem, Abort, SelectOrders, LoadItems, EndRead, tables
  <2>2. header'[u] = session[t].ver
    BY <2>1, CommitWritesWhole DEF RepositoryInv, TypeInv, TypeOK
  <2>3. session[t].ver = Current(session[t].ver[1])
    BY <2>1 DEF Commit, RepositoryInv, AskedInv
  <2> QED BY <2>2, <2>3
<1> QED BY <1>1, RepositorySafety, PTL DEF Spec, LateCommitHarmless

-----------------------------------------------------------------------------
(* The refinement. *)

LEMMA InitImplements == Init => Store!StoreInit
  BY DEF Init, Store!StoreInit, Stored, Answer, NoView, Store!NoAnswer

LEMMA AnswerOfNoView ==
  ASSUME NEW r \in Readers, view[r] = NoView
  PROVE  Answer(r) = Store!NoAnswer
  BY DEF NoView, Answer, Store!NoAnswer

LEMMA StepImplements ==
  ASSUME RepositoryInv, RepositoryInv', [Next]_vars
  PROVE  [Store!StoreNext]_Store!storeVars
<1> DEFINE st == [u \in Uids |-> Stored(u)]
           an == [r \in Readers |-> Answer(r)]
<1> USE DEF Store!storeVars
<1>1. CASE UNCHANGED <<tables, next, view>>
  BY <1>1 DEF tables, Stored, Answer
<1>2. ASSUME NEW w \in Writers, SaveReturns(w) \/ SaveRefused(w)
      PROVE  Store!Return(w)
  <2>1. /\ client[w] # Absent
        /\ OrderOf(Current(w)).refused \/ session[client[w]].st = "committed"
        /\ next' = [next EXCEPT ![w] = @ + 1]
        /\ UNCHANGED <<tables, view>>
    BY <1>2 DEF SaveReturns, SaveRefused
  <2>2. Current(w) \in Versions
    BY <2>1, ClientFacts DEF RepositoryInv
  <2>3. HasNext(w)
    BY <2>2 DEF Versions, Current, HasNext
  <2>4. OrderOf(Current(w)).refused \/ Current(w) \in saved
    BY <2>1 DEF RepositoryInv, AskedInv
  <2> QED
    BY <2>1, <2>3, <2>4
       DEF Store!Return, Store!HasNext, HasNext, Store!OrderOf, OrderOf, Store!Current,
           Current, tables, Stored, Answer
<1>3. ASSUME NEW t \in Sessions, Commit(t)
      PROVE  \E w \in Writers : Store!Save(w)
  <2> DEFINE v == session[t].ver
             w == v[1]
  <2>1. /\ v \in Versions /\ UidIn(t) \in Uids
        /\ header' = [header EXCEPT ![UidIn(t)] = v]
        /\ items' = [items EXCEPT ![UidIn(t)] = OrderOf(v).items]
        /\ saved' = saved \cup {v}
    BY <1>3, CommitWritesWhole DEF RepositoryInv
  <2>2. v = Current(w) /\ ~OrderOf(v).refused
    BY <1>3 DEF Commit, RepositoryInv, AskedInv, TypeInv
  <2>3. w \in Writers /\ v # Absent /\ HasNext(w)
    BY <2>1, <2>2, VersionFacts DEF HasNext, Current
  <2>4. st' = [st EXCEPT ![UidIn(t)] = [version |-> v, items |-> OrderOf(v).items]]
    <3>1. \A u \in Uids : Stored(u)' =
            IF u = UidIn(t) THEN [version |-> v, items |-> OrderOf(v).items] ELSE Stored(u)
      BY <2>1, <2>3 DEF Stored, RepositoryInv, TypeInv, TypeOK
    <3> QED BY <2>1, <3>1
  <2>5. UNCHANGED <<next, view>>
    BY <1>3 DEF Commit
  <2>6. an' = an
    BY <2>5 DEF Answer
  <2> QED
    BY <2>1, <2>2, <2>3, <2>4, <2>5, <2>6
       DEF Store!Save, Store!HasNext, HasNext, Store!OrderOf, OrderOf, Store!Current,
           Current, Store!Whole, UidIn
<1>4. ASSUME NEW r \in Readers, NEW us \in SUBSET Uids, SelectOrders(r, us)
      PROVE  Store!Read(r, us)
  <2>1. /\ view[r] = NoView
        /\ \A u \in us : header[u] # Absent
        /\ view' = [view EXCEPT ![r] =
              [pc |-> "items", heads |-> [u \in us |-> header[u]],
               rows |-> [u \in us |-> items[u]]]]
        /\ UNCHANGED <<tables, next>>
    BY <1>4 DEF SelectOrders, RepositoryInv, ViewInv
  <2>2. an[r] = Store!NoAnswer
    BY <2>1, AnswerOfNoView
  <2>3. \A u \in us : Stored(u) = [version |-> header[u], items |-> items[u]]
    BY <2>1 DEF Stored
  <2>4. \A u \in us : st[u] # Absent
    <3>1. \A u \in us : Stored(u) \in [version : Versions, items : Seq(Items)]
      BY <2>1, <2>3 DEF RepositoryInv, TypeInv, TypeOK
    <3> QED BY <3>1, AbsentAssumption
  <2>5. st' = st /\ next' = next /\ saved' = saved
    BY <2>1 DEF Stored, tables
  <2>6. an' = [an EXCEPT ![r] = [u \in us |-> st[u]]]
    <3>1. Answer(r)' = [u \in us |-> st[u]]
      <4>1. /\ view'[r].heads = [u \in us |-> header[u]]
            /\ view'[r].rows = [u \in us |-> items[u]]
        BY <2>1 DEF RepositoryInv, ViewInv
      <4>2. Answer(r)' = [u \in us |-> [version |-> header[u], items |-> items[u]]]
        BY <4>1 DEF Answer
      <4> QED BY <2>3, <4>2
    <3>2. \A q \in Readers \ {r} : Answer(q)' = Answer(q)
      BY <2>1 DEF Answer, RepositoryInv, ViewInv
    <3> QED BY <3>1, <3>2
  <2> QED BY <2>2, <2>4, <2>5, <2>6 DEF Store!Read
<1>5. ASSUME NEW r \in Readers, EndRead(r) PROVE Store!Close(r)
  <2>1. view' = [view EXCEPT ![r] = NoView] /\ UNCHANGED <<tables, next>>
    BY <1>5 DEF EndRead
  <2>2. st' = st /\ next' = next /\ saved' = saved
    BY <2>1 DEF Stored, tables
  <2>3. an' = [an EXCEPT ![r] = Store!NoAnswer]
    <3>1. Answer(r)' = Store!NoAnswer
      BY <2>1 DEF Answer, NoView, Store!NoAnswer, RepositoryInv, ViewInv
    <3>2. \A q \in Readers \ {r} : Answer(q)' = Answer(q)
      BY <2>1 DEF Answer, RepositoryInv, ViewInv
    <3> QED BY <3>1, <3>2
  <2> QED BY <2>2, <2>3 DEF Store!Close
<1>6. ASSUME NEW r \in Readers, LoadItems(r)
      PROVE  UNCHANGED Store!storeVars
  BY <1>6 DEF LoadItems, Stored, Answer, tables, RepositoryInv, ViewInv
<1> QED
  BY <1>1, <1>2, <1>3, <1>4, <1>5, <1>6
     DEF Next, Client, Failure, Server, Reader, BeginSave, SendCommit, StatementFails,
         ConnectionLost, UpsertOrder, DeleteItems, InsertItem, Abort, vars, Store!StoreNext

(* The repository implements a store whose Save and reads are single steps, *)
(* which is how OrderService and OrderPipeline use it.                      *)
THEOREM ImplementsStore == Spec => ImplementsOrderStore
<1> QED
  BY InitImplements, StepImplements, RepositorySafety, PTL
     DEF Spec, ImplementsOrderStore, Store!StoreSpec

-----------------------------------------------------------------------------
(* What a Save that has returned leaves behind. *)

ReturnedInv ==
  \A w \in Writers : \A k \in 1..(next[w] - 1) :
    k <= Len(Saves[w]) /\ (~OrderOf(<<w, k>>).refused => <<w, k>> \in saved)

SavedInv ==
  \A v \in saved :
    v[2] <= next[v[1]] /\ ~OrderOf(v).refused /\ header[OrderOf(v).uid] # Absent

(* The row of an order is of the last version its writer has saved. *)
LastInv ==
  \A u \in Uids : header[u] # Absent =>
    \A v \in saved : v[1] = header[u][1] /\ OrderOf(v).uid = u => v[2] <= header[u][2]

KeptInv == ReturnedInv /\ SavedInv /\ LastInv

(* The caller of w goes on: its order was refused, or is saved. *)
LEMMA GoesOn ==
  ASSUME RepositoryInv, KeptInv, NEW w \in Writers, SaveReturns(w) \/ SaveRefused(w)
  PROVE  KeptInv'
<1>1. /\ client[w] # Absent /\ next' = [next EXCEPT ![w] = @ + 1] /\ UNCHANGED tables
      /\ OrderOf(Current(w)).refused \/ session[client[w]].st = "committed"
  BY DEF SaveReturns, SaveRefused
<1>2. /\ Current(w) \in Versions /\ next[w] <= Len(Saves[w])
      /\ ~OrderOf(Current(w)).refused => Current(w) \in saved
  BY <1>1, ClientFacts, VersionFacts DEF RepositoryInv, AskedInv, Current
<1>3. /\ next'[w] = next[w] + 1 /\ next[w] \in Nat
      /\ \A w2 \in Writers \ {w} : next'[w2] = next[w2]
      /\ \A w2 \in Writers : next[w2] \in Nat /\ next'[w2] \in Nat /\ next[w2] <= next'[w2]
  BY <1>1 DEF RepositoryInv, TypeInv, TypeOK
<1>4. ReturnedInv'
  <2> SUFFICES ASSUME NEW w2 \in Writers, NEW k \in 1..(next'[w2] - 1)
               PROVE  k <= Len(Saves[w2]) /\ (~OrderOf(<<w2, k>>).refused => <<w2, k>> \in saved')
    BY DEF ReturnedInv, OrderOf
  <2>1. CASE w2 = w /\ k = next[w]
    BY <1>1, <1>2, <2>1 DEF Current, tables
  <2>2. CASE ~(w2 = w /\ k = next[w])
    <3>1. k \in 1..(next[w2] - 1)
      BY <1>3, <2>2
    <3> QED BY <1>1, <3>1 DEF KeptInv, ReturnedInv, tables
  <2> QED BY <2>1, <2>2
<1>5. SavedInv'
  <2> SUFFICES ASSUME NEW v \in saved
               PROVE  v[2] <= next'[v[1]] /\ ~OrderOf(v).refused /\ header'[OrderOf(v).uid] # Absent
    BY <1>1 DEF SavedInv, OrderOf, tables
  <2>1. v[1] \in Writers /\ v[2] \in Nat
    BY VersionFacts DEF RepositoryInv, TypeInv, TypeOK
  <2> QED BY <1>1, <1>3, <2>1 DEF KeptInv, SavedInv, tables
<1>6. LastInv'
  BY <1>1 DEF KeptInv, LastInv, tables, OrderOf
<1> QED BY <1>4, <1>5, <1>6 DEF KeptInv

LEMMA CommitKeeps ==
  ASSUME RepositoryInv, KeptInv, NEW t \in Sessions, Commit(t)
  PROVE  KeptInv'
<1> DEFINE v == session[t].ver
           u == UidIn(t)
<1>1. /\ v \in Versions /\ u \in Uids /\ u = OrderOf(v).uid
      /\ header' = [header EXCEPT ![u] = v] /\ saved' = saved \cup {v}
      /\ header \in [Uids -> Versions \cup {Absent}] /\ saved \subseteq Versions
      /\ UNCHANGED next
  BY CommitWritesWhole DEF Commit, RepositoryInv, TypeInv, TypeOK, UidIn
<1>2. v = Current(v[1]) /\ ~OrderOf(v).refused
  BY DEF Commit, RepositoryInv, AskedInv, TypeInv
<1>3. v[2] = next[v[1]] /\ v[2] \in Nat /\ v # Absent
  BY <1>1, <1>2, VersionFacts DEF Current
<1>4. ReturnedInv'
  BY <1>1 DEF KeptInv, ReturnedInv, OrderOf
<1>5. SavedInv'
  <2> SUFFICES ASSUME NEW x \in saved'
               PROVE  x[2] <= next[x[1]] /\ ~OrderOf(x).refused /\ header'[OrderOf(x).uid] # Absent
    BY <1>1 DEF SavedInv, OrderOf
  <2>1. CASE x = v
    BY <1>1, <1>2, <1>3, <2>1
  <2>2. CASE x # v
    <3>1. x \in saved /\ OrderOf(x).uid \in Uids
      BY <1>1, <2>2, VersionFacts
    <3> QED BY <1>1, <1>3, <3>1 DEF KeptInv, SavedInv
  <2> QED BY <2>1, <2>2
<1>6. LastInv'
  <2> SUFFICES ASSUME NEW o \in Uids, header'[o] # Absent,
                      NEW x \in saved', x[1] = header'[o][1], OrderOf(x).uid = o
               PROVE  x[2] <= header'[o][2]
    BY DEF LastInv, OrderOf
  <2>1. CASE o = u
    <3>1. header'[o] = v
      BY <1>1, <2>1
    <3>2. x = v \/ x[2] <= next[x[1]]
      BY <1>1 DEF KeptInv, SavedInv
    <3> QED BY <1>3, <3>1, <3>2
  <2>2. CASE o # u
    BY <1>1, <2>2 DEF KeptInv, LastInv
  <2> QED BY <2>1, <2>2
<1> QED BY <1>4, <1>5, <1>6 DEF KeptInv

LEMMA KeptStep == RepositoryInv /\ KeptInv /\ [Next]_vars => KeptInv'
<1> SUFFICES ASSUME RepositoryInv, KeptInv, [Next]_vars PROVE KeptInv'
  OBVIOUS
<1>1. CASE UNCHANGED <<header, saved, next>>
  BY <1>1 DEF KeptInv, ReturnedInv, SavedInv, LastInv, OrderOf
<1> QED
  BY <1>1, GoesOn, CommitKeeps
     DEF Next, Client, Failure, Server, Reader, BeginSave, SendCommit, StatementFails,
         ConnectionLost, UpsertOrder, DeleteItems, InsertItem, Abort, SelectOrders,
         LoadItems, EndRead, tables, vars

(* What a Save has returned for is in the tables, until its order is saved  *)
(* again: through retries, lost connections and the transactions they       *)
(* leave, for any number of writers and sessions.                           *)
THEOREM ReturnedSavesKept == Spec => []ReturnedSavesStay
<1>1. Init => KeptInv
  BY DEF Init, KeptInv, ReturnedInv, SavedInv, LastInv
<1>2. ASSUME RepositoryInv, KeptInv PROVE ReturnedSavesStay
  <2> SUFFICES ASSUME NEW w \in Writers, NEW k \in 1..(next[w] - 1)
               PROVE  LET v == <<w, k>>
                          row == header[OrderOf(v).uid]
                      IN  IF OrderOf(v).refused
                            THEN v \notin saved
                            ELSE v \in saved /\ row # Absent /\ (row[1] = w => row[2] >= k)
    BY DEF ReturnedSavesStay
  <2> DEFINE v == <<w, k>>
             u == OrderOf(v).uid
  <2>1. CASE OrderOf(v).refused
    BY <1>2, <2>1 DEF KeptInv, SavedInv
  <2>2. CASE ~OrderOf(v).refused
    <3>1. v \in saved /\ v[1] = w /\ v[2] = k
      BY <1>2, <2>2 DEF KeptInv, ReturnedInv
    <3>2. v \in Versions /\ u \in Uids /\ header[u] # Absent
      BY <1>2, <3>1, VersionFacts DEF RepositoryInv, TypeInv, TypeOK, KeptInv, SavedInv
    <3>3. header[u][2] \in Nat /\ k \in Nat
      BY <1>2, <3>1, <3>2, VersionFacts DEF RepositoryInv, TypeInv, TypeOK
    <3>4. header[u][1] = w => header[u][2] >= k
      BY <1>2, <3>1, <3>2, <3>3 DEF KeptInv, LastInv
    <3> QED BY <2>2, <3>1, <3>2, <3>4
  <2> QED BY <2>1, <2>2
<1> QED BY <1>1, <1>2, KeptStep, RepositorySafety, PTL DEF Spec

-----------------------------------------------------------------------------
(* Nobody waits for ever for somebody who is not there: the premises under  *)
(* which the fairness of SavesFinish gets every Save to its end.            *)

(* A session that still has its connection is the one a client waits for. *)
ServedInv ==
  /\ \A t \in Sessions : session[t].st # "free" /\ session[t].open =>
       \E w \in Writers : client[w] = t
  /\ \A t \in Sessions : session[t].st \notin {"free", "committed"} =>
       Len(session[t].rows) <= Len(OrderOf(session[t].ver).items)

(* The guards of the steps a client or a session takes by itself. *)
ClientCanGoOn(w) ==
  \/ HasNext(w) /\ client[w] = Absent /\ \E t \in Sessions : session[t].st = "free"
  \/ /\ client[w] # Absent
     /\ \/ BatchDone(client[w]) /\ ~session[client[w]].asked
        \/ session[client[w]].st = "committed"
        \/ OrderOf(Current(w)).refused
ServerCanGoOn(t) ==
  \/ session[t].st = "begun" /\ \A o \in Sessions : HoldsRow(o) => UidIn(o) # UidIn(t)
  \/ session[t].st = "locked"
  \/ session[t].st = "cleared" /\ Len(session[t].rows) < Len(OrderOf(session[t].ver).items)
  \/ BatchDone(t) /\ session[t].asked
  \/ session[t].st # "free" /\ ~session[t].open

LEMMA ServedStep == RepositoryInv /\ ServedInv /\ [Next]_vars => ServedInv'
<1> SUFFICES ASSUME RepositoryInv, ServedInv, [Next]_vars PROVE ServedInv'
  OBVIOUS
<1> USE DEF tables
<1>t. session \in [Sessions -> Transactions] /\ client \in [Writers -> Sessions \cup {Absent}]
      /\ \A t \in Sessions : t # Absent
  BY AbsentAssumption DEF RepositoryInv, TypeInv, TypeOK
<1>1. ASSUME NEW w \in Writers, BeginSave(w) PROVE ServedInv'
  <2>1. PICK t \in Sessions :
          /\ client' = [client EXCEPT ![w] = t]
          /\ session' = [session EXCEPT ![t] = Begun(Current(w))]
    BY <1>1 DEF BeginSave
  <2>2. client[w] = Absent
    BY <1>1 DEF BeginSave
  <2>3. \A x \in Sessions : x # t => session'[x] = session[x]
    BY <1>t, <2>1
  <2>4. /\ session'[t].st = "begun" /\ client'[w] = t
        /\ Len(session'[t].rows) <= Len(OrderOf(session'[t].ver).items)
    <3>1. Current(w) \in Versions
      BY <1>1, CurrentVersion DEF BeginSave, RepositoryInv
    <3> QED BY <1>t, <2>1, <3>1, VersionFacts DEF Begun, NoTransaction
  <2>5. \A w2 \in Writers : w2 # w => client'[w2] = client[w2]
    BY <1>t, <2>1
  <2>6. ASSUME NEW x \in Sessions, session'[x].st # "free", session'[x].open
        PROVE  \E w2 \in Writers : client'[w2] = x
    BY <1>t, <2>2, <2>3, <2>4, <2>5, <2>6 DEF ServedInv
  <2> QED BY <2>3, <2>4, <2>6 DEF ServedInv, OrderOf
<1>2. ASSUME NEW w \in Writers, SaveReturns(w) \/ SaveRefused(w) \/ StatementFails(w)
      PROVE  ServedInv'
  <2>1. /\ client[w] # Absent
        /\ session' = [session EXCEPT ![client[w]] = NoTransaction]
        /\ client' = [client EXCEPT ![w] = Absent]
    BY <1>2 DEF SaveReturns, SaveRefused, StatementFails
  <2>2. \A x \in Sessions : x # client[w] => session'[x] = session[x]
    BY <1>t, <2>1
  <2>3. session'[client[w]].st = "free"
    BY <1>t, <2>1 DEF NoTransaction
  <2>4. \A w2 \in Writers : w2 # w => client'[w2] = client[w2]
    BY <1>t, <2>1
  <2> QED BY <1>t, <2>2, <2>3, <2>4 DEF ServedInv
<1>3. ASSUME NEW w \in Writers, ConnectionLost(w) PROVE ServedInv'
  <2>1. /\ client[w] # Absent
        /\ session' = [session EXCEPT ![client[w]].open = FALSE]
        /\ client' = [client EXCEPT ![w] = Absent]
    BY <1>3 DEF ConnectionLost
  <2>2. \A x \in Sessions : x # client[w] => session'[x] = session[x]
    BY <1>t, <2>1
  <2>3. /\ ~session'[client[w]].open /\ session'[client[w]].st = session[client[w]].st
        /\ session'[client[w]].rows = session[client[w]].rows
        /\ session'[client[w]].ver = session[client[w]].ver
    BY <1>t, <2>1 DEF Transactions
  <2>4. \A w2 \in Writers : w2 # w => client'[w2] = client[w2]
    BY <1>t, <2>1
  <2> QED BY <1>t, <2>2, <2>3, <2>4 DEF ServedInv, OrderOf
<1>4. ASSUME NEW w \in Writers, SendCommit(w) PROVE ServedInv'
  <2>1. \A x \in Sessions :
          /\ session'[x].st = session[x].st /\ session'[x].open = session[x].open
          /\ session'[x].rows = session[x].rows /\ session'[x].ver = session[x].ver
    BY <1>4, <1>t DEF SendCommit, Transactions
  <2> QED BY <1>4, <2>1 DEF SendCommit, ServedInv, OrderOf
<1>5. ASSUME NEW t \in Sessions, UpsertOrder(t) \/ DeleteItems(t) \/ InsertItem(t) PROVE ServedInv'
  <2>1. \A x \in Sessions : x # t => session'[x] = session[x]
    BY <1>5, <1>t DEF UpsertOrder, DeleteItems, InsertItem
  <2>2. /\ session[t].st # "free" /\ session'[t].open = session[t].open
        /\ session'[t].ver = session[t].ver /\ UNCHANGED client
    BY <1>5, <1>t DEF UpsertOrder, DeleteItems, InsertItem, Transactions
  <2>3. Len(session'[t].rows) <= Len(OrderOf(session[t].ver).items)
    <3>1. Len(OrderOf(session[t].ver).items) \in Nat
      BY <2>2, SessionFacts DEF RepositoryInv
    <3>2. CASE UpsertOrder(t) \/ DeleteItems(t)
      <4>1. session'[t].rows = session[t].rows /\ session[t].st \in {"begun", "locked"}
        BY <1>t, <3>2 DEF UpsertOrder, DeleteItems, Transactions
      <4> QED BY <4>1 DEF ServedInv
    <3>4. CASE InsertItem(t)
      <4>1. /\ session[t].rows \in Seq(Items) /\ Len(session[t].rows) \in Nat
            /\ Len(session[t].rows) < Len(OrderOf(session[t].ver).items)
        BY <1>t, <3>4, LenProperties DEF InsertItem, Transactions
      <4>2. \E e : session'[t].rows = Append(session[t].rows, e)
        BY <1>t, <3>4 DEF InsertItem, Transactions
      <4>3. Len(session'[t].rows) = Len(session[t].rows) + 1
        BY <4>1, <4>2
      <4> QED BY <3>1, <4>1, <4>3
    <3> QED BY <1>5, <3>2, <3>4
  <2> QED BY <1>t, <2>1, <2>2, <2>3 DEF ServedInv, OrderOf
<1>6. ASSUME NEW t \in Sessions, Commit(t) \/ Abort(t) PROVE ServedInv'
  <2>1. \A x \in Sessions : x # t => session'[x] = session[x]
    BY <1>6, <1>t DEF Commit, Abort
  <2>2. \/ session'[t].st = "free"
        \/ session'[t].st = "committed" /\ session[t].open /\ session[t].st = "cleared"
    BY <1>6, <1>t DEF Commit, Abort, NoTransaction, BatchDone, Transactions
  <2>3. UNCHANGED client
    BY <1>6 DEF Commit, Abort
  <2> QED BY <1>t, <2>1, <2>2, <2>3 DEF ServedInv, OrderOf
<1>7. CASE UNCHANGED <<session, client>>
  BY <1>7 DEF ServedInv, OrderOf
<1> QED
  BY <1>1, <1>2, <1>3, <1>4, <1>5, <1>6, <1>7
     DEF Next, Client, Failure, Server, Reader, SelectOrders, LoadItems, EndRead, vars

(* As long as a writer has an order to save, some client or some session    *)
(* can take its next step: no row stays locked by a session that nobody     *)
(* will finish, and no two sessions wait for each other.  With the fairness *)
(* of clients and sessions and a bounded number of losses this is why       *)
(* SavesFinish holds (order_repo.go: one row lock per transaction, taken by *)
(* its first statement).                                                    *)
SavesNeverStuck ==
  (\E w \in Writers : HasNext(w)) =>
    (\E w \in Writers : ClientCanGoOn(w)) \/ (\E t \in Sessions : ServerCanGoOn(t))

THEOREM SavesGoOn ==
  ASSUME Sessions # {}
  PROVE  Spec => []SavesNeverStuck
<1>1. Init => ServedInv
  BY DEF Init, NoTransaction, ServedInv
<1>2. ASSUME RepositoryInv, ServedInv PROVE SavesNeverStuck
  <2> DEFINE Somebody == (\E w \in Writers : ClientCanGoOn(w)) \/ (\E t \in Sessions : ServerCanGoOn(t))
  <2> SUFFICES ASSUME NEW w \in Writers, HasNext(w) PROVE Somebody
    BY DEF SavesNeverStuck
  <2>1. \A t \in Sessions :
          /\ session[t].st \in {"free", "begun", "locked", "cleared", "committed"}
          /\ session[t].open \in BOOLEAN /\ session[t].asked \in BOOLEAN /\ t # Absent
    BY <1>2, AbsentAssumption DEF RepositoryInv, TypeInv, TypeOK, Transactions
  <2>2. ASSUME NEW t \in Sessions, session[t].st # "free", ~session[t].open PROVE Somebody
    BY <2>2 DEF ServerCanGoOn
  <2>3. ASSUME NEW t \in Sessions, session[t].st = "locked" PROVE Somebody
    BY <2>3 DEF ServerCanGoOn
  <2>4. ASSUME NEW t \in Sessions, session[t].st = "committed", session[t].open PROVE Somebody
    <3>1. PICK x \in Writers : client[x] = t
      BY <1>2, <2>4 DEF ServedInv
    <3> QED BY <2>1, <2>4, <3>1 DEF ClientCanGoOn
  <2>5. ASSUME NEW t \in Sessions, session[t].st = "cleared", session[t].open PROVE Somebody
    <3>1. PICK x \in Writers : client[x] = t
      BY <1>2, <2>5 DEF ServedInv
    <3>2. /\ Len(session[t].rows) <= Len(OrderOf(session[t].ver).items)
          /\ Len(session[t].rows) \in Nat /\ Len(OrderOf(session[t].ver).items) \in Nat
      BY <1>2, <2>5, SessionFacts, LenProperties
         DEF ServedInv, RepositoryInv, TypeInv, TypeOK, Transactions
    <3>3. CASE Len(session[t].rows) < Len(OrderOf(session[t].ver).items)
      BY <2>5, <3>3 DEF ServerCanGoOn
    <3>4. CASE Len(session[t].rows) = Len(OrderOf(session[t].ver).items)
      <4>1. BatchDone(t)
        BY <2>5, <3>4 DEF BatchDone
      <4>2. CASE session[t].asked
        BY <4>1, <4>2 DEF ServerCanGoOn
      <4>3. CASE ~session[t].asked
        BY <2>1, <3>1, <4>1, <4>3 DEF ClientCanGoOn
      <4> QED BY <4>2, <4>3
    <3> QED BY <3>2, <3>3, <3>4
  <2>6. ASSUME NEW t \in Sessions, session[t].st = "begun", \A o \in Sessions : ~HoldsRow(o)
        PROVE  Somebody
    BY <2>6 DEF ServerCanGoOn
  <2>7. ASSUME \A t \in Sessions : session[t].st = "free" PROVE Somebody
    <3>1. client[w] = Absent
      BY <1>2, <2>7, ClientFacts DEF RepositoryInv
    <3> QED BY <2>7, <3>1 DEF ClientCanGoOn
  <2> HIDE DEF Somebody
  <2> QED BY <2>1, <2>2, <2>3, <2>4, <2>5, <2>6, <2>7 DEF HoldsRow
<1> QED BY <1>1, <1>2, ServedStep, RepositorySafety, PTL DEF Spec
=============================================================================
