------------------------ MODULE RepositoryProperties ------------------------
(***************************************************************************)
(* What OrderRepository has to satisfy: tables and reads never mix two     *)
(* versions of an order, a transaction the client has given up cannot undo *)
(* a later save, and every Save comes to an end.                           *)
(***************************************************************************)
EXTENDS OrderRepository

Transactions ==
  [st : {"free", "begun", "locked", "cleared", "committed"},
   ver : Versions \cup {Absent}, cleared : Nat, rows : Seq(Items),
   asked : BOOLEAN, open : BOOLEAN]

(* Every variable has its type; the session a client waits for is its own:  *)
(* it runs the order the client is at, over a connection that is open.      *)
TypeOK ==
  /\ header \in [Uids -> Versions \cup {Absent}]
  /\ items \in [Uids -> Seq(Items)]
  /\ saved \subseteq Versions
  /\ session \in [Sessions -> Transactions]
  /\ client \in [Writers -> Sessions \cup {Absent}]
  /\ next \in [Writers -> Nat]
  /\ losses \in 0..MaxLosses
  /\ \A w \in Writers : client[w] # Absent =>
       /\ session[client[w]].st # "free"
       /\ session[client[w]].open
       /\ session[client[w]].ver = Current(w)

(* An order is in the database whole: its items are those of the version    *)
(* its row is of, each once and none left over from another version, however *)
(* often it was saved and by whom (order_repo.go, the doc of Save).         *)
OrdersWhole ==
  \A u \in Uids :
    IF header[u] = Absent
      THEN items[u] = << >>
      ELSE OrderOf(header[u]).uid = u /\ items[u] = OrderOf(header[u]).items

(* A read never glues an order together from two versions: what GetByUID    *)
(* and ListRecent return are orders as one transaction committed them       *)
(* (order_repo.go, the comment on readOnlySnapshot).                        *)
ReadsAreWhole ==
  \A r \in Readers : view[r].pc = "done" =>
    \A u \in DOMAIN view[r].heads :
      LET v == view[r].heads[u]
      IN  v \in saved /\ OrderOf(v).uid = u /\ view[r].rows[u] = OrderOf(v).items

(* What Save has returned for stays: once its caller has gone on, a version *)
(* is in the tables until somebody else, or a later Save of the same        *)
(* caller, writes its order; a refused one never gets into them, however    *)
(* its transaction ended (order_repo.go, the doc of Save).                  *)
ReturnedSavesStay ==
  \A w \in Writers : \A k \in 1..(next[w] - 1) :
    LET v == <<w, k>>
        row == header[OrderOf(v).uid]
    IN  IF OrderOf(v).refused
          THEN v \notin saved
          ELSE v \in saved /\ row # Absent /\ (row[1] = w => row[2] >= k)

(* A transaction whose Save has failed may still commit, but never after    *)
(* its caller has gone on: the version that enters the tables is the one    *)
(* its writer is at, so no late commit undoes a later save (order_repo.go,  *)
(* Save: the row of the order is locked first and COMMIT is sent last).     *)
LateCommitHarmless ==
  [][\A u \in Uids : header'[u] # header[u] =>
       header'[u] = Current(header'[u][1])]_vars

Stored(u) ==
  IF header[u] = Absent THEN Absent
                        ELSE [version |-> header[u], items |-> items[u]]
Answer(r) ==
  [u \in DOMAIN view[r].heads |->
     [version |-> view[r].heads[u], items |-> view[r].rows[u]]]

Store == INSTANCE OrderStore WITH
  store <- [u \in Uids |-> Stored(u)],
  answers <- [r \in Readers |-> Answer(r)]

(* The transactions amount to a store in which an order is saved and read   *)
(* in one step, retried saves included: what OrderService builds on.        *)
ImplementsOrderStore == Store!StoreSpec

(* Every order is saved or refused in the end: no session keeps the row of  *)
(* an order from the others for good, and a retried Save gets through.      *)
SavesFinish == <>(\A w \in Writers : ~HasNext(w))
=============================================================================
