----------------------------- MODULE OrderStore -----------------------------
(***************************************************************************)
(* What the service takes for granted of its repository: an order is saved *)
(* and read as one whole.  Save stores the order its caller is at, as      *)
(* often as it is retried, and returns only after that, unless Postgres    *)
(* refuses the data; a read answers with the orders of one moment.         *)
(* OrderService and OrderPipeline are written on top of this.              *)
(***************************************************************************)
EXTENDS Naturals, Sequences

CONSTANTS
  Uids,
  Writers,   \* the consumers that save orders
  Readers,   \* the queries of GetByUID and ListRecent that run at once
  Saves,     \* Saves[w]: the orders w has to save, in this order
  Absent

VARIABLES
  store,     \* store[u]: the order under u, or Absent
  next,      \* next[w]: which of its orders w is at
  saved,     \* the versions that have been stored
  answers    \* answers[r]: the orders r has read

storeVars == <<store, next, saved, answers>>

(* A version is named by who saves it and by its place in Saves. *)
OrderOf(v) == Saves[v[1]][v[2]]
Whole(v) == [version |-> v, items |-> OrderOf(v).items]

HasNext(w) == next[w] <= Len(Saves[w])
Current(w) == <<w, next[w]>>
NoAnswer == [u \in {} |-> Absent]

StoreInit ==
  /\ store = [u \in Uids |-> Absent]
  /\ next = [w \in Writers |-> 1]
  /\ saved = {}
  /\ answers = [r \in Readers |-> NoAnswer]

Save(w) ==
  /\ HasNext(w)
  /\ ~OrderOf(Current(w)).refused
  /\ store' = [store EXCEPT ![OrderOf(Current(w)).uid] = Whole(Current(w))]
  /\ saved' = saved \cup {Current(w)}
  /\ UNCHANGED <<next, answers>>

Return(w) ==
  /\ HasNext(w)
  /\ OrderOf(Current(w)).refused \/ Current(w) \in saved
  /\ next' = [next EXCEPT ![w] = @ + 1]
  /\ UNCHANGED <<store, saved, answers>>

Read(r, us) ==
  /\ answers[r] = NoAnswer
  /\ \A u \in us : store[u] # Absent
  /\ answers' = [answers EXCEPT ![r] = [u \in us |-> store[u]]]
  /\ UNCHANGED <<store, next, saved>>

Close(r) ==
  /\ answers' = [answers EXCEPT ![r] = NoAnswer]
  /\ UNCHANGED <<store, next, saved>>

StoreNext ==
  \/ \E w \in Writers : Save(w) \/ Return(w)
  \/ \E r \in Readers : Close(r) \/ \E us \in SUBSET Uids : Read(r, us)

StoreSpec == StoreInit /\ [][StoreNext]_storeVars
=============================================================================
