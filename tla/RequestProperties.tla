------------------------- MODULE RequestProperties -------------------------
(***************************************************************************)
(* What a client and a reader of the log may rely on for every request,    *)
(* however handler, limit, panic and client come together in time.         *)
(***************************************************************************)
EXTENDS HttpRequest

Statuses == {0, 200, 400, 404, 500, 503}
Writers == {"handler", "timeout", "panic"}
Writings == [status : Statuses, body : Seq(Writers)]

(* Every variable has its type, and a request that is over has a status. *)
TypeOK ==
  /\ limited \in BOOLEAN /\ route \in Routes /\ uid \in Uids
  /\ saved \subseteq {u \in Uids : Storable(u)}
  /\ outer \in {"serving", "log", "closed"}
  /\ inner \in {"run", "query", "ping", "header", "body", "end", "panicked"}
  /\ code \in Statuses
  /\ buffer \in Writings /\ answer \in Writings
  /\ ctxErr \in {"none", "canceled", "deadline"}
  /\ gaveUp \in BOOLEAN /\ gone \in BOOLEAN
  /\ stack \in {"none", "handler", "connection"}
  /\ entry \in [status : Statuses \cup {ClientClosed},
                level : {"none", "debug", "info", "warn", "error"}]
  /\ outer = "closed" <=> entry.status # 0
  /\ outer = "closed" => answer.status # 0

(* A client gets one answer, from one author: the body of the handler, of   *)
(* the limit or of the recovery, under the status of that author, and never *)
(* two of them mixed; one that has waited gets a body, so an answer that    *)
(* the handler left out because its context was done is never sent as an    *)
(* empty 200 (handler.go, GetOrder on context.Canceled; middleware.go,      *)
(* limitDuration).                                                          *)
OneAnswer ==
  outer = "closed" =>
    /\ answer.body \in {<< >>} \cup {<<w>> : w \in Writers}
    /\ answer.body = <<"handler">> => answer.status = code
    /\ answer.body = <<"timeout">> => answer.status = 503
    /\ answer.body = <<"panic">> => answer.status = 500
    /\ answer.body = << >> => gone \/ inner = "panicked"

(* The access log tells what the client got, and never blames the server    *)
(* for a client that left: 499 stands exactly for those, the limit of the   *)
(* handler is not taken for one; an error of the server is logged as one,   *)
(* on the quiet routes of the probes, too (middleware.go, logRequests and   *)
(* levelFor).                                                               *)
LogTellsStatus ==
  outer = "closed" =>
    /\ entry.status = ClientClosed <=> gone
    /\ ~gone => entry.status = answer.status
    /\ ~gone /\ answer.status >= 500 => entry.level = "error"

(* A panic is in the log if it came before the limit, and only then: one    *)
(* that comes later TimeoutHandler keeps to itself.  It is answered with    *)
(* 500, under a limit always, as nothing is sent before the handler has     *)
(* returned; without one an answer that had begun is left as it is          *)
(* (middleware.go, recoverPanic and reportPanic).                           *)
PanicAnswered ==
  outer = "closed" =>
    /\ stack # "none" <=> inner = "panicked" /\ ~gaveUp
    /\ inner = "panicked" /\ ~gaveUp =>
         \/ answer = [status |-> 500, body |-> <<"panic">>]
         \/ ~limited /\ answer = [status |-> code, body |-> << >>]

(* What the doc of recoverPanic says: it turns a panic into a 500 and       *)
(* leaves its stack in the log.  Under a limit, the default, it does not    *)
(* hold: the panic is logged, but with the stack of the goroutine it was    *)
(* raised in again, and where the handler panicked is lost.                 *)
PanicLeavesItsStack ==
  outer = "closed" /\ inner = "panicked" /\ ~gaveUp => stack = "handler"

(* Every request is logged, those that hang or panic first of all, if there *)
(* is a limit; without one a query the database never answers has no end    *)
(* (router.go, the doc of NewRouter).                                       *)
EveryRequestLogged ==
  outer = "serving" /\ (limited \/ route # "order") ~> outer = "closed"

(* An order that was stored is found under its uid: it is never refused as  *)
(* an impossible uid, nor as unknown (handler.go, the comment on the length *)
(* in GetOrder, and order.go, MaxOrderUIDLen: the tag repeats the constant, *)
(* one limit for both ends).  It holds as long as every character of a uid  *)
(* is one byte.                                                             *)
StoredIsReadable ==
  outer = "closed" /\ route = "order" /\ uid \in saved =>
    answer.status \notin {400, 404}
=============================================================================
