---------------------------- MODULE HttpRequest ----------------------------
(***************************************************************************)
(* One HTTP request on its way through the chain of NewRouter: access log, *)
(* recovery of panics, limit of the duration, and the handler.  With a     *)
(* limit the handler runs in a goroutine of http.TimeoutHandler, which     *)
(* buffers what it writes and gives up on it at the deadline, or when the  *)
(* client is gone; without one it writes straight to the connection.       *)
(* Request identifiers and headers are left out.                           *)
(***************************************************************************)
EXTENDS Naturals, Sequences

CONSTANTS
  Uids,      \* what clients may ask for
  Chars,     \* Chars[u]: characters of the uid, as the validator counts
  Bytes,     \* Bytes[u]: its bytes in UTF-8
  MaxLen     \* MaxOrderUIDLen

ASSUME LengthsAssumption ==
  /\ MaxLen \in Nat
  /\ Chars \in [Uids -> Nat] /\ Bytes \in [Uids -> Nat]
  /\ \A u \in Uids : Chars[u] <= Bytes[u]

Routes == {"order", "health", "ready", "page"}

VARIABLES
  limited,   \* HTTP_HANDLER_TIMEOUT is not 0
  route,     \* the route of the request
  uid,       \* the order it asks for
  saved,     \* the orders in the database: the consumer has validated them
  outer,     \* the connection's goroutine: serving, log, closed
  inner,     \* the handler: run, query, ping, header, body, end, panicked
  code,      \* the status the handler answers with
  buffer,    \* what it has written to the timeoutWriter
  answer,    \* what was sent: the status, and who wrote the body
  gaveUp,    \* TimeoutHandler has answered without the handler
  ctxErr,    \* why the handler's context is done: none, canceled, deadline
  gone,      \* the client has closed the connection
  stack,     \* the goroutine whose stack was logged: none, handler, connection
  entry      \* the entry of the access log

requestVars == <<limited, route, uid, saved>>
handlerVars == <<inner, code, buffer>>
clientVars == <<gone, ctxErr>>
logVars == <<stack, entry>>
vars == <<requestVars, handlerVars, clientVars, logVars, outer, answer, gaveUp>>

Nothing == [status |-> 0, body |-> << >>]
NoEntry == [status |-> 0, level |-> "none"]

(* The tag of Order.OrderUID: required,max=64. *)
Storable(u) == Chars[u] \in 1..MaxLen

Init ==
  /\ limited \in BOOLEAN
  /\ route \in Routes
  /\ uid \in Uids
  /\ saved \in SUBSET {u \in Uids : Storable(u)}
  /\ outer = "serving" /\ inner = "run"
  /\ code = 0
  /\ buffer = Nothing /\ answer = Nothing
  /\ gaveUp = FALSE /\ gone = FALSE /\ ctxErr = "none"
  /\ stack = "none"
  /\ entry = NoEntry

-----------------------------------------------------------------------------
(* The handlers. *)

(* Mutant: a uid of the greatest length is refused. *)
AcceptableShorter(u) == Bytes[u] > 0 /\ Bytes[u] < MaxLen

Acceptable(u) == Bytes[u] > 0 /\ Bytes[u] <= MaxLen

RespondWith(c) == code' = c /\ inner' = "header"

(* GetOrder up to the query; an order may be in the cache.  One that cannot *)
(* be rendered is answered with 500, wherever it comes from.                *)
BeginOrder ==
  /\ route = "order"
  /\ \/ ~Acceptable(uid) /\ RespondWith(400)
     \/ Acceptable(uid) /\ uid \in saved /\ \E c \in {200, 500} : RespondWith(c)
     \/ Acceptable(uid) /\ inner' = "query" /\ UNCHANGED code

(* Healthz, Readyz up to the ping, the file server. *)
BeginOther ==
  \/ route = "health" /\ RespondWith(200)
  \/ route = "ready" /\ inner' = "ping" /\ UNCHANGED code
  \/ route = "page" /\ \E c \in {200, 404} : RespondWith(c)

Begin ==
  /\ inner = "run"
  /\ BeginOrder \/ BeginOther
  /\ UNCHANGED <<requestVars, buffer, clientVars, logVars, outer, answer, gaveUp>>

(* The query answers, or fails; the order it found may not be rendered. *)
QueryAnswers ==
  /\ inner = "query"
  /\ \E c \in IF uid \in saved THEN {200, 500} ELSE {404, 500} : RespondWith(c)
  /\ UNCHANGED <<requestVars, buffer, clientVars, logVars, outer, answer, gaveUp>>

(* Mutant: GetOrder keeps silent on a deadline, too. *)
QueryEndsSilently ==
  /\ inner = "query"
  /\ ctxErr # "none"
  /\ inner' = "end"
  /\ UNCHANGED <<code, requestVars, buffer, clientVars, logVars, outer, answer, gaveUp>>

(* The query ends with the context: nobody is there, or the limit is over. *)
QueryEnds ==
  /\ inner = "query"
  /\ \/ ctxErr = "canceled" /\ inner' = "end" /\ UNCHANGED code
     \/ ctxErr = "deadline" /\ RespondWith(500)
  /\ UNCHANGED <<requestVars, buffer, clientVars, logVars, outer, answer, gaveUp>>

(* The ping answers, fails, or runs into readinessTimeout. *)
PingEnds ==
  /\ inner = "ping"
  /\ \E c \in {200, 503} : RespondWith(c)
  /\ UNCHANGED <<requestVars, buffer, clientVars, logVars, outer, answer, gaveUp>>

(* What the handler writes: into the buffer, until TimeoutHandler has given *)
(* up on it, or to the client.                                              *)
Put(status, body) ==
  LET Added(w) == [status |-> IF w.status = 0 THEN status ELSE w.status,
                   body   |-> w.body \o body]
  IN  IF limited
        THEN buffer' = (IF gaveUp THEN buffer ELSE Added(buffer)) /\ UNCHANGED answer
        ELSE answer' = Added(answer) /\ UNCHANGED buffer

(* writeJSON: the header, then the whole body. *)
WriteHeader ==
  /\ inner = "header"
  /\ Put(code, << >>)
  /\ inner' = "body"
  /\ UNCHANGED <<code, requestVars, clientVars, logVars, outer, gaveUp>>

WriteBody ==
  /\ inner = "body"
  /\ Put(code, <<"handler">>)
  /\ inner' = "end"
  /\ UNCHANGED <<code, requestVars, clientVars, logVars, outer, gaveUp>>

Panic ==
  /\ inner \notin {"end", "panicked"}
  /\ inner' = "panicked"
  /\ UNCHANGED <<code, buffer, requestVars, clientVars, logVars, outer, answer, gaveUp>>

-----------------------------------------------------------------------------
(* The client and the clock. *)

ClientLeaves ==
  /\ outer # "closed"
  /\ ~gone
  /\ gone' = TRUE
  /\ ctxErr' = IF ctxErr = "none" THEN "canceled" ELSE ctxErr
  /\ UNCHANGED <<requestVars, handlerVars, logVars, outer, answer, gaveUp>>

LimitElapses ==
  /\ limited
  /\ outer = "serving"
  /\ ctxErr = "none"
  /\ ctxErr' = "deadline"
  /\ UNCHANGED <<requestVars, handlerVars, logVars, outer, answer, gaveUp, gone>>

-----------------------------------------------------------------------------
(* The chain. *)

(* ServeHTTP of the handler returns; TimeoutHandler sends the buffer. *)
HandlerReturns ==
  /\ outer = "serving"
  /\ inner = "end"
  /\ answer' = IF ~limited THEN answer
               ELSE [buffer EXCEPT !.status = IF @ = 0 THEN 200 ELSE @]
  /\ outer' = "log"
  /\ UNCHANGED <<requestVars, handlerVars, clientVars, logVars, gaveUp>>

(* TimeoutHandler answers instead of the handler.  If both are ready it may *)
(* take either.                                                             *)
GiveUp ==
  /\ limited
  /\ outer = "serving"
  /\ ctxErr # "none"
  /\ answer' = [status |-> 503, body |-> IF ctxErr = "deadline" THEN <<"timeout">> ELSE << >>]
  /\ gaveUp' = TRUE
  /\ outer' = "log"
  /\ UNCHANGED <<requestVars, handlerVars, clientVars, logVars>>

(* Where recoverPanic finds the panic, and debug.Stack the frames: with a   *)
(* limit TimeoutHandler has recovered it in the goroutine of the handler    *)
(* and raised it again in that of the connection.                           *)
RecoveredIn == IF limited THEN "connection" ELSE "handler"

(* Mutant: 500 is written although the answer has begun. *)
RecoverOverwrites ==
  /\ outer = "serving"
  /\ inner = "panicked"
  /\ stack' = RecoveredIn
  /\ answer' = [status |-> IF answer.status = 0 THEN 500 ELSE answer.status,
                body   |-> answer.body \o <<"panic">>]
  /\ outer' = "log"
  /\ UNCHANGED <<requestVars, handlerVars, clientVars, entry, gaveUp>>

(* A panic comes out of the handler, or out of TimeoutHandler, which then   *)
(* drops the buffer: recoverPanic logs it with the stack it stands on, and  *)
(* answers, if nothing is sent.                                             *)
Recover ==
  /\ outer = "serving"
  /\ inner = "panicked"
  /\ stack' = RecoveredIn
  /\ answer' = IF answer.status # 0 THEN answer
               ELSE [status |-> 500, body |-> <<"panic">>]
  /\ outer' = "log"
  /\ UNCHANGED <<requestVars, handlerVars, clientVars, entry, gaveUp>>

ClientClosed == 499

LevelFor(status, quiet) ==
  CASE status = ClientClosed -> "info"
    [] status # ClientClosed /\ status >= 500 -> "error"
    [] status # ClientClosed /\ status \in 400..499 -> "warn"
    [] status < 400 -> IF quiet THEN "debug" ELSE "info"

(* responseRecorder has the first status that went through it, as net/http  *)
(* sends only the first; where there is none, both take 200.                *)
Recorded == IF answer.status = 0 THEN 200 ELSE answer.status

Logged(status) ==
  entry' = [status |-> status, level |-> LevelFor(status, route \in {"health", "ready"})]

(* Mutant: the context of the client is not looked at. *)
LogRequestAsIs ==
  /\ outer = "log"
  /\ Logged(Recorded)
  /\ answer' = [answer EXCEPT !.status = Recorded]
  /\ outer' = "closed"
  /\ UNCHANGED <<requestVars, handlerVars, clientVars, stack, gaveUp>>

(* Mutant: logRequests is inside of limitDuration, in the handler's goroutine. *)
LogRequestInside ==
  /\ outer = "log"
  /\ inner = "end"
  /\ Logged(IF gone THEN ClientClosed ELSE Recorded)
  /\ answer' = [answer EXCEPT !.status = Recorded]
  /\ outer' = "closed"
  /\ UNCHANGED <<requestVars, handlerVars, clientVars, stack, gaveUp>>

(* Mutant: an answer without a status is logged and sent as 0. *)
LogRequestUnset ==
  /\ outer = "log"
  /\ entry' = [status |-> answer.status, level |-> "info"]
  /\ UNCHANGED answer
  /\ outer' = "closed"
  /\ UNCHANGED <<requestVars, handlerVars, clientVars, stack, gaveUp>>

LogRequest ==
  /\ outer = "log"
  /\ Logged(IF gone THEN ClientClosed ELSE Recorded)
  /\ answer' = [answer EXCEPT !.status = Recorded]
  /\ outer' = "closed"
  /\ UNCHANGED <<requestVars, handlerVars, clientVars, stack, gaveUp>>

HandlerStep == Begin \/ QueryEnds \/ PingEnds \/ WriteHeader \/ WriteBody
ChainStep == HandlerReturns \/ GiveUp \/ Recover \/ LogRequest

Next ==
  \/ HandlerStep \/ QueryAnswers \/ Panic
  \/ ClientLeaves \/ LimitElapses
  \/ ChainStep

Spec == Init /\ [][Next]_vars

(* The goroutines are scheduled and the limit elapses; that the database    *)
(* answers a query is not assumed.                                          *)
FairSpec ==
  /\ Spec
  /\ WF_vars(HandlerStep)
  /\ WF_vars(ChainStep)
  /\ WF_vars(LimitElapses)
=============================================================================
