----------------------------- MODULE Lifecycle -----------------------------
(***************************************************************************)
(* One process of orders-service from config.Load to its exit code: run()  *)
(* in main.go, the wait for the database in NewPool, Migrate and Warmup,   *)
(* the errgroup of the Kafka consumer and the HTTP server, and the two     *)
(* deadlines of the shutdown.  What the consumer does with messages is in  *)
(* OrderPipeline; here it runs, returns or hangs.                          *)
(*                                                                         *)
(* Time is counted from the moment the group's context is cancelled, in    *)
(* ticks that are short against ShutdownTimeout: what a goroutine can do   *)
(* at once it does before the next tick.                                   *)
(***************************************************************************)
EXTENDS Settings

CONSTANTS
  Environments,        \* the settings a process may be started with
  ShutdownGrace,       \* shutdownGrace of main.go
  MaxConnectBackoff,   \* maxConnectBackoff of pool.go
  Requests,            \* the HTTP requests that can be in flight at once
  MaxFaults            \* bound of the model: failures of the environment

ASSUME EnvironmentsAssumption == Environments \subseteq Config
ASSUME GraceAssumption == ShutdownGrace \in Nat \ {0}
ASSUME BackoffAssumption == MaxConnectBackoff \in Nat
ASSUME FaultsAssumption == MaxFaults \in Nat

VARIABLES
  settings,    \* the configuration, canonical once it is loaded
  phase,       \* where run() is
  attempt,     \* the connection attempt NewPool is at
  pause,       \* the pause before the next one
  database,    \* up, down (refuses), or silent (does not answer)
  signals,     \* SIGINT and SIGTERM received
  consumer,    \* its goroutine: off, running, hanging, done
  server,      \* that of Server.Run: off, running, shutting, done
  listener,    \* ListenAndServe: off, open, closed
  requests,    \* requests[r]: none, busy, writing, or late (answered, at work)
  groupError,  \* the first error of the errgroup: none, cancelled, real
  dropped,     \* history: a later error that nobody gets to see
  clock,       \* ticks since the group's context was cancelled
  outcome,     \* how the process ends: none, clean, failed, timeout, killed
  faults       \* faults injected so far

startVars == <<settings, attempt, pause>>
groupVars == <<consumer, server, listener, groupError, dropped>>
vars == <<startVars, groupVars, phase, database, signals, requests, clock,
          outcome, faults>>

Smaller(a, b) == IF a <= b THEN a ELSE b
Fault == faults < MaxFaults /\ faults' = faults + 1

Starting == phase \in {"connect", "pause", "migrate", "warm"}
Alive == phase \notin {"load", "exited"}
Cancelled == signals > 0 \/ groupError # "none"
InFlight == {r \in Requests : requests[r] \in {"busy", "writing"}}

Init ==
  /\ settings \in Environments
  /\ phase = "load"
  /\ attempt = 0 /\ pause = 0
  /\ database \in {"up", "down"}
  /\ signals = 0
  /\ consumer = "off" /\ server = "off" /\ listener = "off"
  /\ requests = [r \in Requests |-> "none"]
  /\ groupError = "none" /\ dropped = FALSE
  /\ clock = 0
  /\ outcome = "none"
  /\ faults = 0

-----------------------------------------------------------------------------
(* The start: Load, NewPool, Migrate, Warmup. *)

(* run() has its result; the deferred pool.Close comes before the exit. *)
Returns(o) == phase' = "close" /\ outcome' = o

Load ==
  /\ phase = "load"
  /\ settings' = Normalized(settings)
  /\ IF Parsed(settings) /\ Accepted(Normalized(settings))
       THEN /\ phase' = "connect" /\ attempt' = 1
            /\ pause' = settings.connectBackoff
            /\ UNCHANGED outcome
       ELSE /\ phase' = "exited" /\ outcome' = "failed"
            /\ UNCHANGED <<attempt, pause>>
  /\ UNCHANGED <<groupVars, database, signals, requests, clock, faults>>

PingSucceeds ==
  /\ phase = "connect"
  /\ database = "up" /\ signals = 0
  /\ phase' = "migrate"
  /\ UNCHANGED <<startVars, groupVars, database, signals, requests, clock, outcome, faults>>

(* Refused, unanswered for ConnectTimeout, or cancelled. *)
PingFails ==
  /\ phase = "connect"
  /\ database # "up" \/ signals > 0
  /\ IF attempt = settings.connectAttempts
       THEN Returns("failed")
       ELSE phase' = "pause" /\ UNCHANGED outcome
  /\ UNCHANGED <<startVars, groupVars, database, signals, requests, clock, faults>>

(* Mutant: the attempt is not counted. *)
PauseElapsesUncounted ==
  /\ phase = "pause"
  /\ phase' = "connect"
  /\ pause' = Smaller(2 * pause, MaxConnectBackoff)
  /\ UNCHANGED <<settings, attempt, groupVars, database, signals, requests, clock, outcome, faults>>

(* Mutant: the pause is doubled without a ceiling. *)
PauseElapsesDoubled ==
  /\ phase = "pause"
  /\ phase' = "connect"
  /\ attempt' = attempt + 1
  /\ pause' = 2 * pause
  /\ UNCHANGED <<settings, groupVars, database, signals, requests, clock, outcome, faults>>

PauseElapses ==
  /\ phase = "pause"
  /\ phase' = "connect"
  /\ attempt' = attempt + 1
  /\ pause' = Smaller(2 * pause, MaxConnectBackoff)
  /\ UNCHANGED <<settings, groupVars, database, signals, requests, clock, outcome, faults>>

PauseCancelled ==
  /\ phase = "pause"
  /\ signals > 0
  /\ Returns("failed")
  /\ UNCHANGED <<startVars, groupVars, database, signals, requests, clock, faults>>

(* Migrate and the query of Warmup have no deadline of their own. *)
QuerySucceeds ==
  /\ phase \in {"migrate", "warm"}
  /\ database = "up"
  /\ phase' = IF phase = "migrate" THEN "warm" ELSE "group"
  /\ UNCHANGED <<startVars, groupVars, database, signals, requests, clock, outcome, faults>>

(* Mutant: the queries of the start get a context that no signal cancels. *)
QueryFailsUncancelled ==
  /\ phase \in {"migrate", "warm"}
  /\ database = "down"
  /\ Returns("failed")
  /\ UNCHANGED <<startVars, groupVars, database, signals, requests, clock, faults>>

QueryFails ==
  /\ phase \in {"migrate", "warm"}
  /\ database = "down" \/ signals > 0
  /\ Returns("failed")
  /\ UNCHANGED <<startVars, groupVars, database, signals, requests, clock, faults>>

(* Both goroutines are started, that of ListenAndServe a little later. *)
StartGroup ==
  /\ phase = "group"
  /\ phase' = "serve"
  /\ consumer' = "running" /\ server' = "running"
  /\ UNCHANGED <<startVars, listener, groupError, dropped, database, signals, requests,
                 clock, outcome, faults>>

-----------------------------------------------------------------------------
(* The errgroup: the first error that a member returns is kept, and it      *)
(* cancels the context of the others.                                       *)
GroupReturn(e) ==
  /\ groupError' = IF groupError = "none" THEN e ELSE groupError
  /\ dropped' = (dropped \/ (groupError # "none" /\ e = "real"))

(* Mutant: an error of FetchMessage is taken for the end of the topic. *)
ConsumerFailsQuietly ==
  /\ consumer = "running"
  /\ ~Cancelled /\ Fault
  /\ consumer' = "done"
  /\ UNCHANGED <<startVars, phase, server, listener, groupError, dropped, database,
                 signals, requests, clock, outcome>>

(* The consumer fails by itself: no broker, or a message after its last     *)
(* attempt.                                                                 *)
ConsumerFails ==
  /\ consumer = "running"
  /\ ~Cancelled /\ Fault
  /\ consumer' = "done"
  /\ GroupReturn("real")
  /\ UNCHANGED <<startVars, phase, server, listener, database, signals,
                 requests, clock, outcome>>

(* After the cancellation: FetchMessage and CommitMessages end it with nil, *)
(* a save under way with the error it got, mostly context.Canceled.         *)
ConsumerStops ==
  /\ consumer = "running"
  /\ Cancelled
  /\ consumer' = "done"
  /\ \E e \in {"none", "cancelled", "real"} : GroupReturn(e)
  /\ UNCHANGED <<startVars, phase, server, listener, database, signals,
                 requests, clock, outcome, faults>>

(* Closing the reader waits for a broker that does not answer. *)
ConsumerHangs ==
  /\ consumer = "running"
  /\ Cancelled /\ Fault
  /\ consumer' = "hanging"
  /\ UNCHANGED <<startVars, phase, server, listener, groupError, dropped, database,
                 signals, requests, clock, outcome>>

-----------------------------------------------------------------------------
(* Server.Run. *)

(* Shutdown before ListenAndServe keeps it from opening the port. *)
ListenerOpens ==
  /\ listener = "off" /\ server \in {"running", "shutting"}
  /\ listener' = IF server = "running" THEN "open" ELSE "closed"
  /\ UNCHANGED <<startVars, phase, consumer, server, groupError, dropped, database,
                 signals, requests, clock, outcome, faults>>

(* The port is taken, or accepting fails.  If the context is done as well   *)
(* the select of Run may take that, and the error is read behind Shutdown   *)
(* and thrown away.                                                         *)
ListenerFails ==
  /\ listener \in {"off", "open"} /\ server = "running"
  /\ Fault
  /\ listener' = "closed"
  /\ \/ server' = "done" /\ GroupReturn("real")
     \/ Cancelled /\ server' = "shutting" /\ UNCHANGED <<groupError, dropped>>
  /\ UNCHANGED <<startVars, phase, consumer, database, signals, requests,
                 clock, outcome>>

(* The context is cancelled: Shutdown closes the listener. *)
ShutdownBegins ==
  /\ server = "running"
  /\ Cancelled
  /\ server' = "shutting"
  /\ listener' = IF listener = "open" THEN "closed" ELSE listener
  /\ UNCHANGED <<startVars, phase, consumer, groupError, dropped, database, signals,
                 requests, clock, outcome, faults>>

(* No request is in flight any more, and ListenAndServe has returned. *)
ShutdownCompletes ==
  /\ server = "shutting"
  /\ InFlight = {} /\ listener = "closed"
  /\ server' = "done"
  /\ GroupReturn("none")
  /\ UNCHANGED <<startVars, phase, consumer, listener, database, signals,
                 requests, clock, outcome, faults>>

(* Mutant: Shutdown gets the cancelled context instead of one WithoutCancel. *)
ShutdownAtOnce ==
  /\ server = "shutting"
  /\ InFlight # {}
  /\ server' = "done"
  /\ GroupReturn("cancelled")
  /\ UNCHANGED <<startVars, phase, consumer, listener, database, signals,
                 requests, clock, outcome, faults>>

ShutdownExpires ==
  /\ server = "shutting"
  /\ InFlight # {}
  /\ clock >= settings.shutdownTimeout
  /\ server' = "done"
  /\ GroupReturn("real")
  /\ UNCHANGED <<startVars, phase, consumer, listener, database, signals,
                 requests, clock, outcome, faults>>

-----------------------------------------------------------------------------
(* Requests: a busy one has a connection of the pool, or waits for one. *)

Arrive(r) ==
  /\ listener = "open" /\ requests[r] = "none"
  /\ requests' = [requests EXCEPT ![r] = "busy"]
  /\ UNCHANGED <<startVars, groupVars, phase, database, signals, clock, outcome, faults>>

(* The handler is through and its connection back in the pool; the client  *)
(* may be slow to take the answer.                                          *)
Answer(r) ==
  /\ Alive /\ requests[r] = "busy"
  /\ database # "silent"
  /\ requests' = [requests EXCEPT ![r] = "writing"]
  /\ UNCHANGED <<startVars, groupVars, phase, database, signals, clock, outcome, faults>>

Delivered(r) ==
  /\ Alive /\ requests[r] = "writing"
  /\ requests' = [requests EXCEPT ![r] = "none"]
  /\ UNCHANGED <<startVars, groupVars, phase, database, signals, clock, outcome, faults>>

(* TimeoutHandler answers 503 and cancels the context of the handler. *)
TimeOut(r) ==
  /\ Alive /\ requests[r] = "busy"
  /\ settings.handlerTimeout > 0
  /\ requests' = [requests EXCEPT ![r] = "late"]
  /\ UNCHANGED <<startVars, groupVars, phase, database, signals, clock, outcome, faults>>

Release(r) ==
  /\ Alive /\ requests[r] = "late"
  /\ requests' = [requests EXCEPT ![r] = "none"]
  /\ UNCHANGED <<startVars, groupVars, phase, database, signals, clock, outcome, faults>>

-----------------------------------------------------------------------------
(* The stop: the end of run(). *)

GroupDone == consumer = "done" /\ server = "done"

(* <-groupCtx.Done(), then stop(): from now on a signal kills. *)
BeginWait ==
  /\ phase = "serve"
  /\ Cancelled
  /\ phase' = "wait"
  /\ UNCHANGED <<startVars, groupVars, database, signals, requests, clock, outcome, faults>>

(* Mutant: after a signal every end is a clean one. *)
GroupReturnedAfterSignal ==
  /\ phase = "wait"
  /\ GroupDone
  /\ Returns(IF groupError = "real" /\ signals = 0 THEN "failed" ELSE "clean")
  /\ UNCHANGED <<startVars, groupVars, database, signals, requests, clock, faults>>

GroupReturned ==
  /\ phase = "wait"
  /\ GroupDone
  /\ Returns(IF groupError = "real" THEN "failed" ELSE "clean")
  /\ UNCHANGED <<startVars, groupVars, database, signals, requests, clock, faults>>

(* Mutant: main waits exactly as long as the server. *)
NoGraceDeadline == settings.shutdownTimeout

MainDeadline == settings.shutdownTimeout + ShutdownGrace

WaitExpires ==
  /\ phase = "wait"
  /\ clock = MainDeadline
  /\ Returns("timeout")
  /\ UNCHANGED <<startVars, groupVars, database, signals, requests, clock, faults>>

(* pool.Close waits for every connection that is in use. *)
PoolCloses ==
  /\ phase = "close"
  /\ \A r \in Requests : requests[r] \notin {"busy", "late"}
  /\ consumer # "running"
  /\ phase' = "exited"
  /\ UNCHANGED <<startVars, groupVars, database, signals, requests, clock, outcome, faults>>

(* stop() has given signals back to the system: BeginWait does so.  After a *)
(* start that failed the deferred one comes behind pool.Close.              *)
Released == phase = "wait" \/ (phase = "close" /\ consumer # "off")

(* The first signal cancels the context; until stop() more of them do       *)
(* nothing, afterwards the next one kills the process.                      *)
Signal ==
  /\ Alive
  /\ signals < 2
  /\ signals' = signals + 1
  /\ IF Released
       THEN phase' = "exited" /\ outcome' = "killed"
       ELSE UNCHANGED <<phase, outcome>>
  /\ UNCHANGED <<startVars, groupVars, database, requests, clock, faults>>

DatabaseChanges ==
  /\ Alive /\ Fault
  /\ database' \in {"up", "down", "silent"} \ {database}
  /\ UNCHANGED <<startVars, groupVars, phase, signals, requests, clock, outcome>>

(* What a goroutine does as soon as it can. *)
Prompt ==
  \/ phase = "serve" /\ Cancelled
  \/ phase = "wait" /\ GroupDone
  \/ server = "running"
  \/ server = "shutting" /\ (InFlight = {} \/ clock >= settings.shutdownTimeout)

Tick ==
  /\ phase = "wait"
  /\ ~Prompt
  /\ clock < MainDeadline
  /\ clock' = clock + 1
  /\ UNCHANGED <<startVars, groupVars, phase, database, signals, requests, outcome, faults>>

StartStep ==
  \/ Load
  \/ PingSucceeds \/ PingFails \/ PauseElapses \/ PauseCancelled
  \/ QuerySucceeds \/ QueryFails
  \/ StartGroup

ServerStep == ListenerOpens \/ ShutdownBegins \/ ShutdownCompletes \/ ShutdownExpires

StopStep == BeginWait \/ GroupReturned \/ WaitExpires \/ PoolCloses

Environment ==
  \/ ConsumerFails \/ ConsumerHangs \/ ListenerFails
  \/ Signal \/ DatabaseChanges
  \/ \E r \in Requests : Arrive(r)

Next ==
  \/ StartStep \/ ServerStep \/ ConsumerStops \/ StopStep
  \/ \E r \in Requests : Answer(r) \/ Delivered(r) \/ TimeOut(r) \/ Release(r)
  \/ Tick
  \/ Environment

Spec == Init /\ [][Next]_vars

(* Goroutines are scheduled, time passes, a database that answers does so,  *)
(* the handler timeout of a request elapses.                                *)
FairSpec ==
  /\ Spec
  /\ WF_vars(StartStep)
  /\ WF_vars(ServerStep)
  /\ WF_vars(ConsumerStops)
  /\ WF_vars(StopStep)
  /\ WF_vars(Tick)
  /\ \A r \in Requests : WF_vars(Answer(r) \/ TimeOut(r) \/ Release(r))
=============================================================================
