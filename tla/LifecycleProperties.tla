------------------------- MODULE LifecycleProperties -------------------------
(***************************************************************************)
(* What one process has to satisfy from its start to its exit code: it     *)
(* never runs on settings its parts cannot work with, it reports why it    *)
(* ends, it does not cut requests short unnoticed, and it does end.        *)
(***************************************************************************)
EXTENDS Lifecycle

Larger(a, b) == IF a >= b THEN a ELSE b

(* Every variable has its type; the attempts stay within the configuration  *)
(* and the pause between them under its ceiling, unless the configured one  *)
(* is above it already (pool.go, the comment on maxConnectBackoff).         *)
TypeOK ==
  /\ phase \in {"load", "connect", "pause", "migrate", "warm", "group",
                "serve", "wait", "close", "exited"}
  /\ attempt \in Nat
  /\ attempt > 0 => /\ attempt <= settings.connectAttempts
                    /\ pause \in 0..Larger(settings.connectBackoff, MaxConnectBackoff)
  /\ database \in {"up", "down", "silent"}
  /\ signals \in 0..2
  /\ consumer \in {"off", "running", "hanging", "done"}
  /\ server \in {"off", "running", "shutting", "done"}
  /\ listener \in {"off", "open", "closed"}
  /\ requests \in [Requests -> {"none", "busy", "writing", "late"}]
  /\ groupError \in {"none", "cancelled", "real"} /\ dropped \in BOOLEAN
  /\ clock \in Nat
  /\ outcome \in {"none", "clean", "failed", "timeout", "killed"}
  /\ faults \in 0..MaxFaults

(* A process that gets past its configuration has one its parts can work    *)
(* with: a broker with an address, a cache with room, a warmup that loads   *)
(* something, an attempt to connect, a bounded shutdown (config.go; cache.New *)
(* and kafka.New would refuse or replace other values).                     *)
StartsUsable ==
  attempt > 0 =>
    /\ settings.brokers # {} /\ settings.brokers \cap Blanks = {}
    /\ settings.capacity > 0 /\ settings.warmupLimit > 0
    /\ settings.maxAttempts > 0 /\ settings.connectAttempts > 0
    /\ settings.shutdownTimeout > 0
    /\ settings.minConns <= settings.maxConns

(* If what stopped the service is the failure of a component, the exit code *)
(* says so, whatever signal or cancellation comes after it (main.go, the    *)
(* comment on the reasons in run).                                          *)
FailureIsReported ==
  phase = "exited" /\ groupError = "real" => outcome # "clean"

(* A process that ends cleanly has not cut off a request: all of them were  *)
(* answered, unless a real error came behind a cancellation and was dropped *)
(* by the errgroup (server.go, the doc of Run and the comment on            *)
(* WithoutCancel).                                                          *)
CleanExitDrained ==
  phase = "exited" /\ outcome = "clean" => InFlight = {} \/ dropped

(* main runs out of patience only with the consumer: the HTTP server has    *)
(* come to the end of its own shutdown before, so that "shutdown timed out" *)
(* is never said because of it alone (main.go, the comment on               *)
(* shutdownGrace).                                                          *)
TimeoutMeansStuck ==
  outcome = "timeout" => server = "done"

(* The lives of the components are tied: when one of them returns, for any  *)
(* reason, the process ends (main.go, the comment on the errgroup).         *)
SharedFate ==
  (consumer = "done" \/ server = "done") /\ settings.handlerTimeout > 0
    ~> phase = "exited"

(* A signal ends the process wherever it is, at a pause between attempts,   *)
(* in a migration the database does not answer, or while it serves; so does *)
(* the failure of a component.                                              *)
StopsInTheEnd ==
  phase # "load" /\ Cancelled /\ settings.handlerTimeout > 0 ~> phase = "exited"

(* The start comes to an end by itself, also if the database never comes    *)
(* up; only one that stops answering after it was reached can hold it up.   *)
StartEnds == Starting ~> ~Starting \/ database = "silent"

(* What run() logs when the shutdown times out, "exiting anyway", and what  *)
(* its comment says, that the components are not waited for longer: once    *)
(* run() has its result the process exits.  It does not hold without a      *)
(* handler timeout: pool.Close waits for the connection of a request that   *)
(* the database never answers.                                              *)
ExitsAnyway == phase = "close" ~> phase = "exited"
=============================================================================
