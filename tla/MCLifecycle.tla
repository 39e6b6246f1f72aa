---------------------------- MODULE MCLifecycle ----------------------------
(* Values for LifecycleProperties: settings that differ from a usable base  *)
(* in one field each; those that are refused end at once.                   *)
EXTENDS LifecycleProperties

MCBlanks == {"", " "}
MCLogLevels == {"info"}
MCLogFormats == {"json", "text"}

Base ==
  [shutdownTimeout |-> 2, readHeaderTimeout |-> 1, readTimeout |-> 1,
   writeTimeout |-> 0, idleTimeout |-> 1, handlerTimeout |-> 1,
   port |-> 5432, maxConns |-> 2, minConns |-> 1,
   connectAttempts |-> 3, connectTimeout |-> 1, connectBackoff |-> 1,
   maxAttempts |-> 1, capacity |-> 2, warmupLimit |-> 1,
   credentials |-> TRUE, logLevel |-> "info", logFormat |-> "json",
   brokers |-> {"kafka"}, addr |-> ":8081", topic |-> "orders", groupID |-> "g"]

Quick == [Base EXCEPT !.connectAttempts = 1]

Usable ==
  {Base, [Quick EXCEPT !.handlerTimeout = 0], [Base EXCEPT !.connectBackoff = 3],
   [Quick EXCEPT !.brokers = {"kafka", " "}, !.warmupLimit = 0]}

Unusable ==
  {[Quick EXCEPT ![f] = Least[f] - 1] : f \in DOMAIN Least}
    \cup {[Quick EXCEPT ![f] = " "] : f \in {"addr", "topic", "groupID", "logLevel", "logFormat"}}
    \cup {[Quick EXCEPT !.port = 65536], [Quick EXCEPT !.minConns = 3],
          [Quick EXCEPT !.brokers = {"", " "}], [Quick EXCEPT !.credentials = FALSE],
          [Quick EXCEPT !.capacity = 0, !.warmupLimit = 0]}

MCEnvironments == Usable \cup Unusable
MCNoHandlerTimeout == {[Quick EXCEPT !.handlerTimeout = 0]}
=============================================================================
