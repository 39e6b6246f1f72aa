------------------------------ MODULE Settings ------------------------------
(***************************************************************************)
(* config.Load: the settings from the environment are brought to a         *)
(* canonical form and then accepted or refused.  Numbers and durations are *)
(* integers; a name is a string of which only matters whether it is blank. *)
(***************************************************************************)
EXTENDS Integers, FiniteSets

CONSTANTS
  Blanks,       \* the names that consist of spaces only, or of nothing
  LogLevels,    \* what slog can parse as a level
  LogFormats    \* json and text, in any case

Config ==
  [shutdownTimeout : Int, readHeaderTimeout : Int, readTimeout : Int,
   writeTimeout : Int, idleTimeout : Int, handlerTimeout : Int,
   port : Int, maxConns : Int, minConns : Int,
   connectAttempts : Int, connectTimeout : Int, connectBackoff : Int,
   maxAttempts : Int, capacity : Int, warmupLimit : Int,
   credentials : BOOLEAN, logLevel : STRING, logFormat : STRING,
   brokers : SUBSET STRING, addr : STRING, topic : STRING, groupID : STRING]

(* The least value each number may have; for the timeouts of the HTTP       *)
(* server 0 means no limit, except that of the headers.                     *)
Least ==
  [shutdownTimeout |-> 1, readHeaderTimeout |-> 1, readTimeout |-> 0,
   writeTimeout |-> 0, idleTimeout |-> 0, handlerTimeout |-> 0,
   port |-> 1, maxConns |-> 1, minConns |-> 0,
   connectAttempts |-> 1, connectTimeout |-> 1, connectBackoff |-> 0,
   maxAttempts |-> 1, capacity |-> 1, warmupLimit |-> 0]

MaxPort == 65535

(* Mutant: blank broker addresses stay in the list. *)
NormalizedNoCleaning(c) ==
  [c EXCEPT !.warmupLimit = IF @ = 0 THEN c.capacity ELSE @]

(* A warmup limit of 0 stands for the capacity of the cache. *)
Normalized(c) ==
  [c EXCEPT !.brokers = @ \ Blanks,
            !.warmupLimit = IF @ = 0 THEN c.capacity ELSE @]

(* The user, the password and the database name have no default. *)
Parsed(c) == c.credentials

Accepted(c) ==
  /\ c.logLevel \in LogLevels
  /\ c.logFormat \in LogFormats
  /\ \A f \in DOMAIN Least : c[f] >= Least[f]
  /\ c.port <= MaxPort
  /\ c.minConns <= c.maxConns
  /\ c.brokers # {}
  /\ {c.addr, c.topic, c.groupID} \cap Blanks = {}
=============================================================================
