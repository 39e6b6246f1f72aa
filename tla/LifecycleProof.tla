--------------------------- MODULE LifecycleProof ---------------------------
(***************************************************************************)
(* Proofs about Lifecycle.  The invariant says what settings a process can *)
(* have got past its configuration with, how far the members of the group  *)
(* and the listener can be at each phase, and what is known when the       *)
(* server is done, when the clock has passed its deadline, and when run()  *)
(* has its result.                                                         *)
(***************************************************************************)
EXTENDS LifecycleProperties, TLAPS

(* Before the settings are accepted nothing has happened. *)
Loading ==
  /\ settings \in Config
  /\ phase = "load" => /\ attempt = 0
                       /\ consumer = "off" /\ server = "off" /\ listener = "off"
                       /\ groupError = "none"
  /\ attempt = 0 => phase \in {"load", "exited"}
  /\ phase = "pause" => attempt < settings.connectAttempts

(* How far the group is. *)
Grouped ==
  /\ phase \in {"serve", "wait"} => server # "off" /\ consumer # "off"
  /\ server = "off" => listener = "off"
  /\ server = "shutting" => listener # "open"
  /\ server = "done" => listener = "closed"
  /\ listener = "off" => InFlight = {}

(* A server that is done has no request in flight, or an error is known. *)
ServerDone == server = "done" => InFlight = {} \/ groupError = "real" \/ dropped

(* Past its own deadline the server is done. *)
Timely ==
  /\ phase # "wait" => clock = 0 \/ phase \in {"close", "exited"}
  /\ phase = "wait" /\ clock > settings.shutdownTimeout => server = "done"

Ended ==
  /\ outcome # "none" <=> phase \in {"close", "exited"}
  /\ outcome = "clean" => consumer = "done" /\ server = "done" /\ groupError # "real"

IInv ==
  /\ TypeOK /\ StartsUsable
  /\ Loading /\ Grouped /\ ServerDone /\ Timely /\ Ended
  /\ TimeoutMeansStuck

(* What Load makes of the settings. *)
LEMMA NormalizedFields ==
  ASSUME NEW c \in Config
  PROVE  /\ Normalized(c) \in Config
         /\ Normalized(c).brokers = c.brokers \ Blanks
         /\ Normalized(c).capacity = c.capacity
         /\ c.warmupLimit # 0 => Normalized(c).warmupLimit = c.warmupLimit
         /\ c.warmupLimit = 0 => Normalized(c).warmupLimit = c.capacity
         /\ Normalized(c).connectAttempts = c.connectAttempts
         /\ Normalized(c).connectBackoff = c.connectBackoff
BY DEF Config, Normalized

(* The fields of Accepted that the process relies on. *)
LEMMA AcceptedFields ==
  ASSUME NEW c \in Config, Accepted(c)
  PROVE  /\ c.shutdownTimeout >= 1 /\ c.connectAttempts >= 1 /\ c.connectBackoff >= 0
         /\ c.maxAttempts >= 1 /\ c.capacity >= 1 /\ c.warmupLimit >= 0
         /\ c.minConns <= c.maxConns
         /\ c.brokers # {}
<1>1. \A f \in {"shutdownTimeout", "connectAttempts", "connectBackoff", "maxAttempts",
               "capacity", "warmupLimit"} :
        f \in DOMAIN Least /\ c[f] >= Least[f]
  BY DEF Accepted, Least
<1>2. /\ Least["shutdownTimeout"] = 1 /\ Least["connectAttempts"] = 1
      /\ Least["connectBackoff"] = 0 /\ Least["maxAttempts"] = 1
      /\ Least["capacity"] = 1 /\ Least["warmupLimit"] = 0
  BY DEF Least
<1> QED BY <1>1, <1>2 DEF Accepted

LEMMA InitIInv == Init => IInv
<1> SUFFICES ASSUME Init PROVE IInv
  OBVIOUS
<1> USE DEF Init
<1>1. TypeOK /\ StartsUsable
  <2>1. attempt = 0 /\ ~(attempt > 0) /\ clock = 0 /\ faults \in 0..MaxFaults /\ signals \in 0..2
    BY FaultsAssumption
  <2>2. requests \in [Requests -> {"none", "busy", "writing", "late"}]
    OBVIOUS
  <2>3. dropped \in BOOLEAN
    OBVIOUS
  <2>4. database \in {"up", "down", "silent"}
    OBVIOUS
  <2>5. StartsUsable
    BY <2>1 DEF StartsUsable
  <2> HIDE DEF Init
  <2>6. /\ phase = "load" /\ outcome = "none" /\ groupError = "none"
        /\ consumer = "off" /\ server = "off" /\ listener = "off"
    BY DEF Init
  <2> QED BY <2>1, <2>2, <2>3, <2>4, <2>5, <2>6 DEF TypeOK
<1>2. Loading
  BY EnvironmentsAssumption DEF Loading
<1>3. Grouped /\ ServerDone /\ Timely /\ Ended /\ TimeoutMeansStuck
  BY DEF Grouped, ServerDone, Timely, Ended, TimeoutMeansStuck, InFlight
<1> QED BY <1>1, <1>2, <1>3 DEF IInv

LEMMA LoadStep == ASSUME IInv, Load PROVE IInv'
<1> USE DEF Load, groupVars
<1>1. settings \in Config
  BY DEF IInv, Loading
<1>2. settings' = Normalized(settings) /\ settings' \in Config
  BY <1>1, NormalizedFields
<1>3. /\ phase = "load" /\ attempt = 0 /\ outcome = "none" /\ clock = 0
      /\ server = "off" /\ consumer = "off" /\ listener = "off" /\ groupError = "none"
  BY DEF IInv, Loading, Timely, Ended
<1>4. CASE Parsed(settings) /\ Accepted(settings')
  <2>1. attempt' = 1 /\ phase' = "connect" /\ pause' = settings'.connectBackoff /\ outcome' = "none"
    BY <1>1, <1>2, <1>3, <1>4, NormalizedFields
  <2>2. /\ settings'.connectAttempts >= 1 /\ settings'.connectBackoff >= 0
        /\ settings'.connectAttempts \in Int /\ settings'.connectBackoff \in Int
    BY <1>2, <1>4, AcceptedFields DEF Config
  <2>3. StartsUsable'
    <3>1. settings'.brokers # {} /\ settings'.brokers \cap Blanks = {}
      BY <1>1, <1>2, <1>4, AcceptedFields, NormalizedFields
    <3>2. settings'.capacity \in Int /\ settings'.warmupLimit \in Int
          /\ settings'.maxAttempts \in Int /\ settings'.shutdownTimeout \in Int
      BY <1>2 DEF Config
    <3>3. settings'.capacity > 0 /\ settings'.warmupLimit > 0
      BY <1>1, <1>2, <1>4, <3>2, AcceptedFields, NormalizedFields
    <3> QED BY <1>2, <1>4, <2>2, <3>1, <3>2, <3>3, AcceptedFields DEF StartsUsable
  <2>4. TypeOK'
    BY <2>1, <2>2, BackoffAssumption DEF IInv, TypeOK, Larger
  <2>5. (Loading /\ Grouped /\ ServerDone /\ Timely /\ Ended /\ TimeoutMeansStuck)'
    BY <1>2, <1>3, <2>1 DEF IInv, Loading, Grouped, ServerDone, Timely, Ended,
       TimeoutMeansStuck, InFlight
  <2> QED BY <2>3, <2>4, <2>5 DEF IInv
<1>5. CASE ~(Parsed(settings) /\ Accepted(settings'))
  <2>1. attempt' = 0 /\ phase' = "exited" /\ outcome' = "failed" /\ pause' = pause
    BY <1>2, <1>3, <1>5
  <2>2. TypeOK' /\ StartsUsable'
    BY <2>1 DEF IInv, TypeOK, StartsUsable
  <2>3. (Loading /\ Grouped /\ ServerDone /\ Timely /\ Ended /\ TimeoutMeansStuck)'
    BY <1>2, <1>3, <2>1 DEF IInv, Loading, Grouped, ServerDone, Timely, Ended,
       TimeoutMeansStuck, InFlight
  <2> QED BY <2>2, <2>3 DEF IInv
<1> QED BY <1>2, <1>4, <1>5

(* Past the load the settings stay, and have what an accepted one has. *)
LEMMA Bounds ==
  ASSUME IInv, attempt > 0
  PROVE  /\ settings.connectAttempts \in Int /\ attempt \in Nat
         /\ attempt <= settings.connectAttempts
         /\ settings.connectBackoff \in Int /\ settings.shutdownTimeout \in Int
         /\ settings.shutdownTimeout > 0
         /\ pause \in 0..Larger(settings.connectBackoff, MaxConnectBackoff)
BY DEF IInv, TypeOK, Loading, StartsUsable, Config

LEMMA StartStepIInv ==
  ASSUME IInv, StartStep, ~Load
  PROVE  IInv'
<1> USE DEF startVars, groupVars
<1>1. /\ phase \in {"connect", "pause", "migrate", "warm", "group"}
      /\ UNCHANGED <<settings, listener, groupError, dropped, database, signals, requests,
                     clock, faults>>
      /\ settings \in Config
  BY DEF IInv, Loading, StartStep, PingSucceeds, PingFails, PauseElapses, PauseCancelled,
     QuerySucceeds, QueryFails, StartGroup, Returns
<1>2. attempt > 0 /\ attempt' > 0 /\ attempt' <= settings.connectAttempts /\ attempt' \in Nat
      /\ (phase' = "pause" => attempt' < settings.connectAttempts)
  <2>1. attempt > 0
    BY <1>1 DEF IInv, TypeOK, Loading
  <2>2. CASE PauseElapses
    BY <1>1, <2>1, <2>2, Bounds DEF PauseElapses, IInv, Loading
  <2>3. CASE PingFails
    BY <1>1, <2>1, <2>3, Bounds DEF PingFails, Returns
  <2>4. CASE ~PauseElapses /\ ~PingFails
    BY <1>1, <2>1, <2>4, Bounds DEF StartStep, PingSucceeds, PauseCancelled,
       QuerySucceeds, QueryFails, StartGroup, Returns
  <2> QED BY <2>2, <2>3, <2>4
<1>3. pause' \in 0..Larger(settings.connectBackoff, MaxConnectBackoff)
  <2>1. CASE PauseElapses
    BY <1>2, <2>1, Bounds, BackoffAssumption DEF PauseElapses, Smaller, Larger
  <2>2. CASE ~PauseElapses
    BY <1>2, <2>2, Bounds DEF StartStep, PingSucceeds, PingFails, PauseCancelled,
       QuerySucceeds, QueryFails, StartGroup, Returns
  <2> QED BY <2>1, <2>2
<1>4. \/ UNCHANGED <<consumer, server, outcome>> /\ phase' \in {"connect", "pause", "migrate", "warm", "group"}
      \/ UNCHANGED <<consumer, server>> /\ phase' = "close" /\ outcome' = "failed"
      \/ phase = "group" /\ phase' = "serve" /\ consumer' = "running" /\ server' = "running" /\ UNCHANGED outcome
  BY DEF StartStep, PingSucceeds, PingFails, PauseElapses, PauseCancelled,
     QuerySucceeds, QueryFails, StartGroup, Returns
<1>5. outcome = "none" /\ clock = 0
  BY <1>1 DEF IInv, Timely, Ended
<1>6. TypeOK'
  BY <1>1, <1>2, <1>3, <1>4 DEF IInv, TypeOK
<1>7. StartsUsable' /\ Loading'
  BY <1>1, <1>2, <1>4 DEF IInv, StartsUsable, Loading
<1>8. Grouped'
  BY <1>1, <1>4, <1>5 DEF IInv, Grouped, InFlight
<1>9. (ServerDone /\ Timely /\ Ended /\ TimeoutMeansStuck)'
  BY <1>1, <1>4, <1>5 DEF IInv, ServerDone, Timely, Ended, TimeoutMeansStuck, InFlight
<1> QED BY <1>6, <1>7, <1>8, <1>9 DEF IInv

LEMMA ConsumerStep ==
  ASSUME IInv, ConsumerFails \/ ConsumerStops \/ ConsumerHangs
  PROVE  IInv'
<1> USE DEF startVars
<1>1. /\ UNCHANGED <<startVars, phase, server, listener, database, signals, requests,
                     clock, outcome>>
      /\ consumer = "running" /\ consumer' \in {"done", "hanging"}
      /\ (faults' = faults \/ Fault)
  BY DEF ConsumerFails, ConsumerStops, ConsumerHangs
<1>2. /\ groupError' \in {"none", "cancelled", "real"} /\ dropped' \in BOOLEAN
      /\ groupError = "real" => groupError' = "real"
      /\ dropped => dropped'
  BY DEF IInv, TypeOK, ConsumerFails, ConsumerStops, ConsumerHangs, GroupReturn
<1>3. TypeOK'
  BY <1>1, <1>2, FaultsAssumption DEF IInv, TypeOK, Fault
<1>4. (StartsUsable /\ Loading /\ Grouped /\ TimeoutMeansStuck)'
  BY <1>1 DEF IInv, StartsUsable, Loading, Grouped, TimeoutMeansStuck, InFlight
<1>5. (ServerDone /\ Timely /\ Ended)'
  BY <1>1, <1>2 DEF IInv, ServerDone, Timely, Ended, InFlight
<1> QED BY <1>3, <1>4, <1>5 DEF IInv

LEMMA ServerStepIInv ==
  ASSUME IInv, ServerStep \/ ListenerFails
  PROVE  IInv'
<1> USE DEF startVars
<1>1. /\ UNCHANGED <<startVars, phase, consumer, database, signals, requests, clock, outcome>>
      /\ server \in {"running", "shutting"}
      /\ server' \in {"running", "shutting", "done"} /\ listener' \in {"off", "open", "closed"}
      /\ (faults' = faults \/ Fault)
  BY DEF IInv, TypeOK, ServerStep, ListenerOpens, ListenerFails, ShutdownBegins,
     ShutdownCompletes, ShutdownExpires
<1>2. /\ groupError' \in {"none", "cancelled", "real"} /\ dropped' \in BOOLEAN
      /\ groupError = "real" => groupError' = "real"
      /\ dropped => dropped'
  BY DEF IInv, TypeOK, ServerStep, ListenerOpens, ListenerFails, ShutdownBegins,
     ShutdownCompletes, ShutdownExpires, GroupReturn
<1>3. TypeOK'
  BY <1>1, <1>2, FaultsAssumption DEF IInv, TypeOK, Fault
<1>4. Grouped' /\ ServerDone'
  <2>1. /\ server' = "shutting" => listener' # "open"
        /\ server' = "done" => listener' = "closed"
        /\ listener' = "off" => listener = "off"
    BY <1>1 DEF IInv, TypeOK, Grouped, ServerStep, ListenerOpens, ListenerFails, ShutdownBegins,
       ShutdownCompletes, ShutdownExpires
  <2>2. server' = "done" => InFlight = {} \/ groupError' = "real" \/ dropped'
    BY DEF IInv, TypeOK, ServerStep, ListenerOpens, ListenerFails, ShutdownBegins,
       ShutdownCompletes, ShutdownExpires, GroupReturn
  <2> QED BY <1>1, <2>1, <2>2 DEF IInv, Grouped, ServerDone, InFlight
<1>5. (StartsUsable /\ Loading)'
  BY <1>1 DEF IInv, StartsUsable, Loading
<1>6. (Timely /\ Ended /\ TimeoutMeansStuck)'
  BY <1>1 DEF IInv, Timely, Ended, TimeoutMeansStuck
<1> QED BY <1>3, <1>4, <1>5, <1>6 DEF IInv

LEMMA RequestStep ==
  ASSUME IInv, NEW r \in Requests,
         Arrive(r) \/ Answer(r) \/ Delivered(r) \/ TimeOut(r) \/ Release(r)
  PROVE  IInv'
<1> USE DEF startVars, groupVars
<1>1. /\ UNCHANGED <<startVars, groupVars, phase, database, signals, clock, outcome, faults>>
      /\ \E s \in {"none", "busy", "writing", "late"} :
           /\ requests' = [requests EXCEPT ![r] = s]
           /\ listener = "open" \/ r \in InFlight \/ s \notin {"busy", "writing"}
  BY DEF Arrive, Answer, Delivered, TimeOut, Release, InFlight
<1>2. TypeOK'
  BY <1>1 DEF IInv, TypeOK
<1>3. listener = "open" \/ InFlight' \subseteq InFlight
  BY <1>1 DEF IInv, TypeOK, InFlight
<1>4. (StartsUsable /\ Loading)'
  BY <1>1 DEF IInv, StartsUsable, Loading
<1>5. (Grouped /\ ServerDone)'
  BY <1>1, <1>3 DEF IInv, Grouped, ServerDone
<1>6. (Timely /\ Ended /\ TimeoutMeansStuck)'
  BY <1>1 DEF IInv, Timely, Ended, TimeoutMeansStuck
<1> QED BY <1>2, <1>4, <1>5, <1>6 DEF IInv

LEMMA WaitStep ==
  ASSUME IInv, BeginWait \/ GroupReturned \/ WaitExpires \/ PoolCloses
  PROVE  IInv'
<1> USE DEF startVars, groupVars
<1>1. /\ UNCHANGED <<startVars, groupVars, database, signals, requests, clock, faults>>
      /\ \/ phase = "serve" /\ phase' = "wait" /\ UNCHANGED outcome
         \/ phase = "wait" /\ phase' = "close" /\ outcome' \in {"clean", "failed", "timeout"}
         \/ phase = "close" /\ phase' = "exited" /\ UNCHANGED outcome
  BY DEF BeginWait, GroupReturned, WaitExpires, PoolCloses, Returns
<1>2. TypeOK'
  BY <1>1 DEF IInv, TypeOK
<1>3. (StartsUsable /\ Loading /\ Grouped /\ ServerDone)'
  BY <1>1 DEF IInv, StartsUsable, Loading, Grouped, ServerDone, InFlight
<1>4. Timely'
  <2>1. phase = "serve" => attempt > 0 /\ clock = 0
    BY DEF IInv, TypeOK, Loading, Timely
  <2> QED BY <1>1, <2>1, Bounds DEF IInv, Timely
<1>5. Ended'
  BY <1>1 DEF IInv, Ended, BeginWait, GroupReturned, WaitExpires, PoolCloses, Returns, GroupDone
<1>6. TimeoutMeansStuck'
  <2>1. CASE WaitExpires
    <3>1. phase = "wait" /\ clock = MainDeadline /\ attempt > 0
      BY <2>1 DEF WaitExpires, IInv, TypeOK, Loading
    <3>2. clock > settings.shutdownTimeout
      BY <3>1, Bounds, GraceAssumption DEF MainDeadline
    <3> QED BY <1>1, <3>1, <3>2 DEF IInv, Timely, TimeoutMeansStuck
  <2>2. CASE ~WaitExpires
    BY <1>1, <2>2 DEF IInv, TimeoutMeansStuck, BeginWait, GroupReturned, PoolCloses, Returns
  <2> QED BY <2>1, <2>2
<1> QED BY <1>2, <1>3, <1>4, <1>5, <1>6 DEF IInv

LEMMA OutsideStep == ASSUME IInv, Signal \/ DatabaseChanges PROVE IInv'
<1> USE DEF startVars, groupVars
<1>1. /\ UNCHANGED <<startVars, groupVars, requests, clock>>
      /\ signals' \in 0..2 /\ database' \in {"up", "down", "silent"} /\ faults' \in 0..MaxFaults
      /\ \/ UNCHANGED <<phase, outcome>>
         \/ phase \in {"wait", "close"} /\ phase' = "exited" /\ outcome' = "killed"
  BY FaultsAssumption DEF IInv, TypeOK, Signal, Released, DatabaseChanges, Fault
<1>2. TypeOK'
  BY <1>1 DEF IInv, TypeOK
<1>3. (StartsUsable /\ Loading /\ Grouped /\ ServerDone)'
  BY <1>1 DEF IInv, StartsUsable, Loading, Grouped, ServerDone, InFlight
<1>4. (Timely /\ Ended /\ TimeoutMeansStuck)'
  BY <1>1 DEF IInv, Timely, Ended, TimeoutMeansStuck
<1> QED BY <1>2, <1>3, <1>4 DEF IInv

LEMMA TickStep == ASSUME IInv, Tick PROVE IInv'
<1> USE DEF Tick, startVars, groupVars
<1>1. TypeOK'
  BY DEF IInv, TypeOK
<1>2. (StartsUsable /\ Loading /\ Grouped /\ ServerDone)'
  BY DEF IInv, StartsUsable, Loading, Grouped, ServerDone, InFlight
<1>3. Timely'
  <2> SUFFICES ASSUME clock' > settings.shutdownTimeout PROVE server = "done"
    BY DEF IInv, Timely
  <2>1. attempt > 0 /\ clock \in Nat
    BY DEF IInv, TypeOK, Loading
  <2>2. clock >= settings.shutdownTimeout
    BY <2>1, Bounds
  <2>3. server \notin {"running", "shutting", "off"}
    BY <2>2 DEF Prompt, IInv, Grouped
  <2> QED BY <2>3 DEF IInv, TypeOK
<1>4. (Ended /\ TimeoutMeansStuck)'
  BY DEF IInv, Ended, TimeoutMeansStuck
<1> QED BY <1>1, <1>2, <1>3, <1>4 DEF IInv

LEMMA StepIInv == ASSUME IInv, [Next]_vars PROVE IInv'
<1>1. CASE Next
  BY <1>1, LoadStep, StartStepIInv, ConsumerStep, ServerStepIInv, RequestStep, WaitStep,
     OutsideStep, TickStep DEF Next, StopStep, Environment
<1>2. CASE UNCHANGED vars
  BY <1>2 DEF vars, startVars, groupVars, IInv, TypeOK, StartsUsable, Loading, Grouped,
     ServerDone, Timely, Ended, TimeoutMeansStuck, InFlight
<1> QED BY <1>1, <1>2

(* The invariant behind the theorems: how far each part of a process is at  *)
(* each phase of run(), for any settings, number of requests and faults.    *)
THEOREM LifecycleSafety == Spec => []IInv
BY InitIInv, StepIInv, PTL DEF Spec

(* The types are kept, the attempts and the pauses between them bounded. *)
THEOREM TypesCorrect == Spec => []TypeOK
<1>1. IInv => TypeOK
  BY DEF IInv
<1> QED BY <1>1, LifecycleSafety, PTL

(* Whatever the environment says, a process that connects has settings its  *)
(* parts can work with.                                                     *)
THEOREM OnlyUsableStarts == Spec => []StartsUsable
<1>1. IInv => StartsUsable
  BY DEF IInv
<1> QED BY <1>1, LifecycleSafety, PTL

(* The failure of a component never ends in a clean exit. *)
THEOREM FailuresReported == Spec => []FailureIsReported
<1>1. IInv => FailureIsReported
  BY DEF IInv, Ended, FailureIsReported
<1> QED BY <1>1, LifecycleSafety, PTL

(* A clean exit has cut off no request, unless the errgroup dropped the     *)
(* error of the shutdown.                                                   *)
THEOREM CleanExitsDrain == Spec => []CleanExitDrained
<1>1. IInv => CleanExitDrained
  BY DEF IInv, Ended, ServerDone, CleanExitDrained
<1> QED BY <1>1, LifecycleSafety, PTL

(* With any positive grace main never runs out of patience before the HTTP  *)
(* server has ended its own shutdown.                                       *)
THEOREM GraceSuffices == Spec => []TimeoutMeansStuck
<1>1. IInv => TimeoutMeansStuck
  BY DEF IInv
<1> QED BY <1>1, LifecycleSafety, PTL
-----------------------------------------------------------------------------
(* How far run() is: its phases in their order, those of each connection    *)
(* attempt after those of the one before.                                   *)
Place ==
  [load |-> 0, connect |-> 1, pause |-> 2, migrate |-> 3, warm |-> 4, group |-> 5,
   serve |-> 6, wait |-> 7, close |-> 8, exited |-> 9]
Station == 2 * attempt + Place[phase]

(* A run goes through its phases in one direction and tries no connection   *)
(* twice: whatever signals and failures come, it changes its phase at most  *)
(* 2 * connectAttempts + 9 times and leaves the exit for nothing (main.go,  *)
(* run; pool.go, the loop of NewPool).                                      *)
RunGoesForward ==
  /\ [][phase' # phase => Station < Station']_vars
  /\ [](attempt > 0 => Station <= 2 * settings.connectAttempts + 9)

LEMMA Places == TypeOK => attempt \in Nat /\ Place[phase] \in 0..9
BY DEF TypeOK, Place

(* A step that changes the phase goes on in the same attempt, or to the     *)
(* connection of the next one.                                              *)
LEMMA PhaseStep ==
  ASSUME IInv, Next, phase' # phase
  PROVE  \/ attempt' = attempt + 1 /\ phase' = "connect" /\ phase \in {"load", "pause"}
         \/ attempt' = attempt /\ Place[phase] < Place[phase']
<1> USE DEF startVars
<1>1. CASE StartStep
  BY <1>1 DEF IInv, Loading, Place, StartStep, Load, PingSucceeds, PingFails, PauseElapses,
     PauseCancelled, QuerySucceeds, QueryFails, StartGroup, Returns
<1>2. CASE StopStep \/ Signal
  BY <1>2 DEF Place, StopStep, BeginWait, GroupReturned, WaitExpires, PoolCloses, Signal, Released,
     Returns
<1>3. CASE ~StartStep /\ ~StopStep /\ ~Signal
  BY <1>3 DEF Next, ServerStep, ListenerOpens, ShutdownBegins, ShutdownCompletes,
     ShutdownExpires, ConsumerStops, Answer, Delivered, TimeOut, Release, Tick, Environment,
     ConsumerFails, ConsumerHangs, ListenerFails, DatabaseChanges, Arrive
<1> QED BY <1>1, <1>2, <1>3

THEOREM RunsGoForward == Spec => RunGoesForward
<1>1. ASSUME IInv, [Next]_vars PROVE [phase' # phase => Station < Station']_vars
  <2> SUFFICES ASSUME Next, phase' # phase PROVE Station < Station'
    BY <1>1
  <2>1. TypeOK /\ TypeOK'
    BY <1>1, StepIInv DEF IInv
  <2>2. attempt \in Nat /\ Place[phase] \in 0..9
    BY <2>1, Places
  <2>3. attempt' \in Nat /\ Place[phase'] \in 0..9
    BY <2>1 DEF TypeOK, Place
  <2>4. CASE attempt' = attempt + 1 /\ phase' = "connect" /\ phase \in {"load", "pause"}
    <3>1. Place[phase'] = 1 /\ Place[phase] <= 2
      BY <2>4 DEF Place
    <3>2. 2 * attempt' + Place[phase'] > 2 * attempt + Place[phase]
      BY <2>2, <2>3, <2>4, <3>1
    <3> QED BY <3>2 DEF Station
  <2>5. CASE attempt' = attempt /\ Place[phase] < Place[phase']
    BY <2>2, <2>3, <2>5 DEF Station
  <2> QED BY <1>1, <2>4, <2>5, PhaseStep
<1>2. IInv => (attempt > 0 => Station <= 2 * settings.connectAttempts + 9)
  <2> SUFFICES ASSUME IInv, attempt > 0 PROVE Station <= 2 * settings.connectAttempts + 9
    OBVIOUS
  <2>1. attempt \in Nat /\ Place[phase] \in 0..9
    BY Places DEF IInv
  <2> QED BY <2>1, Bounds DEF Station
<1> QED BY <1>1, <1>2, LifecycleSafety, PTL DEF Spec, RunGoesForward

(* The guards of the steps that FairSpec is fair to. *)
StartCanGoOn ==
  \/ phase \in {"load", "connect", "pause", "group"}
  \/ phase \in {"migrate", "warm"} /\ (database # "silent" \/ signals > 0)
ServerCanGoOn ==
  \/ server \in {"running", "shutting"} /\ listener = "off"
  \/ server = "running" /\ Cancelled
  \/ server = "shutting" /\ InFlight = {} /\ listener = "closed"
  \/ server = "shutting" /\ InFlight # {} /\ clock >= settings.shutdownTimeout
ConsumerCanStop == consumer = "running" /\ Cancelled
StopCanGoOn ==
  \/ phase = "serve" /\ Cancelled
  \/ phase = "wait" /\ (GroupDone \/ clock = MainDeadline)
  \/ phase = "close" /\ consumer # "running"
       /\ \A r \in Requests : requests[r] \notin {"busy", "late"}
TimeCanPass == phase = "wait" /\ ~Prompt /\ clock < MainDeadline
RequestCanGoOn(r) ==
  /\ Alive
  /\ \/ requests[r] = "late"
     \/ requests[r] = "busy" /\ (database # "silent" \/ settings.handlerTimeout > 0)

(* Nobody waits for everybody else.  The start is never held up unless the  *)
(* database is silent; and a process whose context is cancelled always has  *)
(* a step to take towards its exit, at a silent database, with a consumer   *)
(* that hangs and requests in flight, provided that requests have a timeout *)
(* (main.go, the shutdown in run; pool.go, Close).                          *)
ProcessNeverStuck ==
  /\ Starting /\ database # "silent" => StartCanGoOn
  /\ Alive /\ Cancelled /\ settings.handlerTimeout > 0 =>
       \/ StartCanGoOn \/ ServerCanGoOn \/ ConsumerCanStop \/ StopCanGoOn \/ TimeCanPass
       \/ \E r \in Requests : RequestCanGoOn(r)

(* Until the group is started it has no error, and the wait has an end. *)
Due ==
  /\ phase \in {"connect", "pause", "migrate", "warm", "group"} =>
       consumer = "off" /\ server = "off" /\ groupError = "none"
  /\ phase = "wait" => clock <= MainDeadline

LEMMA DueStep == ASSUME IInv, Due, [Next]_vars PROVE Due'
<1> USE DEF startVars, groupVars
<1>1. CASE StartStep
  BY <1>1 DEF Due, IInv, Loading, StartStep, Load, PingSucceeds, PingFails, PauseElapses,
     PauseCancelled, QuerySucceeds, QueryFails, StartGroup, Returns
<1>2. CASE BeginWait
  <2>1. attempt > 0 /\ clock = 0
    BY <1>2 DEF IInv, TypeOK, Loading, Timely, BeginWait
  <2>2. clock <= MainDeadline
    BY <2>1, Bounds, GraceAssumption DEF MainDeadline
  <2> QED BY <1>2, <2>2 DEF Due, BeginWait, MainDeadline
<1>3. CASE Tick
  <2>1. attempt > 0 /\ clock \in Nat
    BY <1>3 DEF IInv, TypeOK, Loading, Tick
  <2>2. settings.shutdownTimeout \in Int /\ MainDeadline \in Int
    BY <2>1, Bounds, GraceAssumption DEF MainDeadline
  <2>3. clock + 1 <= MainDeadline
    BY <1>3, <2>1, <2>2 DEF Tick
  <2> QED BY <1>3, <2>3 DEF Due, Tick, MainDeadline
<1>4. CASE GroupReturned \/ WaitExpires \/ PoolCloses \/ Signal \/ DatabaseChanges
  BY <1>4 DEF Due, MainDeadline, GroupReturned, WaitExpires, PoolCloses, Signal, Released,
     DatabaseChanges, Returns
<1>5. CASE ServerStep \/ ConsumerStops \/ ConsumerFails \/ ConsumerHangs \/ ListenerFails
  BY <1>5 DEF Due, MainDeadline, ServerStep, ListenerOpens, ShutdownBegins, ShutdownCompletes,
     ShutdownExpires, ConsumerStops, ConsumerFails, ConsumerHangs, ListenerFails
<1>6. CASE \E r \in Requests :
             Answer(r) \/ Delivered(r) \/ TimeOut(r) \/ Release(r) \/ Arrive(r)
  BY <1>6 DEF Due, MainDeadline, Answer, Delivered, TimeOut, Release, Arrive
<1>7. CASE UNCHANGED vars
  BY <1>7 DEF Due, MainDeadline, vars
<1> QED BY <1>1, <1>2, <1>3, <1>4, <1>5, <1>6, <1>7 DEF Next, StopStep, Environment

THEOREM StopsAreNeverStuck == Spec => []ProcessNeverStuck
<1>1. Init => Due
  BY DEF Init, Due
<1>2. IInv /\ Due /\ [Next]_vars => Due'
  BY DueStep
<1>3. ASSUME IInv, Due PROVE ProcessNeverStuck
  <2>1. Starting /\ database # "silent" => StartCanGoOn
    BY DEF Starting, StartCanGoOn
  <2>2. ASSUME Alive, Cancelled, settings.handlerTimeout > 0
        PROVE  \/ StartCanGoOn \/ ServerCanGoOn \/ ConsumerCanStop \/ StopCanGoOn \/ TimeCanPass
               \/ \E r \in Requests : RequestCanGoOn(r)
    <3>1. CASE phase \in {"connect", "pause", "migrate", "warm", "group"}
      BY <1>3, <2>2, <3>1 DEF Due, Cancelled, StartCanGoOn
    <3>2. CASE phase = "serve"
      BY <2>2, <3>2 DEF StopCanGoOn
    <3>3. CASE phase = "wait"
      <4>1. CASE GroupDone \/ clock = MainDeadline
        BY <3>3, <4>1 DEF StopCanGoOn
      <4>2. CASE ~GroupDone /\ clock # MainDeadline
        <5>1. clock < MainDeadline
          <6>1. attempt > 0 /\ clock \in Nat
            BY <1>3, <3>3 DEF IInv, TypeOK, Loading
          <6>2. MainDeadline \in Int
            BY <1>3, <6>1, Bounds, GraceAssumption DEF MainDeadline
          <6> QED BY <1>3, <3>3, <4>2, <6>1, <6>2 DEF Due
        <5>2. CASE ~Prompt
          BY <3>3, <5>1, <5>2 DEF TimeCanPass
        <5>3. CASE Prompt
          <6>1. \/ server = "running"
                \/ server = "shutting" /\ (InFlight = {} \/ clock >= settings.shutdownTimeout)
            BY <3>3, <4>2, <5>3 DEF Prompt
          <6>2. server = "shutting" => listener \in {"off", "closed"}
            BY <1>3 DEF IInv, TypeOK, Grouped
          <6> QED BY <2>2, <6>1, <6>2 DEF ServerCanGoOn
        <5> QED BY <5>2, <5>3
      <4> QED BY <4>1, <4>2
    <3>4. CASE phase = "close"
      BY <2>2, <3>4 DEF StopCanGoOn, ConsumerCanStop, RequestCanGoOn
    <3> QED BY <1>3, <2>2, <3>1, <3>2, <3>3, <3>4 DEF IInv, TypeOK, Alive
  <2> QED BY <2>1, <2>2 DEF ProcessNeverStuck
<1> QED BY <1>1, <1>2, <1>3, LifecycleSafety, PTL DEF Spec
=============================================================================
