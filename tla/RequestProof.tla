---------------------------- MODULE RequestProof ----------------------------
(***************************************************************************)
(* Proofs about HttpRequest.  Written says what the handler has put where  *)
(* it writes, the buffer or the answer, for each place it can be at; Sent  *)
(* says what the answer is once the chain has it, Reported what was logged *)
(* of a panic.                                                             *)
(***************************************************************************)
EXTENDS RequestProperties, TLAPS

Blank(w) == w = Nothing
Headed(w) == code # 0 /\ w = [status |-> code, body |-> << >>]
Whole(w) == code # 0 /\ w = [status |-> code, body |-> <<"handler">>]

Written(w) ==
  /\ inner \in {"run", "query", "ping", "header"} => Blank(w)
  /\ inner = "header" => code # 0
  /\ inner = "body" => Headed(w)
  /\ inner = "end" => Whole(w) \/ (Blank(w) /\ gone)
  /\ inner = "panicked" => Blank(w) \/ Headed(w)

Serving ==
  outer = "serving" =>
    /\ ~gaveUp
    /\ limited => answer = Nothing /\ Written(buffer)
    /\ ~limited => buffer = Nothing /\ Written(answer)

Empty200 == [status |-> 200, body |-> << >>]

(* A panic is logged when it is recovered, and at no other time. *)
Reported ==
  IF outer = "serving" \/ gaveUp THEN stack = "none"
  ELSE /\ inner = "panicked" <=> stack # "none"
       /\ stack # "none" => stack = RecoveredIn

Sent ==
  outer # "serving" =>
    /\ gaveUp => \/ answer = [status |-> 503, body |-> <<"timeout">>]
                 \/ answer = [status |-> 503, body |-> << >>] /\ gone
    /\ ~gaveUp => inner \in {"end", "panicked"}
    /\ ~gaveUp /\ inner = "end" => Whole(answer) \/ (answer \in {Nothing, Empty200} /\ gone)
    /\ ~gaveUp /\ inner = "panicked" =>
         answer = [status |-> 500, body |-> <<"panic">>] \/ (~limited /\ Headed(answer))

Causes ==
  /\ ctxErr = "canceled" => gone
  /\ gaveUp => limited

(* The status the handler chooses for an order that is stored. *)
Readable ==
  (\A u \in Uids : Bytes[u] = Chars[u]) /\ route = "order" /\ uid \in saved =>
    code \notin {400, 404}

IInv == TypeOK /\ Serving /\ Reported /\ Sent /\ Causes /\ LogTellsStatus /\ Readable

(* What the handler adds to what it has written. *)
LEMMA Appended == << >> \o << >> = << >> /\ << >> \o <<"handler">> = <<"handler">>
  OBVIOUS

LEMMA Bodies ==
  << >> \in Seq(Writers) /\ \A w \in Writers : <<w>> \in Seq(Writers)
  OBVIOUS

LEMMA Distinct ==
  /\ \A w \in Writers : <<w>> # << >>
  /\ <<"handler">> # <<"timeout">> /\ <<"handler">> # <<"panic">>
  /\ <<"timeout">> # <<"panic">>
  /\ <<"handler">> # << >>
  /\ <<"timeout">> # << >>
  /\ <<"panic">> # << >>
  OBVIOUS

LEMMA InitIInv == Init => IInv
<1> SUFFICES ASSUME Init PROVE IInv
  OBVIOUS
<1>1. Nothing \in Writings
  BY Bodies DEF Nothing, Writings, Statuses
<1>2. TypeOK
  BY <1>1 DEF Init, TypeOK, Statuses, NoEntry, Routes, ClientClosed
<1>3. Serving /\ Reported /\ Sent /\ Causes
  BY DEF Init, Serving, Reported, Sent, Causes, Written, Blank
<1>4. LogTellsStatus /\ Readable
  BY DEF Init, LogTellsStatus, Readable
<1> QED BY <1>2, <1>3, <1>4 DEF IInv

(* Whatever else a step does, these conjuncts follow from what they read. *)
HandlerAlone ==
  UNCHANGED <<requestVars, clientVars, logVars, outer, gaveUp>>

(* A handler that is still at work is waited for, or was given up on. *)
LEMMA AtWork ==
  ASSUME IInv, inner \notin {"end", "panicked"}
  PROVE  (outer = "serving" /\ ~gaveUp) \/ (gaveUp /\ limited)
BY DEF IInv, Sent, Causes

(* A step of the handler that writes nothing. *)
LEMMA SilentStep ==
  ASSUME IInv, HandlerAlone, UNCHANGED <<buffer, answer>>,
         inner \notin {"end", "panicked", "body"},
         inner' \in {"query", "ping", "header", "end", "panicked"},
         code' \in Statuses, inner' = "header" => code' # 0,
         inner = "header" => code' = code /\ inner' = "panicked",
         inner' = "end" => gone,
         Readable'
  PROVE  IInv'
<1> USE DEF HandlerAlone, requestVars, clientVars, logVars
<1>1. TypeOK'
  BY DEF IInv, TypeOK
<1>2. inner \in {"run", "query", "ping", "header"}
  BY DEF IInv, TypeOK
<1>3. Serving'
  BY <1>2 DEF IInv, Serving, Written, Blank
<1>4. Sent' /\ Reported'
  BY <1>2, AtWork DEF IInv, Sent, Reported
<1>5. Causes' /\ LogTellsStatus'
  BY DEF IInv, Causes, LogTellsStatus
<1> QED BY <1>1, <1>3, <1>4, <1>5 DEF IInv

LEMMA BeginStep == ASSUME IInv, Begin PROVE IInv'
<1> USE DEF Begin, requestVars, clientVars, logVars
<1>1. code' \in Statuses /\ inner' \in {"query", "ping", "header"}
  BY DEF BeginOrder, BeginOther, RespondWith, IInv, TypeOK, Statuses
<1>2. inner' = "header" => code' # 0
  BY DEF BeginOrder, BeginOther, RespondWith
<1>3. Readable'
  <2> SUFFICES ASSUME \A u \in Uids : Bytes[u] = Chars[u], route = "order", uid \in saved
               PROVE  code' \notin {400, 404}
    BY DEF Readable
  <2>1. uid \in Uids /\ Storable(uid) /\ code \notin {400, 404}
    BY DEF IInv, TypeOK, Readable
  <2>2. Acceptable(uid)
    BY <2>1, LengthsAssumption DEF Storable, Acceptable
  <2> QED BY <2>1, <2>2 DEF BeginOrder, BeginOther, RespondWith
<1> QED BY <1>1, <1>2, <1>3, SilentStep DEF HandlerAlone

LEMMA QueryStep == ASSUME IInv, QueryAnswers \/ QueryEnds \/ PingEnds PROVE IInv'
<1> USE DEF requestVars, clientVars, logVars
<1>1. code' \in Statuses /\ inner' \in {"header", "end"}
  BY DEF QueryAnswers, QueryEnds, PingEnds, RespondWith, IInv, TypeOK, Statuses
<1>2. inner' = "header" => code' # 0
  BY DEF QueryAnswers, QueryEnds, PingEnds, RespondWith
<1>3. inner' = "end" => gone
  BY DEF QueryAnswers, QueryEnds, PingEnds, RespondWith, IInv, Causes
<1>4. Readable'
  BY DEF QueryAnswers, QueryEnds, PingEnds, RespondWith, IInv, Readable
<1>5. HandlerAlone /\ UNCHANGED <<buffer, answer>> /\ inner \in {"query", "ping"}
  BY DEF QueryAnswers, QueryEnds, PingEnds, HandlerAlone
<1> QED BY <1>1, <1>2, <1>3, <1>4, <1>5, SilentStep

LEMMA PanicStep == ASSUME IInv, Panic PROVE IInv'
<1> USE DEF Panic, requestVars, clientVars, logVars
<1>1. CASE inner = "body"
  <2>1. TypeOK'
    BY DEF IInv, TypeOK
  <2>2. Serving'
    BY <1>1 DEF IInv, Serving, Written, Headed
  <2>3. Sent' /\ Reported'
    BY <1>1, AtWork DEF IInv, Sent, Reported
  <2>4. Causes' /\ LogTellsStatus' /\ Readable'
    BY DEF IInv, Causes, LogTellsStatus, Readable
  <2> QED BY <2>1, <2>2, <2>3, <2>4 DEF IInv
<1>2. CASE inner # "body"
  <2>1. Readable' /\ code' \in Statuses
    BY DEF IInv, Readable, TypeOK
  <2> QED BY <1>2, <2>1, SilentStep DEF HandlerAlone
<1> QED BY <1>1, <1>2

(* What Put leaves where the handler writes. *)
LEMMA HeaderAdded ==
  ASSUME NEW w, Blank(w), code # 0
  PROVE  [status |-> IF w.status = 0 THEN code ELSE w.status, body |-> w.body \o << >>]
           = [status |-> code, body |-> << >>]
BY Appended DEF Blank, Nothing

LEMMA BodyAdded ==
  ASSUME NEW w, Headed(w)
  PROVE  [status |-> IF w.status = 0 THEN code ELSE w.status, body |-> w.body \o <<"handler">>]
           = [status |-> code, body |-> <<"handler">>]
BY Appended DEF Headed

LEMMA WriteStep == ASSUME IInv, WriteHeader \/ WriteBody PROVE IInv'
<1> USE DEF requestVars, clientVars, logVars
<1> DEFINE Body == IF inner = "header" THEN << >> ELSE <<"handler">>
           New == [status |-> code, body |-> Body]
<1>1. /\ inner \in {"header", "body"} /\ code' = code
      /\ inner' = (IF inner = "header" THEN "body" ELSE "end")
      /\ UNCHANGED <<requestVars, clientVars, logVars, outer, gaveUp>>
      /\ Put(code, Body)
  BY DEF WriteHeader, WriteBody
<1>2. New \in Writings
  BY Bodies DEF Writings, IInv, TypeOK, Writers
<1>3. CASE gaveUp
  <2>1. UNCHANGED <<buffer, answer>> /\ limited
    BY <1>1, <1>3 DEF Put, IInv, Causes
  <2>2. TypeOK'
    BY <1>1, <2>1 DEF IInv, TypeOK
  <2>3. Serving' /\ Reported' /\ Sent' /\ Causes' /\ LogTellsStatus' /\ Readable'
    BY <1>1, <1>3, <2>1 DEF IInv, Serving, Reported, Sent, Causes, LogTellsStatus, Readable
  <2> QED BY <2>2, <2>3 DEF IInv
<1>4. CASE ~gaveUp
  <2>1. outer = "serving"
    BY <1>1, <1>4, AtWork
  <2>2. IF limited THEN buffer' = New /\ UNCHANGED answer
                   ELSE answer' = New /\ UNCHANGED buffer
    <3>1. CASE inner = "header"
      BY <1>1, <1>4, <2>1, <3>1, HeaderAdded DEF Put, IInv, Serving, Written
    <3>2. CASE inner = "body"
      BY <1>1, <1>4, <2>1, <3>2, BodyAdded DEF Put, IInv, Serving, Written
    <3> QED BY <1>1, <3>1, <3>2
  <2>3. code # 0
    BY <1>1, <2>1 DEF IInv, Serving, Written, Headed
  <2>4. TypeOK'
    BY <1>1, <1>2, <2>1, <2>2 DEF IInv, TypeOK
  <2>5. Serving'
    BY <1>1, <1>4, <2>1, <2>2, <2>3 DEF IInv, Serving, Written, Headed, Whole
  <2>6. Reported' /\ Sent' /\ Causes' /\ LogTellsStatus' /\ Readable'
    BY <1>1, <1>4, <2>1 DEF IInv, Reported, Sent, Causes, LogTellsStatus, Readable
  <2> QED BY <2>4, <2>5, <2>6 DEF IInv
<1> QED BY <1>3, <1>4

LEMMA ClientStep == ASSUME IInv, ClientLeaves \/ LimitElapses PROVE IInv'
<1> USE DEF ClientLeaves, LimitElapses, requestVars, handlerVars, logVars
<1>1. TypeOK'
  BY DEF IInv, TypeOK
<1>2. Serving' /\ Reported' /\ Sent'
  BY DEF IInv, Serving, Reported, RecoveredIn, Sent, Written, Blank, Headed, Whole
<1>3. Causes' /\ LogTellsStatus' /\ Readable'
  BY DEF IInv, Causes, LogTellsStatus, Readable
<1> QED BY <1>1, <1>2, <1>3 DEF IInv

LEMMA ReturnStep == ASSUME IInv, HandlerReturns PROVE IInv'
<1> USE DEF HandlerReturns, requestVars, handlerVars, clientVars, logVars
<1>1. Empty200 \in Writings
  BY Bodies DEF Empty200, Writings, Statuses
<1>2. ~gaveUp /\ (Whole(answer') \/ (answer' \in {Nothing, Empty200} /\ gone))
  <2>1. CASE limited
    BY <2>1 DEF IInv, Serving, Written, Whole, Blank, Nothing, Empty200
  <2>2. CASE ~limited
    BY <2>2 DEF IInv, Serving, Written, Whole, Blank
  <2> QED BY <2>1, <2>2
<1>3. answer' \in Writings
  <2>1. CASE limited /\ Whole(buffer)
    BY <2>1 DEF IInv, TypeOK, Whole
  <2>2. CASE ~limited
    BY <2>2 DEF IInv, TypeOK
  <2>3. CASE limited /\ ~Whole(buffer)
    BY <1>1, <2>3 DEF IInv, Serving, Written, Blank, Nothing, Empty200
  <2> QED BY <2>1, <2>2, <2>3
<1>4. TypeOK'
  BY <1>3 DEF IInv, TypeOK
<1>5. Serving' /\ Reported' /\ Sent'
  BY <1>2 DEF IInv, Serving, Reported, Sent, Whole
<1>6. Causes' /\ LogTellsStatus' /\ Readable'
  BY DEF IInv, TypeOK, Causes, LogTellsStatus, Readable
<1> QED BY <1>4, <1>5, <1>6 DEF IInv

LEMMA GiveUpStep == ASSUME IInv, GiveUp PROVE IInv'
<1> USE DEF GiveUp, requestVars, handlerVars, clientVars, logVars
<1>1. answer' \in Writings
  <2> DEFINE said == IF ctxErr = "deadline" THEN <<"timeout">> ELSE << >>
  <2>1. said \in Seq(Writers) /\ 503 \in Statuses
    <3>1. "timeout" \in Writers
      BY DEF Writers
    <3>2. <<"timeout">> \in Seq(Writers) /\ << >> \in Seq(Writers)
      BY <3>1, Bodies
    <3> QED BY <3>2 DEF Statuses
  <2>2. answer' = [status |-> 503, body |-> said]
    OBVIOUS
  <2> QED BY <2>1, <2>2 DEF Writings
<1>2. TypeOK'
  BY <1>1 DEF IInv, TypeOK
<1>3. Serving' /\ Sent'
  BY DEF IInv, TypeOK, Causes, Serving, Sent
<1>4. Reported'
  BY DEF IInv, Reported
<1>5. Causes' /\ LogTellsStatus' /\ Readable'
  BY DEF IInv, TypeOK, Causes, LogTellsStatus, Readable
<1> QED BY <1>2, <1>3, <1>4, <1>5 DEF IInv

LEMMA RecoverStep == ASSUME IInv, Recover PROVE IInv'
<1> USE DEF Recover, requestVars, handlerVars, clientVars
<1>1. answer' \in Writings
  BY Bodies DEF IInv, TypeOK, Writings, Statuses, Writers
<1>2. TypeOK'
  BY <1>1 DEF IInv, TypeOK, RecoveredIn
<1>3. ~gaveUp /\ (answer = Nothing \/ Headed(answer))
  BY DEF IInv, Serving, Written, Blank
<1>4. answer' = [status |-> 500, body |-> <<"panic">>] \/ (~limited /\ Headed(answer'))
  BY <1>3 DEF IInv, Serving, Nothing, Headed
<1>5. Serving' /\ Reported' /\ Sent'
  BY <1>3, <1>4 DEF Serving, Reported, RecoveredIn, Sent, Headed
<1>6. Causes' /\ LogTellsStatus' /\ Readable'
  BY DEF IInv, TypeOK, Causes, LogTellsStatus, Readable
<1> QED BY <1>2, <1>5, <1>6 DEF IInv

LEMMA LogStep == ASSUME IInv, LogRequest PROVE IInv'
<1> USE DEF LogRequest, requestVars, handlerVars, clientVars
<1> DEFINE shown == IF gone THEN ClientClosed ELSE Recorded
           quiet == route \in {"health", "ready"}
<1>1. answer.status \in Statuses /\ answer.body \in Seq(Writers) /\ Recorded \in Statuses \ {0}
  BY DEF IInv, TypeOK, Writings, Recorded, Statuses
<1>2. answer' = [status |-> Recorded, body |-> answer.body] /\ answer' \in Writings
  BY <1>1 DEF IInv, TypeOK, Writings
<1>3. /\ LevelFor(shown, quiet) \in {"debug", "info", "warn", "error"}
      /\ ~gone /\ Recorded >= 500 => LevelFor(shown, quiet) = "error"
  <2>1. shown \in {200, 400, 404, 500, 503, 499}
    BY <1>1 DEF ClientClosed, Statuses
  <2>2. CASE shown \in {200, 400, 404}
    BY <2>2 DEF LevelFor, ClientClosed
  <2>3. CASE shown \in {500, 503}
    BY <2>3 DEF LevelFor, ClientClosed
  <2>4. CASE shown = 499
    BY <2>4, <1>1 DEF LevelFor, ClientClosed, Statuses
  <2> QED BY <2>1, <2>2, <2>3, <2>4
<1>4. entry' = [status |-> shown, level |-> LevelFor(shown, quiet)]
  BY DEF Logged
<1>5. shown # 0 /\ shown \in Statuses \cup {ClientClosed} /\ (shown = ClientClosed <=> gone)
  BY <1>1 DEF ClientClosed, Statuses
<1>6. TypeOK'
  BY <1>1, <1>2, <1>3, <1>4, <1>5 DEF IInv, TypeOK
<1>7. LogTellsStatus'
  BY <1>2, <1>3, <1>4, <1>5 DEF LogTellsStatus
<1>8. Serving' /\ Reported' /\ Causes' /\ Readable'
  BY DEF IInv, Serving, Reported, RecoveredIn, Causes, Readable
<1>9. Sent'
  <2>1. /\ UNCHANGED <<inner, code, gaveUp, gone, stack>> /\ outer # "serving"
        /\ answer'.status = Recorded /\ answer'.body = answer.body
    BY <1>2
  <2>2. CASE answer.status # 0
    <3>1. answer' = answer
      BY <1>1, <1>2, <2>2 DEF IInv, TypeOK, Writings, Recorded
    <3> QED BY <2>1, <3>1 DEF IInv, Sent, Whole, Headed
  <2>3. CASE answer.status = 0
    <3>1. answer' = [status |-> 200, body |-> answer.body]
      BY <1>2, <2>3 DEF Recorded
    <3>2. ~gaveUp /\ inner = "end" /\ answer = Nothing /\ gone
      BY <2>1, <2>3 DEF IInv, Sent, Whole, Headed, Nothing, Empty200
    <3>3. answer' = Empty200
      BY <3>1, <3>2 DEF Nothing, Empty200
    <3> QED BY <2>1, <3>2, <3>3 DEF Sent
  <2> QED BY <2>2, <2>3
<1> QED BY <1>6, <1>7, <1>8, <1>9 DEF IInv

LEMMA StepIInv == ASSUME IInv, [Next]_vars PROVE IInv'
<1>1. CASE Next
  BY <1>1, BeginStep, QueryStep, PanicStep, WriteStep, ClientStep, ReturnStep,
     GiveUpStep, RecoverStep, LogStep DEF Next, HandlerStep, ChainStep
<1>2. CASE UNCHANGED vars
  BY <1>2 DEF vars, requestVars, handlerVars, clientVars, logVars, IInv, TypeOK, Serving,
     Reported, RecoveredIn, Sent, Causes, LogTellsStatus, Readable, Written, Blank, Headed, Whole
<1> QED BY <1>1, <1>2

(* The invariant behind the theorems: where the handler is, what it has     *)
(* written, and what became of it, for every chain of limit, panic and      *)
(* client (HttpRequest, the whole of it).                                   *)
THEOREM RequestSafety == Spec => []IInv
BY InitIInv, StepIInv, PTL DEF Spec

(* The types are kept, and a request that is over has a status and an entry. *)
THEOREM TypesCorrect == Spec => []TypeOK
<1>1. IInv => TypeOK
  BY DEF IInv
<1> QED BY <1>1, RequestSafety, PTL

(* A client gets the answer of one author, and an empty one only if it left *)
(* or the handler panicked, for any uids and any lengths.                   *)
THEOREM AnsweredOnce == Spec => []OneAnswer
<1>1. IInv => OneAnswer
  <2> SUFFICES ASSUME IInv, outer = "closed" PROVE OneAnswer
    BY DEF OneAnswer
  <2>1. CASE gaveUp
    BY <2>1 DEF IInv, Sent, OneAnswer, Writers
  <2>2. CASE ~gaveUp /\ inner = "end"
    <3>1. CASE Whole(answer)
      BY <2>2, <3>1, Distinct DEF OneAnswer, Writers, Whole
    <3>2. CASE answer \in {Nothing, Empty200} /\ gone
      BY <2>2, <3>2, Distinct DEF OneAnswer, Nothing, Empty200
    <3> QED BY <2>2, <3>1, <3>2 DEF IInv, Sent
  <2>3. CASE ~gaveUp /\ inner = "panicked"
    BY <2>3 DEF IInv, Sent, OneAnswer, Writers, Headed
  <2> QED BY <2>1, <2>2, <2>3 DEF IInv, Sent
<1> QED BY <1>1, RequestSafety, PTL

(* The access log has the status that was sent, or 499 exactly for a client *)
(* that left.                                                               *)
THEOREM LogTrue == Spec => []LogTellsStatus
<1>1. IInv => LogTellsStatus
  BY DEF IInv
<1> QED BY <1>1, RequestSafety, PTL

(* A panic is logged exactly if the limit did not outrun it; then it is     *)
(* answered with 500, under a limit without exception.                      *)
THEOREM PanicsAnswered == Spec => []PanicAnswered
<1>1. IInv => PanicAnswered
  <2> SUFFICES ASSUME IInv, outer = "closed" PROVE PanicAnswered
    BY DEF PanicAnswered
  <2>1. stack # "none" <=> inner = "panicked" /\ ~gaveUp
    BY DEF IInv, Reported
  <2> QED BY <2>1 DEF IInv, Sent, PanicAnswered, Headed
<1> QED BY <1>1, RequestSafety, PTL

(* Without a limit a recovered panic does leave its own stack in the log,   *)
(* and under one never: the limit is what loses it.                         *)
StackLostByLimit ==
  outer = "closed" /\ inner = "panicked" /\ ~gaveUp =>
    (stack = "handler" <=> ~limited)

THEOREM LimitLosesStacks == Spec => []StackLostByLimit
<1>1. IInv => StackLostByLimit
  BY DEF IInv, Reported, RecoveredIn, StackLostByLimit
<1> QED BY <1>1, RequestSafety, PTL

(* A stored order is never refused nor unknown, if each character of a uid  *)
(* is one byte.                                                             *)
THEOREM StoredReadable ==
  ASSUME \A u \in Uids : Bytes[u] = Chars[u]
  PROVE  Spec => []StoredIsReadable
<1>1. IInv => StoredIsReadable
  <2> SUFFICES ASSUME IInv, outer = "closed", route = "order", uid \in saved
               PROVE  answer.status \notin {400, 404}
    BY DEF StoredIsReadable
  <2>1. code \notin {400, 404}
    BY DEF IInv, Readable
  <2>2. outer # "serving"
    OBVIOUS
  <2>3. CASE gaveUp
    BY <2>2, <2>3 DEF IInv, Sent
  <2>4. CASE ~gaveUp
    BY <2>1, <2>2, <2>4 DEF IInv, Sent, Whole, Headed, Nothing, Empty200
  <2> QED BY <2>3, <2>4
<1> QED BY <1>1, RequestSafety, PTL

(* What was sent stays sent: neither the status of an answer nor its body   *)
(* is ever replaced, by the limit, the recovery or the log (middleware.go,  *)
(* responseRecorder and recoverPanic).                                      *)
SentIsSent ==
  [][/\ answer.status # 0 => answer'.status = answer.status
     /\ answer.body # << >> => answer'.body = answer.body]_vars

THEOREM NothingTakenBack == Spec => SentIsSent
<1> DEFINE Kept == /\ answer.status # 0 => answer'.status = answer.status
                   /\ answer.body # << >> => answer'.body = answer.body
<1>1. ASSUME IInv, [Next]_vars PROVE Kept
  <2>1. CASE UNCHANGED answer
    BY <2>1
  <2>2. CASE WriteHeader \/ WriteBody
    <3>1. CASE limited
      BY <2>1, <2>2, <3>1 DEF WriteHeader, WriteBody, Put
    <3>2. CASE ~limited
      <4>1. outer = "serving" /\ ~gaveUp
        BY <1>1, <2>2, <3>2, AtWork DEF WriteHeader, WriteBody
      <4>2. CASE WriteHeader
        BY <1>1, <3>2, <4>1, <4>2 DEF IInv, Serving, Written, WriteHeader, Blank, Nothing, Put
      <4>3. CASE WriteBody
        <5>1. Headed(answer)
          BY <1>1, <3>2, <4>1, <4>3 DEF IInv, Serving, Written, WriteBody
        <5>2. answer' = [status |-> code, body |-> <<"handler">>]
          BY <3>2, <4>3, <5>1, BodyAdded DEF WriteBody, Put
        <5> QED BY <5>1, <5>2 DEF Headed
      <4> QED BY <2>2, <4>2, <4>3
    <3> QED BY <3>1, <3>2
  <2>3. CASE HandlerReturns \/ GiveUp
    <3>1. CASE limited
      BY <1>1, <2>3, <3>1 DEF HandlerReturns, GiveUp, IInv, Serving, Nothing
    <3>2. CASE ~limited
      BY <2>3, <3>2 DEF HandlerReturns, GiveUp
    <3> QED BY <3>1, <3>2
  <2>4. CASE Recover
    <3>1. answer = Nothing \/ answer.status # 0
      BY <1>1, <2>4 DEF Recover, IInv, Serving, Written, Blank, Headed
    <3> QED BY <2>4, <3>1 DEF Recover, Nothing
  <2>5. CASE LogRequest
    <3>1. answer' = [status |-> Recorded, body |-> answer.body]
      BY <1>1, <2>5 DEF LogRequest, IInv, TypeOK, Writings
    <3> QED BY <3>1 DEF Recorded
  <2>6. CASE Begin \/ QueryEnds \/ PingEnds \/ QueryAnswers \/ Panic \/ ClientLeaves \/ LimitElapses
             \/ UNCHANGED vars
    BY <2>6 DEF Begin, QueryEnds, PingEnds, QueryAnswers, Panic, ClientLeaves, LimitElapses, vars
  <2> QED BY <1>1, <2>2, <2>3, <2>4, <2>5, <2>6 DEF Next, HandlerStep, ChainStep
<1>2. IInv /\ [Next]_vars => [Kept]_vars
  BY <1>1
<1> QED BY <1>2, RequestSafety, PTL DEF Spec, SentIsSent

-----------------------------------------------------------------------------
(* Why EveryRequestLogged holds, but for the fairness itself: a request has *)
(* a bounded number of steps, and before the last of them one that fairness *)
(* speaks of can be taken.                                                  *)

HandlerRank ==
  CASE inner = "run" -> 0
    [] inner \in {"query", "ping"} -> 1
    [] inner = "header" -> 2
    [] inner = "body" -> 3
    [] inner = "end" -> 4
    [] inner = "panicked" -> 5
ChainRank ==
  CASE outer = "serving" -> 0 [] outer = "log" -> 1 [] outer = "closed" -> 2
LimitRank == IF ctxErr = "none" THEN 0 ELSE 1
ClientRank == IF gone THEN 1 ELSE 0
Work == HandlerRank + ChainRank + LimitRank + ClientRank

LEMMA Ranks ==
  ASSUME TypeOK
  PROVE  /\ HandlerRank \in 0..5 /\ ChainRank \in 0..2
         /\ LimitRank \in 0..1 /\ ClientRank \in 0..1
<1>1. HandlerRank \in 0..5
  BY DEF TypeOK, HandlerRank
<1>2. ChainRank \in 0..2
  BY DEF TypeOK, ChainRank
<1> QED BY <1>1, <1>2 DEF LimitRank, ClientRank

LEMMA RanksAddUp ==
  ASSUME NEW h \in 0..5, NEW c \in 0..2, NEW l \in 0..1, NEW g \in 0..1,
         NEW h2 \in 0..5, NEW c2 \in 0..2, NEW l2 \in 0..1, NEW g2 \in 0..1,
         h <= h2, c <= c2, l <= l2, g <= g2, h < h2 \/ c < c2 \/ l < l2 \/ g < g2
  PROVE  h + c + l + g < h2 + c2 + l2 + g2 /\ h2 + c2 + l2 + g2 <= 9
OBVIOUS

(* Each step of a request brings handler, chain, limit or client forward,   *)
(* and none of them back: no request takes more than nine.                  *)
EveryStepCounts == [][Work < Work' /\ Work' <= 9]_vars

THEOREM RequestsAreFinite == Spec => EveryStepCounts
<1>1. ASSUME IInv, Next PROVE Work < Work' /\ Work' <= 9
  <2>1. TypeOK /\ TypeOK'
    BY <1>1, StepIInv DEF IInv
  <2>0. /\ HandlerRank \in 0..5 /\ ChainRank \in 0..2 /\ LimitRank \in 0..1 /\ ClientRank \in 0..1
        /\ (HandlerRank \in 0..5 /\ ChainRank \in 0..2 /\ LimitRank \in 0..1 /\ ClientRank \in 0..1)'
    <3>1. HandlerRank' \in 0..5
      BY <2>1 DEF TypeOK, HandlerRank
    <3>2. ChainRank' \in 0..2
      BY <2>1 DEF TypeOK, ChainRank
    <3>3. LimitRank' \in 0..1 /\ ClientRank' \in 0..1
      BY DEF LimitRank, ClientRank
    <3> QED BY <2>1, <3>1, <3>2, <3>3, Ranks
  <2>5. ASSUME HandlerRank <= HandlerRank', ChainRank <= ChainRank', LimitRank <= LimitRank',
               ClientRank <= ClientRank',
               \/ HandlerRank < HandlerRank' \/ ChainRank < ChainRank'
               \/ LimitRank < LimitRank' \/ ClientRank < ClientRank'
        PROVE  Work < Work' /\ Work' <= 9
    <3>1. /\ HandlerRank + ChainRank + LimitRank + ClientRank
               < HandlerRank' + ChainRank' + LimitRank' + ClientRank'
          /\ HandlerRank' + ChainRank' + LimitRank' + ClientRank' <= 9
      BY <2>0, <2>5, RanksAddUp
    <3> QED BY <3>1 DEF Work
  <2>2. CASE HandlerStep \/ QueryAnswers \/ Panic
    <3>1. HandlerRank < HandlerRank'
      <4>1. CASE Begin
        BY <4>1 DEF Begin, BeginOrder, BeginOther, RespondWith, HandlerRank
      <4>2. CASE QueryAnswers \/ QueryEnds \/ PingEnds
        BY <4>2 DEF QueryAnswers, QueryEnds, PingEnds, RespondWith, HandlerRank
      <4>3. CASE WriteHeader \/ WriteBody
        BY <4>3 DEF WriteHeader, WriteBody, HandlerRank
      <4>4. CASE Panic
        BY <2>1, <4>4 DEF Panic, HandlerRank, TypeOK
      <4> QED BY <2>2, <4>1, <4>2, <4>3, <4>4 DEF HandlerStep
    <3>2. UNCHANGED <<outer, ctxErr, gone>>
      BY <2>2 DEF HandlerStep, Begin, QueryAnswers, QueryEnds, PingEnds, WriteHeader, WriteBody,
                  Panic, clientVars
    <3>3. ChainRank' = ChainRank /\ LimitRank' = LimitRank /\ ClientRank' = ClientRank
      BY <3>2 DEF ChainRank, LimitRank, ClientRank
    <3> QED BY <2>0, <2>5, <3>1, <3>3
  <2>3. CASE ClientLeaves \/ LimitElapses
    <3>1. UNCHANGED <<inner, outer>>
      BY <2>3 DEF ClientLeaves, LimitElapses, handlerVars
    <3>2. HandlerRank' = HandlerRank /\ ChainRank' = ChainRank
      BY <3>1 DEF HandlerRank, ChainRank
    <3>3. CASE ClientLeaves
      <4>1. ClientRank < ClientRank' /\ LimitRank <= LimitRank'
        BY <3>3 DEF ClientLeaves, ClientRank, LimitRank
      <4> QED BY <2>0, <2>5, <3>2, <4>1
    <3>4. CASE LimitElapses
      <4>1. LimitRank < LimitRank' /\ ClientRank' = ClientRank
        BY <3>4 DEF LimitElapses, ClientRank, LimitRank
      <4> QED BY <2>0, <2>5, <3>2, <4>1
    <3> QED BY <2>3, <3>3, <3>4
  <2>4. CASE ChainStep
    <3>1. ChainRank < ChainRank'
      BY <2>4 DEF ChainStep, HandlerReturns, GiveUp, Recover, LogRequest, ChainRank
    <3>2. UNCHANGED <<inner, ctxErr, gone>>
      BY <2>4 DEF ChainStep, HandlerReturns, GiveUp, Recover, LogRequest, handlerVars, clientVars
    <3>3. HandlerRank' = HandlerRank /\ LimitRank' = LimitRank /\ ClientRank' = ClientRank
      BY <3>2 DEF HandlerRank, LimitRank, ClientRank
    <3> QED BY <2>0, <2>5, <3>1, <3>3
  <2> QED BY <1>1, <2>2, <2>3, <2>4 DEF Next
<1>2. IInv /\ [Next]_vars => [Work < Work' /\ Work' <= 9]_vars
  BY <1>1
<1> QED BY <1>2, RequestSafety, PTL DEF Spec, EveryStepCounts

(* The guards of the steps that FairSpec is fair to. *)
HandlerCanGoOn ==
  inner \in {"run", "ping", "header", "body"} \/ (inner = "query" /\ ctxErr # "none")
ChainCanGoOn ==
  \/ outer = "serving" /\ (inner \in {"end", "panicked"} \/ (limited /\ ctxErr # "none"))
  \/ outer = "log"
LimitCanElapse == limited /\ outer = "serving" /\ ctxErr = "none"

(* No request hangs: if there is a limit, or no query is involved, one of   *)
(* the scheduled steps is always possible until the request is logged       *)
(* (router.go, the doc of NewRouter).                                       *)
RequestNeverStuck ==
  outer # "closed" /\ (limited \/ route # "order") =>
    HandlerCanGoOn \/ ChainCanGoOn \/ LimitCanElapse

THEOREM RequestsGoOn == Spec => []RequestNeverStuck
<1> DEFINE Q == inner = "query" => route = "order"
<1>1. Init => Q
  BY DEF Init
<1>2. Q /\ [Next]_vars => Q'
  BY DEF Next, HandlerStep, ChainStep, Begin, BeginOrder, BeginOther, RespondWith, QueryAnswers,
         QueryEnds, PingEnds, WriteHeader, WriteBody, Panic, ClientLeaves, LimitElapses,
         HandlerReturns, GiveUp, Recover, LogRequest, requestVars, handlerVars, vars
<1>3. IInv /\ Q => RequestNeverStuck
  BY DEF IInv, TypeOK, RequestNeverStuck, HandlerCanGoOn, ChainCanGoOn, LimitCanElapse
<1> HIDE DEF Q
<1> QED BY <1>1, <1>2, <1>3, RequestSafety, PTL DEF Spec
=============================================================================
