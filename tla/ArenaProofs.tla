---------------------------- MODULE ArenaProofs ----------------------------
(***************************************************************************)
(* Theorems about the arena, for every number of actions, every set of     *)
(* endpoints and every set of connections.  Two invariants carry them, one *)
(* about the relay set alone and one about the conversation of the host    *)
(* with its worker.                                                        *)
(***************************************************************************)
EXTENDS Arena, FiniteSetTheorems, TLAPS

----------------------------------------------------------------------------
(* The invariant of the relay set.                                         *)

\* Nothing is carried over a connection before its target is reached.
CarriedWasOpen ==
  \A c \in carried : conn[c] \in {"open", "moving", "ended"}

\* A late connection is one that close has already overtaken: its bridge
\* begins no round.
LateIsStopped ==
  \A c \in late : StopIsSet /\ conn[c] \in {"open", "ended"} /\ c \notin carried

\* The listeners are closed before the threads are waited for.
ListenersClosed ==
  relay \in {"joining", "closed"} => listening = {}

RelayInv == RelayTypeOK /\ CarriedWasOpen /\ LateIsStopped /\ ListenersClosed

----------------------------------------------------------------------------
(* The invariant of the run.                                               *)

Startup == {"relay", "spawn", "starting"}
Looping == {"loop", "ask", "receive"}
Closing == {"poll", "shutdown", "waiting", "terminated", "finally", "finish", "reported"}
After   == {"finally", "finish", "reported", "raised"}

\* What is between the host and the worker before the loop.
StartupState ==
  host \in Startup =>
    /\ ~failed /\ ~started
    /\ inbox = <<>>
    /\ sequence = 0 /\ steps = <<>> /\ began = {}
    /\ stop_reason = "action-budget"
    /\ host # "starting" => worker = "none" /\ messages = <<>>
    /\ host = "starting" =>
         \/ worker \in {"booting", "dead"} /\ messages = <<>>
         \/ worker \in {"idle", "dead"} /\ messages = <<Message("ready", 0)>>
         \/ worker \in {"ending", "dead"} /\ messages = <<Message("error", 0)>>

Request(n, fit) == [op |-> "exec", n |-> n, fit |-> fit]

\* Between two commands nothing is under way.
BetweenCommands ==
  host \in {"loop", "ask"} =>
    /\ worker \in {"idle", "dead"}
    /\ inbox = <<>> /\ messages = <<>>
    /\ began = 1..Len(steps)
    /\ sequence = Len(steps) + (IF host = "ask" THEN 1 ELSE 0)

\* During a command it is in exactly one place: with the worker, in its answer,
\* or lost with the worker.
CommandUnderWay ==
  host = "receive" =>
    /\ sequence = Len(steps) + 1
    /\ \/ /\ worker = "idle" /\ messages = <<>> /\ began = 1..Len(steps)
          /\ \E fit \in BOOLEAN : inbox = <<Request(sequence, fit)>>
       \/ /\ worker = "busy" /\ messages = <<>> /\ began = 1..sequence
          /\ \E fit \in BOOLEAN : inbox = <<Request(sequence, fit)>>
       \/ /\ worker \in {"idle", "dead"} /\ inbox = <<>> /\ began = 1..sequence
          /\ messages = <<Message("result", sequence)>>
       \/ /\ worker \in {"idle", "dead"} /\ inbox = <<>>
          /\ messages = <<Message("protocol_error", sequence)>>
       \/ worker = "dead" /\ inbox = <<>> /\ messages = <<>>

LoopState ==
  host \in Looping => ~failed /\ stop_reason = "action-budget"

\* A run that has not failed leaves the loop between two commands, and all that
\* its worker is asked afterwards is to end.
CleanEnd ==
  host \in Closing /\ ~failed =>
    /\ worker \in {"idle", "ending", "dead"}
    /\ inbox = <<>> \/ (host \notin {"poll", "shutdown"} /\ inbox = <<[op |-> "shutdown"]>>)
    /\ began = 1..Len(steps)
    /\ stop_reason = "action-budget" <=> Len(steps) = MaxActions

\* At most one line is under way until the worker is asked to end, and a worker
\* that has not come up has been sent nothing.
LinesUnderWay ==
  /\ Len(inbox) + Len(messages) <=
       IF host \in {"waiting", "terminated"} \cup After THEN 2 ELSE 1
  /\ worker \in {"none", "booting"} =>
       inbox = <<>> /\ messages = <<>> /\ ~started /\ host \in Startup \cup After

\* A busy worker has not taken its command out of its input yet.
BusyHasCommand ==
  worker = "busy" => inbox # <<>> /\ Head(inbox).op = "exec"

\* What holds once the session is left, and once the relay is closed too.
Cleanup ==
  /\ host \in After /\ started => worker = "dead"
  /\ host \in {"finish", "reported", "raised"} => Endpoints = {} \/ relay = "closed"
  /\ host = "reported" => ~failed

\* A command is late only if the deadline passed while its provider was asked.
LateCommands ==
  /\ lateStarts <= 1
  /\ lateStarts # 0 => over
  /\ host = "ask" => lateStarts = 0

\* Lines carry no number, and an answer may come after its timeout; still every
\* step of the report holds the result of its own command, because run_arena
\* leaves the session after the first answer it has not received.
AnswerOfItsCommand ==
  \A i \in DOMAIN steps : steps[i] = [sequence |-> i, result |-> i]

RunInv ==
  /\ SessionTypeOK /\ RunTypeOK
  /\ StartupState /\ LoopState /\ BetweenCommands /\ CommandUnderWay
  /\ CleanEnd /\ LinesUnderWay /\ BusyHasCommand /\ Cleanup /\ LateCommands
  /\ AnswerOfItsCommand
IInv == RelayInv /\ RunInv

----------------------------------------------------------------------------
(* The relay set.                                                          *)

\* Some thread of the relay, its owner, or a client, takes a step.
RelayStep ==
  \/ \E e \in Endpoints : BindEndpoint(e) \/ AcceptorStep(e)
  \/ \E c \in Conns : BridgeStep(c) \/ Connect(c)
  \/ BindFails \/ SetStop \/ CloseListeners \/ ThreadsJoined

\* No step of a relay thread or its owner breaks the relay's invariant: a
\* connection becomes late only as it is opened, and an open one with _stop set
\* can only end.
LEMMA RelayStepKeepsInv ==
  ASSUME RelayInv, RelayStep
  PROVE  RelayInv'
<1> USE DEF RelayInv, RelayTypeOK, CarriedWasOpen, LateIsStopped, ListenersClosed, StopIsSet
<1>1. ASSUME NEW e \in Endpoints, BindEndpoint(e) PROVE RelayInv'
  BY <1>1 DEF BindEndpoint
<1>2. ASSUME NEW e \in Endpoints, AcceptorEnds(e) PROVE RelayInv'
  BY <1>2 DEF AcceptorEnds
<1>3. ASSUME NEW c \in Conns, Accept(c) PROVE RelayInv'
  BY <1>3 DEF Accept
<1>4. ASSUME NEW c \in Conns, DialSucceeds(c) PROVE RelayInv'
  BY <1>4 DEF DialSucceeds
<1>5. ASSUME NEW c \in Conns, DialFails(c) PROVE RelayInv'
  BY <1>5 DEF DialFails
<1>6. ASSUME NEW c \in Conns, BridgeStep(c) PROVE RelayInv'
  BY <1>6 DEF BridgeStep, BeginRound, Forward, EndOfStream, BridgeStops
<1>7. ASSUME NEW c \in Conns, Connect(c) PROVE RelayInv'
  BY <1>7 DEF Connect
<1>8. CASE BindFails \/ SetStop \/ ThreadsJoined
  BY <1>8 DEF BindFails, SetStop, ThreadsJoined
<1>9. CASE CloseListeners
  BY <1>9 DEF CloseListeners
<1> QED
  BY <1>1, <1>2, <1>3, <1>4, <1>5, <1>6, <1>7, <1>8, <1>9 DEF RelayStep, AcceptorStep, ConnsOf

\* A step that leaves the relay alone keeps its invariant.
LEMMA RelayStutterKeepsInv ==
  ASSUME RelayInv, UNCHANGED relayVars
  PROVE  RelayInv'
BY DEF relayVars, RelayInv, RelayTypeOK, CarriedWasOpen, LateIsStopped, ListenersClosed, StopIsSet

----------------------------------------------------------------------------
(* The run: one step per action.                                           *)

\* A line is sent: what appending does to the type, the length and the head.
LEMMA AppendFacts ==
  ASSUME NEW S, NEW s \in Seq(S), NEW x \in S
  PROVE  /\ Append(s, x) \in Seq(S)
         /\ Len(Append(s, x)) = Len(s) + 1
         /\ s # <<>> => Head(Append(s, x)) = Head(s)
OBVIOUS

\* A line is received: what taking the head off does to the type and the length.
LEMMA TailFacts ==
  ASSUME NEW S, NEW s \in Seq(S), s # <<>>
  PROVE  Head(s) \in S /\ Tail(s) \in Seq(S) /\ Len(Tail(s)) = Len(s) - 1
OBVIOUS

\* Only the empty queue has length zero.
LEMMA LenFacts ==
  ASSUME NEW S, NEW s \in Seq(S)
  PROVE  Len(s) \in Nat /\ (Len(s) = 0 <=> s = <<>>)
OBVIOUS

\* A queue of one line: how it comes about, and what is left of it.
LEMMA OneLine ==
  ASSUME NEW x
  PROVE  /\ Append(<<>>, x) = <<x>>
         /\ Head(<<x>>) = x /\ Tail(<<x>>) = <<>>
         /\ <<x>> # <<>> /\ Len(<<x>>) = 1
OBVIOUS

\* The steps of start, close, and of a request that fails.
SessionStep ==
  Spawn \/ SpawnFails \/ ReceiveReady \/ StartupFails \/ AnswerIsLate \/ CloseStep

\* The steps of run_arena itself, with the request and the answer of a command.
LoopStep ==
  \/ RelayStarted \/ RelayClosed \/ WriteReport \/ RunRaises
  \/ LoopEnds \/ NextAction \/ ProviderIsDone \/ ProviderFails
  \/ ProviderCommands \/ TakeAnswer

\* The relay, the deadline and the operator.
SurroundingStep ==
  \/ StartRelay \/ CloseRelay \/ DeadlinePasses \/ Interrupt \/ UNCHANGED vars
  \/ (CommandConnects \/ RelayThreads) /\ UNCHANGED <<sessionVars, runVars>>

\* Whatever the worker does, a line keeps to its command.
LEMMA WorkerKeepsInv ==
  ASSUME RunInv, UNCHANGED <<relayVars, runVars>>, WorkerStep \/ WorkerDies
  PROVE  RunInv'
<1> USE ArenaAssumption
    DEF RunInv, SessionTypeOK, RunTypeOK, StartupState, LoopState, BetweenCommands,
       CommandUnderWay, CleanEnd, LinesUnderWay, BusyHasCommand, Cleanup, LateCommands,
       AnswerOfItsCommand, Startup, Looping, Closing, After, HostPhases, MessageTypes,
       Requests, Message, Request, sessionVars, relayVars, runVars
<1>1. CASE WorkerReady
  BY <1>1 DEF WorkerReady
<1>2. CASE WorkerNotReady
  BY <1>2 DEF WorkerNotReady
<1>3. CASE BeginCommand
  <2>1. SessionTypeOK' /\ RunTypeOK'
    <3>1. Head(inbox) \in Requests
      BY <1>3, TailFacts DEF BeginCommand, Asked
    <3>2. Head(inbox).op = "exec" => Head(inbox).n \in Nat
      BY <3>1
    <3> QED
      BY <1>3, <3>2 DEF BeginCommand, Asked
  <2>2. /\ StartupState' /\ LoopState' /\ BetweenCommands' /\ CommandUnderWay'
       /\ CleanEnd' /\ LinesUnderWay' /\ BusyHasCommand' /\ Cleanup'
       /\ LateCommands' /\ AnswerOfItsCommand'
    BY <1>3 DEF BeginCommand, Asked
  <2> QED
    BY <2>1, <2>2
<1>4. CASE RefuseCommand
  <2>1. CommandUnderWay'
    <3>1. SUFFICES ASSUME host = "receive" PROVE CommandUnderWay'
      BY <1>4 DEF RefuseCommand
    <3>2. PICK fit \in BOOLEAN : inbox = <<Request(sequence, fit)>>
      BY <1>4, <3>1 DEF RefuseCommand, Asked
    <3>3. messages = <<>>
      BY <1>4, <3>1 DEF RefuseCommand, Asked
    <3>4. /\ inbox' = <<>>
          /\ messages' = <<Message("protocol_error", sequence)>>
      BY <1>4, <3>2, <3>3, OneLine DEF RefuseCommand
    <3> QED
      BY <1>4, <3>1, <3>4 DEF RefuseCommand
  <2>2. /\ SessionTypeOK' /\ RunTypeOK' /\ StartupState' /\ LoopState'
       /\ BetweenCommands' /\ CleanEnd' /\ LinesUnderWay' /\ BusyHasCommand'
       /\ Cleanup' /\ LateCommands' /\ AnswerOfItsCommand'
    BY <1>4 DEF RefuseCommand, Asked
  <2> QED
    BY <2>1, <2>2
<1>5. CASE AnswerCommand
  <2>1. SessionTypeOK' /\ RunTypeOK' /\ StartupState'
    BY <1>5 DEF AnswerCommand
  <2>2. LoopState' /\ BetweenCommands'
    BY <1>5 DEF AnswerCommand
  <2>3. CommandUnderWay'
    BY <1>5 DEF AnswerCommand
  <2>4. CleanEnd'
    BY <1>5 DEF AnswerCommand
  <2>5. LinesUnderWay' /\ BusyHasCommand' /\ Cleanup' /\ LateCommands' /\ AnswerOfItsCommand'
    BY <1>5 DEF AnswerCommand
  <2> QED
    BY <2>1, <2>2, <2>3, <2>4, <2>5
<1>6. CASE ObeyShutdown
  <2>1. /\ inbox # <<>> /\ inbox' = Tail(inbox) /\ Len(inbox') = Len(inbox) - 1
        /\ inbox' \in Seq(Requests)
    BY <1>6, TailFacts DEF ObeyShutdown, Asked
  <2>2. SessionTypeOK' /\ RunTypeOK'
    BY <1>6, <2>1 DEF ObeyShutdown
  <2>3. StartupState' /\ LoopState' /\ BetweenCommands' /\ CommandUnderWay'
    BY <1>6 DEF ObeyShutdown, Asked
  <2>4. CleanEnd'
    BY <1>6, OneLine DEF ObeyShutdown, Asked
  <2>5. LinesUnderWay' /\ BusyHasCommand' /\ Cleanup' /\ LateCommands' /\ AnswerOfItsCommand'
    BY <1>6, <2>1 DEF ObeyShutdown
  <2> QED
    BY <2>2, <2>3, <2>4, <2>5
<1>7. CASE WorkerExits
  BY <1>7 DEF WorkerExits
<1>8. CASE WorkerDies
  BY <1>8 DEF WorkerDies
<1> QED
  BY <1>1, <1>2, <1>3, <1>4, <1>5, <1>6, <1>7, <1>8 DEF WorkerStep

\* The session, from its start to the end of close: a run that has not failed
\* sends its worker nothing but the request to end.
LEMMA SessionKeepsInv ==
  ASSUME RunInv, SessionStep, UNCHANGED <<relayVars, runVars>>
  PROVE  RunInv'
<1> USE ArenaAssumption
    DEF RunInv, SessionTypeOK, RunTypeOK, StartupState, LoopState, BetweenCommands,
       CommandUnderWay, CleanEnd, LinesUnderWay, BusyHasCommand, Cleanup, LateCommands,
       AnswerOfItsCommand, Startup, Looping, Closing, After, HostPhases, MessageTypes,
       Requests, Message, Request, sessionVars, relayVars, runVars
<1>1. CASE Spawn
  BY <1>1 DEF Spawn
<1>2. CASE SpawnFails
  BY <1>2 DEF SpawnFails
<1>3. CASE ReceiveReady
  <2>1. SessionTypeOK' /\ RunTypeOK'
    BY <1>3, TailFacts, OneLine DEF ReceiveReady
  <2>2. /\ StartupState' /\ LoopState' /\ BetweenCommands' /\ CommandUnderWay'
       /\ CleanEnd' /\ LinesUnderWay' /\ BusyHasCommand' /\ Cleanup'
       /\ LateCommands' /\ AnswerOfItsCommand'
    BY <1>3 DEF ReceiveReady
  <2> QED
    BY <2>1, <2>2
<1>4. CASE StartupFails
  BY <1>4 DEF StartupFails
<1>5. CASE AnswerIsLate
  BY <1>5 DEF AnswerIsLate
<1>6. CASE Poll
  BY <1>6 DEF Poll
<1>7. CASE AskShutdown
  <2>1. CleanEnd'
    BY <1>7, OneLine DEF AskShutdown
  <2>2. LinesUnderWay' /\ BusyHasCommand'
    <3>1. [op |-> "shutdown"] \in Requests
      OBVIOUS
    <3>2. Len(inbox') = Len(inbox) + 1 /\ (inbox # <<>> => Head(inbox') = Head(inbox))
      BY <1>7, <3>1, AppendFacts DEF AskShutdown
    <3> QED
      BY <1>7, <3>2, LenFacts DEF AskShutdown
  <2>3. /\ SessionTypeOK' /\ RunTypeOK' /\ StartupState' /\ LoopState'
       /\ BetweenCommands' /\ CommandUnderWay' /\ Cleanup' /\ LateCommands'
       /\ AnswerOfItsCommand'
    BY <1>7 DEF AskShutdown
  <2> QED
    BY <2>1, <2>2, <2>3
<1>8. CASE PipeBreaks
  BY <1>8 DEF PipeBreaks
<1>9. CASE WorkerWaited
  BY <1>9 DEF WorkerWaited
<1>10. CASE Terminate
  BY <1>10 DEF Terminate
<1>11. CASE Kill
  BY <1>11 DEF Kill
<1> QED
  BY <1>1, <1>2, <1>3, <1>4, <1>5, <1>6, <1>7, <1>8, <1>9, <1>10, <1>11 DEF SessionStep, CloseStep

\* The loop of run_arena: a command is sent when nothing is under way, and an
\* answer is taken when it is the only thing under way.
LEMMA LoopKeepsInv ==
  ASSUME RunInv, LoopStep
  PROVE  RunInv'
<1> USE ArenaAssumption
    DEF RunInv, SessionTypeOK, RunTypeOK, StartupState, LoopState, BetweenCommands,
       CommandUnderWay, CleanEnd, LinesUnderWay, BusyHasCommand, Cleanup, LateCommands,
       AnswerOfItsCommand, Startup, Looping, Closing, After, HostPhases, MessageTypes,
       Requests, Message, Request, sessionVars, relayVars, runVars
<1>1. CASE RelayStarted
  BY <1>1 DEF RelayStarted, Continue
<1>2. CASE RelayClosed
  BY <1>2 DEF RelayClosed, Continue
<1>3. CASE WriteReport
  BY <1>3 DEF WriteReport, Continue
<1>4. CASE RunRaises
  BY <1>4 DEF RunRaises, Raise
<1>5. CASE LoopEnds
  BY <1>5 DEF LoopEnds, Continue
<1>6. CASE NextAction
  BY <1>6 DEF NextAction, Continue
<1>7. CASE ProviderIsDone
  BY <1>7 DEF ProviderIsDone, Continue
<1>8. CASE ProviderFails
  BY <1>8 DEF ProviderFails, Raise
<1>9. CASE ProviderCommands
  <2> PICK fit \in BOOLEAN : Send(sequence, fit)
    BY <1>9 DEF ProviderCommands
  <2>1. inbox = <<>> /\ messages = <<>> /\ worker \in {"idle", "dead"}
    BY DEF Send
  <2>2. Len(inbox) = 0 /\ Len(messages) = 0
    BY <2>1, LenFacts
  <2>3. Request(sequence, fit) \in Requests
    OBVIOUS
  <2>4. inbox' = inbox \/ inbox' = Append(inbox, Request(sequence, fit))
    BY DEF Send
  <2>5. inbox' \in Seq(Requests) /\ Len(inbox') <= 1
    <3>1. /\ Append(inbox, Request(sequence, fit)) \in Seq(Requests)
          /\ Len(Append(inbox, Request(sequence, fit))) = 1
      BY <2>2, <2>3, AppendFacts
    <3>2. CASE inbox' = inbox
      BY <2>2, <3>2
    <3>3. CASE inbox' = Append(inbox, Request(sequence, fit))
      BY <3>1, <3>3
    <3> QED
      BY <2>4, <3>2, <3>3
  <2>6. SessionTypeOK' /\ RunTypeOK'
    <3>1. host' \in HostPhases /\ failed' \in BOOLEAN
      BY DEF Send
    <3> QED
      BY <1>9, <2>5, <3>1 DEF ProviderCommands, Send
  <2>7. LinesUnderWay' /\ BusyHasCommand'
    BY <2>1, <2>2, <2>5 DEF Send
  <2>8. CommandUnderWay'
    BY <1>9, <2>1, OneLine DEF ProviderCommands, Send
  <2>9. StartupState' /\ LoopState' /\ BetweenCommands'
    BY <1>9 DEF ProviderCommands, Send
  <2>10. CleanEnd' /\ Cleanup'
    BY <1>9 DEF ProviderCommands, Send
  <2>11. LateCommands' /\ AnswerOfItsCommand'
    BY <1>9 DEF ProviderCommands, Send
  <2> QED
    BY <2>6, <2>7, <2>8, <2>9, <2>10, <2>11
<1>10. CASE TakeAnswer
  <2>1. SessionTypeOK' /\ RunTypeOK'
    <3>1. Head(messages).type = "result" => Head(messages).n = sequence
      BY <1>10, OneLine DEF TakeAnswer, ReceiveAnswer
    <3>2. sequence \in 1..MaxActions
      BY <1>10, LenFacts DEF TakeAnswer, ReceiveAnswer
    <3>3. steps' \in Seq([sequence : 1..MaxActions, result : 1..MaxActions])
      BY <1>10, <3>1, <3>2, AppendFacts DEF TakeAnswer
    <3>4. messages' \in Seq([type : MessageTypes, n : Nat]) /\ Len(messages') <= 2
      BY <1>10, TailFacts, LenFacts DEF TakeAnswer, ReceiveAnswer
    <3> QED
      BY <1>10, <3>3, <3>4 DEF TakeAnswer, ReceiveAnswer
  <2>2. StartupState' /\ LoopState' /\ BetweenCommands'
    <3>1. host' = "loop" =>
            /\ inbox = <<>> /\ worker \in {"idle", "dead"} /\ began = 1..sequence
            /\ messages = <<Message("result", sequence)>>
      BY <1>10, OneLine DEF TakeAnswer, ReceiveAnswer
    <3>2. host' = "loop" => messages' = <<>> /\ Head(messages).type = "result"
      BY <1>10, <3>1, OneLine DEF TakeAnswer, ReceiveAnswer
    <3>3. host' = "loop" => Len(steps') = sequence
      BY <1>10, <3>2 DEF TakeAnswer, ReceiveAnswer
    <3>4. CASE host' = "loop"
      BY <1>10, <3>1, <3>2, <3>3, <3>4 DEF TakeAnswer, ReceiveAnswer
    <3>5. CASE host' = "poll"
      BY <3>5
    <3> QED
      BY <1>10, <3>4, <3>5 DEF TakeAnswer, ReceiveAnswer
  <2>a. /\ host' = "loop" \/ (host' = "poll" /\ failed')
        /\ UNCHANGED <<inbox, worker, started, relay, over, lateStarts>>
    BY <1>10 DEF TakeAnswer, ReceiveAnswer
  <2>b. inbox = <<>> /\ messages' = <<>> /\ worker \in {"idle", "dead"}
    <3>1. \E x : messages = <<x>>
      BY <1>10 DEF TakeAnswer, ReceiveAnswer
    <3>2. messages' = <<>>
      BY <1>10, <3>1, OneLine DEF TakeAnswer, ReceiveAnswer
    <3>3. inbox = <<>> /\ worker \in {"idle", "dead"}
      BY <1>10 DEF TakeAnswer, ReceiveAnswer
    <3> QED
      BY <3>2, <3>3
  <2>3. CommandUnderWay' /\ CleanEnd'
    BY <2>a
  <2>4. LinesUnderWay'
    BY <2>a, <2>b
  <2>5. BusyHasCommand' /\ Cleanup'
    BY <2>a, <2>b
  <2>6. LateCommands'
    BY <1>10, <2>a DEF TakeAnswer, ReceiveAnswer
  <2>7. AnswerOfItsCommand'
    BY <1>10 DEF TakeAnswer, ReceiveAnswer
  <2> QED
    BY <2>1, <2>2, <2>3, <2>4, <2>5, <2>6, <2>7
<1> QED
  BY <1>1, <1>2, <1>3, <1>4, <1>5, <1>6, <1>7, <1>8, <1>9, <1>10 DEF LoopStep

\* The relay, the deadline and the operator do not touch the conversation: an
\* interrupt leaves the loop, and nothing after it reads an answer.
LEMMA SurroundingsKeepInv ==
  ASSUME RunInv, SurroundingStep
  PROVE  RunInv'
<1> USE ArenaAssumption
    DEF RunInv, SessionTypeOK, RunTypeOK, StartupState, LoopState, BetweenCommands,
       CommandUnderWay, CleanEnd, LinesUnderWay, BusyHasCommand, Cleanup, LateCommands,
       AnswerOfItsCommand, Startup, Looping, Closing, After, HostPhases, MessageTypes,
       Requests, Message, Request, sessionVars, relayVars, runVars
<1>1. CASE StartRelay \/ CloseRelay
  <2>1. CASE StartRelay /\ UNCHANGED <<sessionVars, runVars>>
    BY <1>1, <2>1 DEF StartRelay, Raise
  <2>2. CASE StartRelay /\ Raise("relay", "finally") /\ UNCHANGED runVars
    BY <1>1, <2>2 DEF StartRelay, Raise
  <2>3. CASE CloseRelay
    BY <1>1, <2>3 DEF CloseRelay
  <2> QED
    BY <1>1, <2>1, <2>2, <2>3 DEF StartRelay
<1>2. CASE DeadlinePasses
  BY <1>2 DEF DeadlinePasses
<1>3. CASE Interrupt
  <2>1. SessionTypeOK' /\ RunTypeOK' /\ StartupState'
    BY <1>3 DEF Interrupt, Raise
  <2>2. LoopState' /\ BetweenCommands' /\ CommandUnderWay' /\ CleanEnd'
    <3>1. host' \in {"finally", "poll"} /\ failed'
      BY <1>3 DEF Interrupt, Raise
    <3> QED
      BY <3>1
  <2>3. LinesUnderWay' /\ BusyHasCommand'
    BY <1>3 DEF Interrupt, Raise
  <2>4. Cleanup' /\ LateCommands'
    BY <1>3 DEF Interrupt, Raise
  <2>5. AnswerOfItsCommand'
    BY <1>3 DEF Interrupt, Raise
  <2> QED
    BY <2>1, <2>2, <2>3, <2>4, <2>5
<1>4. CASE (CommandConnects \/ RelayThreads) /\ UNCHANGED <<sessionVars, runVars>>
  <2>1. UNCHANGED relay
    BY <1>4 DEF CommandConnects, Connect, RelayThreads, AcceptorStep, AcceptorEnds, Accept,
         DialSucceeds, DialFails, BridgeStep, BeginRound, Forward, EndOfStream, BridgeStops
  <2> QED
    BY <1>4, <2>1
<1>5. CASE UNCHANGED vars
  BY <1>5 DEF vars
<1> QED
  BY <1>1, <1>2, <1>3, <1>4, <1>5 DEF SurroundingStep

\* Every step of the arena keeps the invariant of the run.
LEMMA RunStepKeepsInv ==
  ASSUME RunInv, [Next]_vars
  PROVE  RunInv'
<1>1. CASE HostStep
  BY <1>1, SessionKeepsInv, LoopKeepsInv, SurroundingsKeepInv
     DEF HostStep, SessionStep, LoopStep, SurroundingStep
<1>2. CASE Environment
  BY <1>2, WorkerKeepsInv, SurroundingsKeepInv
     DEF Environment, CommandConnects, SurroundingStep
<1>3. CASE UNCHANGED vars
  BY <1>3, SurroundingsKeepInv DEF SurroundingStep
<1> QED
  BY <1>1, <1>2, <1>3 DEF Next, Terminated

----------------------------------------------------------------------------
(* The theorems.                                                           *)

\* Nothing is under way before the relay is started.
LEMMA InitInv == Init => IInv
<1> SUFFICES ASSUME Init PROVE IInv
  OBVIOUS
<1>1. RelayInv
  BY DEF Init, RelayInit, RelayInv, RelayTypeOK, CarriedWasOpen, LateIsStopped, ListenersClosed,
         StopIsSet
<1>2. SessionTypeOK /\ RunTypeOK
  <2>1. inbox \in Seq(Requests) /\ Len(inbox) <= 2
    BY DEF Init, SessionInit
  <2>2. messages \in Seq([type : MessageTypes, n : Nat]) /\ Len(messages) <= 2
    BY DEF Init, SessionInit
  <2>3. steps \in Seq([sequence : 1..MaxActions, result : 1..MaxActions])
    BY DEF Init
  <2>4. SessionTypeOK
    BY <2>1, <2>2 DEF Init, SessionInit, SessionTypeOK, HostPhases
  <2>5. RunTypeOK
    <3>1. sequence \in 0..MaxActions
      BY ArenaAssumption DEF Init
    <3>2. over \in BOOLEAN /\ lateStarts \in Nat
      BY DEF Init
    <3>3. stop_reason \in {"action-budget", "session-timeout", "agent-finished"}
      BY DEF Init
    <3> QED
      BY <2>3, <3>1, <3>2, <3>3 DEF RunTypeOK
  <2> QED
    BY <2>4, <2>5
<1>3. /\ StartupState /\ LoopState /\ BetweenCommands /\ CommandUnderWay
      /\ CleanEnd /\ LinesUnderWay /\ BusyHasCommand
      /\ Cleanup /\ LateCommands /\ AnswerOfItsCommand
  BY DEF Init, SessionInit, StartupState, LoopState, BetweenCommands, CommandUnderWay, CleanEnd,
         LinesUnderWay, BusyHasCommand, Cleanup, LateCommands, AnswerOfItsCommand, Startup,
         Looping, Closing, After
<1> QED
  BY <1>1, <1>2, <1>3 DEF IInv, RunInv

\* A step of the arena is one of the relay, or leaves it alone.
LEMMA EveryRelayStep ==
  ASSUME [Next]_vars
  PROVE  RelayStep \/ UNCHANGED relayVars
BY DEF Next, HostStep, Environment, Terminated, vars, StartRelay, CloseRelay, RelayStep,
       CommandConnects, RelayThreads, RelayStarted, RelayClosed, WriteReport, RunRaises,
       LoopEnds, NextAction, ProviderIsDone, ProviderFails, ProviderCommands, TakeAnswer,
       DeadlinePasses, Interrupt, Continue

\* Every step of the arena keeps both invariants.
LEMMA NextKeepsInv ==
  ASSUME IInv, [Next]_vars
  PROVE  IInv'
<1>1. RelayStep \/ UNCHANGED relayVars
  BY EveryRelayStep
<1>2. RelayInv'
  BY <1>1, RelayStepKeepsInv, RelayStutterKeepsInv DEF IInv
<1>3. RunInv'
  BY RunStepKeepsInv DEF IInv
<1> QED
  BY <1>2, <1>3 DEF IInv

\* The two invariants together are inductive.
THEOREM Invariant == Spec => []IInv
<1>1. Init => IInv
  BY InitInv
<1>2. IInv /\ [Next]_vars => IInv'
  BY NextKeepsInv
<1> QED
  BY <1>1, <1>2, PTL DEF Spec

\* Type correctness; with its bounds on the lines that wait on either side.
THEOREM TypeCorrect == Spec => []TypeOK
<1>1. IInv => TypeOK
  BY DEF IInv, RelayInv, RunInv, TypeOK
<1> QED
  BY <1>1, Invariant, PTL

\* For every number of commands: the result that is filed under a command is the
\* answer to this command, although answers carry no number.
THEOREM AnswersMatch == Spec => []AnswerOfItsCommand
<1>1. IInv => AnswerOfItsCommand
  BY DEF IInv, RunInv
<1> QED
  BY <1>1, Invariant, PTL

\* A report that is written is complete, and names the true reason.
THEOREM ReportsComplete == Spec => []ReportIsComplete
<1>1. IInv => ReportIsComplete
  BY DEF IInv, RunInv, CleanEnd, Cleanup, Closing, ReportIsComplete
<1> QED
  BY <1>1, Invariant, PTL

\* For every budget, at most one command is sent after the session deadline.
THEOREM OneLateCommand == Spec => []AtMostOneLateCommand
<1>1. IInv => AtMostOneLateCommand
  BY DEF IInv, RunInv, LateCommands, AtMostOneLateCommand
<1> QED
  BY <1>1, Invariant, PTL

\* For every set of endpoints: run_arena leaves no listener open, and no worker
\* behind that it had started.
THEOREM EverythingTakenDown == Spec => []NothingLeftBehind
<1>1. IInv => NothingLeftBehind
  BY DEF IInv, RelayInv, RelayTypeOK, ListenersClosed, RunInv, Cleanup, After, NothingLeftBehind,
         Ended, Alive
<1> QED
  BY <1>1, Invariant, PTL

\* For every set of connections: nothing is forwarded over one that reached its
\* target after close had begun.
THEOREM LateConnectionsMute == Spec => []LateConnectionIsMute
<1>1. IInv => LateConnectionIsMute
  BY DEF IInv, RelayInv, LateIsStopped, LateConnectionIsMute
<1> QED
  BY <1>1, Invariant, PTL
----------------------------------------------------------------------------
(* The refinement of Conversation.                                         *)

\* Also in a run that has failed, a command that the worker has not answered is
\* the one after those of the report, and was started only if the worker is busy
\* with it; the request to end may wait behind it.
CommandWithWorker ==
  /\ Unanswered =>
       /\ Head(inbox).n = Len(steps) + 1
       /\ worker \in {"idle", "busy"}
       /\ began = 1..(IF worker = "busy" THEN Len(steps) + 1 ELSE Len(steps))
       /\ host = "receive" \/ failed
  /\ \A i \in 2..Len(inbox) : inbox[i].op = "shutdown"

\* With nothing in its input, the worker has no command.
LEMMA EmptyInput ==
  ASSUME inbox' = <<>>
  PROVE  CommandWithWorker'
BY DEF CommandWithWorker, Unanswered

\* The line after the first is no command.
LEMMA LineTaken ==
  ASSUME CommandWithWorker, SessionTypeOK, inbox # <<>>, inbox' = Tail(inbox)
  PROVE  CommandWithWorker' /\ ~Unanswered'
<1>1. inbox \in Seq(Requests)
  BY DEF SessionTypeOK
<1>2. Len(inbox') = Len(inbox) - 1 /\ Len(inbox) \in Nat
  BY <1>1
<1>3. \A i \in 1..Len(inbox') : inbox'[i] = inbox[i + 1] /\ i + 1 \in 2..Len(inbox)
  BY <1>1, <1>2
<1>4. \A i \in 1..Len(inbox') : inbox'[i].op = "shutdown"
  BY <1>3 DEF CommandWithWorker
<1>5. inbox' # <<>> => Len(inbox') >= 1 /\ Head(inbox') = inbox'[1]
  BY <1>1, <1>2
<1>6. inbox' # <<>> => Head(inbox').op = "shutdown"
  BY <1>2, <1>4, <1>5
<1>7. ~Unanswered'
  BY <1>6 DEF Unanswered
<1> QED
  BY <1>2, <1>4, <1>7 DEF CommandWithWorker

\* A step that is not about a command leaves it where it is, and who leaves a
\* command behind has failed.
LEMMA CommandLeftAlone ==
  ASSUME CommandWithWorker, UNCHANGED <<inbox, worker, began, steps>>, failed => failed',
         host = "receive" => host' = "receive" \/ failed'
  PROVE  CommandWithWorker'
BY DEF CommandWithWorker, Unanswered

\* The four kinds of steps of an arena.
LEMMA StepKinds ==
  ASSUME [Next]_vars
  PROVE  \/ UNCHANGED <<relayVars, runVars>> /\ (WorkerStep \/ WorkerDies)
         \/ UNCHANGED <<relayVars, runVars>> /\ SessionStep
         \/ LoopStep
         \/ SurroundingStep
BY DEF Next, HostStep, Environment, Terminated, SessionStep, LoopStep, SurroundingStep,
       CommandConnects

\* Every step of the arena keeps the command where the invariant says it is.
LEMMA CommandStays ==
  ASSUME RunInv, CommandWithWorker, [Next]_vars
  PROVE  CommandWithWorker'
<1>t. SessionTypeOK /\ inbox \in Seq(Requests) /\ Len(steps) \in Nat
  BY DEF RunInv, SessionTypeOK, RunTypeOK
<1>1. ASSUME UNCHANGED <<relayVars, runVars>>, WorkerStep \/ WorkerDies
      PROVE  CommandWithWorker'
  <2>1. CASE WorkerReady \/ WorkerNotReady
    BY <1>1, <2>1 DEF WorkerReady, WorkerNotReady, CommandWithWorker, Unanswered, runVars
  <2>2. CASE BeginCommand
    BY <1>1, <1>t, <2>2 DEF BeginCommand, Asked, CommandWithWorker, Unanswered, runVars
  <2>3. CASE RefuseCommand \/ ObeyShutdown
    BY <1>t, <2>3, LineTaken DEF RefuseCommand, ObeyShutdown, Asked
  <2>4. CASE AnswerCommand
    BY <1>t, <2>4, LineTaken DEF AnswerCommand, RunInv, BusyHasCommand
  <2>5. CASE WorkerExits \/ WorkerDies
    BY <2>5, EmptyInput DEF WorkerExits, WorkerDies
  <2> QED
    BY <1>1, <2>1, <2>2, <2>3, <2>4, <2>5 DEF WorkerStep
<1>2. ASSUME UNCHANGED <<relayVars, runVars>>, SessionStep
      PROVE  CommandWithWorker'
  <2>1. CASE Spawn
    <3>1. inbox' = <<>>
      BY <2>1 DEF Spawn, RunInv, StartupState, Startup
    <3> QED
      BY <3>1, EmptyInput
  <2>2. CASE \/ SpawnFails \/ ReceiveReady \/ StartupFails \/ AnswerIsLate
             \/ Poll \/ PipeBreaks \/ WorkerWaited \/ Terminate
    BY <1>2, <2>2, CommandLeftAlone
       DEF SpawnFails, ReceiveReady, StartupFails, AnswerIsLate, Poll, PipeBreaks,
           WorkerWaited, Terminate, runVars
  <2>3. CASE AskShutdown
    <3>1. [op |-> "shutdown"] \in Requests
      BY DEF Requests
    <3>2. /\ Len(inbox') = Len(inbox) + 1 /\ Len(inbox) \in Nat
          /\ \A i \in 1..Len(inbox) : inbox'[i] = inbox[i]
          /\ inbox'[Len(inbox) + 1].op = "shutdown"
      BY <1>t, <2>3, <3>1 DEF AskShutdown
    <3>3. \A i \in 2..Len(inbox') : inbox'[i].op = "shutdown"
      BY <3>2 DEF CommandWithWorker
    <3>4. CASE inbox = <<>>
      <4>1. inbox' = <<[op |-> "shutdown"]>>
        BY <2>3, <3>4, OneLine DEF AskShutdown
      <4>2. Head(inbox').op = "shutdown"
        BY <4>1, OneLine
      <4> QED
        BY <3>3, <4>2 DEF CommandWithWorker, Unanswered
    <3>5. CASE inbox # <<>>
      <4>1. Head(inbox') = Head(inbox)
        BY <1>t, <2>3, <3>1, <3>5, AppendFacts DEF AskShutdown
      <4> QED
        BY <1>2, <2>3, <3>3, <3>5, <4>1 DEF CommandWithWorker, Unanswered, AskShutdown, runVars
    <3> QED
      BY <3>4, <3>5
  <2>4. CASE Kill
    BY <2>4, EmptyInput DEF Kill
  <2> QED
    BY <1>2, <2>1, <2>2, <2>3, <2>4 DEF SessionStep, CloseStep
<1>3. ASSUME LoopStep PROVE CommandWithWorker'
  <2>1. CASE ProviderCommands
    <3> PICK fit \in BOOLEAN : Send(sequence, fit)
      BY <2>1 DEF ProviderCommands
    <3>1. /\ inbox = <<>> /\ worker \in {"idle", "dead"} /\ began = 1..Len(steps)
          /\ sequence = Len(steps) + 1 /\ UNCHANGED <<steps, worker, began>>
      BY <2>1 DEF Send, ProviderCommands, RunInv, BetweenCommands
    <3>2. CASE inbox' = inbox
      BY <3>1, <3>2, EmptyInput
    <3>3. CASE worker # "dead" /\ host' = "receive" /\ inbox' = <<Request(sequence, fit)>>
      <4>1. Head(inbox').n = Len(steps) + 1 /\ Len(inbox') = 1
        BY <3>1, <3>3, OneLine DEF Request
      <4> QED
        BY <3>1, <3>3, <4>1 DEF CommandWithWorker
    <3>4. inbox' = inbox \/ (worker # "dead" /\ host' = "receive"
                             /\ inbox' = <<Request(sequence, fit)>>)
      BY <3>1, OneLine DEF Send, Request
    <3> QED
      BY <3>2, <3>3, <3>4
  <2>2. CASE TakeAnswer
    <3>1. inbox' = <<>>
      BY <2>2 DEF TakeAnswer, ReceiveAnswer, RunInv, CommandUnderWay
    <3> QED
      BY <3>1, EmptyInput
  <2>3. CASE \/ RelayStarted \/ RelayClosed \/ WriteReport \/ RunRaises
             \/ LoopEnds \/ NextAction \/ ProviderIsDone \/ ProviderFails
    BY <2>3, CommandLeftAlone
       DEF RelayStarted, RelayClosed, WriteReport, RunRaises, LoopEnds, NextAction,
           ProviderIsDone, ProviderFails, Continue, Raise, runVars
  <2> QED
    BY <1>3, <2>1, <2>2, <2>3 DEF LoopStep
<1>4. ASSUME SurroundingStep PROVE CommandWithWorker'
  BY <1>4, CommandLeftAlone
     DEF SurroundingStep, StartRelay, CloseRelay, DeadlinePasses, Interrupt, Raise, vars,
         sessionVars, runVars
<1> QED
  BY <1>1, <1>2, <1>3, <1>4, StepKinds

\* Where the command under way is read off.
HandAgrees ==
  /\ Len(steps) \in Nat
  /\ host = "receive" \/ Unanswered => CommandInHand = Len(steps) + 1
  /\ host # "receive" /\ ~Unanswered => CommandInHand = 0

ConversationInv == RunInv /\ CommandWithWorker /\ HandAgrees

\* It is the one after those of the report.
LEMMA CommandIsNext == RunInv /\ CommandWithWorker => HandAgrees
BY DEF RunInv, RunTypeOK, CommandUnderWay, CommandWithWorker, HandAgrees, CommandInHand

\* The invariant the refinement rests on.
LEMMA ConversationHolds == Spec => []ConversationInv
<1>1. Init => CommandWithWorker
  BY DEF Init, SessionInit, CommandWithWorker, Unanswered
<1>2. RunInv /\ CommandWithWorker /\ [Next]_vars => CommandWithWorker'
  BY CommandStays
<1>3. IInv => RunInv
  BY DEF IInv
<1>4. RunInv /\ CommandWithWorker => ConversationInv
  BY CommandIsNext DEF ConversationInv
<1> QED
  BY <1>1, <1>2, <1>3, <1>4, Invariant, PTL DEF Spec

\* A step of the arena that the abstract conversation does not see.
LEMMA Unseen ==
  ASSUME UNCHANGED <<began, steps, CommandInHand, Outcome>>,
         (worker = "busy") <=> (worker' = "busy")
  PROVE  UNCHANGED Abstract!vars
BY DEF Abstract!vars

\* Once the conversation is broken, its command is forgotten when the worker has
\* no more of it, whether it ran or not.
LEMMA EndsUnheard ==
  ASSUME ConversationInv, ConversationInv', failed, failed', worker' # "busy",
         UNCHANGED <<began, steps>>, host' # "receive", ~Unanswered'
  PROVE  Abstract!End
BY DEF ConversationInv, HandAgrees, Abstract!End, Abstract!Nothing, Outcome

\* Whatever raises breaks the conversation, and may leave the command behind.
LEMMA Breaks ==
  ASSUME ConversationInv, ConversationInv', ~failed, failed', host # "reported",
         UNCHANGED <<began, steps, worker, inbox>>, host' # "receive"
  PROVE  Abstract!Break
<1>1. (Unanswered <=> Unanswered') /\ CommandInHand' \in {CommandInHand, 0}
  BY DEF ConversationInv, HandAgrees, Unanswered
<1> QED
  BY <1>1 DEF Abstract!Break, Abstract!Nothing, Outcome

\* What the worker does: it starts a command, ends it, or is not seen.
LEMMA WorkerConverses ==
  ASSUME ConversationInv, ConversationInv', UNCHANGED <<relayVars, runVars>>,
         WorkerStep \/ WorkerDies
  PROVE  Abstract!Next \/ UNCHANGED Abstract!vars
<1>1. CASE BeginCommand
  <2>1. Unanswered /\ Unanswered'
    BY <1>1 DEF BeginCommand, Asked, Unanswered
  <2>2. UNCHANGED <<CommandInHand, Outcome, steps>>
    BY <1>1, <2>1 DEF BeginCommand, ConversationInv, HandAgrees, Outcome, runVars
  <2>3. CommandInHand = Len(steps) + 1 /\ CommandInHand = Head(inbox).n /\ Len(steps) \in Nat
    BY <2>1 DEF ConversationInv, HandAgrees, CommandWithWorker
  <2>4. began = 1..Len(steps)
    BY <1>1, <2>1 DEF BeginCommand, ConversationInv, CommandWithWorker
  <2>5. CommandInHand \notin began /\ CommandInHand # 0
    BY <2>3, <2>4
  <2>6. began' = began \cup {CommandInHand} /\ worker' = "busy"
    BY <1>1, <2>3 DEF BeginCommand
  <2>7. Abstract!Execute
    BY <2>2, <2>5, <2>6 DEF Abstract!Execute, Abstract!Nothing
  <2> QED
    BY <2>7 DEF Abstract!Next
<1>2. CASE RefuseCommand \/ AnswerCommand \/ WorkerExits \/ WorkerDies
  <2>1. /\ UNCHANGED <<began, steps, host, failed>> /\ worker' # "busy"
    BY <1>2 DEF RefuseCommand, AnswerCommand, WorkerExits, WorkerDies, runVars
  <2>2. ~Unanswered'
    <3>1. CASE RefuseCommand \/ AnswerCommand
      BY <3>1, LineTaken
         DEF RefuseCommand, AnswerCommand, Asked, ConversationInv, RunInv, BusyHasCommand
    <3>2. CASE WorkerExits \/ WorkerDies
      BY <3>2 DEF WorkerExits, WorkerDies, Unanswered
    <3> QED
      BY <1>2, <3>1, <3>2
  <2>3. CASE host = "receive"
    <3>1. ~failed /\ UNCHANGED <<CommandInHand, Outcome>>
      BY <2>1, <2>3 DEF ConversationInv, HandAgrees, Outcome, RunInv, LoopState, Looping
    <3>2. Abstract!End
      BY <2>1, <3>1 DEF Abstract!End
    <3> QED
      BY <3>2 DEF Abstract!Next
  <2>4. CASE host # "receive" /\ failed
    <3>1. Abstract!End
      BY <2>1, <2>2, <2>4, EndsUnheard
    <3> QED
      BY <3>1 DEF Abstract!Next
  <2>5. CASE host # "receive" /\ ~failed
    <3>1. ~Unanswered
      BY <2>5 DEF ConversationInv, CommandWithWorker
    <3>2. UNCHANGED <<CommandInHand, Outcome>>
      BY <2>1, <2>2, <2>5, <3>1 DEF ConversationInv, HandAgrees, Outcome
    <3>3. Abstract!End
      BY <2>1, <3>2 DEF Abstract!End
    <3> QED
      BY <3>3 DEF Abstract!Next
  <2> QED
    BY <2>3, <2>4, <2>5
<1>3. CASE WorkerReady \/ WorkerNotReady \/ ObeyShutdown
  <2>1. /\ UNCHANGED <<began, steps, host, failed>> /\ worker # "busy" /\ worker' # "busy"
    BY <1>3 DEF WorkerReady, WorkerNotReady, ObeyShutdown, runVars
  <2>2. Unanswered <=> Unanswered'
    <3>1. CASE ObeyShutdown
      BY <3>1, LineTaken DEF ObeyShutdown, Asked, Unanswered, ConversationInv, RunInv
    <3>2. CASE WorkerReady \/ WorkerNotReady
      BY <3>2 DEF WorkerReady, WorkerNotReady, Unanswered
    <3> QED
      BY <1>3, <3>1, <3>2
  <2>3. UNCHANGED <<CommandInHand, Outcome>>
    BY <2>1, <2>2 DEF ConversationInv, HandAgrees, Outcome
  <2> QED
    BY <2>1, <2>3, Unseen
<1> QED
  BY <1>1, <1>2, <1>3 DEF WorkerStep

\* A step of the thread of the run that moves no line: it raises, or is not seen.
LEMMA RaisesOrUnseen ==
  ASSUME ConversationInv, ConversationInv',
         UNCHANGED <<inbox, worker, began, steps>>, failed => failed',
         host # "receive", host' # "receive", host # "reported", host' # "reported"
  PROVE  Abstract!Next \/ UNCHANGED Abstract!vars
<1>1. CASE ~failed /\ failed'
  <2>1. Abstract!Break
    BY <1>1, Breaks
  <2> QED
    BY <2>1 DEF Abstract!Next
<1>2. CASE failed <=> failed'
  <2>1. UNCHANGED <<CommandInHand, Outcome>>
    BY <1>2 DEF ConversationInv, HandAgrees, Outcome, Unanswered
  <2> QED
    BY <2>1, Unseen
<1> QED
  BY <1>1, <1>2

\* Start and close: they raise, end a broken conversation, or are not seen.
LEMMA SessionConverses ==
  ASSUME ConversationInv, ConversationInv', UNCHANGED <<relayVars, runVars>>, SessionStep
  PROVE  Abstract!Next \/ UNCHANGED Abstract!vars
<1>t. failed \in BOOLEAN /\ failed' \in BOOLEAN
  BY DEF ConversationInv, RunInv, SessionTypeOK
<1>1. CASE \/ SpawnFails \/ ReceiveReady \/ StartupFails \/ Poll \/ PipeBreaks
           \/ WorkerWaited \/ Terminate
  BY <1>1, RaisesOrUnseen
     DEF SpawnFails, ReceiveReady, StartupFails, Poll, PipeBreaks, WorkerWaited, Terminate,
         runVars
<1>2. CASE AnswerIsLate
  <2>1. ~failed
    BY <1>2 DEF AnswerIsLate, ConversationInv, RunInv, LoopState, Looping
  <2>2. Abstract!Break
    BY <1>2, <2>1, Breaks DEF AnswerIsLate, runVars
  <2> QED
    BY <2>2 DEF Abstract!Next
<1>3. CASE Spawn
  <2>1. worker = "none" /\ inbox = <<>> /\ host' = "starting"
    BY <1>3 DEF Spawn, ConversationInv, RunInv, StartupState, Startup
  <2>2. UNCHANGED <<CommandInHand, Outcome>>
    BY <1>3, <2>1 DEF Spawn, CommandInHand, Outcome, Unanswered
  <2> QED
    BY <1>3, <2>1, <2>2, Unseen DEF Spawn, runVars
<1>4. CASE AskShutdown
  <2>1. Unanswered <=> Unanswered'
    <3>1. CASE inbox = <<>>
      <4>1. inbox' = <<[op |-> "shutdown"]>>
        BY <1>4, <3>1, OneLine DEF AskShutdown
      <4> QED
        BY <3>1, <4>1, OneLine DEF Unanswered
    <3>2. CASE inbox # <<>>
      <4>1. [op |-> "shutdown"] \in Requests /\ inbox \in Seq(Requests)
        BY DEF Requests, ConversationInv, RunInv, SessionTypeOK
      <4>2. Head(inbox') = Head(inbox) /\ Len(inbox') = Len(inbox) + 1 /\ Len(inbox) \in Nat
        BY <1>4, <3>2, <4>1, AppendFacts DEF AskShutdown
      <4>3. inbox' # <<>>
        BY <4>2
      <4> QED
        BY <3>2, <4>2, <4>3 DEF Unanswered
    <3> QED
      BY <3>1, <3>2
  <2>2. UNCHANGED <<CommandInHand, Outcome>>
    BY <1>4, <2>1 DEF AskShutdown, ConversationInv, HandAgrees, Outcome, runVars
  <2> QED
    BY <1>4, <2>2, Unseen DEF AskShutdown, runVars
<1>5. CASE Kill
  <2>1. /\ UNCHANGED <<began, steps, failed>> /\ worker' # "busy" /\ ~Unanswered'
        /\ host # "receive" /\ host' # "receive" /\ host # "reported" /\ host' # "reported"
    BY <1>5 DEF Kill, Unanswered, runVars
  <2>2. Abstract!End
    <3>1. CASE failed
      BY <2>1, <3>1, EndsUnheard
    <3>2. CASE ~failed
      <4>1. ~Unanswered
        BY <2>1, <3>2 DEF ConversationInv, CommandWithWorker
      <4>2. UNCHANGED <<CommandInHand, Outcome>>
        BY <2>1, <4>1 DEF ConversationInv, HandAgrees, Outcome
      <4> QED
        BY <2>1, <4>2 DEF Abstract!End
    <3> QED
      BY <3>1, <3>2
  <2> QED
    BY <2>2 DEF Abstract!Next
<1> QED
  BY <1>1, <1>2, <1>3, <1>4, <1>5 DEF SessionStep, CloseStep

\* The loop: a command that is sent is asked, its answer is recorded, and the
\* report is the end of a conversation that is not broken.
LEMMA LoopConverses ==
  ASSUME ConversationInv, ConversationInv', LoopStep
  PROVE  Abstract!Next \/ UNCHANGED Abstract!vars
<1>t. failed \in BOOLEAN /\ failed' \in BOOLEAN
  BY DEF ConversationInv, RunInv, SessionTypeOK
<1>1. CASE ProviderCommands
  <2> PICK fit \in BOOLEAN : Send(sequence, fit)
    BY <1>1 DEF ProviderCommands
  <2>1. /\ host = "ask" /\ ~failed /\ inbox = <<>> /\ worker \in {"idle", "dead"}
        /\ sequence = Len(steps) + 1 /\ sequence \in 0..MaxActions
        /\ UNCHANGED <<steps, worker, began, sequence>>
    BY <1>1 DEF Send, ProviderCommands, ConversationInv, RunInv, BetweenCommands, LoopState,
                Looping, RunTypeOK
  <2>2. ~Unanswered /\ Len(steps) \in Nat
    BY <2>1 DEF Unanswered, ConversationInv, HandAgrees
  <2>3. CASE host' = "receive" /\ UNCHANGED failed
    <3>1. CommandInHand = 0 /\ CommandInHand' = Len(steps) + 1
      BY <2>1, <2>2, <2>3 DEF ConversationInv, HandAgrees
    <3>2. Outcome = "open" /\ Outcome' = "open"
      BY <2>1, <2>3 DEF Outcome
    <3>3. Len(steps) < MaxActions
      BY <2>1, <2>2, ArenaAssumption
    <3>4. Abstract!Ask
      BY <2>1, <3>1, <3>2, <3>3 DEF Abstract!Ask, Abstract!Nothing
    <3> QED
      BY <3>4 DEF Abstract!Next
  <2>4. CASE host' = "poll" /\ failed' /\ UNCHANGED inbox
    <3>1. Abstract!Break
      BY <2>1, <2>4, Breaks
    <3> QED
      BY <3>1 DEF Abstract!Next
  <2> QED
    BY <2>3, <2>4 DEF Send
<1>2. CASE TakeAnswer
  <2>1. /\ host = "receive" /\ ~failed /\ UNCHANGED <<worker, inbox, began>>
        /\ sequence = Len(steps) + 1 /\ worker # "busy" /\ inbox = <<>>
    BY <1>2 DEF TakeAnswer, ReceiveAnswer, ConversationInv, RunInv, LoopState, Looping,
                CommandUnderWay
  <2>2. CASE Head(messages).type = "result"
    <3>1. messages = <<Message("result", sequence)>> /\ began = 1..sequence
      BY <1>2, <2>2, OneLine DEF TakeAnswer, ReceiveAnswer, ConversationInv, RunInv,
                                 CommandUnderWay, Message
    <3>2. Head(messages).n = sequence
      BY <3>1, OneLine DEF Message
    <3>3. steps' = Append(steps, [sequence |-> sequence, result |-> sequence])
      BY <1>2, <2>2, <3>2 DEF TakeAnswer
    <3>4. host' = "loop" /\ ~failed' /\ ~Unanswered'
      BY <1>2, <2>1, <2>2 DEF TakeAnswer, ReceiveAnswer, Unanswered
    <3>5. CommandInHand = sequence /\ CommandInHand' = 0
      BY <2>1, <3>4 DEF ConversationInv, HandAgrees
    <3>6. sequence \in began
      BY <2>1, <3>1 DEF ConversationInv, HandAgrees
    <3>7. Outcome = "open" /\ Outcome' = "open"
      BY <2>1, <3>4 DEF Outcome
    <3>8. Abstract!Record
      BY <2>1, <3>3, <3>5, <3>6, <3>7 DEF Abstract!Record, Abstract!Nothing
    <3> QED
      BY <3>8 DEF Abstract!Next
  <2>3. CASE Head(messages).type # "result"
    <3>1. host' = "poll" /\ failed' /\ UNCHANGED steps
      BY <1>2, <2>3 DEF TakeAnswer, ReceiveAnswer
    <3>2. Abstract!Break
      BY <2>1, <3>1, Breaks
    <3> QED
      BY <3>2 DEF Abstract!Next
  <2> QED
    BY <2>2, <2>3
<1>3. CASE WriteReport
  <2>1. ~failed /\ host = "finish" /\ host' = "reported"
        /\ UNCHANGED <<failed, worker, inbox, began, steps>>
    BY <1>3 DEF WriteReport, Continue, runVars
  <2>2. ~Unanswered /\ ~Unanswered'
    BY <2>1 DEF ConversationInv, CommandWithWorker, Unanswered
  <2>3. CommandInHand = 0 /\ CommandInHand' = 0
    BY <2>1, <2>2 DEF ConversationInv, HandAgrees
  <2>4. Abstract!Report
    BY <2>1, <2>3 DEF Abstract!Report, Abstract!Nothing, Outcome
  <2> QED
    BY <2>4 DEF Abstract!Next
<1>4. CASE \/ RelayStarted \/ RelayClosed \/ RunRaises \/ LoopEnds \/ NextAction
           \/ ProviderIsDone \/ ProviderFails
  BY <1>4, RaisesOrUnseen
     DEF RelayStarted, RelayClosed, RunRaises, LoopEnds, NextAction, ProviderIsDone,
         ProviderFails, Continue, Raise, runVars
<1> QED
  BY <1>1, <1>2, <1>3, <1>4 DEF LoopStep

\* The relay, the clock and the operator: an interrupt breaks the conversation.
LEMMA SurroundingsConverse ==
  ASSUME ConversationInv, ConversationInv', SurroundingStep
  PROVE  Abstract!Next \/ UNCHANGED Abstract!vars
<1>1. CASE Interrupt \/ (StartRelay /\ Raise("relay", "finally"))
  <2>1. /\ ~failed /\ failed' /\ host # "reported" /\ host' # "receive"
        /\ UNCHANGED <<began, steps, worker, inbox>>
    BY <1>1 DEF Interrupt, StartRelay, Raise, ConversationInv, RunInv, LoopState, Looping,
                StartupState, Startup, runVars
  <2>2. Abstract!Break
    BY <2>1, Breaks
  <2> QED
    BY <2>2 DEF Abstract!Next
<1>2. CASE UNCHANGED sessionVars /\ UNCHANGED steps
  <2>1. UNCHANGED <<CommandInHand, Outcome>>
    BY <1>2 DEF sessionVars, ConversationInv, HandAgrees, Unanswered, Outcome
  <2> QED
    BY <1>2, <2>1, Unseen DEF sessionVars
<1> QED
  BY <1>1, <1>2 DEF SurroundingStep, StartRelay, CloseRelay, DeadlinePasses, vars, runVars

\* For every number of actions: run_arena and its worker hold a Conversation,
\* however late its answers come and whoever dies or is interrupted on the way.
THEOREM ConversationImplemented == Spec => ImplementsConversation
<1>1. Init => Abstract!Init
  BY DEF Init, SessionInit, Abstract!Init, Abstract!Nothing, CommandInHand, Unanswered, Outcome
<1>2. ConversationInv /\ ConversationInv' /\ [Next]_vars => [Abstract!Next]_(Abstract!vars)
  BY StepKinds, WorkerConverses, SessionConverses, LoopConverses, SurroundingsConverse
<1> QED
  BY <1>1, <1>2, ConversationHolds, PTL DEF Spec, ImplementsConversation, Abstract!Spec
----------------------------------------------------------------------------
(* The way to the end: what ArenaEnds and RelayQuiets rest on, besides that *)
(* a thread that has a step to take takes it.                               *)

\* What close has left to do for the relay.
CloseLeft ==
  CASE relay \in {"new", "open", "broken"} -> 3
    [] relay = "stopping" -> 2
    [] relay = "joining"  -> 1
    [] relay = "closed"   -> 0

\* The commands that may still be chosen, and the endpoints not bound yet.
ActionsLeft == MaxActions - sequence
Unbound == Cardinality(Endpoints \ listening)

\* The steps run_arena has left at most, whatever the worker does.
HostLeft ==
  CASE host \in {"reported", "raised"} -> 0
    [] host = "finish"     -> 1
    [] host = "finally"    -> 2 + CloseLeft
    [] host = "terminated" -> 6
    [] host = "waiting"    -> 7
    [] host = "shutdown"   -> 8
    [] host = "poll"       -> 9
    [] host = "loop"       -> 10 + 3 * ActionsLeft
    [] host = "receive"    -> 11 + 3 * ActionsLeft
    [] host = "ask"        -> 12 + 3 * ActionsLeft
    [] host = "starting"   -> 11 + 3 * MaxActions
    [] host = "spawn"      -> 12 + 3 * MaxActions
    [] host = "relay"      -> 13 + 3 * MaxActions + Unbound

\* Each step of run_arena brings it nearer to its end, and none of the worker,
\* its commands, the relay, the clock or the operator takes it further away.
HostDrawsNear ==
  [][/\ HostStep => HostLeft' < HostLeft
     /\ HostLeft' <= HostLeft]_vars

\* What the threads of a connection have left once _stop is set.
ConnLeft(c) ==
  CASE conn[c] = "none"   -> 4
    [] conn[c] = "queued" -> 3
    [] conn[c] \in {"dialing", "moving"} -> 2
    [] conn[c] = "open"   -> 1
    [] conn[c] = "ended"  -> 0

\* Once _stop is set, each step of a thread of the relay brings its endpoint or
\* a connection nearer to its end, and nothing takes one further away: no client,
\* no data that is still to be read, and not the host.
RelayDrawsQuiet ==
  [][StopIsSet =>
       /\ accepting' \subseteq accepting
       /\ \A c \in Conns : ConnLeft(c)' <= ConnLeft(c)
       /\ RelayThreads =>
            accepting' # accepting \/ \E c \in Conns : ConnLeft(c)' < ConnLeft(c)]_vars

\* The numbers the measure is made of are natural.
LEMMA PartsLeft ==
  ASSUME RelayTypeOK, RunTypeOK
  PROVE  CloseLeft \in 0..3 /\ ActionsLeft \in 0..MaxActions /\ Unbound \in Nat
<1>1. CloseLeft \in 0..3
  BY DEF RelayTypeOK, CloseLeft
<1>2. ActionsLeft \in 0..MaxActions
  BY ArenaAssumption DEF RunTypeOK, ActionsLeft
<1>3. IsFiniteSet(Endpoints \ listening)
  BY RelayAssumption, FS_Subset
<1> QED
  BY <1>1, <1>2, <1>3, FS_CardinalityType DEF Unbound

\* And after a step.
LEMMA PartsLeftThen ==
  ASSUME RelayTypeOK', RunTypeOK'
  PROVE  CloseLeft' \in 0..3 /\ ActionsLeft' \in 0..MaxActions /\ Unbound' \in Nat
<1>1. CloseLeft' \in 0..3
  BY DEF RelayTypeOK, CloseLeft
<1>2. ActionsLeft' \in 0..MaxActions
  <2>1. sequence' \in 0..MaxActions
    BY DEF RunTypeOK
  <2>2. ActionsLeft' = MaxActions - sequence'
    BY DEF ActionsLeft
  <2>3. \A s \in 0..MaxActions : MaxActions - s \in 0..MaxActions
    BY ArenaAssumption
  <2> QED
    BY <2>1, <2>2, <2>3
<1>3. IsFiniteSet(Endpoints \ listening')
  BY RelayAssumption, FS_Subset
<1> QED
  BY <1>2, <1>1, <1>3, FS_CardinalityType DEF Unbound

\* So is the measure.
LEMMA MeasureTyped ==
  ASSUME IInv
  PROVE  HostLeft \in Nat
<1> DEFINE actions == ActionsLeft
           unbound == Unbound
           closing == CloseLeft
<1>1. /\ MaxActions \in Nat /\ actions \in Nat /\ unbound \in Nat /\ closing \in Nat
  BY ArenaAssumption, PartsLeft DEF IInv, RelayInv, RunInv
<1>2. host \in HostPhases
  BY DEF IInv, RunInv, SessionTypeOK
<1>3. \/ HostLeft \in {0, 1, 6, 7, 8, 9}
      \/ HostLeft = 2 + closing
      \/ HostLeft \in {10 + 3 * actions, 11 + 3 * actions, 12 + 3 * actions}
      \/ HostLeft \in {11 + 3 * MaxActions, 12 + 3 * MaxActions}
      \/ HostLeft = 13 + 3 * MaxActions + unbound
  BY <1>2 DEF HostPhases, HostLeft
<1> HIDE DEF actions, unbound, closing
<1> QED
  BY <1>1, <1>3

\* And after a step.
LEMMA MeasureTypedThen ==
  ASSUME IInv'
  PROVE  HostLeft' \in Nat
<1> DEFINE actions == ActionsLeft'
           unbound == Unbound'
           closing == CloseLeft'
<1>1. /\ MaxActions \in Nat /\ actions \in Nat /\ unbound \in Nat /\ closing \in Nat
  BY ArenaAssumption, PartsLeftThen DEF IInv, RelayInv, RunInv
<1>2. host' \in HostPhases
  BY DEF IInv, RunInv, SessionTypeOK
<1>3. \/ HostLeft' \in {0, 1, 6, 7, 8, 9}
      \/ HostLeft' = 2 + closing
      \/ HostLeft' \in {10 + 3 * actions, 11 + 3 * actions, 12 + 3 * actions}
      \/ HostLeft' \in {11 + 3 * MaxActions, 12 + 3 * MaxActions}
      \/ HostLeft' = 13 + 3 * MaxActions + unbound
  BY <1>2 DEF HostPhases, HostLeft
<1> HIDE DEF actions, unbound, closing
<1> QED
  BY <1>1, <1>3

\* run_arena goes from one phase to a later one; it chooses no other action.
Onward ==
  /\ sequence' = sequence
  /\ \/ host = "relay"      /\ host' \in {"spawn", "finally"}
     \/ host = "spawn"      /\ host' \in {"starting", "finally"}
     \/ host = "starting"   /\ host' \in {"loop", "poll", "finally"}
     \/ host = "loop"       /\ host' = "poll"
     \/ host = "ask"        /\ host' \in {"receive", "poll"}
     \/ host = "receive"    /\ host' \in {"loop", "poll"}
     \/ host = "poll"       /\ host' \in {"shutdown", "finally"}
     \/ host = "shutdown"   /\ host' \in {"waiting", "finally"}
     \/ host = "waiting"    /\ host' \in {"terminated", "finally"}
     \/ host = "terminated" /\ host' = "finally"
     \/ host = "finally"    /\ host' = "finish"
     \/ host = "finish"     /\ host' \in {"reported", "raised"}

\* It is then nearer to its end.
LEMMA OnwardNears ==
  ASSUME IInv, IInv', Onward
  PROVE  HostLeft' < HostLeft
<1> DEFINE actions == ActionsLeft
           closing == CloseLeft
           then == CloseLeft'
           unbound == Unbound
<1>1. /\ MaxActions \in Nat /\ actions \in 0..MaxActions /\ unbound \in Nat
      /\ closing \in 0..3 /\ then \in 0..3
  BY ArenaAssumption, PartsLeft, PartsLeftThen DEF IInv, RelayInv, RunInv
<1>2. ActionsLeft' = actions
  BY DEF Onward, ActionsLeft
<1>3. host = "starting" => actions = MaxActions
  BY ArenaAssumption DEF IInv, RunInv, StartupState, Startup, ActionsLeft
<1> HIDE DEF actions, closing, then, unbound
<1>4. CASE host \in {"relay", "spawn"}
  <2>1. \/ host = "spawn" /\ HostLeft = 12 + 3 * MaxActions
        \/ host = "relay" /\ HostLeft = 13 + 3 * MaxActions + unbound
    BY <1>4 DEF HostLeft, unbound
  <2>2. \/ HostLeft' = 2 + then
        \/ HostLeft' = 11 + 3 * MaxActions
        \/ HostLeft' = 12 + 3 * MaxActions /\ host = "relay"
    BY <1>4 DEF Onward, HostLeft, then
  <2> QED
    BY <1>1, <2>1, <2>2
<1>5. CASE host = "starting"
  <2>1. HostLeft = 11 + 3 * MaxActions
    BY <1>5 DEF HostLeft
  <2>2. HostLeft' = 10 + 3 * actions \/ HostLeft' = 9 \/ HostLeft' = 2 + then
    BY <1>2, <1>5 DEF Onward, HostLeft, then
  <2> QED
    BY <1>1, <1>3, <1>5, <2>1, <2>2
<1>6. CASE host \in {"loop", "ask", "receive"}
  <2>1. \/ host = "loop" /\ HostLeft = 10 + 3 * actions
        \/ host = "receive" /\ HostLeft = 11 + 3 * actions
        \/ host = "ask" /\ HostLeft = 12 + 3 * actions
    BY <1>6 DEF HostLeft, actions
  <2>2. \/ HostLeft' = 9
        \/ host = "receive" /\ HostLeft' = 10 + 3 * actions
        \/ host = "ask" /\ HostLeft' = 11 + 3 * actions
    BY <1>2, <1>6 DEF Onward, HostLeft
  <2> QED
    BY <1>1, <2>1, <2>2
<1>7. CASE host \in {"poll", "shutdown", "waiting", "terminated"}
  <2>1. \/ HostLeft = 9 /\ (HostLeft' = 8 \/ HostLeft' = 2 + then)
        \/ HostLeft = 8 /\ (HostLeft' = 7 \/ HostLeft' = 2 + then)
        \/ HostLeft = 7 /\ (HostLeft' = 6 \/ HostLeft' = 2 + then)
        \/ HostLeft = 6 /\ HostLeft' = 2 + then
    BY <1>7 DEF Onward, HostLeft, then
  <2> QED
    BY <1>1, <2>1
<1>8. CASE host \in {"finally", "finish"}
  <2>1. \/ HostLeft = 2 + closing /\ HostLeft' = 1
        \/ HostLeft = 1 /\ HostLeft' = 0
    BY <1>8 DEF Onward, HostLeft, closing
  <2> QED
    BY <1>1, <2>1
<1> QED
  BY <1>4, <1>5, <1>6, <1>7, <1>8 DEF Onward

\* Interrupted or not, the host only ever goes on, but for one action more that is
\* chosen, one endpoint more that is bound, and the three steps of close.
LEMMA WhatTheHostDoes ==
  ASSUME HostStep
  PROVE  \/ Onward
         \/ NextAction
         \/ host' = host /\ StartRelay /\ \E e \in Endpoints : BindEndpoint(e)
         \/ CloseRelay
<1>1. CASE StartRelay \/ RelayStarted \/ RelayClosed \/ WriteReport \/ RunRaises
  BY <1>1 DEF StartRelay, RelayStarted, RelayClosed, WriteReport, RunRaises, Raise, Continue,
              Onward, runVars, sessionVars
<1>2. CASE LoopEnds \/ ProviderIsDone \/ ProviderFails
  BY <1>2 DEF LoopEnds, ProviderIsDone, ProviderFails, Raise, Continue, Onward, runVars
<1>3. CASE ProviderCommands
  BY <1>3 DEF ProviderCommands, Send, Onward
<1>4. CASE TakeAnswer
  BY <1>4 DEF TakeAnswer, ReceiveAnswer, Onward
<1>5. CASE (Spawn \/ SpawnFails \/ ReceiveReady \/ StartupFails \/ AnswerIsLate)
           /\ UNCHANGED <<relayVars, runVars>>
  BY <1>5 DEF Spawn, SpawnFails, ReceiveReady, StartupFails, AnswerIsLate, Onward, runVars
<1>6. CASE CloseStep /\ UNCHANGED <<relayVars, runVars>>
  BY <1>6 DEF CloseStep, Poll, AskShutdown, PipeBreaks, WorkerWaited, Terminate, Kill, Onward,
              runVars
<1> QED
  BY <1>1, <1>2, <1>3, <1>4, <1>5, <1>6 DEF HostStep

\* Each of them is nearer to the end.
LEMMA HostNears ==
  ASSUME IInv, IInv', HostStep
  PROVE  HostLeft' < HostLeft
<1> DEFINE actions == ActionsLeft
           unbound == Unbound
           closing == CloseLeft
<1>1. /\ MaxActions \in Nat /\ actions \in 0..MaxActions /\ unbound \in Nat
      /\ closing \in 0..3
  BY ArenaAssumption, PartsLeft DEF IInv, RelayInv, RunInv
<1>2. CASE Onward
  BY <1>2, OnwardNears
<1>3. CASE NextAction
  <2>1. host = "loop" /\ host' = "ask" /\ sequence' = sequence + 1
    BY <1>3 DEF NextAction, Continue
  <2>2. sequence \in 0..MaxActions
    BY DEF IInv, RunInv, RunTypeOK
  <2>3. ActionsLeft' = actions - 1
    BY <2>1, <2>2, ArenaAssumption DEF ActionsLeft
  <2>4. HostLeft = 10 + 3 * actions /\ HostLeft' = 12 + 3 * (actions - 1)
    BY <2>1, <2>3 DEF HostLeft
  <2> HIDE DEF actions
  <2> QED
    BY <1>1, <2>4
<1>4. ASSUME NEW e \in Endpoints, BindEndpoint(e), StartRelay, host' = host
      PROVE  HostLeft' < HostLeft
  <2>1. Endpoints \ listening' = (Endpoints \ listening) \ {e} /\ e \in Endpoints \ listening
    BY <1>4 DEF BindEndpoint
  <2>2. IsFiniteSet(Endpoints \ listening)
    BY RelayAssumption, FS_Subset
  <2>3. Unbound' = unbound - 1
    BY <2>1, <2>2, FS_RemoveElement DEF Unbound
  <2>4. host = "relay" /\ host' = "relay"
    BY <1>4 DEF StartRelay
  <2>5. HostLeft = 13 + 3 * MaxActions + unbound /\ HostLeft' = 13 + 3 * MaxActions + (unbound - 1)
    BY <2>3, <2>4 DEF HostLeft
  <2> HIDE DEF unbound
  <2> QED
    BY <1>1, <2>5
<1>5. CASE CloseRelay
  <2>1. host = "finally" /\ host' = "finally"
    BY <1>5 DEF CloseRelay, sessionVars
  <2>2. \/ closing = 3 /\ CloseLeft' = 2
        \/ closing = 2 /\ CloseLeft' = 1
        \/ closing = 1 /\ CloseLeft' = 0
    BY <1>5 DEF CloseRelay, SetStop, CloseListeners, ThreadsJoined, CloseLeft
  <2>3. HostLeft = 2 + closing /\ HostLeft' = 2 + CloseLeft'
    BY <2>1 DEF HostLeft
  <2> QED
    BY <2>2, <2>3
<1> QED
  BY <1>2, <1>3, <1>4, <1>5, WhatTheHostDoes

\* The threads of the relay neither open nor close it.
LEMMA ThreadsLeaveTheOwner ==
  ASSUME RelayThreads
  PROVE  UNCHANGED <<relay, listening>>
BY DEF RelayThreads, AcceptorStep, AcceptorEnds, Accept, DialSucceeds, DialFails, BridgeStep,
       BeginRound, Forward, EndOfStream, BridgeStops

\* Nobody else takes it further away.
LEMMA OthersDoNot ==
  ASSUME IInv, IInv', Environment \/ UNCHANGED vars
  PROVE  HostLeft' <= HostLeft
<1>1. HostLeft \in Nat
  BY MeasureTyped
<1>2. CASE Interrupt
  <2>1. Onward
    BY <1>2 DEF Interrupt, Raise, Onward, runVars
  <2>2. HostLeft' < HostLeft /\ HostLeft' \in Nat
    BY <2>1, OnwardNears, MeasureTypedThen
  <2> QED
    BY <1>1, <2>2
<1>3. CASE ~Interrupt
  <2>1. UNCHANGED <<host, sequence, relay, listening>>
    <3>1. CASE RelayThreads /\ UNCHANGED <<sessionVars, runVars>>
      BY <3>1, ThreadsLeaveTheOwner DEF sessionVars, runVars
    <3>2. CASE CommandConnects
      BY <3>2 DEF CommandConnects, Connect, sessionVars, runVars
    <3>3. CASE DeadlinePasses
      BY <3>3 DEF DeadlinePasses, sessionVars, relayVars
    <3>4. CASE (WorkerStep \/ WorkerDies) /\ UNCHANGED <<relayVars, runVars>>
      BY <3>4 DEF WorkerStep, WorkerReady, WorkerNotReady, BeginCommand, RefuseCommand,
                  AnswerCommand, ObeyShutdown, WorkerExits, WorkerDies, relayVars, runVars
    <3>5. CASE UNCHANGED vars
      BY <3>5 DEF vars, sessionVars, relayVars, runVars
    <3> QED
      BY <1>3, <3>1, <3>2, <3>3, <3>4, <3>5 DEF Environment
  <2>2. HostLeft' = HostLeft
    BY <2>1 DEF HostLeft, CloseLeft, ActionsLeft, Unbound
  <2> QED
    BY <1>1, <2>2
<1> QED
  BY <1>2, <1>3

\* The measure is a number, so that run_arena takes finitely many steps: at most 13,
\* and three for each action and one for each endpoint of its settings.
THEOREM HostMeasureIsNatural ==
  Spec => []/\ HostLeft \in Nat
            /\ HostLeft <= 13 + 3 * MaxActions + Cardinality(Endpoints)
<1>1. ASSUME IInv
      PROVE  HostLeft \in Nat /\ HostLeft <= 13 + 3 * MaxActions + Cardinality(Endpoints)
  <2> DEFINE unbound == Unbound
             all == Cardinality(Endpoints)
             actions == ActionsLeft
             closing == CloseLeft
  <2>1. unbound \in Nat /\ all \in Nat /\ unbound <= all
    BY RelayAssumption, FS_Subset, FS_CardinalityType DEF Unbound
  <2>2. actions \in 0..MaxActions /\ closing \in 0..3 /\ MaxActions \in Nat
    BY <1>1, ArenaAssumption, PartsLeft DEF IInv, RelayInv, RunInv
  <2>3. host \in HostPhases
    BY <1>1 DEF IInv, RunInv, SessionTypeOK
  <2>4. \/ HostLeft \in {0, 1, 6, 7, 8, 9}
        \/ HostLeft = 2 + closing
        \/ HostLeft \in {10 + 3 * actions, 11 + 3 * actions, 12 + 3 * actions}
        \/ HostLeft \in {11 + 3 * MaxActions, 12 + 3 * MaxActions}
        \/ HostLeft = 13 + 3 * MaxActions + unbound
    BY <2>3 DEF HostPhases, HostLeft
  <2> HIDE DEF unbound, all, actions, closing
  <2>5. HostLeft <= 13 + 3 * MaxActions + all
    BY <2>1, <2>2, <2>4
  <2> QED
    BY <1>1, <2>5, MeasureTyped DEF all
<1> QED
  BY <1>1, Invariant, PTL

\* For every number of actions, every set of endpoints and whatever the worker does:
\* each step of run_arena brings it nearer to its end, and no other step takes it
\* further away.
THEOREM HostIsNearer == Spec => HostDrawsNear
<1>1. ASSUME IInv, IInv', [Next]_vars
      PROVE  (HostStep => HostLeft' < HostLeft) /\ HostLeft' <= HostLeft
  <2>1. HostStep => HostLeft' < HostLeft
    BY <1>1, HostNears
  <2>2. HostLeft \in Nat /\ HostLeft' \in Nat
    BY <1>1, MeasureTyped, MeasureTypedThen
  <2>3. ~HostStep => Environment \/ UNCHANGED vars
    BY <1>1 DEF Next, Terminated
  <2>4. ~HostStep => HostLeft' <= HostLeft
    BY <1>1, <2>3, OthersDoNot
  <2> QED
    BY <2>1, <2>2, <2>4
<1> QED
  BY <1>1, Invariant, PTL DEF Spec, HostDrawsNear

\* A change of one connection, to a state that is nearer to its end.
LEMMA OneConnNears ==
  ASSUME conn \in [Conns -> {"none", "queued", "dialing", "open", "moving", "ended"}],
         NEW c \in Conns, NEW to, conn' = [conn EXCEPT ![c] = to],
         \/ conn[c] = "none" /\ to = "queued"
         \/ conn[c] = "queued" /\ to = "dialing"
         \/ conn[c] \in {"dialing", "moving"} /\ to \in {"open", "ended"}
         \/ conn[c] = "open" /\ to = "ended"
  PROVE  /\ \A d \in Conns : ConnLeft(d)' <= ConnLeft(d)
         /\ ConnLeft(c)' < ConnLeft(c)
<1>1. ConnLeft(c)' < ConnLeft(c)
  BY DEF ConnLeft
<1>2. ASSUME NEW d \in Conns, d # c
      PROVE  ConnLeft(d)' = ConnLeft(d)
  BY <1>2 DEF ConnLeft
<1>3. ASSUME NEW d \in Conns
      PROVE  ConnLeft(d) \in 0..4 /\ ConnLeft(d)' \in 0..4
  <2>1. /\ conn[d] \in {"none", "queued", "dialing", "open", "moving", "ended"}
        /\ conn'[d] = IF d = c THEN to ELSE conn[d]
        /\ to \in {"queued", "dialing", "open", "ended"}
    OBVIOUS
  <2> QED
    BY <2>1 DEF ConnLeft
<1>4. ASSUME NEW d \in Conns
      PROVE  ConnLeft(d)' <= ConnLeft(d)
  <2>1. CASE d = c
    BY <1>1, <1>3, <2>1
  <2>2. CASE d # c
    BY <1>2, <1>3, <2>2
  <2> QED
    BY <2>1, <2>2
<1> QED
  BY <1>1, <1>4

\* Where no connection changes, what is left does not.
LEMMA StillConnsNear ==
  ASSUME RelayTypeOK, conn' = conn
  PROVE  \A c \in Conns : ConnLeft(c)' <= ConnLeft(c)
<1> SUFFICES ASSUME NEW c \in Conns PROVE ConnLeft(c)' <= ConnLeft(c)
  OBVIOUS
<1>1. ConnLeft(c)' = ConnLeft(c)
  BY DEF ConnLeft
<1>2. conn[c] \in {"none", "queued", "dialing", "open", "moving", "ended"}
  BY DEF RelayTypeOK
<1>3. ConnLeft(c) \in Nat
  BY <1>2 DEF ConnLeft
<1> QED
  BY <1>1, <1>3

\* What a step means for the end of the threads: it brings none further away.
NoneFurther ==
  /\ accepting' \subseteq accepting
  /\ \A c \in Conns : ConnLeft(c)' <= ConnLeft(c)

Nearer == accepting' # accepting \/ \E c \in Conns : ConnLeft(c)' < ConnLeft(c)

\* Once _stop is set, a thread ends or moves its connection on: no round begins.
LEMMA ThreadsNear ==
  ASSUME RelayTypeOK, StopIsSet, RelayThreads
  PROVE  NoneFurther /\ Nearer
<1>1. ASSUME NEW e \in Endpoints, AcceptorEnds(e)
      PROVE  NoneFurther /\ Nearer
  <2>1. accepting' \subseteq accepting /\ accepting' # accepting /\ conn' = conn
    BY <1>1 DEF AcceptorEnds
  <2>2. \A c \in Conns : ConnLeft(c)' <= ConnLeft(c)
    BY <2>1, StillConnsNear
  <2> QED
    BY <2>1, <2>2 DEF NoneFurther, Nearer
<1>2. ASSUME NEW c \in Conns,
             Accept(c) \/ DialSucceeds(c) \/ DialFails(c) \/ BridgeStep(c)
      PROVE  NoneFurther /\ Nearer
  <2>1. accepting' = accepting
    BY <1>2 DEF Accept, DialSucceeds, DialFails, BridgeStep, BeginRound, Forward, EndOfStream,
                BridgeStops
  <2>2. PICK to : /\ conn' = [conn EXCEPT ![c] = to]
                  /\ \/ conn[c] = "queued" /\ to = "dialing"
                     \/ conn[c] \in {"dialing", "moving"} /\ to \in {"open", "ended"}
                     \/ conn[c] = "open" /\ to = "ended"
    <3>1. \/ conn[c] = "queued" /\ conn' = [conn EXCEPT ![c] = "dialing"]
          \/ /\ conn[c] \in {"dialing", "moving"}
             /\ conn' = [conn EXCEPT ![c] = "open"] \/ conn' = [conn EXCEPT ![c] = "ended"]
          \/ conn[c] = "open" /\ conn' = [conn EXCEPT ![c] = "ended"]
      BY <1>2 DEF Accept, DialSucceeds, DialFails, BridgeStep, BeginRound, Forward, EndOfStream,
                  BridgeStops
    <3> QED
      BY <3>1
  <2>3. (\A d \in Conns : ConnLeft(d)' <= ConnLeft(d)) /\ ConnLeft(c)' < ConnLeft(c)
    BY <2>2, OneConnNears DEF RelayTypeOK
  <2> QED
    BY <2>1, <2>3 DEF NoneFurther, Nearer
<1> QED
  BY <1>1, <1>2 DEF RelayThreads, AcceptorStep, ConnsOf

\* Nor does anybody else bring one further away.
LEMMA RestNotFurther ==
  ASSUME RelayTypeOK, StopIsSet, RelayStep \/ UNCHANGED relayVars, ~RelayThreads
  PROVE  NoneFurther
<1>1. CASE UNCHANGED <<accepting, conn>>
  BY <1>1, StillConnsNear DEF NoneFurther
<1>2. ASSUME NEW c \in Conns, Connect(c)
      PROVE  NoneFurther
  <2>1. accepting' = accepting /\ conn[c] = "none" /\ conn' = [conn EXCEPT ![c] = "queued"]
    BY <1>2 DEF Connect
  <2>2. \A d \in Conns : ConnLeft(d)' <= ConnLeft(d)
    BY <2>1, OneConnNears DEF RelayTypeOK
  <2> QED
    BY <2>1, <2>2 DEF NoneFurther
<1>3. CASE CloseListeners
  <2>1. /\ accepting' = accepting
        /\ conn' = [c \in Conns |-> IF conn[c] = "queued" THEN "ended" ELSE conn[c]]
    BY <1>3 DEF CloseListeners
  <2>2. ASSUME NEW d \in Conns
        PROVE  ConnLeft(d)' <= ConnLeft(d)
    <3>1. conn'[d] = IF conn[d] = "queued" THEN "ended" ELSE conn[d]
      BY <2>1
    <3>2. conn[d] \in {"none", "queued", "dialing", "open", "moving", "ended"}
      BY DEF RelayTypeOK
    <3> QED
      BY <3>1, <3>2 DEF ConnLeft
  <2> QED
    BY <2>1, <2>2 DEF NoneFurther
<1>4. ASSUME NEW e \in Endpoints, BindEndpoint(e)
      PROVE  FALSE
  BY <1>4 DEF BindEndpoint, StopIsSet
<1>5. CASE BindFails \/ SetStop \/ ThreadsJoined
  BY <1>1, <1>5 DEF BindFails, SetStop, ThreadsJoined
<1>6. CASE UNCHANGED relayVars
  BY <1>1, <1>6 DEF relayVars
<1> QED
  BY <1>2, <1>3, <1>4, <1>5, <1>6 DEF RelayStep, RelayThreads

\* For every set of endpoints and connections: once close has set _stop, each step
\* of a thread of the relay brings it nearer to its end, and no step, neither of the
\* arena's clients nor of run_arena, which may be long over, takes one further away.
THEOREM RelayIsNearer == Spec => RelayDrawsQuiet
<1>1. ASSUME IInv, [Next]_vars, StopIsSet
      PROVE  NoneFurther /\ (RelayThreads => Nearer)
  <2>1. RelayTypeOK
    BY <1>1 DEF IInv, RelayInv
  <2>2. RelayStep \/ UNCHANGED relayVars
    BY <1>1, EveryRelayStep
  <2> QED
    BY <1>1, <2>1, <2>2, ThreadsNear, RestNotFurther
<1>2. IInv /\ [Next]_vars =>
        (StopIsSet =>
           /\ accepting' \subseteq accepting
           /\ \A c \in Conns : ConnLeft(c)' <= ConnLeft(c)
           /\ RelayThreads =>
                accepting' # accepting \/ \E c \in Conns : ConnLeft(c)' < ConnLeft(c))
  BY <1>1 DEF NoneFurther, Nearer
<1> QED
  BY <1>2, Invariant, PTL DEF Spec, RelayDrawsQuiet

=============================================================================
