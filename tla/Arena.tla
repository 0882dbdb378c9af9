------------------------------- MODULE Arena -------------------------------
(***************************************************************************)
(* run_arena: relays for a remote target, a session with a worker, a loop  *)
(* in which a provider chooses one command after the other, and the        *)
(* report, which is written only if nothing raised.                        *)
(*                                                                         *)
(* The thread that runs it, the worker, and the threads of the relays are  *)
(* interleaved step by step; the deadline may pass and the operator may    *)
(* interrupt at any time.  A command is its number and whether it is fit   *)
(* for the protocol; of a result only the command it belongs to is kept.   *)
(***************************************************************************)
EXTENDS ArenaSession, RelaySet

CONSTANT MaxActions   \* limits.max_actions

ASSUME ArenaAssumption == MaxActions \in Nat \ {0}

VARIABLES
  sequence,      \* the action of the current iteration
  steps,         \* the commands answered so far
  stop_reason,
  over,          \* time.monotonic() has reached the session deadline
  lateStarts     \* commands sent when it had

runVars == <<sequence, steps, stop_reason, over, lateStarts>>
vars == <<sessionVars, relayVars, runVars>>

Init ==
  /\ SessionInit
  /\ RelayInit
  /\ sequence = 0
  /\ steps = <<>>
  /\ stop_reason = "action-budget"
  /\ over = FALSE
  /\ lateStarts = 0

----------------------------------------------------------------------------
(* Before and after the session.                                           *)

\* The host goes from one phase to another, and nothing else changes.
Continue(from, to) ==
  /\ host = from
  /\ host' = to
  /\ UNCHANGED <<failed, started, worker, inbox, messages, began, relayVars>>

Raise(from, to) ==
  /\ host = from
  /\ host' = to
  /\ failed' = TRUE
  /\ UNCHANGED <<started, worker, inbox, messages, began>>

StartRelay ==
  /\ host = "relay"
  /\ \/ (\E e \in Endpoints : BindEndpoint(e)) /\ UNCHANGED <<sessionVars, runVars>>
     \/ Endpoints # {} /\ BindFails /\ Raise("relay", "finally") /\ UNCHANGED runVars

RelayStarted ==
  /\ Endpoints = {} \/ relay = "open"
  /\ Continue("relay", "spawn")
  /\ UNCHANGED runVars

\* The finally clause closes the relay on every path, also a broken one.
CloseRelay ==
  /\ host = "finally"
  /\ SetStop \/ CloseListeners \/ ThreadsJoined
  /\ UNCHANGED <<sessionVars, runVars>>

RelayClosed ==
  /\ Endpoints = {} \/ relay = "closed"
  /\ Continue("finally", "finish")
  /\ UNCHANGED runVars

\* The report of a failed run is written as well.
WriteReportAnyway ==
  /\ Continue("finish", "reported")
  /\ UNCHANGED runVars

WriteReport ==
  /\ ~failed
  /\ Continue("finish", "reported")
  /\ UNCHANGED runVars

\* An exception ends run_arena, possibly one of writing the report.
RunRaises ==
  /\ Raise("finish", "raised")
  /\ UNCHANGED <<relayVars, runVars>>

----------------------------------------------------------------------------
(* The loop.                                                               *)

LoopEnds ==
  /\ \/ sequence = MaxActions /\ UNCHANGED stop_reason
     \/ sequence < MaxActions /\ over /\ stop_reason' = "session-timeout"
  /\ Continue("loop", "poll")
  /\ UNCHANGED <<sequence, steps, over, lateStarts>>

\* Nobody looks at the clock.
NextActionUntimed ==
  /\ sequence < MaxActions
  /\ sequence' = sequence + 1
  /\ Continue("loop", "ask")
  /\ UNCHANGED <<steps, stop_reason, over, lateStarts>>

NextAction ==
  /\ sequence < MaxActions
  /\ ~over
  /\ sequence' = sequence + 1
  /\ Continue("loop", "ask")
  /\ UNCHANGED <<steps, stop_reason, over, lateStarts>>

ProviderIsDone ==
  /\ stop_reason' = "agent-finished"
  /\ Continue("ask", "poll")
  /\ UNCHANGED <<sequence, steps, over, lateStarts>>

\* The provider raises, or its action is not one.
ProviderFails ==
  /\ Raise("ask", "poll")
  /\ UNCHANGED <<relayVars, runVars>>

\* The clock is not read again between the provider's answer and the command.
ProviderCommands ==
  /\ \E fit \in BOOLEAN : Send(sequence, fit)
  /\ lateStarts' = IF over THEN lateStarts + 1 ELSE lateStarts
  /\ UNCHANGED <<relayVars, sequence, steps, stop_reason, over>>

\* The result is filed under the number of the current action.
TakeAnswer ==
  /\ ReceiveAnswer
  /\ steps' = IF Head(messages).type = "result"
              THEN Append(steps, [sequence |-> sequence, result |-> Head(messages).n])
              ELSE steps
  /\ UNCHANGED <<relayVars, sequence, stop_reason, over, lateStarts>>

HostStep ==
  \/ StartRelay \/ RelayStarted \/ CloseRelay \/ RelayClosed
  \/ WriteReport \/ RunRaises
  \/ LoopEnds \/ NextAction \/ ProviderIsDone \/ ProviderFails
  \/ ProviderCommands \/ TakeAnswer
  \/ (Spawn \/ SpawnFails \/ ReceiveReady \/ StartupFails \/ AnswerIsLate \/ CloseStep)
       /\ UNCHANGED <<relayVars, runVars>>

----------------------------------------------------------------------------
(* Everybody else.                                                         *)

DeadlinePasses ==
  /\ host \in {"spawn", "starting", "loop", "ask", "receive"}
  /\ ~over
  /\ over' = TRUE
  /\ UNCHANGED <<sessionVars, relayVars, sequence, steps, stop_reason, lateStarts>>

\* The operator interrupts the start of the session, or its loop.
Interrupt ==
  /\ \/ Raise("starting", "finally")
     \/ \E phase \in {"loop", "ask", "receive"} : Raise(phase, "poll")
  /\ UNCHANGED <<relayVars, runVars>>

\* A command, or what it left behind, connects to the target.
CommandConnects ==
  /\ Alive
  /\ began # {}
  /\ \E c \in Conns : Connect(c)
  /\ UNCHANGED <<sessionVars, runVars>>

Environment ==
  \/ DeadlinePasses \/ Interrupt \/ CommandConnects
  \/ (WorkerStep \/ WorkerDies) /\ UNCHANGED <<relayVars, runVars>>
  \/ RelayThreads /\ UNCHANGED <<sessionVars, runVars>>

Ended == host \in {"reported", "raised"}

Terminated == Ended /\ UNCHANGED vars

Next == HostStep \/ Environment \/ Terminated

\* The host's thread is never blocked for ever: each of its waits has a
\* timeout.  Nor are those of the relay: accept, connect and select have one,
\* and a peer that is sent data reads it or is gone.  Nothing is assumed of the
\* worker, nor of the commands it runs.
Spec ==
  /\ Init /\ [][Next]_vars
  /\ WF_vars(HostStep)
  /\ \A e \in Endpoints : WF_vars(AcceptorStep(e) /\ UNCHANGED <<sessionVars, runVars>>)
  /\ \A c \in Conns : WF_vars(BridgeStep(c) /\ UNCHANGED <<sessionVars, runVars>>)

----------------------------------------------------------------------------
(* What the arena guarantees.                                              *)

RunTypeOK ==
  /\ sequence \in 0..MaxActions
  /\ steps \in Seq([sequence : 1..MaxActions, result : 1..MaxActions])
  /\ stop_reason \in {"action-budget", "session-timeout", "agent-finished"}
  /\ over \in BOOLEAN
  /\ lateStarts \in Nat

\* Type invariant; in particular no more than two lines wait on either side of
\* the worker.
TypeOK == SessionTypeOK /\ RelayTypeOK /\ RunTypeOK

\* A report is written only when every command the worker started is a step of
\* it, and its stop reason is the true one.
ReportIsComplete ==
  host = "reported" =>
    /\ began = 1..Len(steps)
    /\ stop_reason = "action-budget" <=> Len(steps) = MaxActions

\* The session deadline is read before the provider is asked and not again, so
\* run_arena may overshoot it by one command, never by two.
AtMostOneLateCommand == lateStarts <= 1

\* Whatever failed on the way, run_arena leaves no listener open, and a worker
\* only if start never returned (the process that runs it takes it along).
NothingLeftBehind ==
  Ended => listening = {} /\ (started => ~Alive)

Unanswered == inbox # <<>> /\ Head(inbox).op = "exec"

\* The command the worker has, has answered, or has taken along.
CommandInHand ==
  IF host = "receive" THEN sequence ELSE IF Unanswered THEN Head(inbox).n ELSE 0

Outcome ==
  IF failed THEN "broken" ELSE IF host = "reported" THEN "reported" ELSE "open"

Abstract ==
  INSTANCE Conversation WITH
    underWay <- CommandInHand, executed <- began, running <- (worker = "busy"),
    outcome <- Outcome

\* However answers, timeouts, deaths and interrupts are interleaved, run_arena and
\* its worker hold a Conversation: one command at a time, none of them executed
\* twice, each result recorded for its own command, and nothing asked, recorded
\* or reported after the first thing that went wrong.
ImplementsConversation == Abstract!Spec

\* run_arena comes to an end, whatever the worker and its commands do.
ArenaEnds == <>Ended

\* The threads of the relay that close did not wait for end by themselves.
RelayQuiets == Ended ~> Quiet
=============================================================================
