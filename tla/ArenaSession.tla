---------------------------- MODULE ArenaSession ----------------------------
(***************************************************************************)
(* ArenaSession and the worker it talks to: requests go to the worker's    *)
(* standard input, answers come back through a reading thread and a queue, *)
(* one JSON object per line and none with a number.  The host waits for    *)
(* every answer with a timeout, and ends the worker by asking, then        *)
(* terminating, then killing it.                                           *)
(*                                                                         *)
(* host is what the calling thread is doing.  The caller (Arena) enters at  *)
(* "spawn", sends a command from "ask", gets control back at "loop", and   *)
(* leaves the session through "poll"; the session is left at "finally".    *)
(***************************************************************************)
EXTENDS Naturals, Sequences

VARIABLES
  host,       \* what the thread that runs the arena is doing
  failed,     \* an exception is on its way out
  started,    \* start has returned
  worker,     \* the worker process, with everything in its namespace
  inbox,      \* the lines it has not finished reading
  messages,   \* the lines it wrote that the host has not received
  began       \* the commands it has started

sessionVars == <<host, failed, started, worker, inbox, messages, began>>

SessionInit ==
  /\ host = "relay"
  /\ failed = FALSE
  /\ started = FALSE
  /\ worker = "none"
  /\ inbox = <<>>
  /\ messages = <<>>
  /\ began = {}

Message(type, n) == [type |-> type, n |-> n]

Alive == worker \in {"booting", "idle", "busy", "ending"}

----------------------------------------------------------------------------
(* The worker.                                                             *)

\* The forwarders or the server are up.
WorkerReady ==
  /\ worker = "booting"
  /\ worker' = "idle"
  /\ messages' = Append(messages, Message("ready", 0))
  /\ UNCHANGED <<host, failed, started, inbox, began>>

\* The server was not healthy in time.
WorkerNotReady ==
  /\ worker = "booting"
  /\ worker' = "ending"
  /\ messages' = Append(messages, Message("error", 0))
  /\ UNCHANGED <<host, failed, started, inbox, began>>

Asked(op) == inbox # <<>> /\ Head(inbox).op = op

BeginCommand ==
  /\ worker = "idle"
  /\ Asked("exec")
  /\ Head(inbox).fit
  /\ worker' = "busy"
  /\ began' = began \cup {Head(inbox).n}
  /\ UNCHANGED <<host, failed, started, inbox, messages>>

\* The command is longer than the protocol allows: it is not run.
RefuseCommand ==
  /\ worker = "idle"
  /\ Asked("exec")
  /\ ~Head(inbox).fit
  /\ inbox' = Tail(inbox)
  /\ messages' = Append(messages, Message("protocol_error", Head(inbox).n))
  /\ UNCHANGED <<host, failed, started, worker, began>>

\* The worker reads the same line once more.
AnswerButKeep ==
  /\ worker = "busy"
  /\ worker' = "idle"
  /\ \E type \in {"result", "protocol_error"} :
       messages' = Append(messages, Message(type, Head(inbox).n))
  /\ UNCHANGED <<host, failed, started, inbox, began>>

\* The command ended or was killed; a group that outlives its SIGKILL for two
\* seconds is an exception, and reported as one.
AnswerCommand ==
  /\ worker = "busy"
  /\ worker' = "idle"
  /\ inbox' = Tail(inbox)
  /\ \E type \in {"result", "protocol_error"} :
       messages' = Append(messages, Message(type, Head(inbox).n))
  /\ UNCHANGED <<host, failed, started, began>>

ObeyShutdown ==
  /\ worker = "idle"
  /\ Asked("shutdown")
  /\ worker' = "ending"
  /\ inbox' = Tail(inbox)
  /\ messages' = Append(messages, Message("shutdown", 0))
  /\ UNCHANGED <<host, failed, started, began>>

\* It has closed its forwarders, or ended its server, which takes a while.
WorkerExits ==
  /\ worker = "ending"
  /\ worker' = "dead"
  /\ inbox' = <<>>
  /\ UNCHANGED <<host, failed, started, messages, began>>

\* External: the worker is killed, by a limit or by one of its commands.
WorkerDies ==
  /\ worker \in {"booting", "idle", "busy"}
  /\ worker' = "dead"
  /\ inbox' = <<>>
  /\ UNCHANGED <<host, failed, started, messages, began>>

WorkerStep ==
  \/ WorkerReady \/ WorkerNotReady \/ BeginCommand \/ RefuseCommand
  \/ AnswerCommand \/ ObeyShutdown \/ WorkerExits

----------------------------------------------------------------------------
(* The host: start, request and close.                                     *)

\* start: the process exists before anything is known of it.
Spawn ==
  /\ host = "spawn"
  /\ host' = "starting"
  /\ worker' = "booting"
  /\ UNCHANGED <<failed, started, inbox, messages, began>>

\* A file of the namespace is missing, or Popen fails.
SpawnFails ==
  /\ host = "spawn"
  /\ host' = "finally"
  /\ failed' = TRUE
  /\ UNCHANGED <<started, worker, inbox, messages, began>>

\* The first line decides; a worker that is not ready is closed at once.
ReceiveReady ==
  /\ host = "starting"
  /\ messages # <<>>
  /\ messages' = Tail(messages)
  /\ IF Head(messages).type = "ready"
     THEN host' = "loop" /\ started' = TRUE /\ UNCHANGED failed
     ELSE host' = "poll" /\ failed' = TRUE /\ UNCHANGED started
  /\ UNCHANGED <<worker, inbox, began>>

\* No line in time, or an end of file: start raises, and as __enter__ has not
\* returned nobody calls close.
StartupFails ==
  /\ host = "starting"
  /\ messages = <<>>
  /\ host' = "finally"
  /\ failed' = TRUE
  /\ UNCHANGED <<started, worker, inbox, messages, began>>

\* A line to a process that is gone breaks the pipe.
Send(n, fit) ==
  /\ host = "ask"
  /\ IF worker # "dead"
     THEN /\ inbox' = Append(inbox, [op |-> "exec", n |-> n, fit |-> fit])
          /\ host' = "receive"
          /\ UNCHANGED failed
     ELSE /\ host' = "poll"
          /\ failed' = TRUE
          /\ UNCHANGED inbox
  /\ UNCHANGED <<started, worker, messages, began>>

\* Whatever line comes first is taken for the answer, if it is a result.
ReceiveAnswer ==
  /\ host = "receive"
  /\ messages # <<>>
  /\ messages' = Tail(messages)
  /\ IF Head(messages).type = "result"
     THEN host' = "loop" /\ UNCHANGED failed
     ELSE host' = "poll" /\ failed' = TRUE
  /\ UNCHANGED <<started, worker, inbox, began>>

\* A late answer is skipped: the loop goes on with the next command.
AnswerIsLateButLoops ==
  /\ host = "receive"
  /\ messages = <<>>
  /\ host' = "loop"
  /\ UNCHANGED <<failed, started, worker, inbox, messages, began>>

\* The queue is read without a timeout: only the worker's end wakes the host.
WorkerIsGone ==
  /\ host = "receive"
  /\ messages = <<>>
  /\ worker = "dead"
  /\ host' = "poll"
  /\ failed' = TRUE
  /\ UNCHANGED <<started, worker, inbox, messages, began>>

\* The answer is late, or the worker gone: request raises.
AnswerIsLate ==
  /\ host = "receive"
  /\ messages = <<>>
  /\ host' = "poll"
  /\ failed' = TRUE
  /\ UNCHANGED <<started, worker, inbox, messages, began>>

Poll ==
  /\ host = "poll"
  /\ host' = IF worker = "dead" THEN "finally" ELSE "shutdown"
  /\ UNCHANGED <<failed, started, worker, inbox, messages, began>>

AskShutdown ==
  /\ host = "shutdown"
  /\ worker # "dead"
  /\ inbox' = Append(inbox, [op |-> "shutdown"])
  /\ host' = "waiting"
  /\ UNCHANGED <<failed, started, worker, messages, began>>

\* The worker died after poll.  The line stays in the buffer of the pipe, and
\* closing the stream raises when it tries to write it again.
PipeBreaks ==
  /\ host = "shutdown"
  /\ worker = "dead"
  /\ host' = "finally"
  /\ failed' = TRUE
  /\ UNCHANGED <<started, worker, inbox, messages, began>>

WorkerWaited ==
  /\ host \in {"waiting", "terminated"}
  /\ worker = "dead"
  /\ host' = "finally"
  /\ UNCHANGED <<failed, started, worker, inbox, messages, began>>

\* Three seconds are over; the signal may or may not end the process.
Terminate ==
  /\ host = "waiting"
  /\ worker # "dead"
  /\ host' = "terminated"
  /\ UNCHANGED <<failed, started, worker, inbox, messages, began>>

\* Terminated or not, the process is left to itself.
TerminateOnly ==
  /\ host = "terminated"
  /\ worker # "dead"
  /\ host' = "finally"
  /\ UNCHANGED <<failed, started, worker, inbox, messages, began>>

Kill ==
  /\ host = "terminated"
  /\ worker # "dead"
  /\ worker' = "dead"
  /\ inbox' = <<>>
  /\ host' = "finally"
  /\ UNCHANGED <<failed, started, messages, began>>

CloseStep ==
  Poll \/ AskShutdown \/ PipeBreaks \/ WorkerWaited \/ Terminate \/ Kill

----------------------------------------------------------------------------

HostPhases ==
  {"relay", "spawn", "starting", "loop", "ask", "receive", "poll",
   "shutdown", "waiting", "terminated", "finally", "finish", "reported", "raised"}

Requests == [op : {"exec"}, n : Nat, fit : BOOLEAN] \cup [op : {"shutdown"}]

MessageTypes == {"ready", "error", "result", "protocol_error", "shutdown"}

SessionTypeOK ==
  /\ host \in HostPhases
  /\ failed \in BOOLEAN
  /\ started \in BOOLEAN
  /\ worker \in {"none", "booting", "idle", "busy", "ending", "dead"}
  /\ inbox \in Seq(Requests)
  /\ Len(inbox) <= 2
  /\ messages \in Seq([type : MessageTypes, n : Nat])
  /\ Len(messages) <= 2
  /\ began \subseteq Nat
=============================================================================
