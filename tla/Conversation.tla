---------------------------- MODULE Conversation ----------------------------
(***************************************************************************)
(* What an arena promises about its commands, without saying how they      *)
(* travel.  One command is under way at a time; it is executed at most     *)
(* once; what is recorded for a command is its own result; and once        *)
(* anything goes wrong nothing more is asked, recorded or reported, though *)
(* the command under way may still be executed.                            *)
(***************************************************************************)
EXTENDS Naturals, Sequences

CONSTANT MaxActions   \* limits.max_actions

VARIABLES
  underWay,   \* the number of the command under way, or Nothing
  executed,   \* the commands that were started
  running,    \* one of them is running
  steps,      \* the results recorded so far, in order
  outcome     \* "open", "broken", or "reported"

vars == <<underWay, executed, running, steps, outcome>>

Nothing == 0

Init ==
  /\ underWay = Nothing
  /\ executed = {}
  /\ ~running
  /\ steps = <<>>
  /\ outcome = "open"

\* The next command, whose predecessors all have their results.
Ask ==
  /\ outcome = "open"
  /\ underWay = Nothing
  /\ Len(steps) < MaxActions
  /\ underWay' = Len(steps) + 1
  /\ UNCHANGED <<executed, running, steps, outcome>>

Execute ==
  /\ underWay # Nothing
  /\ underWay \notin executed
  /\ executed' = executed \cup {underWay}
  /\ running' = TRUE
  /\ UNCHANGED <<underWay, steps, outcome>>

\* It has ended, or was killed; nobody waits for the result of a broken
\* conversation, nor for its command to be started.
End ==
  /\ running' = FALSE
  /\ UNCHANGED underWay \/ (outcome = "broken" /\ underWay' = Nothing)
  /\ UNCHANGED <<executed, steps, outcome>>

Record ==
  /\ outcome = "open"
  /\ underWay \in executed /\ ~running
  /\ steps' = Append(steps, [sequence |-> Len(steps) + 1, result |-> underWay])
  /\ underWay' = Nothing
  /\ UNCHANGED <<executed, running, outcome>>

\* The command under way may outlive the conversation.
Break ==
  /\ outcome = "open"
  /\ outcome' = "broken"
  /\ underWay' \in {underWay, Nothing}
  /\ UNCHANGED <<executed, running, steps>>

Report ==
  /\ outcome = "open"
  /\ underWay = Nothing
  /\ outcome' = "reported"
  /\ UNCHANGED <<underWay, executed, running, steps>>

Next == Ask \/ Execute \/ End \/ Record \/ Break \/ Report

Spec == Init /\ [][Next]_vars
=============================================================================
