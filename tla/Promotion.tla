----------------------------- MODULE Promotion -----------------------------
(***************************************************************************)
(* What the verdict on an attack plan promises, without saying how it is   *)
(* computed.  A plan is executed a number of times; each execution leaves  *)
(* a piece of evidence, its base verdict and the failure keys its oracles  *)
(* agreed on.  An execution is only justified while the evidence so far    *)
(* leaves the question open, and the verdict is a function of the evidence *)
(* alone: VULNERABLE exactly when one same key was seen in Required        *)
(* failing executions.                                                     *)
(***************************************************************************)
EXTENDS Naturals, Sequences

CONSTANTS
  Required,   \* budgets.confirmation_runs
  Base,       \* the base verdicts of one execution
  Key         \* the failure keys its oracles can report

VARIABLES
  evidence,   \* the executions of the current plan, oldest first
  verdict     \* the verdict on the current plan, or "pending"

vars == <<evidence, verdict>>

\* The keys present in every execution, all of which failed.
Reproduced(ev) ==
  IF ev = <<>> THEN {}
  ELSE {key \in ev[1].keys :
          \A i \in 1..Len(ev) : ev[i].base = "FAIL" /\ key \in ev[i].keys}

Undecided(ev) ==
  \/ ev = <<>>
  \/ Len(ev) < Required /\ Reproduced(ev) # {}

Judgement(ev) ==
  IF ev = <<>> THEN "ERROR"
  ELSE IF ev[1].base # "FAIL" THEN ev[1].base
  ELSE IF Len(ev) = Required /\ Reproduced(ev) # {} THEN "VULNERABLE"
  ELSE "FAIL"

Init ==
  /\ evidence = <<>>
  /\ verdict = "pending"

\* The plan is executed once more, and leaves the evidence e.
Execute ==
  /\ verdict = "pending"
  /\ Undecided(evidence)
  /\ \E e \in [base : Base, keys : SUBSET Key] : evidence' = Append(evidence, e)
  /\ UNCHANGED verdict

Judge ==
  /\ verdict = "pending"
  /\ verdict' = Judgement(evidence)
  /\ UNCHANGED evidence

NextPlan ==
  /\ verdict # "pending"
  /\ Init'

Next == Execute \/ Judge \/ NextPlan

Spec == Init /\ [][Next]_vars
=============================================================================
