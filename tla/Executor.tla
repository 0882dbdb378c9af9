------------------------------ MODULE Executor ------------------------------
(***************************************************************************)
(* SafeToolExecutor.execute_plan: one call validates a whole plan, opens a *)
(* session with its own request budget and deadline, and then runs the     *)
(* steps one by one, each validated again just before its adapter is       *)
(* called.  The caller sets phase to "gate"; the call ends with "returned" *)
(* (observations are the result), "violation" (SafetyViolation) or         *)
(* "raised" (any other exception of an adapter).                           *)
(*                                                                         *)
(* A step is abstracted to what the gate and the budgets tell apart:       *)
(*   tool    one of the registered adapters, "missing" (allowlisted, but   *)
(*           no adapter) or "forbidden" (not allowlisted)                  *)
(*   target  "literal" (an allowlisted loopback address), "localhost" (the *)
(*           allowlisted name, resolved again at every validation) or      *)
(*           "outside" (anything the gate refuses)                         *)
(*   marked  step.destructive                                              *)
(*   mutates the effects inferred from the method and the payload          *)
(***************************************************************************)
EXTENDS Naturals, Sequences

CONSTANTS
  Adapters,      \* the tools with a registered adapter
  MaxSteps,      \* budgets.max_steps_per_plan
  MaxRequests,   \* budgets.max_requests_per_plan
  Responses,     \* the observations an adapter can return
  Budget         \* the observation recorded when a budget is exhausted

ASSUME BudgetAssumption ==
  /\ MaxSteps \in Nat \ {0}
  /\ MaxRequests \in Nat \ {0}
  /\ Budget \notin Responses
  /\ Adapters \cap {"missing", "forbidden"} = {}

VARIABLES
  phase,          \* what the calling thread is doing
  steps,          \* plan.steps of the plan being executed
  destructive,    \* plan.risk is RiskLevel.DESTRUCTIVE
  authorized,     \* a valid DestructiveAuthorization was given
  used,           \* session.requests_used
  timeUp,         \* time.monotonic() has reached session.deadline
  observations,   \* the observations of this call, oldest first
  resolves,       \* external: "localhost" resolves, to loopback addresses only
  effects         \* external: how often an adapter was called for this plan

execVars ==
  <<phase, steps, destructive, authorized, used, timeUp, observations,
    resolves, effects>>

Step ==
  [tool    : Adapters \cup {"missing", "forbidden"},
   target  : {"literal", "localhost", "outside"},
   marked  : BOOLEAN,
   mutates : BOOLEAN]

Observation == Responses \cup {Budget}

----------------------------------------------------------------------------
(* The safety gate.                                                        *)

StepAdmitted(step) ==
  /\ step.tool # "forbidden"
  /\ \/ step.target = "literal"
     \/ step.target = "localhost" /\ resolves

NeedsAuthorization ==
  \/ destructive
  \/ \E i \in DOMAIN steps : steps[i].marked \/ steps[i].mutates

\* The steps are left to execute_step.
PlanAdmittedUnread ==
  /\ Len(steps) <= MaxSteps
  /\ NeedsAuthorization => authorized

\* Only the marks the proposer put on the plan are believed.
PlanAdmittedAsMarked ==
  /\ Len(steps) <= MaxSteps
  /\ \A i \in DOMAIN steps : StepAdmitted(steps[i])
  /\ destructive \/ (\E i \in DOMAIN steps : steps[i].marked) => authorized

PlanAdmitted ==
  /\ Len(steps) <= MaxSteps
  /\ \A i \in DOMAIN steps : StepAdmitted(steps[i])
  /\ NeedsAuthorization => authorized

----------------------------------------------------------------------------
(* One call of execute_plan.                                               *)

RefusePlan ==
  /\ phase = "gate"
  /\ ~PlanAdmitted
  /\ phase' = "violation"
  /\ UNCHANGED <<steps, destructive, authorized, used, timeUp, observations,
                 resolves, effects>>

OpenSession ==
  /\ phase = "gate"
  /\ PlanAdmitted
  /\ phase' = "steps"
  /\ used' = 0
  /\ timeUp' = FALSE
  /\ observations' = <<>>
  /\ UNCHANGED <<steps, destructive, authorized, resolves, effects>>

Current == steps[Len(observations) + 1]

\* execute_step validates the step again, whatever validate_plan said.
CurrentAdmitted ==
  /\ StepAdmitted(Current)
  /\ Current.marked => authorized

\* Off by one: a request too many.
InBudgetOnceMore == used <= MaxRequests /\ ~timeUp

InBudget == used < MaxRequests /\ ~timeUp

\* The gate refuses the step now, or no adapter is registered for its tool;
\* the observations made so far are lost with the exception.
RefuseStep ==
  /\ phase = "steps"
  /\ \/ ~CurrentAdmitted
     \/ CurrentAdmitted /\ InBudget /\ Current.tool = "missing"
  /\ phase' = "violation"
  /\ UNCHANGED <<steps, destructive, authorized, used, timeUp, observations,
                 resolves, effects>>

\* A spent budget ends the plan early, with an observation that says so.
ExhaustBudget ==
  /\ phase = "steps"
  /\ CurrentAdmitted
  /\ ~InBudget
  /\ observations' = Append(observations, Budget)
  /\ phase' = "returned"
  /\ UNCHANGED <<steps, destructive, authorized, used, timeUp, resolves, effects>>

CallAdapter ==
  /\ phase = "steps"
  /\ CurrentAdmitted
  /\ InBudget
  /\ Current.tool \in Adapters
  /\ used' = used + 1
  /\ effects' = effects + 1

\* The adapter returns an observation, of a response or of a failure.
Observe ==
  /\ CallAdapter
  /\ \E response \in Responses : observations' = Append(observations, response)
  /\ phase' = IF Len(observations') = Len(steps) THEN "returned" ELSE "steps"
  /\ UNCHANGED <<steps, destructive, authorized, timeUp, resolves>>

\* The adapter raises something execute_plan does not catch.
AdapterRaises ==
  /\ CallAdapter
  /\ phase' = "raised"
  /\ UNCHANGED <<steps, destructive, authorized, timeUp, observations, resolves>>

ExecutorStep ==
  RefusePlan \/ OpenSession \/ RefuseStep \/ ExhaustBudget \/ Observe \/ AdapterRaises

----------------------------------------------------------------------------
(* The environment: the clock and the resolver.                            *)

SessionExpires ==
  /\ phase = "steps"
  /\ ~timeUp
  /\ timeUp' = TRUE
  /\ UNCHANGED <<phase, steps, destructive, authorized, used, observations,
                 resolves, effects>>

\* Only a plan that names localhost can notice.
ResolverFlips ==
  /\ phase \in {"gate", "steps"}
  /\ \E i \in DOMAIN steps : steps[i].target = "localhost"
  /\ resolves' = ~resolves
  /\ UNCHANGED <<phase, steps, destructive, authorized, used, timeUp,
                 observations, effects>>
=============================================================================
