---------------------------- MODULE Coordinator ----------------------------
(***************************************************************************)
(* Coordinator.run_campaign and run_plan over the executor: every plan of  *)
(* the proposal is executed, judged by all of its oracles, and a failure   *)
(* with typed evidence is executed again until it has been reproduced      *)
(* confirmation_runs times, or has not.  The loop over the plans is that   *)
(* of run_campaign, or that of run_once, which calls run_plan by itself:   *)
(* it has no deadline, and checked its plan budget before (Launch).        *)
(*                                                                         *)
(* The oracles are a parameter: Answers(o, plan, observations) is the set  *)
(* of answers oracle o may give, so that what is shown here holds for any  *)
(* oracles, deterministic or not.                                          *)
(***************************************************************************)
EXTENDS Executor, Verdicts

CONSTANTS
  Metadata,       \* what the trusted metadata of a plan may say
  OracleIds,      \* the identifiers a plan can name
  Registered,     \* the oracles the coordinator was built with
  AnswerSet,      \* the answers oracles can give
  Answers(_, _, _),   \* those one oracle may give, for a plan and its observations
  Plans,          \* the plans a proposer can propose
  Proposals,      \* the lists of them it may propose, or run_once may be given
  MaxPlans,       \* budgets.max_plans
  Required        \* budgets.confirmation_runs

Plan ==
  [steps       : Seq(Step) \ {<<>>},
   destructive : BOOLEAN,
   oracle_ids  : (SUBSET OracleIds) \ {{}},
   metadata    : Metadata]

ASSUME CoordinatorAssumption ==
  /\ Registered \subseteq OracleIds
  /\ AnswerSet \subseteq OracleAnswer
  /\ Plans \subseteq Plan
  /\ Proposals \subseteq Seq(Plans)
  /\ MaxPlans \in Nat \ {0}
  /\ Required \in Nat \ {0}

VARIABLES
  driver,          \* who calls run_plan: "run_campaign" or "run_once"
  plans,           \* the proposal
  separate,        \* the proposer is none of the oracles
  campaignOver,    \* time.monotonic() has reached run_campaign's deadline
  attempts,        \* executions of the current plan that returned
  all_results,     \* the oracle results of those executions
  stable_keys,     \* the failure keys seen in each of them so far
  confirmations,   \* how many of them showed a stable key
  findings         \* one per concluded plan, oldest first

planVars == <<attempts, all_results, stable_keys, confirmations>>
campaignVars == <<driver, plans, separate, campaignOver, findings>>
vars == <<execVars, planVars, campaignVars>>

PlanNumber == Len(findings) + 1

Init ==
  /\ driver \in {"run_campaign", "run_once"}
  /\ plans \in Proposals
  /\ separate \in BOOLEAN
  /\ driver = "run_once" => separate /\ Len(plans) <= MaxPlans
  /\ authorized \in BOOLEAN
  /\ phase = "start"
  /\ campaignOver = FALSE
  /\ findings = <<>>
  /\ steps = <<>>
  /\ destructive = FALSE
  /\ used = 0
  /\ timeUp = FALSE
  /\ observations = <<>>
  /\ resolves = TRUE
  /\ effects = 0
  /\ attempts = 0
  /\ all_results = <<>>
  /\ stable_keys = {}
  /\ confirmations = 0

----------------------------------------------------------------------------
(* The campaign.                                                           *)

\* run_campaign: the proposer must not be one of the oracles, nor exceed the
\* plan budget.
StartCampaign ==
  /\ phase = "start"
  /\ phase' = IF separate /\ Len(plans) <= MaxPlans THEN "idle" ELSE "aborted"
  /\ UNCHANGED <<steps, destructive, authorized, used, timeUp, observations,
                 resolves, effects, planVars, campaignVars>>

\* The results of the previous plan are kept in the list of the next one.
BindPlanKeepsResults ==
  /\ phase = "idle"
  /\ Len(findings) < Len(plans)
  /\ ~campaignOver
  /\ phase' = "bound"
  /\ steps' = plans[PlanNumber].steps
  /\ destructive' = plans[PlanNumber].destructive
  /\ effects' = 0
  /\ attempts' = 0
  /\ stable_keys' = {}
  /\ confirmations' = 0
  /\ UNCHANGED <<all_results, authorized, used, timeUp, observations, resolves,
                 campaignVars>>

\* The next plan is bound to the campaign, under identifiers of its own.
BindPlan ==
  /\ phase = "idle"
  /\ Len(findings) < Len(plans)
  /\ ~campaignOver
  /\ phase' = "bound"
  /\ steps' = plans[PlanNumber].steps
  /\ destructive' = plans[PlanNumber].destructive
  /\ effects' = 0
  /\ attempts' = 0
  /\ all_results' = <<>>
  /\ stable_keys' = {}
  /\ confirmations' = 0
  /\ UNCHANGED <<authorized, used, timeUp, observations, resolves, campaignVars>>

FinishCampaign ==
  /\ phase = "idle"
  /\ Len(findings) = Len(plans) \/ campaignOver
  /\ phase' = "report"
  /\ UNCHANGED <<steps, destructive, authorized, used, timeUp, observations,
                 resolves, effects, planVars, campaignVars>>

\* Nothing catches an exception of an adapter: the campaign has no report.
AbortCampaign ==
  /\ phase = "raised"
  /\ phase' = "aborted"
  /\ UNCHANGED <<steps, destructive, authorized, used, timeUp, observations,
                 resolves, effects, planVars, campaignVars>>

----------------------------------------------------------------------------
(* One plan.                                                               *)

Finding(verdict) ==
  [verdict       |-> verdict,
   attempts      |-> attempts,
   confirmations |-> confirmations,
   results       |-> all_results]

\* run_plan returns, and the loop of run_campaign goes on.
ReturnFinding(finding) ==
  /\ findings' = Append(findings, finding)
  /\ phase' = "idle"
  /\ UNCHANGED <<steps, destructive, authorized, used, timeUp, observations,
                 resolves, effects, planVars, driver, plans, separate, campaignOver>>

OraclesOf == plans[PlanNumber].oracle_ids

MissingOracle ==
  /\ phase = "bound"
  /\ ~(OraclesOf \subseteq Registered)
  /\ ReturnFinding([Finding("ERROR") EXCEPT
       !.results = <<[o \in OraclesOf \ Registered |-> ErrorResult]>>])

FirstExecution ==
  /\ phase = "bound"
  /\ OraclesOf \subseteq Registered
  /\ phase' = "gate"
  /\ UNCHANGED <<steps, destructive, authorized, used, timeUp, observations,
                 resolves, effects, planVars, campaignVars>>

PlanRejected ==
  /\ phase = "violation"
  /\ attempts = 0
  /\ ReturnFinding(Finding("ERROR"))

\* Every oracle of the plan judges the observations; one that raises or
\* answers for another is recorded as an error.
Evaluations ==
  LET may(o) == Answers(o, plans[PlanNumber], observations) \cap AnswerSet
  IN  {[o \in OraclesOf |-> Recorded(answer[o])] :
         answer \in {a \in [OraclesOf -> UNION {may(o) : o \in OraclesOf}] :
                       \A o \in OraclesOf : a[o] \in may(o)}}

\* Both evaluations count the attempt and keep its results.
Attempted(results) ==
  /\ attempts' = attempts + 1
  /\ all_results' = Append(all_results, results)
  /\ UNCHANGED <<steps, destructive, authorized, used, timeUp, observations,
                 resolves, effects, campaignVars>>

\* A first attempt that did not fail is judged at once.
JudgeFirst ==
  /\ phase = "returned"
  /\ attempts = 0
  /\ \E results \in Evaluations :
       LET keys == FailureKeys(results) IN
       /\ Attempted(results)
       /\ IF BaseVerdict(results) = "FAIL"
          THEN /\ stable_keys' = keys
               /\ confirmations' = IF keys # {} THEN 1 ELSE 0
               /\ phase' = "confirm"
          ELSE /\ UNCHANGED <<stable_keys, confirmations>>
               /\ phase' = "decided"

ReturnBase ==
  /\ phase = "decided"
  /\ ReturnFinding(Finding(BaseVerdict(all_results[1])))

\* The head of the confirmation loop.
\* Off by one: the loop runs confirmation_runs + 1 times.
MustRepeatOnceMore == stable_keys # {} /\ attempts <= Required

MustRepeat == stable_keys # {} /\ attempts < Required

Repeat ==
  /\ phase = "confirm"
  /\ MustRepeat
  /\ phase' = "gate"
  /\ UNCHANGED <<steps, destructive, authorized, used, timeUp, observations,
                 resolves, effects, planVars, campaignVars>>

\* The refusal is ignored instead of ending the loop.
RepeatRejectedRetries ==
  /\ phase = "violation"
  /\ attempts > 0
  /\ phase' = "confirm"
  /\ UNCHANGED <<steps, destructive, authorized, used, timeUp, observations,
                 resolves, effects, planVars, campaignVars>>

\* The gate refuses a repetition: the loop ends with the keys seen so far.
RepeatRejected ==
  /\ phase = "violation"
  /\ attempts > 0
  /\ phase' = "conclude"
  /\ UNCHANGED <<steps, destructive, authorized, used, timeUp, observations,
                 resolves, effects, planVars, campaignVars>>

\* The new keys replace the stable ones instead of being intersected.
JudgeRepeatForgets ==
  /\ phase = "returned"
  /\ attempts > 0
  /\ \E results \in Evaluations :
       /\ Attempted(results)
       /\ IF BaseVerdict(results) = "FAIL"
          THEN /\ stable_keys' = FailureKeys(results)
               /\ confirmations' =
                    IF stable_keys' # {} THEN confirmations + 1 ELSE confirmations
               /\ phase' = "confirm"
          ELSE /\ stable_keys' = {}
               /\ UNCHANGED confirmations
               /\ phase' = "conclude"

JudgeRepeat ==
  /\ phase = "returned"
  /\ attempts > 0
  /\ \E results \in Evaluations :
       /\ Attempted(results)
       /\ IF BaseVerdict(results) = "FAIL"
          THEN /\ stable_keys' = stable_keys \cap FailureKeys(results)
               /\ confirmations' =
                    IF stable_keys' # {} THEN confirmations + 1 ELSE confirmations
               /\ phase' = "confirm"
          ELSE /\ stable_keys' = {}
               /\ UNCHANGED confirmations
               /\ phase' = "conclude"

Promoted == stable_keys # {} /\ confirmations >= Required

Conclude ==
  /\ \/ phase = "conclude"
     \/ phase = "confirm" /\ ~MustRepeat
  /\ ReturnFinding(Finding(IF Promoted THEN "VULNERABLE" ELSE "FAIL"))

----------------------------------------------------------------------------

ProgramStep ==
  \/ StartCampaign \/ BindPlan \/ FinishCampaign \/ AbortCampaign
  \/ MissingOracle \/ FirstExecution \/ PlanRejected
  \/ JudgeFirst \/ ReturnBase
  \/ Repeat \/ RepeatRejected \/ JudgeRepeat \/ Conclude
  \/ ExecutorStep /\ UNCHANGED <<planVars, campaignVars>>

\* run_once has the budget of a whole campaign, but sets no deadline by it.
CampaignExpires ==
  /\ driver = "run_campaign"
  /\ phase \notin {"start", "report", "aborted"}
  /\ ~campaignOver
  /\ campaignOver' = TRUE
  /\ UNCHANGED <<execVars, planVars, driver, plans, separate, findings>>

Environment ==
  \/ CampaignExpires
  \/ (SessionExpires \/ ResolverFlips) /\ UNCHANGED <<planVars, campaignVars>>

\* run_campaign has returned its report, or raised.
Terminated == phase \in {"report", "aborted"} /\ UNCHANGED vars

Next == ProgramStep \/ Environment \/ Terminated

\* The thread that runs the campaign keeps running; every adapter returns or
\* raises, because its timeout is bounded by the deadline of the session.
Spec == Init /\ [][Next]_vars /\ WF_vars(ProgramStep)

----------------------------------------------------------------------------
(* What the coordinator guarantees.                                        *)

Phases ==
  {"start", "idle", "bound", "gate", "steps", "returned", "violation", "raised",
   "confirm", "conclude", "decided", "report", "aborted"}

Keys == OracleIds \X Fingerprints

Results == UNION {[ids -> OracleResult] : ids \in SUBSET OracleIds}

FindingType ==
  [verdict       : Verdict,
   attempts      : 0..Required,
   confirmations : 0..Required,
   results       : Seq(Results)]

\* Type invariant of run_campaign: in particular the session never counts more
\* requests than its budget, and no plan is executed or confirmed more than
\* confirmation_runs times.
TypeOK ==
  /\ phase \in Phases
  /\ steps \in Seq(Step)
  /\ destructive \in BOOLEAN
  /\ authorized \in BOOLEAN
  /\ timeUp \in BOOLEAN
  /\ resolves \in BOOLEAN
  /\ driver \in {"run_campaign", "run_once"}
  /\ separate \in BOOLEAN
  /\ campaignOver \in BOOLEAN
  /\ used \in 0..MaxRequests
  /\ observations \in Seq(Observation)
  /\ effects \in Nat
  /\ plans \in Seq(Plans)
  /\ attempts \in 0..Required
  /\ all_results \in Seq(Results)
  /\ stable_keys \in SUBSET Keys
  /\ confirmations \in 0..Required
  /\ findings \in Seq(FindingType)

\* The failure keys seen in every one of a sequence of executions, each of
\* which failed as a whole.
SeenInAll(results) ==
  {key \in Keys : \A i \in 1..Len(results) :
                    /\ BaseVerdict(results[i]) = "FAIL"
                    /\ key \in FailureKeys(results[i])}

\* run_plan promotes a failure to VULNERABLE only when the same typed evidence
\* was reproduced in all of the confirmation_runs executions, none of which
\* had a broken or undecided oracle.
PromotedOnlyIfReproduced ==
  \A n \in DOMAIN findings :
    findings[n].verdict = "VULNERABLE" =>
      /\ Len(findings[n].results) = Required
      /\ SeenInAll(findings[n].results) # {}

\* A failing oracle is not promoted while another oracle of the same plan is
\* missing, broken or undecided, in any of the executions.
PromotedOnlyIfDecided ==
  \A n \in DOMAIN findings :
    findings[n].verdict = "VULNERABLE" =>
      \A i \in DOMAIN findings[n].results :
        /\ DOMAIN findings[n].results[i] = plans[n].oracle_ids
        /\ VerdictsOf(findings[n].results[i]) \subseteq {"PASS", "FAIL", "VULNERABLE"}

\* Whatever the marks on its steps, a plan whose effects need an authorization
\* reaches no adapter without one: validate_plan classifies the whole plan,
\* execute_step checks only the steps marked destructive.
EffectsAuthorized == effects > 0 /\ NeedsAuthorization => authorized

\* The request budget belongs to the session, and a plan opens one session per
\* execution: together they bound what run_plan does to the target.
PlanEffectsBounded == effects <= Required * MaxRequests

\* Every target is a literal address and every allowlisted tool has its adapter:
\* what validate_plan says of a step stays true of it.
Steady(list) ==
  \A i \in DOMAIN list : list[i].target # "localhost" /\ list[i].tool # "missing"

\* A plan of steady steps that run_plan reports as never attempted has had no
\* effect on the target: no step of it is refused after another was executed.
SteadyRejectionHasNoEffect ==
  [][findings' # findings /\ findings'[Len(findings')].attempts = 0
     /\ Steady(plans[PlanNumber].steps)
       => effects = 0]_vars

\* A plan that run_plan reports as never attempted, rejected by the safety gate,
\* has had no effect on the target, whatever its steps are.
RejectedPlanHasNoEffect ==
  [][findings' # findings /\ findings'[Len(findings')].attempts = 0
       => effects = 0]_vars

\* After a session that ran out of its budget no other session is opened.
BudgetCancelsCampaign ==
  [][phase = "gate" /\ phase' = "steps"
       => \A i \in DOMAIN observations : observations[i] # Budget]_vars

\* run_campaign comes to an end, whatever the gate, the adapters and the
\* oracles answer and however often a plan has to be repeated.
CampaignEnds == <>(phase \in {"report", "aborted"})

\* What a campaign has left to do: plans to conclude, executions of the plan at
\* hand (its binding counts as one more), and steps of the execution.
PlansLeft == Len(plans) - Len(findings)

ExecutionsLeft ==
  CASE phase \in {"start", "idle", "bound"} -> Required + 1
    [] phase \in {"report", "aborted"}      -> 0
    [] OTHER                                -> Required - attempts

StepsLeft ==
  CASE phase = "confirm" -> Len(steps) + 4
    [] phase = "gate"    -> Len(steps) + 3
    [] phase = "steps"   -> (Len(steps) - Len(observations)) + 2
    [] phase \in {"returned", "violation", "start"} -> 2
    [] phase \in {"raised", "conclude", "decided", "idle"} -> 1
    [] OTHER             -> 0

Nearer ==
  \/ PlansLeft' < PlansLeft
  \/ PlansLeft' = PlansLeft /\ ExecutionsLeft' < ExecutionsLeft
  \/ PlansLeft' = PlansLeft /\ ExecutionsLeft' = ExecutionsLeft /\ StepsLeft' < StepsLeft

\* Every step of run_campaign brings it nearer to its end, whatever it meets: no
\* refusal, no exception and no repetition leads back, and nothing but the clock
\* and the resolver moves without it.
CampaignDrawsNear == [][UNCHANGED <<phase, observations>> \/ Nearer]_vars

\* The verdict of every plan is the one its evidence justifies.
Evidence ==
  [i \in 1..Len(all_results) |->
     [base |-> BaseVerdict(all_results[i]), keys |-> FailureKeys(all_results[i])]]

Judged ==
  IF phase \in {"idle", "report"} /\ findings # <<>>
  THEN findings[Len(findings)].verdict ELSE "pending"

Abstract ==
  INSTANCE Promotion WITH Base <- Verdict, Key <- Keys,
                          evidence <- Evidence, verdict <- Judged

\* run_plan implements Promotion: it executes a plan again only while the
\* evidence leaves the question open, and its counters and its incremental set
\* of stable keys give the verdict that all of the evidence together justifies.
ImplementsPromotion == Abstract!Spec
=============================================================================
