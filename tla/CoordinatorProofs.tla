------------------------- MODULE CoordinatorProofs -------------------------
(***************************************************************************)
(* Proofs about Coordinator, for every number of plans, steps, oracles and *)
(* confirmation runs.                                                      *)
(***************************************************************************)
EXTENDS Coordinator, TLAPS

----------------------------------------------------------------------------
(* The vocabulary.                                                         *)

\* Whatever the oracles answer, what _evaluate records of it is typed.
LEMMA EvaluationsTyped ==
  ASSUME plans \in Seq(Plans), PlanNumber \in DOMAIN plans
  PROVE  \A results \in Evaluations : results \in Results
<1> USE CoordinatorAssumption
<1>1. OraclesOf \in SUBSET OracleIds
  <2>1. plans[PlanNumber] \in Plan
    BY DEF PlanNumber
  <2> QED
    BY <2>1 DEF OraclesOf, Plan
<1>2. \A a \in AnswerSet : Recorded(a) \in OracleResult
  BY DEF Recorded, OracleResult, OracleAnswer, ErrorResult, Verdict
<1>3. ASSUME NEW a, \A o \in OraclesOf : a[o] \in AnswerSet
      PROVE  [o \in OraclesOf |-> Recorded(a[o])] \in [OraclesOf -> OracleResult]
  BY <1>2, <1>3
<1>4. \A results \in Evaluations : results \in [OraclesOf -> OracleResult]
  BY <1>3 DEF Evaluations
<1> QED
  BY <1>1, <1>4 DEF Results

\* The failure keys of typed results are keys.
LEMMA FailureKeysTyped ==
  ASSUME NEW results \in Results
  PROVE  FailureKeys(results) \subseteq Keys
BY DEF FailureKeys, Results, Keys, OracleResult

\* The base verdict of any results is a verdict.
LEMMA BaseVerdictTyped ==
  ASSUME NEW results
  PROVE  BaseVerdict(results) \in Verdict
BY DEF BaseVerdict, Verdict

\* What one more execution leaves of the keys seen in all of them.
LEMMA SeenInAllAppend ==
  ASSUME NEW results \in Seq(Results), NEW r \in Results
  PROVE  SeenInAll(Append(results, r)) =
           IF BaseVerdict(r) = "FAIL" THEN SeenInAll(results) \cap FailureKeys(r) ELSE {}
<1> DEFINE more == Append(results, r)
<1>1. /\ Len(more) = Len(results) + 1
      /\ more[Len(results) + 1] = r
      /\ \A i \in 1..Len(results) : more[i] = results[i]
  OBVIOUS
<1>2. 1..Len(more) = (1..Len(results)) \cup {Len(results) + 1}
  BY <1>1
<1> HIDE DEF more
<1>3. ASSUME NEW key \in Keys
      PROVE  key \in SeenInAll(more) <=>
               /\ key \in SeenInAll(results)
               /\ BaseVerdict(r) = "FAIL"
               /\ key \in FailureKeys(r)
  BY <1>1, <1>2 DEF SeenInAll
<1>4. SeenInAll(more) \subseteq Keys /\ SeenInAll(results) \subseteq Keys
  BY DEF SeenInAll
<1> QED
  BY <1>3, <1>4 DEF more

\* Of a first execution, all the failure keys.
LEMMA SeenInFirst ==
  ASSUME NEW r \in Results, BaseVerdict(r) = "FAIL"
  PROVE  SeenInAll(Append(<<>>, r)) = FailureKeys(r)
<1>1. SeenInAll(<<>>) = Keys
  BY DEF SeenInAll
<1>2. <<>> \in Seq(Results)
  OBVIOUS
<1>3. SeenInAll(Append(<<>>, r)) = Keys \cap FailureKeys(r)
  <2>1. SeenInAll(Append(<<>>, r)) =
          IF BaseVerdict(r) = "FAIL" THEN SeenInAll(<<>>) \cap FailureKeys(r) ELSE {}
    BY <1>2, SeenInAllAppend
  <2> QED
    BY <2>1, <1>1
<1> QED
  BY <1>3, FailureKeysTyped

----------------------------------------------------------------------------
(* The inductive invariant.                                                *)

Executing == phase \in {"gate", "steps", "returned", "violation"}

\* A plan is being run, and has a place in the proposal.
PlanBound ==
  phase \in Phases \ {"start", "idle", "report", "aborted"} =>
    PlanNumber \in DOMAIN plans

\* The counters of the confirmation loop agree with the results it keeps.
CountersAgree ==
  /\ Len(all_results) = attempts
  /\ confirmations <= attempts
  /\ stable_keys # {} => confirmations = attempts
  /\ attempts = 0 => stable_keys = {}

\* Where the loop stands.
LoopPosition ==
  /\ phase = "start" => findings = <<>>
  /\ phase \in {"start", "idle"} /\ findings = <<>> => attempts = 0
  /\ phase = "bound" => attempts = 0
  /\ Executing /\ attempts > 0 => stable_keys # {} /\ attempts < Required
  /\ phase \in {"confirm", "conclude"} => attempts > 0
  /\ phase = "decided" => attempts = 1 /\ BaseVerdict(all_results[1]) # "FAIL"

\* The keys kept by intersection are the keys of all the results.
KeysAgree ==
  (Executing /\ attempts > 0) \/ phase \in {"confirm", "conclude"} =>
    /\ BaseVerdict(all_results[1]) = "FAIL"
    /\ stable_keys = SeenInAll(all_results)

IInv ==
  /\ TypeOK
  /\ PlanBound
  /\ CountersAgree
  /\ LoopPosition
  /\ KeysAgree
  /\ PromotedOnlyIfReproduced

\* Initially there is nothing to agree about.
LEMMA InitIInv == Init => IInv
<1> SUFFICES ASSUME Init PROVE IInv
  OBVIOUS
<1> USE CoordinatorAssumption, BudgetAssumption
<1>1. plans \in Seq(Plans)
  BY DEF Init
<1>2. TypeOK
  <2>1. \A S : <<>> \in Seq(S)
    OBVIOUS
  <2>2. /\ steps \in Seq(Step)
        /\ observations \in Seq(Observation)
        /\ all_results \in Seq(Results)
        /\ findings \in Seq(FindingType)
    BY <2>1 DEF Init
  <2>3. /\ destructive \in BOOLEAN
        /\ authorized \in BOOLEAN
        /\ timeUp \in BOOLEAN
        /\ resolves \in BOOLEAN
        /\ separate \in BOOLEAN
        /\ campaignOver \in BOOLEAN
        /\ driver \in {"run_campaign", "run_once"}
    BY DEF Init
  <2> QED
    BY <1>1, <2>2, <2>3 DEF Init, TypeOK, Phases
<1> QED
  BY <1>2 DEF Init, IInv, PlanBound, CountersAgree, LoopPosition, KeysAgree, Executing,
              PromotedOnlyIfReproduced

\* A conclusion adds a typed finding, promoted only with the evidence for it.
LEMMA ReturnFindingIInv ==
  ASSUME IInv, PlanNumber \in DOMAIN plans,
         NEW finding \in FindingType,
         finding.verdict = "VULNERABLE" =>
           Len(finding.results) = Required /\ SeenInAll(finding.results) # {},
         ReturnFinding(finding)
  PROVE  IInv'
<1>1. /\ findings' \in Seq(FindingType)
      /\ \A n \in DOMAIN findings' :
           \/ n \in DOMAIN findings /\ findings'[n] = findings[n]
           \/ findings'[n] = finding
  BY DEF IInv, TypeOK, ReturnFinding
<1>2. PromotedOnlyIfReproduced'
  BY <1>1 DEF IInv, PromotedOnlyIfReproduced
<1>3. TypeOK'
  BY <1>1 DEF IInv, TypeOK, ReturnFinding, planVars, Phases
<1> QED
  BY <1>2, <1>3 DEF IInv, ReturnFinding, planVars, PlanBound, CountersAgree, LoopPosition,
                    KeysAgree, Executing

\* The current state of run_plan makes a typed finding.
LEMMA FindingTyped ==
  ASSUME TypeOK, NEW verdict \in Verdict
  PROVE  Finding(verdict) \in FindingType
BY DEF TypeOK, Finding, FindingType

\* An attempt more is within the budget and leaves typed results.
LEMMA AttemptedTyped ==
  ASSUME IInv, phase = "returned", NEW results \in Evaluations, Attempted(results)
  PROVE  /\ results \in Results
         /\ FailureKeys(results) \subseteq Keys
         /\ attempts' \in 1..Required
         /\ all_results' \in Seq(Results)
         /\ Len(all_results') = attempts'
         /\ attempts = 0 => all_results = <<>> /\ all_results'[1] = results
         /\ attempts > 0 => all_results'[1] = all_results[1]
<1> USE CoordinatorAssumption
<1>1. PlanNumber \in DOMAIN plans
  BY DEF IInv, PlanBound, Phases
<1>2. results \in Results
  BY <1>1, EvaluationsTyped DEF IInv, TypeOK
<1>3. attempts' \in 1..Required
  BY DEF IInv, TypeOK, LoopPosition, Executing, Attempted
<1>4. /\ all_results' \in Seq(Results)
      /\ Len(all_results') = attempts'
      /\ attempts = 0 => all_results = <<>> /\ all_results'[1] = results
      /\ attempts > 0 => all_results'[1] = all_results[1]
  BY <1>2 DEF IInv, TypeOK, CountersAgree, Attempted
<1> QED
  BY <1>2, <1>3, <1>4, FailureKeysTyped

----------------------------------------------------------------------------
(* Every step preserves the invariant.                                     *)

\* The steps of the executor and of the environment leave the plan alone.
LEMMA ExecutorIInv ==
  ASSUME IInv, UNCHANGED <<planVars, campaignVars>>,
         ExecutorStep \/ SessionExpires \/ ResolverFlips
  PROVE  IInv'
<1> USE BudgetAssumption
<1>1. TypeOK'
  <2>1. CASE RefusePlan
    BY <2>1 DEF IInv, TypeOK, RefusePlan, planVars, campaignVars, Phases
  <2>2. CASE OpenSession
    <3>1. /\ phase' \in Phases
          /\ used' \in 0..MaxRequests
          /\ observations' \in Seq(Observation)
      BY <2>2 DEF OpenSession, Phases
    <3>2. timeUp' \in BOOLEAN
      BY <2>2 DEF OpenSession
    <3> QED
      BY <2>2, <3>1, <3>2 DEF IInv, TypeOK, OpenSession, planVars, campaignVars
  <2>3. CASE RefuseStep
    BY <2>3 DEF IInv, TypeOK, RefuseStep, planVars, campaignVars, Phases
  <2>4. CASE ExhaustBudget
    BY <2>4 DEF IInv, TypeOK, ExhaustBudget, Observation, planVars, campaignVars, Phases
  <2>5. CASE Observe
    BY <2>5 DEF IInv, TypeOK, Observe, CallAdapter, InBudget, Observation, planVars,
                campaignVars, Phases
  <2>6. CASE AdapterRaises
    BY <2>6 DEF IInv, TypeOK, AdapterRaises, CallAdapter, InBudget, planVars, campaignVars,
                Phases
  <2>7. CASE SessionExpires
    BY <2>7 DEF IInv, TypeOK, SessionExpires, planVars, campaignVars, Phases
  <2>8. CASE ResolverFlips
    BY <2>8 DEF IInv, TypeOK, ResolverFlips, planVars, campaignVars, Phases
  <2> QED
    BY <2>1, <2>2, <2>3, <2>4, <2>5, <2>6, <2>7, <2>8 DEF ExecutorStep
<1>2. /\ phase \in {"gate", "steps"}
      /\ phase' \in {"gate", "steps", "returned", "violation", "raised"}
  BY DEF ExecutorStep, RefusePlan, OpenSession, RefuseStep, ExhaustBudget, Observe,
         AdapterRaises, CallAdapter, SessionExpires, ResolverFlips
<1> QED
  BY <1>1, <1>2 DEF IInv, planVars, campaignVars, PlanBound, PlanNumber, CountersAgree,
                    LoopPosition, KeysAgree, Executing, Phases, PromotedOnlyIfReproduced

\* Between plans: starting, binding the next plan, ending.
LEMMA CampaignIInv ==
  ASSUME IInv, StartCampaign \/ BindPlan \/ FinishCampaign \/ AbortCampaign \/ CampaignExpires
  PROVE  IInv'
<1> USE CoordinatorAssumption
<1>1. CASE StartCampaign
  BY <1>1 DEF StartCampaign, IInv, TypeOK, planVars, campaignVars, PlanBound, CountersAgree,
              LoopPosition, KeysAgree, Executing, Phases, PromotedOnlyIfReproduced
<1>2. CASE BindPlan
  <2>1. PlanNumber \in DOMAIN plans /\ PlanNumber' = PlanNumber
    BY <1>2 DEF BindPlan, IInv, TypeOK, PlanNumber, campaignVars
  <2>2. plans[PlanNumber] \in Plan
    BY <2>1 DEF IInv, TypeOK
  <2>3. /\ steps' \in Seq(Step)
        /\ destructive' \in BOOLEAN
    BY <1>2, <2>2 DEF BindPlan, Plan
  <2>4. TypeOK'
    BY <1>2, <2>3 DEF BindPlan, IInv, TypeOK, campaignVars, Phases
  <2> QED
    BY <1>2, <2>1, <2>4 DEF BindPlan, IInv, campaignVars, PlanBound, CountersAgree,
                            LoopPosition, KeysAgree, Executing, PromotedOnlyIfReproduced
<1>3. CASE FinishCampaign
  BY <1>3 DEF FinishCampaign, IInv, TypeOK, planVars, campaignVars, PlanBound, CountersAgree,
              LoopPosition, KeysAgree, Executing, Phases, PromotedOnlyIfReproduced
<1>4. CASE AbortCampaign
  BY <1>4 DEF AbortCampaign, IInv, TypeOK, planVars, campaignVars, PlanBound, CountersAgree,
              LoopPosition, KeysAgree, Executing, Phases, PromotedOnlyIfReproduced
<1>5. CASE CampaignExpires
  BY <1>5 DEF CampaignExpires, IInv, TypeOK, execVars, planVars, PlanBound, PlanNumber,
              CountersAgree, LoopPosition, KeysAgree, Executing, PromotedOnlyIfReproduced
<1> QED
  BY <1>1, <1>2, <1>3, <1>4, <1>5

\* Inside the loop: executing once more, or giving up.
LEMMA LoopIInv ==
  ASSUME IInv, FirstExecution \/ Repeat \/ RepeatRejected
  PROVE  IInv'
<1>1. CASE FirstExecution
  BY <1>1 DEF FirstExecution, IInv, TypeOK, planVars, campaignVars, PlanBound, PlanNumber,
              CountersAgree, LoopPosition, KeysAgree, Executing, Phases,
              PromotedOnlyIfReproduced
<1>2. CASE Repeat
  BY <1>2 DEF Repeat, MustRepeat, IInv, TypeOK, planVars, campaignVars, PlanBound, PlanNumber,
              CountersAgree, LoopPosition, KeysAgree, Executing, Phases,
              PromotedOnlyIfReproduced
<1>3. CASE RepeatRejected
  BY <1>3 DEF RepeatRejected, IInv, TypeOK, planVars, campaignVars, PlanBound, PlanNumber,
              CountersAgree, LoopPosition, KeysAgree, Executing, Phases,
              PromotedOnlyIfReproduced
<1> QED
  BY <1>1, <1>2, <1>3

\* The first judgement: all of the failure keys are stable so far.
LEMMA JudgeFirstIInv ==
  ASSUME IInv, JudgeFirst
  PROVE  IInv'
<1>1. PICK results \in Evaluations :
        /\ Attempted(results)
        /\ IF BaseVerdict(results) = "FAIL"
           THEN /\ stable_keys' = FailureKeys(results)
                /\ confirmations' = IF FailureKeys(results) # {} THEN 1 ELSE 0
                /\ phase' = "confirm"
           ELSE UNCHANGED <<stable_keys, confirmations>> /\ phase' = "decided"
  BY DEF JudgeFirst
<1>2. /\ results \in Results
      /\ FailureKeys(results) \subseteq Keys
      /\ attempts' = 1
      /\ 1 \in 0..Required
      /\ all_results' \in Seq(Results)
      /\ Len(all_results') = attempts'
      /\ all_results' = Append(<<>>, results)
      /\ all_results'[1] = results
  <2>1. phase = "returned" /\ attempts = 0
    BY DEF JudgeFirst
  <2>2. attempts' = 1 /\ all_results' = Append(all_results, results)
    BY <1>1, <2>1 DEF Attempted
  <2> QED
    <3>1. /\ results \in Results
          /\ FailureKeys(results) \subseteq Keys
          /\ all_results' \in Seq(Results)
          /\ Len(all_results') = attempts'
          /\ all_results = <<>>
          /\ all_results'[1] = results
      BY <1>1, <2>1, AttemptedTyped
    <3>2. 1 \in 0..Required
      BY CoordinatorAssumption
    <3> QED
      BY <2>2, <3>1, <3>2
<1>3. stable_keys = {} /\ confirmations \in 0..Required /\ confirmations = 0
  BY DEF JudgeFirst, IInv, TypeOK, CountersAgree
<1>4. TypeOK'
  BY <1>1, <1>2, <1>3 DEF IInv, TypeOK, Attempted, campaignVars, Phases
<1>5. PlanBound' /\ PromotedOnlyIfReproduced'
  BY <1>1 DEF JudgeFirst, IInv, PlanBound, PlanNumber, PromotedOnlyIfReproduced, Attempted,
              campaignVars, Phases
<1>6. CASE BaseVerdict(results) = "FAIL"
  <2>1. stable_keys' = SeenInAll(all_results')
    BY <1>1, <1>2, <1>6, SeenInFirst
  <2>2. SeenInAll(all_results)' = SeenInAll(all_results')
    BY DEF SeenInAll
  <2> QED
    BY <1>1, <1>2, <1>4, <1>5, <1>6, <2>1, <2>2
       DEF IInv, CountersAgree, LoopPosition, KeysAgree, Executing
<1>7. CASE BaseVerdict(results) # "FAIL"
  BY <1>1, <1>2, <1>3, <1>4, <1>5, <1>7
     DEF IInv, CountersAgree, LoopPosition, KeysAgree, Executing
<1> QED
  BY <1>6, <1>7

\* A later judgement: the keys it did not see again are not stable.
LEMMA JudgeRepeatIInv ==
  ASSUME IInv, JudgeRepeat
  PROVE  IInv'
<1>1. PICK results \in Evaluations :
        /\ Attempted(results)
        /\ IF BaseVerdict(results) = "FAIL"
           THEN /\ stable_keys' = stable_keys \cap FailureKeys(results)
                /\ confirmations' =
                     IF stable_keys' # {} THEN confirmations + 1 ELSE confirmations
                /\ phase' = "confirm"
           ELSE stable_keys' = {} /\ UNCHANGED confirmations /\ phase' = "conclude"
  BY DEF JudgeRepeat
<1>2. /\ results \in Results
      /\ attempts' = attempts + 1
      /\ attempts' \in 1..Required
      /\ all_results' \in Seq(Results)
      /\ all_results' = Append(all_results, results)
      /\ Len(all_results') = attempts'
      /\ all_results'[1] = all_results[1]
  BY <1>1, AttemptedTyped DEF JudgeRepeat, Attempted
<1>3. /\ stable_keys # {}
      /\ confirmations = attempts
      /\ attempts \in Nat
      /\ BaseVerdict(all_results[1]) = "FAIL"
      /\ stable_keys = SeenInAll(all_results)
  BY DEF JudgeRepeat, IInv, TypeOK, CountersAgree, LoopPosition, KeysAgree, Executing
<1>4. /\ stable_keys' = SeenInAll(all_results')
      /\ stable_keys' \in SUBSET Keys
  <2>1. SeenInAll(all_results') =
          IF BaseVerdict(results) = "FAIL"
          THEN SeenInAll(all_results) \cap FailureKeys(results) ELSE {}
    BY <1>2, SeenInAllAppend DEF IInv, TypeOK
  <2> QED
    BY <1>1, <1>3, <2>1 DEF IInv, TypeOK
<1>5. TypeOK'
  <2>1. confirmations' \in 0..Required /\ phase' \in Phases
    BY <1>1, <1>2, <1>3 DEF IInv, TypeOK, Phases
  <2> QED
    BY <1>1, <1>2, <1>4, <2>1 DEF IInv, TypeOK, Attempted, campaignVars
<1>6. PlanBound' /\ PromotedOnlyIfReproduced'
  BY <1>1 DEF JudgeRepeat, IInv, PlanBound, PlanNumber, PromotedOnlyIfReproduced, Attempted,
              campaignVars, Phases
<1>7. SeenInAll(all_results)' = SeenInAll(all_results')
  BY DEF SeenInAll
<1>8. CountersAgree'
  BY <1>1, <1>2, <1>3 DEF CountersAgree
<1>9. LoopPosition' /\ KeysAgree'
  BY <1>1, <1>2, <1>3, <1>4, <1>7 DEF LoopPosition, KeysAgree, Executing
<1> QED
  BY <1>5, <1>6, <1>8, <1>9 DEF IInv

\* The four ways in which run_plan returns a finding.
LEMMA ReturnIInv ==
  ASSUME IInv, MissingOracle \/ PlanRejected \/ ReturnBase \/ Conclude
  PROVE  IInv'
<1>1. PlanNumber \in DOMAIN plans
  BY DEF MissingOracle, PlanRejected, ReturnBase, Conclude, IInv, PlanBound, Phases
<1>2. CASE MissingOracle
  <2> DEFINE missing == [o \in OraclesOf \ Registered |-> ErrorResult]
             finding == [Finding("ERROR") EXCEPT !.results = <<missing>>]
  <2>1. missing \in Results
    <3>1. OraclesOf \ Registered \in SUBSET OracleIds
      <4>1. plans[PlanNumber] \in Plan
        BY <1>1, CoordinatorAssumption DEF IInv, TypeOK
      <4> QED
        BY <4>1 DEF OraclesOf, Plan
    <3>2. ErrorResult \in OracleResult
      BY DEF ErrorResult, OracleResult, Verdict
    <3>3. missing \in [OraclesOf \ Registered -> OracleResult]
      BY <3>2
    <3> QED
      BY <3>1, <3>3 DEF Results
  <2> HIDE DEF missing
  <2>2. Finding("ERROR") \in FindingType
    <3>1. "ERROR" \in Verdict /\ TypeOK
      BY DEF IInv, Verdict
    <3> QED
      BY <3>1, FindingTyped
  <2>3. finding \in FindingType /\ finding.verdict = "ERROR"
    <3>1. finding = [verdict |-> "ERROR", attempts |-> attempts,
                     confirmations |-> confirmations, results |-> <<missing>>]
      BY DEF Finding
    <3>2. <<missing>> \in Seq(Results)
      BY <2>1
    <3>3. "ERROR" \in Verdict
      BY DEF Verdict
    <3> QED
      BY <3>1, <3>2, <3>3 DEF FindingType, IInv, TypeOK
  <2> QED
    BY <1>1, <1>2, <2>3, ReturnFindingIInv DEF MissingOracle, missing
<1>3. CASE PlanRejected
  <2>1. Finding("ERROR") \in FindingType /\ Finding("ERROR").verdict = "ERROR"
    BY FindingTyped DEF IInv, Verdict, Finding
  <2> QED
    BY <1>1, <1>3, <2>1, ReturnFindingIInv DEF PlanRejected
<1>4. CASE ReturnBase
  <2> DEFINE base == BaseVerdict(all_results[1])
  <2>1. base # "VULNERABLE" /\ base \in Verdict
    BY BaseVerdictTyped DEF BaseVerdict
  <2>2. Finding(base) \in FindingType /\ Finding(base).verdict = base
    BY <2>1, FindingTyped DEF IInv, Finding
  <2> HIDE DEF base
  <2> QED
    BY <1>1, <1>4, <2>1, <2>2, ReturnFindingIInv DEF ReturnBase, base
<1>5. CASE Conclude
  <2> DEFINE judged == IF Promoted THEN "VULNERABLE" ELSE "FAIL"
  <2>1. Finding(judged) \in FindingType
    BY FindingTyped DEF IInv, Verdict
  <2>2. /\ Finding(judged).verdict = judged
        /\ Finding(judged).results = all_results
    BY DEF Finding
  <2>3. Promoted => Len(all_results) = Required /\ SeenInAll(all_results) # {}
    BY <1>5, CoordinatorAssumption
       DEF Conclude, Promoted, IInv, TypeOK, CountersAgree, LoopPosition, KeysAgree
  <2> QED
    BY <1>1, <1>5, <2>1, <2>2, <2>3, ReturnFindingIInv DEF Conclude
<1> QED
  BY <1>2, <1>3, <1>4, <1>5

\* Every step of the campaign and of its environment preserves IInv.
LEMMA NextIInv == IInv /\ [Next]_vars => IInv'
<1> SUFFICES ASSUME IInv, [Next]_vars PROVE IInv'
  OBVIOUS
<1>1. CASE ExecutorStep /\ UNCHANGED <<planVars, campaignVars>>
  BY <1>1, ExecutorIInv
<1>2. CASE (SessionExpires \/ ResolverFlips) /\ UNCHANGED <<planVars, campaignVars>>
  BY <1>2, ExecutorIInv
<1>3. CASE StartCampaign \/ BindPlan \/ FinishCampaign \/ AbortCampaign \/ CampaignExpires
  BY <1>3, CampaignIInv
<1>4. CASE FirstExecution \/ Repeat \/ RepeatRejected
  BY <1>4, LoopIInv
<1>5. CASE MissingOracle \/ PlanRejected \/ ReturnBase \/ Conclude
  BY <1>5, ReturnIInv
<1>6. CASE JudgeFirst
  BY <1>6, JudgeFirstIInv
<1>7. CASE JudgeRepeat
  BY <1>7, JudgeRepeatIInv
<1>8. CASE UNCHANGED vars
  BY <1>8 DEF vars, execVars, planVars, campaignVars, IInv, TypeOK, PlanBound, PlanNumber,
              CountersAgree, LoopPosition, KeysAgree, Executing, PromotedOnlyIfReproduced
<1> QED
  BY <1>1, <1>2, <1>3, <1>4, <1>5, <1>6, <1>7, <1>8
     DEF Next, ProgramStep, Environment, Terminated

\* The inductive invariant of run_campaign holds in every reachable state.
LEMMA Invariance == Spec => []IInv
BY InitIInv, NextIInv, PTL DEF Spec

\* No run of run_campaign leaves the types of its state: the sessions keep
\* within max_requests_per_plan and the plans within confirmation_runs.
THEOREM TypeCorrect == Spec => []TypeOK
<1>1. IInv => TypeOK
  BY DEF IInv
<1> QED
  BY <1>1, Invariance, PTL

\* run_plan promotes a failure only when one same failure key was seen in every
\* one of confirmation_runs executions, whatever oracles, adapters and gate do.
THEOREM PromotionSound == Spec => []PromotedOnlyIfReproduced
<1>1. IInv => PromotedOnlyIfReproduced
  BY DEF IInv
<1> QED
  BY <1>1, Invariance, PTL

----------------------------------------------------------------------------
(* Every oracle of the plan has decided in every execution of a promotion. *)

Running == phase \in Phases \ {"start", "idle", "report", "aborted"}

\* The results kept are those of the oracles of the plan being run.
JudgedByItsOracles ==
  Running => \A i \in DOMAIN all_results : DOMAIN all_results[i] = OraclesOf

\* A failure as a whole says that no oracle was broken or undecided.
LEMMA FailureIsDecided ==
  ASSUME NEW results \in Results, BaseVerdict(results) = "FAIL"
  PROVE  VerdictsOf(results) \subseteq {"PASS", "FAIL", "VULNERABLE"}
<1>1. VerdictsOf(results) \subseteq Verdict
  BY DEF VerdictsOf, Results, OracleResult
<1>2. "ERROR" \notin VerdictsOf(results) /\ "INCONCLUSIVE" \notin VerdictsOf(results)
  BY DEF BaseVerdict
<1> QED
  BY <1>1, <1>2 DEF Verdict

\* What is promoted failed as a whole in every execution.
LEMMA PromotedFailed ==
  ASSUME IInv, Conclude, Promoted
  PROVE  \A i \in DOMAIN all_results :
           VerdictsOf(all_results[i]) \subseteq {"PASS", "FAIL", "VULNERABLE"}
<1>1. stable_keys = SeenInAll(all_results) /\ stable_keys # {}
  BY DEF Conclude, Promoted, IInv, KeysAgree
<1>2. ASSUME NEW i \in DOMAIN all_results
      PROVE  BaseVerdict(all_results[i]) = "FAIL" /\ all_results[i] \in Results
  <2>1. i \in 1..Len(all_results) /\ all_results[i] \in Results
    BY <1>2 DEF IInv, TypeOK
  <2> QED
    BY <1>1, <2>1 DEF SeenInAll
<1> QED
  BY <1>2, FailureIsDecided

\* Only Conclude returns a promoted finding.
LEMMA OthersDoNotPromote ==
  ASSUME MissingOracle \/ PlanRejected \/ ReturnBase
  PROVE  \E finding : ReturnFinding(finding) /\ finding.verdict # "VULNERABLE"
<1>1. CASE MissingOracle
  <2>1. \A r : [Finding("ERROR") EXCEPT !.results = r].verdict = "ERROR"
    BY DEF Finding
  <2> QED
    BY <1>1, <2>1 DEF MissingOracle
<1>2. CASE PlanRejected
  BY <1>2 DEF PlanRejected, Finding
<1>3. CASE ReturnBase
  <2>1. BaseVerdict(all_results[1]) # "VULNERABLE"
    BY DEF BaseVerdict
  <2>2. \A v : Finding(v).verdict = v
    BY DEF Finding
  <2> QED
    BY <1>3, <2>1, <2>2 DEF ReturnBase
<1> QED
  BY <1>1, <1>2, <1>3

\* Every step keeps the results of other oracles out.
LEMMA JudgedStep ==
  ASSUME IInv, JudgedByItsOracles, [Next]_vars
  PROVE  JudgedByItsOracles'
<1>1. CASE BindPlan
  BY <1>1 DEF BindPlan, JudgedByItsOracles
<1>2. CASE JudgeFirst \/ JudgeRepeat
  <2>1. PICK results \in Evaluations : Attempted(results)
    BY <1>2 DEF JudgeFirst, JudgeRepeat
  <2>2. DOMAIN results = OraclesOf
    BY <2>1 DEF Evaluations
  <2>3. Running
    BY <1>2 DEF JudgeFirst, JudgeRepeat, Running, Phases
  <2>4. OraclesOf' = OraclesOf
    BY <2>1 DEF Attempted, campaignVars, OraclesOf, PlanNumber
  <2>5. /\ all_results' = Append(all_results, results)
        /\ all_results \in Seq(Results)
    BY <2>1 DEF Attempted, IInv, TypeOK
  <2>6. \A i \in DOMAIN all_results' :
          \/ i \in DOMAIN all_results /\ all_results'[i] = all_results[i]
          \/ all_results'[i] = results
    BY <2>5
  <2>7. ASSUME NEW i \in DOMAIN all_results'
        PROVE  DOMAIN (all_results'[i]) = OraclesOf
    BY <2>2, <2>3, <2>6 DEF JudgedByItsOracles
  <2> QED
    BY <2>4, <2>7 DEF JudgedByItsOracles
<1>3. CASE MissingOracle \/ PlanRejected \/ ReturnBase \/ Conclude
  BY <1>3 DEF MissingOracle, PlanRejected, ReturnBase, Conclude, ReturnFinding,
              JudgedByItsOracles, Running
<1>4. CASE StartCampaign \/ FinishCampaign \/ AbortCampaign
  BY <1>4 DEF StartCampaign, FinishCampaign, AbortCampaign, JudgedByItsOracles, Running
<1>5. CASE UNCHANGED <<all_results, findings, plans>> /\ (Running' => Running)
  <2>1. OraclesOf' = OraclesOf
    BY <1>5 DEF OraclesOf, PlanNumber
  <2> QED
    BY <1>5, <2>1 DEF JudgedByItsOracles
<1>6. CASE FirstExecution \/ Repeat \/ RepeatRejected
  BY <1>5, <1>6 DEF FirstExecution, Repeat, RepeatRejected, planVars, campaignVars, Running,
                    Phases
<1>7. CASE ExecutorStep /\ UNCHANGED <<planVars, campaignVars>>
  <2>1. phase \in {"gate", "steps"}
    BY <1>7 DEF ExecutorStep, RefusePlan, OpenSession, RefuseStep, ExhaustBudget, Observe,
                AdapterRaises, CallAdapter
  <2> QED
    BY <1>5, <1>7, <2>1 DEF planVars, campaignVars, Running, Phases
<1>8. CASE Environment
  BY <1>5, <1>8 DEF Environment, CampaignExpires, SessionExpires, ResolverFlips, execVars,
                    planVars, campaignVars, Running
<1>9. CASE UNCHANGED vars
  BY <1>5, <1>9 DEF vars, execVars, planVars, campaignVars, Running
<1> QED
  BY <1>1, <1>2, <1>3, <1>4, <1>6, <1>7, <1>8, <1>9 DEF Next, ProgramStep, Terminated

\* A finding already returned stays as it is, and one that is promoted now was
\* judged by all of its oracles.
LEMMA DecidedStep ==
  ASSUME IInv, JudgedByItsOracles, PromotedOnlyIfDecided, [Next]_vars
  PROVE  PromotedOnlyIfDecided'
<1>1. CASE UNCHANGED <<findings, plans>>
  BY <1>1 DEF PromotedOnlyIfDecided
<1>2. ASSUME NEW finding, ReturnFinding(finding),
             finding.verdict = "VULNERABLE" =>
               \A i \in DOMAIN finding.results :
                 /\ DOMAIN finding.results[i] = OraclesOf
                 /\ VerdictsOf(finding.results[i]) \subseteq {"PASS", "FAIL", "VULNERABLE"}
      PROVE  PromotedOnlyIfDecided'
  <2>1. findings \in Seq(FindingType) /\ findings' = Append(findings, finding)
    BY <1>2 DEF ReturnFinding, IInv, TypeOK
  <2>2. \A n \in DOMAIN findings' :
          \/ n \in DOMAIN findings /\ findings'[n] = findings[n]
          \/ n = PlanNumber /\ findings'[n] = finding
    BY <2>1 DEF PlanNumber
  <2>3. plans' = plans
    BY <1>2 DEF ReturnFinding
  <2> QED
    BY <1>2, <2>2, <2>3 DEF PromotedOnlyIfDecided, OraclesOf
<1>3. CASE MissingOracle \/ PlanRejected \/ ReturnBase
  BY <1>2, <1>3, OthersDoNotPromote
<1>4. CASE Conclude
  <2> DEFINE judged == IF Promoted THEN "VULNERABLE" ELSE "FAIL"
  <2>1. ReturnFinding(Finding(judged))
    BY <1>4 DEF Conclude
  <2>2. Finding(judged).verdict = judged /\ Finding(judged).results = all_results
    BY DEF Finding
  <2>3. Running
    BY <1>4 DEF Conclude, Running, Phases
  <2>4. judged = "VULNERABLE" =>
          \A i \in DOMAIN all_results :
            /\ DOMAIN all_results[i] = OraclesOf
            /\ VerdictsOf(all_results[i]) \subseteq {"PASS", "FAIL", "VULNERABLE"}
    BY <1>4, <2>3, PromotedFailed DEF JudgedByItsOracles
  <2> HIDE DEF judged
  <2> QED
    BY <1>2, <2>1, <2>2, <2>4
<1>5. ASSUME [Next]_vars
      PROVE  \/ UNCHANGED <<findings, plans>>
             \/ MissingOracle \/ PlanRejected \/ ReturnBase \/ Conclude
  BY <1>5 DEF Next, ProgramStep, Environment, Terminated, StartCampaign, BindPlan,
              FinishCampaign, AbortCampaign, FirstExecution, JudgeFirst, JudgeRepeat, Attempted,
              Repeat, RepeatRejected, CampaignExpires, campaignVars, vars
<1> QED
  BY <1>1, <1>3, <1>4, <1>5

\* A failing oracle is never promoted while another oracle of the plan is
\* missing, broken or undecided, whatever the oracles answer.
THEOREM PromotionDecided == Spec => []PromotedOnlyIfDecided
<1>1. Init => JudgedByItsOracles /\ PromotedOnlyIfDecided
  BY DEF Init, JudgedByItsOracles, Running, PromotedOnlyIfDecided
<1>2. /\ IInv /\ JudgedByItsOracles /\ PromotedOnlyIfDecided /\ [Next]_vars
      => JudgedByItsOracles' /\ PromotedOnlyIfDecided'
  BY JudgedStep, DecidedStep
<1> QED
  BY <1>1, <1>2, Invariance, PTL DEF Spec

----------------------------------------------------------------------------
(* What a plan may do to its target.                                       *)

\* A session is open, or has been: the gate admitted the whole plan.
AdmittedIfOpened ==
  phase = "steps" \/ effects > 0 => (NeedsAuthorization => authorized)

\* The executions that returned and the one under way explain every effect.
Within(n) == effects <= n * MaxRequests

EffectsExplained ==
  /\ effects \in Nat
  /\ phase \in {"bound", "gate"} => Within(attempts)
  /\ phase = "confirm" => Within(attempts)
  /\ phase = "steps" => effects <= attempts * MaxRequests + used
  /\ phase = "returned" => Within(attempts + 1)
  /\ Within(Required)

\* Executing the plan once more stays within the executions it may have.
LEMMA OneMoreExecution ==
  ASSUME NEW n \in Nat, NEW k \in Nat, n < k
  PROVE  /\ (n + 1) * MaxRequests = n * MaxRequests + MaxRequests
         /\ (n + 1) * MaxRequests <= k * MaxRequests
         /\ n * MaxRequests \in Nat
         /\ k * MaxRequests \in Nat
<1> USE BudgetAssumption
<1>1. k = n + 1 + (k - n - 1) /\ k - n - 1 \in Nat
  OBVIOUS
<1>2. PICK d \in Nat : k = n + 1 + d
  BY <1>1
<1>3. k * MaxRequests = (n + 1) * MaxRequests + d * MaxRequests
  BY <1>2
<1>4. d * MaxRequests \in Nat
  OBVIOUS
<1> QED
  BY <1>3, <1>4

\* No effect without the authorization the plan needs: the gate is passed before
\* a session opens, and nothing changes the plan until the next one is bound.
LEMMA AdmittedStep ==
  ASSUME IInv, AdmittedIfOpened, [Next]_vars
  PROVE  AdmittedIfOpened'
<1> USE DEF AdmittedIfOpened, NeedsAuthorization
<1>1. CASE OpenSession
  BY <1>1 DEF OpenSession, PlanAdmitted
<1>2. CASE BindPlan
  BY <1>2 DEF BindPlan
<1>3. CASE Observe \/ AdapterRaises
  BY <1>3 DEF Observe, AdapterRaises, CallAdapter
<1>4. CASE /\ UNCHANGED <<steps, destructive, authorized, effects>>
           /\ phase' # "steps" \/ phase = "steps"
  BY <1>4
<1>5. ASSUME [Next]_vars
      PROVE  \/ OpenSession \/ BindPlan \/ Observe \/ AdapterRaises
             \/ /\ UNCHANGED <<steps, destructive, authorized, effects>>
                /\ phase' # "steps" \/ phase = "steps"
  <2>1. CASE ExecutorStep
    BY <2>1 DEF ExecutorStep, RefusePlan, RefuseStep, ExhaustBudget
  <2>2. CASE Environment
    BY <2>2 DEF Environment, CampaignExpires, SessionExpires, ResolverFlips, execVars
  <2>3. CASE MissingOracle \/ PlanRejected \/ ReturnBase \/ Conclude
    BY <2>3 DEF MissingOracle, PlanRejected, ReturnBase, Conclude, ReturnFinding
  <2>4. CASE JudgeFirst \/ JudgeRepeat
    BY <2>4 DEF JudgeFirst, JudgeRepeat, Attempted
  <2>5. CASE \/ StartCampaign \/ FinishCampaign \/ AbortCampaign \/ FirstExecution
             \/ Repeat \/ RepeatRejected
    BY <2>5 DEF StartCampaign, FinishCampaign, AbortCampaign, FirstExecution, Repeat,
                RepeatRejected
  <2>6. CASE UNCHANGED vars
    BY <2>6 DEF vars, execVars
  <2> QED
    BY <1>5, <2>1, <2>2, <2>3, <2>4, <2>5, <2>6 DEF Next, ProgramStep, Terminated
<1> QED
  BY <1>1, <1>2, <1>3, <1>4, <1>5

\* A plan whose effects need an authorization reaches no adapter without one,
\* whatever marks its proposer put on the steps.
THEOREM EffectsAlwaysAuthorized == Spec => []EffectsAuthorized
<1>1. Init => AdmittedIfOpened
  BY DEF Init, AdmittedIfOpened
<1>2. IInv /\ AdmittedIfOpened /\ [Next]_vars => AdmittedIfOpened'
  BY AdmittedStep
<1>3. AdmittedIfOpened => EffectsAuthorized
  BY DEF AdmittedIfOpened, EffectsAuthorized
<1> QED
  BY <1>1, <1>2, <1>3, Invariance, PTL DEF Spec

\* Between two effects the bound only moves from one phase to the next.
LEMMA EffectsExplainedStep ==
  ASSUME IInv, EffectsExplained, [Next]_vars
  PROVE  EffectsExplained'
<1> USE DEF EffectsExplained, Within
<1>1. /\ attempts \in Nat
      /\ used \in 0..MaxRequests
      /\ MaxRequests \in Nat
      /\ Required \in Nat
      /\ 0 * MaxRequests = 0
      /\ Required * MaxRequests \in Nat
  BY BudgetAssumption, CoordinatorAssumption DEF IInv, TypeOK
<1>2. ASSUME phase = "steps"
      PROVE  /\ (attempts + 1) * MaxRequests = attempts * MaxRequests + MaxRequests
             /\ (attempts + 1) * MaxRequests <= Required * MaxRequests
             /\ attempts * MaxRequests \in Nat
  <2>1. attempts < Required
    BY <1>2, CoordinatorAssumption DEF IInv, LoopPosition, Executing, TypeOK
  <2> QED
    BY <1>1, <2>1, OneMoreExecution
<1>3. CASE OpenSession /\ UNCHANGED <<planVars, campaignVars>>
  <2>1. /\ effects \in Nat
        /\ effects <= attempts * MaxRequests
        /\ Within(Required)
    BY <1>3 DEF OpenSession
  <2>2. /\ UNCHANGED <<effects, attempts>>
        /\ phase' = "steps"
        /\ used' = 0
    BY <1>3 DEF OpenSession, planVars
  <2>3. attempts * MaxRequests \in Nat
    BY <1>1
  <2> QED
    BY <2>1, <2>2, <2>3
<1>4. CASE (Observe \/ AdapterRaises) /\ UNCHANGED <<planVars, campaignVars>>
  <2>1. /\ phase = "steps"
        /\ used < MaxRequests
        /\ used' = used + 1
        /\ effects' = effects + 1
        /\ attempts' = attempts
        /\ phase' \in {"steps", "returned", "raised"}
    BY <1>4 DEF Observe, AdapterRaises, CallAdapter, InBudget, planVars
  <2> QED
    BY <1>1, <1>2, <2>1
<1>5. CASE ExhaustBudget /\ UNCHANGED <<planVars, campaignVars>>
  <2>1. /\ phase = "steps"
        /\ UNCHANGED <<effects, attempts>>
        /\ phase' = "returned"
    BY <1>5 DEF ExhaustBudget, planVars
  <2> QED
    BY <1>1, <1>2, <2>1
<1>6. CASE BindPlan
  BY <1>1, <1>6 DEF BindPlan
<1>7. CASE JudgeFirst \/ JudgeRepeat
  <2>1. /\ phase = "returned"
        /\ attempts' = attempts + 1
        /\ effects' = effects
        /\ phase' \in {"confirm", "conclude", "decided"}
    BY <1>7 DEF JudgeFirst, JudgeRepeat, Attempted
  <2> QED
    BY <1>1, <2>1
<1>8. CASE FirstExecution \/ Repeat
  BY <1>8 DEF FirstExecution, Repeat, planVars
<1>9. CASE UNCHANGED <<phase, effects, attempts, used>>
  BY <1>9
<1>10. CASE /\ UNCHANGED effects
            /\ phase' \notin {"bound", "gate", "confirm", "steps", "returned"}
  BY <1>10
<1>11. CASE ExecutorStep /\ UNCHANGED <<planVars, campaignVars>>
  <2>1. CASE RefusePlan \/ RefuseStep
    BY <1>10, <2>1 DEF RefusePlan, RefuseStep
  <2> QED
    BY <1>3, <1>4, <1>5, <1>11, <2>1 DEF ExecutorStep
<1>12. CASE Environment
  BY <1>9, <1>12 DEF Environment, CampaignExpires, SessionExpires, ResolverFlips, execVars,
                     planVars
<1>13. CASE MissingOracle \/ PlanRejected \/ ReturnBase \/ Conclude
  BY <1>10, <1>13 DEF MissingOracle, PlanRejected, ReturnBase, Conclude, ReturnFinding
<1>14. CASE StartCampaign \/ FinishCampaign \/ AbortCampaign \/ RepeatRejected
  BY <1>10, <1>14 DEF StartCampaign, FinishCampaign, AbortCampaign, RepeatRejected
<1>15. CASE UNCHANGED vars
  BY <1>9, <1>15 DEF vars, execVars, planVars
<1> QED
  BY <1>6, <1>7, <1>8, <1>11, <1>12, <1>13, <1>14, <1>15 DEF Next, ProgramStep, Terminated

\* The request budget belongs to a session and every execution opens a new one:
\* run_plan does at most confirmation_runs * max_requests_per_plan to a target.
THEOREM EffectsAlwaysBounded == Spec => []PlanEffectsBounded
<1>1. Init => EffectsExplained
  <2>1. 0 <= 0 * MaxRequests /\ 0 <= Required * MaxRequests
    BY BudgetAssumption, CoordinatorAssumption
  <2> QED
    BY <2>1 DEF Init, EffectsExplained, Within
<1>2. IInv /\ EffectsExplained /\ [Next]_vars => EffectsExplained'
  BY EffectsExplainedStep
<1>3. EffectsExplained => PlanEffectsBounded
  BY DEF EffectsExplained, PlanEffectsBounded, Within
<1> QED
  BY <1>1, <1>2, <1>3, Invariance, PTL DEF Spec

----------------------------------------------------------------------------
(* A plan that was never attempted has had no effect.                      *)

\* The executor runs the steps of the plan bound last, and an open session has
\* not come to the end of them.
StepsUnderWay ==
  /\ Running => steps = plans[PlanNumber].steps
  /\ phase = "steps" => Len(observations) < Len(steps)

\* Of an execution under way: its steps are a plan's.
LEMMA StepsTyped ==
  ASSUME IInv, StepsUnderWay, Running
  PROVE  /\ plans[PlanNumber] \in Plans /\ plans[PlanNumber] \in Plan
         /\ steps = plans[PlanNumber].steps
         /\ steps \in Seq(Step) /\ Len(steps) \in Nat \ {0} /\ DOMAIN steps = 1..Len(steps)
<1>1. PlanNumber \in DOMAIN plans /\ plans \in Seq(Plans)
  BY DEF IInv, TypeOK, PlanBound, Running
<1>2. plans[PlanNumber] \in Plans
  BY <1>1
<1>3. plans[PlanNumber] \in Plan /\ steps = plans[PlanNumber].steps
  BY <1>2, CoordinatorAssumption DEF StepsUnderWay
<1>4. steps \in Seq(Step) /\ steps # <<>>
  BY <1>3 DEF Plan
<1>5. Len(steps) \in Nat \ {0} /\ DOMAIN steps = 1..Len(steps)
  BY <1>4
<1> QED
  BY <1>2, <1>3, <1>4, <1>5

\* A plan stays bound until it is concluded, and a session ends with its steps.
LEMMA StepsUnderWayStep ==
  ASSUME IInv, StepsUnderWay, [Next]_vars
  PROVE  StepsUnderWay'
<1>1. CASE OpenSession /\ UNCHANGED <<planVars, campaignVars>>
  <2>1. Running /\ phase' = "steps" /\ UNCHANGED <<steps, plans, PlanNumber>>
        /\ Len(observations') = 0
    BY <1>1 DEF OpenSession, Running, Phases, campaignVars, PlanNumber
  <2>2. Len(steps) \in Nat \ {0}
    BY <2>1, StepsTyped
  <2> QED
    BY <2>1, <2>2 DEF StepsUnderWay
<1>2. CASE Observe /\ UNCHANGED <<planVars, campaignVars>>
  <2>1. phase = "steps" /\ Running /\ UNCHANGED <<steps, plans, PlanNumber>>
    BY <1>2 DEF Observe, CallAdapter, Running, Phases, campaignVars, PlanNumber
  <2>2. Len(observations) < Len(steps) /\ Len(steps) \in Nat /\ observations \in Seq(Observation)
    BY <2>1, StepsTyped DEF StepsUnderWay, IInv, TypeOK
  <2>3. Len(observations') = Len(observations) + 1 /\ Len(observations) \in Nat
    BY <1>2, <2>2 DEF Observe
  <2>4. phase' = IF Len(observations') = Len(steps) THEN "returned" ELSE "steps"
    BY <1>2 DEF Observe
  <2>5. phase' = "steps" => Len(observations') < Len(steps')
    BY <2>1, <2>2, <2>3, <2>4
  <2> QED
    BY <2>1, <2>4, <2>5 DEF StepsUnderWay
<1>3. CASE BindPlan
  BY <1>3 DEF BindPlan, campaignVars, PlanNumber, StepsUnderWay
<1>4. CASE \/ SessionExpires /\ UNCHANGED <<planVars, campaignVars>>
           \/ CampaignExpires \/ UNCHANGED vars
  <2>1. UNCHANGED <<phase, steps, observations, plans, PlanNumber>>
    BY <1>4 DEF SessionExpires, CampaignExpires, vars, execVars, campaignVars, PlanNumber
  <2> QED
    BY <2>1 DEF StepsUnderWay, Running
<1>5. CASE (RefusePlan \/ RefuseStep \/ ExhaustBudget \/ AdapterRaises)
           /\ UNCHANGED <<planVars, campaignVars>>
  <2>1. Running /\ phase' # "steps" /\ UNCHANGED <<steps, plans, PlanNumber>>
    BY <1>5 DEF RefusePlan, RefuseStep, ExhaustBudget, AdapterRaises, CallAdapter, Running,
                Phases, campaignVars, PlanNumber
  <2> QED
    BY <2>1 DEF StepsUnderWay
<1>6. CASE MissingOracle \/ PlanRejected \/ ReturnBase \/ Conclude
  <2>1. phase' = "idle"
    BY <1>6 DEF MissingOracle, PlanRejected, ReturnBase, Conclude, ReturnFinding
  <2> QED
    BY <2>1 DEF StepsUnderWay, Running
<1>7. CASE JudgeFirst \/ JudgeRepeat
  <2>1. /\ phase = "returned" /\ phase' \in {"confirm", "decided", "conclude"}
        /\ UNCHANGED <<steps, plans, PlanNumber>>
    BY <1>7 DEF JudgeFirst, JudgeRepeat, Attempted, campaignVars, PlanNumber
  <2> QED
    BY <2>1 DEF StepsUnderWay, Running, Phases
<1>8. CASE StartCampaign \/ FinishCampaign \/ AbortCampaign
  <2>1. phase' \in {"idle", "report", "aborted"}
    BY <1>8 DEF StartCampaign, FinishCampaign, AbortCampaign
  <2> QED
    BY <2>1 DEF StepsUnderWay, Running
<1>9. CASE \/ FirstExecution \/ Repeat \/ RepeatRejected
           \/ ResolverFlips /\ UNCHANGED <<planVars, campaignVars>>
  <2>1. /\ Running /\ UNCHANGED <<steps, plans, PlanNumber>>
        /\ phase' = "steps" => phase = "steps" /\ UNCHANGED observations
    BY <1>9 DEF FirstExecution, Repeat, RepeatRejected, ResolverFlips, campaignVars,
                PlanNumber, Running, Phases
  <2> QED
    BY <2>1 DEF StepsUnderWay
<1> QED
  BY <1>1, <1>2, <1>3, <1>4, <1>5, <1>6, <1>7, <1>8, <1>9
     DEF Next, ProgramStep, ExecutorStep, Environment, Terminated

\* Of steps whose targets are literal and whose tools have their adapters: an
\* open session runs an admitted plan, and before that a plan has had no effect.
AdmittedNow ==
  /\ phase = "steps" => PlanAdmitted
  /\ phase \in {"bound", "gate", "violation"} /\ attempts = 0 => effects = 0

SessionAdmitted == Steady(steps) => AdmittedNow

\* execute_step refuses no step of a steady plan that validate_plan admitted.
LEMMA NoStepRefused ==
  ASSUME Steady(steps), IInv, StepsUnderWay, AdmittedNow
  PROVE  ~RefuseStep
<1> SUFFICES ASSUME RefuseStep PROVE FALSE
  OBVIOUS
<1>1. phase = "steps" /\ Running
  BY DEF RefuseStep, Running, Phases
<1>2. DOMAIN steps = 1..Len(steps) /\ Len(steps) \in Nat
  BY <1>1, StepsTyped
<1>3. PlanAdmitted /\ Len(observations) < Len(steps)
  BY <1>1 DEF AdmittedNow, StepsUnderWay
<1>4. Len(observations) + 1 \in DOMAIN steps
  BY <1>2, <1>3 DEF IInv, TypeOK
<1>5. CurrentAdmitted
  BY <1>3, <1>4 DEF PlanAdmitted, NeedsAuthorization, CurrentAdmitted, Current
<1>6. Current.tool # "missing"
  BY <1>4 DEF Current, Steady
<1> QED
  BY <1>5, <1>6 DEF RefuseStep

\* Every step but that to the next plan keeps what a session knows of its plan.
LEMMA AdmittedNowStep ==
  ASSUME Steady(steps), IInv, StepsUnderWay, AdmittedNow, [Next]_vars, ~BindPlan
  PROVE  AdmittedNow'
<1>1. CASE (OpenSession \/ Observe) /\ UNCHANGED <<planVars, campaignVars>>
  <2>1. PlanAdmitted' /\ phase' \in {"steps", "returned"}
    BY <1>1 DEF OpenSession, Observe, CallAdapter, PlanAdmitted, StepAdmitted,
                NeedsAuthorization, AdmittedNow
  <2> QED
    BY <2>1 DEF AdmittedNow
<1>2. CASE RefuseStep
  BY <1>2, NoStepRefused
<1>3. CASE \/ SessionExpires /\ UNCHANGED <<planVars, campaignVars>>
           \/ CampaignExpires \/ UNCHANGED vars
  <2>1. UNCHANGED <<phase, steps, destructive, authorized, resolves, effects, attempts>>
    BY <1>3 DEF SessionExpires, CampaignExpires, vars, execVars, planVars
  <2> QED
    BY <2>1 DEF AdmittedNow, PlanAdmitted, StepAdmitted, NeedsAuthorization
<1>4. CASE ResolverFlips
  BY <1>4 DEF ResolverFlips, Steady
<1>5. CASE (RefusePlan \/ ExhaustBudget \/ AdapterRaises) /\ UNCHANGED <<planVars, campaignVars>>
  <2>1. /\ phase' # "steps" /\ attempts' = attempts
        /\ phase' \in {"bound", "gate", "violation"} => phase = "gate" /\ effects' = effects
    BY <1>5 DEF RefusePlan, ExhaustBudget, AdapterRaises, CallAdapter, planVars
  <2> QED
    BY <2>1 DEF AdmittedNow
<1>6. CASE \/ MissingOracle \/ PlanRejected \/ ReturnBase \/ Conclude \/ JudgeFirst \/ JudgeRepeat
           \/ StartCampaign \/ FinishCampaign \/ AbortCampaign
  <2>1. phase' \notin {"steps", "bound", "gate", "violation"}
    BY <1>6 DEF MissingOracle, PlanRejected, ReturnBase, Conclude, ReturnFinding, JudgeFirst,
                JudgeRepeat, StartCampaign, FinishCampaign, AbortCampaign
  <2> QED
    BY <2>1 DEF AdmittedNow
<1>7. CASE FirstExecution \/ Repeat \/ RepeatRejected
  <2>1. /\ phase' \in {"gate", "conclude"} /\ UNCHANGED <<effects, attempts>>
        /\ phase' = "gate" => phase = "bound" \/ attempts > 0
    BY <1>7 DEF FirstExecution, Repeat, RepeatRejected, planVars, IInv, LoopPosition
  <2> QED
    BY <2>1 DEF AdmittedNow, IInv, TypeOK
<1> QED
  BY <1>1, <1>2, <1>3, <1>4, <1>5, <1>6, <1>7
     DEF Next, ProgramStep, ExecutorStep, Environment, Terminated

\* Nothing but the binding of a plan changes the steps under way.
LEMMA SessionAdmittedStep ==
  ASSUME IInv, StepsUnderWay, SessionAdmitted, [Next]_vars
  PROVE  SessionAdmitted'
<1>1. CASE BindPlan
  BY <1>1 DEF BindPlan, SessionAdmitted, AdmittedNow
<1>2. CASE ~BindPlan
  <2>1. steps' = steps
    BY <1>2 DEF Next, ProgramStep, Environment, Terminated, StartCampaign, FinishCampaign,
       AbortCampaign, MissingOracle, FirstExecution, PlanRejected, ReturnFinding, JudgeFirst,
       Attempted, ReturnBase, Repeat, RepeatRejected, JudgeRepeat, Conclude, ExecutorStep,
       RefusePlan, OpenSession, RefuseStep, ExhaustBudget, Observe, AdapterRaises,
       CampaignExpires, SessionExpires, ResolverFlips, vars, execVars
  <2>2. Steady(steps)' => Steady(steps)
    BY <2>1 DEF Steady
  <2> QED
    BY <1>2, <2>2, AdmittedNowStep DEF SessionAdmitted
<1> QED
  BY <1>1, <1>2

\* A plan of literal targets whose tools all have adapters, reported as never
\* attempted, has had no effect: its ERROR means that its target was never
\* touched.  (Of other plans this is not so.)
THEOREM RejectionHasNoEffect == Spec => SteadyRejectionHasNoEffect
<1>1. Init => StepsUnderWay /\ SessionAdmitted
  BY DEF Init, StepsUnderWay, SessionAdmitted, AdmittedNow, Running
<1>2. /\ IInv /\ StepsUnderWay /\ SessionAdmitted /\ [Next]_vars
      => StepsUnderWay' /\ SessionAdmitted'
  BY StepsUnderWayStep, SessionAdmittedStep
<1>3. ASSUME IInv, StepsUnderWay, SessionAdmitted, [Next]_vars, findings' # findings,
             findings'[Len(findings')].attempts = 0, Steady(plans[PlanNumber].steps)
      PROVE  effects = 0
  <2>1. MissingOracle \/ PlanRejected \/ ReturnBase \/ Conclude
    BY <1>3 DEF Next, ProgramStep, ExecutorStep, Environment, Terminated, StartCampaign,
       BindPlan, FinishCampaign, AbortCampaign, FirstExecution, JudgeFirst, JudgeRepeat,
       Attempted, Repeat, RepeatRejected, CampaignExpires, vars, campaignVars
  <2>2. findings \in Seq(FindingType)
    BY <1>3 DEF IInv, TypeOK
  <2>3. ASSUME NEW finding, findings' = Append(findings, finding)
        PROVE  findings'[Len(findings')] = finding
    BY <2>2, <2>3
  <2>4. \A verdict : Finding(verdict).attempts = attempts
    BY DEF Finding
  <2>5. CASE MissingOracle \/ PlanRejected
    <3>1. attempts = 0 /\ phase \in {"bound", "violation"}
      BY <1>3, <2>5 DEF MissingOracle, PlanRejected, IInv, LoopPosition
    <3>2. Steady(steps)
      BY <1>3, <3>1 DEF StepsUnderWay, Running, Phases
    <3> QED
      BY <1>3, <3>1, <3>2 DEF SessionAdmitted, AdmittedNow
  <2>6. CASE ReturnBase \/ Conclude
    <3>1. attempts > 0
      BY <1>3, <2>6 DEF ReturnBase, Conclude, IInv, LoopPosition
    <3>2. findings'[Len(findings')].attempts = attempts
      BY <2>3, <2>4, <2>6 DEF ReturnBase, Conclude, ReturnFinding
    <3> QED
      BY <1>3, <3>1, <3>2
  <2> QED
    BY <2>1, <2>5, <2>6
<1>4. IInv /\ StepsUnderWay /\ SessionAdmitted /\ [Next]_vars =>
        [findings' # findings /\ findings'[Len(findings')].attempts = 0
         /\ Steady(plans[PlanNumber].steps) => effects = 0]_vars
  BY <1>3
<1> QED
  BY <1>1, <1>2, <1>4, Invariance, PTL DEF Spec, SteadyRejectionHasNoEffect

----------------------------------------------------------------------------
(* Every step leads towards the end of the campaign.                       *)

\* The measure is one of natural numbers.
MeasureTyped ==
  /\ PlansLeft \in Nat
  /\ ExecutionsLeft \in Nat
  /\ StepsLeft \in Nat

LEMMA PlacesLeft ==
  ASSUME IInv
  PROVE  /\ Len(plans) \in Nat /\ Len(findings) \in Nat
         /\ attempts \in 0..Required /\ Required \in Nat \ {0}
         /\ Running => Len(findings) < Len(plans)
<1>1. Len(plans) \in Nat /\ Len(findings) \in Nat /\ DOMAIN plans = 1..Len(plans)
  BY DEF IInv, TypeOK
<1>2. attempts \in 0..Required /\ Required \in Nat \ {0}
  BY CoordinatorAssumption DEF IInv, TypeOK
<1>3. Running => Len(findings) + 1 \in 1..Len(plans)
  BY <1>1 DEF IInv, PlanBound, PlanNumber, Running
<1> QED
  BY <1>1, <1>2, <1>3

\* A finding more is a plan less.
LEMMA FindingIsNearer ==
  ASSUME IInv, Running, NEW finding, ReturnFinding(finding)
  PROVE  Nearer
<1>1. findings \in Seq(FindingType) /\ findings' = Append(findings, finding) /\ UNCHANGED plans
  BY DEF IInv, TypeOK, ReturnFinding
<1>2. Len(findings') = Len(findings) + 1
  <2>1. findings \in Seq(FindingType \cup {finding}) /\ finding \in FindingType \cup {finding}
    BY <1>1
  <2> QED
    BY <1>1, <2>1
<1>3. \A p, f \in Nat : p - (f + 1) < p - f
  OBVIOUS
<1>4. PlansLeft' < PlansLeft
  BY <1>1, <1>2, <1>3, PlacesLeft DEF PlansLeft
<1> QED
  BY <1>4 DEF Nearer

\* An attempt more is an execution less.
LEMMA AttemptIsNearer ==
  ASSUME IInv, phase = "returned", phase' \in {"confirm", "decided", "conclude"},
         NEW results, Attempted(results)
  PROVE  Nearer
<1>1. UNCHANGED <<plans, findings>> /\ attempts' = attempts + 1
  BY DEF Attempted, campaignVars
<1>2. ExecutionsLeft = Required - attempts /\ ExecutionsLeft' = Required - attempts'
  BY DEF ExecutionsLeft
<1>3. attempts \in Nat /\ Required \in Nat
  BY PlacesLeft
<1>4. ExecutionsLeft' < ExecutionsLeft
  BY <1>1, <1>2, <1>3
<1> QED
  BY <1>1, <1>4 DEF Nearer, PlansLeft

\* Within an execution, only the steps are left.
LEMMA StepIsNearer ==
  ASSUME IInv, StepsUnderWay,
         \/ ExecutorStep /\ UNCHANGED <<planVars, campaignVars>>
         \/ Repeat \/ RepeatRejected
  PROVE  Nearer
<1> DEFINE inside == {"gate", "steps", "returned", "violation", "raised", "confirm", "conclude"}
<1>1. /\ phase \in inside /\ phase' \in inside
      /\ UNCHANGED <<attempts, plans, findings, steps>>
  BY DEF ExecutorStep, RefusePlan, OpenSession, RefuseStep, ExhaustBudget, Observe, AdapterRaises,
         CallAdapter, Repeat, RepeatRejected, planVars, campaignVars
<1>2. PlansLeft' = PlansLeft /\ ExecutionsLeft' = ExecutionsLeft
  BY <1>1 DEF PlansLeft, ExecutionsLeft
<1>3. observations \in Seq(Observation) /\ Len(observations) \in Nat
      /\ Len(steps) \in Nat /\ (phase = "steps" => Len(observations) < Len(steps))
  BY DEF IInv, TypeOK, StepsUnderWay
<1>4. StepsLeft' < StepsLeft
  <2>1. CASE OpenSession
    <3>1. StepsLeft = Len(steps) + 3 /\ StepsLeft' = (Len(steps) - 0) + 2
      <4>1. phase = "gate" /\ phase' = "steps" /\ Len(observations') = 0
        BY <2>1 DEF OpenSession
      <4> QED
        BY <1>1, <4>1 DEF StepsLeft
    <3> QED
      BY <1>3, <3>1
  <2>2. CASE Observe
    <3>1. Len(observations') = Len(observations) + 1 /\ phase = "steps"
          /\ phase' = IF Len(observations') = Len(steps) THEN "returned" ELSE "steps"
      BY <1>3, <2>2 DEF Observe, CallAdapter
    <3>2. StepsLeft = (Len(steps) - Len(observations)) + 2
      BY <3>1 DEF StepsLeft
    <3>3. StepsLeft' \in {2, (Len(steps) - (Len(observations) + 1)) + 2}
      BY <1>1, <3>1 DEF StepsLeft
    <3> QED
      BY <1>3, <3>1, <3>2, <3>3
  <2>3. CASE RefuseStep \/ ExhaustBudget \/ AdapterRaises
    <3>1. phase = "steps" /\ phase' \in {"violation", "returned", "raised"}
      BY <2>3 DEF RefuseStep, ExhaustBudget, AdapterRaises, CallAdapter
    <3>2. StepsLeft = (Len(steps) - Len(observations)) + 2 /\ StepsLeft' \in {1, 2}
      BY <3>1 DEF StepsLeft
    <3> QED
      BY <1>3, <3>1, <3>2
  <2>4. CASE RefusePlan
    <3>1. StepsLeft = Len(steps) + 3 /\ StepsLeft' = 2
      BY <2>4 DEF RefusePlan, StepsLeft
    <3> QED
      BY <1>3, <3>1
  <2>5. CASE Repeat
    <3>1. StepsLeft = Len(steps) + 4 /\ StepsLeft' = Len(steps) + 3
      BY <1>1, <2>5 DEF Repeat, StepsLeft
    <3> QED
      BY <1>3, <3>1
  <2>6. CASE RepeatRejected
    <3>1. StepsLeft = 2 /\ StepsLeft' = 1
      BY <2>6 DEF RepeatRejected, StepsLeft
    <3> QED
      BY <3>1
  <2> QED
    BY <2>1, <2>2, <2>3, <2>4, <2>5, <2>6 DEF ExecutorStep
<1> QED
  BY <1>2, <1>4 DEF Nearer

\* Between two plans.
LEMMA CampaignIsNearer ==
  ASSUME IInv, StartCampaign \/ BindPlan \/ FinishCampaign \/ AbortCampaign \/ FirstExecution
  PROVE  Nearer
<1>1. UNCHANGED <<plans, findings>> /\ PlansLeft' = PlansLeft
  BY DEF StartCampaign, BindPlan, FinishCampaign, AbortCampaign, FirstExecution, campaignVars,
         PlansLeft
<1>2. attempts \in 0..Required /\ Required \in Nat \ {0}
  BY PlacesLeft
<1>3. CASE StartCampaign
  <2>1. /\ ExecutionsLeft = Required + 1 /\ StepsLeft = 2
        /\ \/ ExecutionsLeft' = Required + 1 /\ StepsLeft' = 1
           \/ ExecutionsLeft' = 0
    BY <1>3 DEF StartCampaign, ExecutionsLeft, StepsLeft
  <2> QED
    BY <1>1, <1>2, <2>1 DEF Nearer
<1>4. CASE BindPlan
  <2>1. /\ ExecutionsLeft = Required + 1 /\ StepsLeft = 1
        /\ ExecutionsLeft' = Required + 1 /\ StepsLeft' = 0
    BY <1>4 DEF BindPlan, ExecutionsLeft, StepsLeft
  <2> QED
    BY <1>1, <2>1 DEF Nearer
<1>5. CASE FinishCampaign
  <2>1. ExecutionsLeft = Required + 1 /\ ExecutionsLeft' = 0
    BY <1>5 DEF FinishCampaign, ExecutionsLeft
  <2> QED
    BY <1>1, <1>2, <2>1 DEF Nearer
<1>6. CASE AbortCampaign
  <2>1. /\ ExecutionsLeft = Required - attempts /\ StepsLeft = 1
        /\ ExecutionsLeft' = 0 /\ StepsLeft' = 0
    BY <1>6 DEF AbortCampaign, ExecutionsLeft, StepsLeft
  <2> QED
    BY <1>1, <1>2, <2>1 DEF Nearer
<1>7. CASE FirstExecution
  <2>1. attempts' = attempts
    BY <1>7 DEF FirstExecution, planVars
  <2>2. ExecutionsLeft = Required + 1 /\ ExecutionsLeft' = Required - attempts
    BY <1>7, <2>1 DEF FirstExecution, ExecutionsLeft
  <2> QED
    BY <1>1, <1>2, <2>2 DEF Nearer
<1> QED
  BY <1>3, <1>4, <1>5, <1>6, <1>7

\* CampaignDrawsNear: whatever the gate, the adapters and the oracles answer, every
\* step of run_campaign makes less of the plans, the executions or the steps that
\* are left, in this order.
THEOREM EveryStepIsNearer == Spec => CampaignDrawsNear
<1>1. Init => StepsUnderWay
  BY DEF Init, StepsUnderWay, Running
<1>2. IInv /\ StepsUnderWay /\ [Next]_vars => StepsUnderWay'
  BY StepsUnderWayStep
<1>3. ASSUME IInv, StepsUnderWay, [Next]_vars
      PROVE  UNCHANGED <<phase, observations>> \/ Nearer
  <2>1. CASE MissingOracle \/ PlanRejected \/ ReturnBase \/ Conclude
    <3>1. Running
      BY <2>1 DEF MissingOracle, PlanRejected, ReturnBase, Conclude, Running, Phases
    <3> QED
      BY <1>3, <2>1, <3>1, FindingIsNearer DEF MissingOracle, PlanRejected, ReturnBase, Conclude
  <2>2. CASE JudgeFirst \/ JudgeRepeat
    <3>1. PICK results \in Evaluations : Attempted(results)
      BY <2>2 DEF JudgeFirst, JudgeRepeat
    <3>2. phase = "returned" /\ phase' \in {"confirm", "decided", "conclude"}
      BY <2>2 DEF JudgeFirst, JudgeRepeat
    <3> QED
      BY <1>3, <3>1, <3>2, AttemptIsNearer
  <2>3. CASE \/ ExecutorStep /\ UNCHANGED <<planVars, campaignVars>>
             \/ Repeat \/ RepeatRejected
    BY <1>3, <2>3, StepIsNearer
  <2>4. CASE StartCampaign \/ BindPlan \/ FinishCampaign \/ AbortCampaign \/ FirstExecution
    BY <1>3, <2>4, CampaignIsNearer
  <2>5. CASE Environment \/ UNCHANGED vars
    BY <2>5 DEF Environment, CampaignExpires, SessionExpires, ResolverFlips, vars, execVars
  <2> QED
    BY <1>3, <2>1, <2>2, <2>3, <2>4, <2>5 DEF Next, ProgramStep, Terminated
<1>4. IInv /\ StepsUnderWay /\ [Next]_vars => [UNCHANGED <<phase, observations>> \/ Nearer]_vars
  BY <1>3
<1> QED
  BY <1>1, <1>2, <1>4, Invariance, PTL DEF Spec, CampaignDrawsNear

\* No plan is concluded twice.
FindingsWithin == Len(findings) <= Len(plans)

LEMMA FindingsWithinStep ==
  ASSUME IInv, FindingsWithin, [Next]_vars
  PROVE  FindingsWithin'
<1>1. CASE UNCHANGED <<findings, plans>>
  BY <1>1 DEF FindingsWithin
<1>2. ASSUME Running, NEW finding, ReturnFinding(finding)
      PROVE  FindingsWithin'
  <2>1. findings \in Seq(FindingType \cup {finding}) /\ finding \in FindingType \cup {finding}
    BY DEF IInv, TypeOK
  <2>2. Len(findings') = Len(findings) + 1 /\ UNCHANGED plans
    BY <1>2, <2>1 DEF ReturnFinding
  <2>3. Len(findings) \in Nat /\ Len(plans) \in Nat /\ Len(findings) < Len(plans)
    BY <1>2, PlacesLeft
  <2> QED
    BY <2>2, <2>3 DEF FindingsWithin
<1>3. CASE MissingOracle \/ PlanRejected \/ ReturnBase \/ Conclude
  <2>1. Running
    BY <1>3 DEF MissingOracle, PlanRejected, ReturnBase, Conclude, Running, Phases
  <2> QED
    BY <1>2, <1>3, <2>1 DEF MissingOracle, PlanRejected, ReturnBase, Conclude
<1> QED
  BY <1>1, <1>3 DEF Next, ProgramStep, Environment, Terminated, StartCampaign, BindPlan,
     FinishCampaign, AbortCampaign, FirstExecution, JudgeFirst, JudgeRepeat, Attempted, Repeat,
     RepeatRejected, CampaignExpires, vars, campaignVars

\* The measure has an end: none of what is left is ever negative.
THEOREM MeasureIsNatural == Spec => []MeasureTyped
<1>1. Init => StepsUnderWay /\ FindingsWithin
  <2>1. ASSUME Init PROVE FindingsWithin
    <3>1. findings = <<>> /\ IInv
      BY <2>1, InitIInv DEF Init
    <3>2. Len(findings) = 0 /\ Len(plans) \in Nat
      BY <3>1, PlacesLeft
    <3> QED
      BY <3>2 DEF FindingsWithin
  <2> QED
    BY <2>1 DEF Init, StepsUnderWay, Running
<1>2. IInv /\ StepsUnderWay /\ FindingsWithin /\ [Next]_vars => StepsUnderWay' /\ FindingsWithin'
  BY StepsUnderWayStep, FindingsWithinStep
<1>3. IInv /\ StepsUnderWay /\ FindingsWithin => MeasureTyped
  <2> SUFFICES ASSUME IInv, StepsUnderWay, FindingsWithin PROVE MeasureTyped
    OBVIOUS
  <2>1. /\ Len(findings) \in Nat /\ Len(plans) \in Nat
        /\ attempts \in 0..Required /\ Required \in Nat
    BY PlacesLeft
  <2>2. /\ Len(steps) \in Nat /\ Len(observations) \in Nat
        /\ phase = "steps" => Len(observations) < Len(steps)
    BY DEF IInv, TypeOK, StepsUnderWay
  <2>3. PlansLeft \in Nat
    BY <2>1 DEF PlansLeft, FindingsWithin
  <2>4. \A a, r \in Nat : a \in 0..r => r - a \in Nat
    OBVIOUS
  <2>5. ExecutionsLeft \in {Required + 1, 0, Required - attempts}
    BY DEF ExecutionsLeft
  <2>6. ExecutionsLeft \in Nat
    BY <2>1, <2>4, <2>5
  <2>7. CASE phase = "steps"
    <3>1. StepsLeft = (Len(steps) - Len(observations)) + 2
      BY <2>7 DEF StepsLeft
    <3> QED
      BY <2>2, <2>3, <2>6, <2>7, <3>1 DEF MeasureTyped
  <2>8. CASE phase # "steps"
    <3>1. StepsLeft \in {Len(steps) + 4, Len(steps) + 3, 2, 1, 0}
      BY <2>8 DEF StepsLeft
    <3> QED
      BY <2>2, <2>3, <2>6, <3>1 DEF MeasureTyped
  <2> QED
    BY <2>7, <2>8
<1> QED
  BY <1>1, <1>2, <1>3, Invariance, PTL DEF Spec
----------------------------------------------------------------------------
(* run_plan implements Promotion.                                          *)

\* The evidence of the results, execution by execution.
LEMMA EvidenceIndexed ==
  ASSUME TypeOK
  PROVE  /\ Evidence \in Seq([base : Verdict, keys : SUBSET Keys])
         /\ Len(Evidence) = Len(all_results)
         /\ \A i \in 1..Len(all_results) :
              /\ Evidence[i].base = BaseVerdict(all_results[i])
              /\ Evidence[i].keys = FailureKeys(all_results[i])
         /\ all_results = <<>> <=> Evidence = <<>>
<1>1. Len(all_results) \in Nat /\ (all_results = <<>> <=> Len(all_results) = 0)
  BY DEF TypeOK
<1>2. /\ DOMAIN Evidence = 1..Len(all_results)
      /\ Evidence \in Seq([base : Verdict, keys : SUBSET Keys])
  <2>1. \A i \in 1..Len(all_results) :
          /\ BaseVerdict(all_results[i]) \in Verdict
          /\ FailureKeys(all_results[i]) \in SUBSET Keys
    BY BaseVerdictTyped, FailureKeysTyped DEF TypeOK
  <2> QED
    BY <1>1, <2>1 DEF Evidence
<1>3. Len(Evidence) = Len(all_results)
  BY <1>1, <1>2
<1>4. \A i \in 1..Len(all_results) :
        /\ Evidence[i].base = BaseVerdict(all_results[i])
        /\ Evidence[i].keys = FailureKeys(all_results[i])
  BY DEF Evidence
<1> QED
  BY <1>1, <1>2, <1>3, <1>4

\* An execution more appends its evidence.
LEMMA EvidenceAppend ==
  ASSUME TypeOK, NEW results \in Results, all_results' = Append(all_results, results)
  PROVE  Evidence' = Append(Evidence,
                            [base |-> BaseVerdict(results), keys |-> FailureKeys(results)])
<1> DEFINE e == [base |-> BaseVerdict(results), keys |-> FailureKeys(results)]
           ev(i) == [base |-> BaseVerdict(all_results'[i]),
                     keys |-> FailureKeys(all_results'[i])]
<1>1. /\ Len(all_results) \in Nat
      /\ Len(all_results') = Len(all_results) + 1
      /\ all_results'[Len(all_results) + 1] = results
      /\ \A i \in 1..Len(all_results) : all_results'[i] = all_results[i]
  BY DEF TypeOK
<1>2. Evidence' = [i \in 1..(Len(all_results) + 1) |-> ev(i)]
  BY <1>1 DEF Evidence
<1>3. /\ \A i \in 1..Len(all_results) : ev(i) = Evidence[i]
      /\ ev(Len(all_results) + 1) = e
  BY <1>1 DEF Evidence
<1>4. /\ Evidence \in Seq([base : Verdict, keys : SUBSET Keys])
      /\ Len(Evidence) = Len(all_results)
  BY EvidenceIndexed
<1>5. e \in [base : Verdict, keys : SUBSET Keys]
  BY BaseVerdictTyped, FailureKeysTyped
<1> HIDE DEF ev, e
<1> DEFINE appended == Append(Evidence, e)
<1>6. /\ appended \in Seq([base : Verdict, keys : SUBSET Keys])
      /\ Len(appended) = Len(all_results) + 1
      /\ appended[Len(all_results) + 1] = e
      /\ \A i \in 1..Len(all_results) : appended[i] = Evidence[i]
  BY <1>4, <1>5
<1>7. DOMAIN appended = 1..(Len(all_results) + 1)
  BY <1>6
<1> HIDE DEF appended
<1>8. appended = [i \in 1..(Len(all_results) + 1) |-> appended[i]]
  BY <1>6, <1>7
<1>9. \A i \in 1..(Len(all_results) + 1) : ev(i) = appended[i]
  BY <1>1, <1>3, <1>6
<1> QED
  BY <1>2, <1>8, <1>9 DEF e, appended

\* The abstract notion of a reproduced key is that of the results.
LEMMA ReproducedIsSeenInAll ==
  ASSUME TypeOK, all_results # <<>>
  PROVE  Abstract!Reproduced(Evidence) = SeenInAll(all_results)
<1>1. /\ Evidence # <<>>
      /\ Len(Evidence) = Len(all_results)
      /\ 1 \in 1..Len(all_results)
  BY EvidenceIndexed DEF TypeOK
<1>2. FailureKeys(all_results[1]) \subseteq Keys
  BY <1>1, FailureKeysTyped DEF TypeOK
<1>3. Evidence[1].keys = FailureKeys(all_results[1])
  BY <1>1, EvidenceIndexed
<1>4. \A i \in 1..Len(all_results) :
        /\ Evidence[i].base = BaseVerdict(all_results[i])
        /\ Evidence[i].keys = FailureKeys(all_results[i])
  BY EvidenceIndexed
<1>5. Abstract!Reproduced(Evidence) =
        {key \in FailureKeys(all_results[1]) :
           \A i \in 1..Len(all_results) :
             /\ BaseVerdict(all_results[i]) = "FAIL"
             /\ key \in FailureKeys(all_results[i])}
  BY <1>1, <1>3, <1>4 DEF Abstract!Reproduced
<1> QED
  BY <1>1, <1>2, <1>5 DEF SeenInAll

\* A step that touches neither the results nor the findings, nor moves between
\* running a plan and having judged one, is a stutter.
LEMMA StutterSimulates ==
  ASSUME UNCHANGED <<all_results, findings>>,
         phase \in {"idle", "report"} /\ findings # <<>> <=>
           phase' \in {"idle", "report"} /\ findings # <<>>
  PROVE  UNCHANGED Abstract!vars
<1>1. Evidence' = Evidence
  BY DEF Evidence
<1>2. Judged' = Judged
  BY DEF Judged
<1> QED
  BY <1>1, <1>2 DEF Abstract!vars

\* Returning the finding that the evidence justifies is the abstract judgement.
LEMMA JudgeSimulates ==
  ASSUME IInv, phase \notin {"idle", "report"},
         NEW finding, ReturnFinding(finding),
         finding.verdict = Abstract!Judgement(Evidence)
  PROVE  Abstract!Judge
<1>1. Evidence' = Evidence
  BY DEF ReturnFinding, planVars, Evidence
<1>2. Judged = "pending"
  BY DEF Judged
<1>3. findings' # <<>> /\ findings'[Len(findings')] = finding
  BY DEF ReturnFinding, IInv, TypeOK
<1>4. Judged' = finding.verdict
  BY <1>3 DEF ReturnFinding, Judged
<1> QED
  BY <1>1, <1>2, <1>4 DEF Abstract!Judge

\* An evaluation is an execution the evidence left open.
LEMMA ExecuteSimulates ==
  ASSUME IInv, phase = "returned", phase' \notin {"idle", "report"},
         NEW results \in Evaluations, Attempted(results)
  PROVE  Abstract!Execute
<1> DEFINE e == [base |-> BaseVerdict(results), keys |-> FailureKeys(results)]
<1>1. results \in Results /\ all_results' = Append(all_results, results)
  BY AttemptedTyped DEF Attempted
<1>2. e \in [base : Verdict, keys : SUBSET Keys]
  BY <1>1, BaseVerdictTyped, FailureKeysTyped
<1>3. Evidence' = Append(Evidence, e)
  BY <1>1, EvidenceAppend DEF IInv
<1>4. Abstract!Undecided(Evidence)
  <2>1. CASE attempts = 0
    <3>1. all_results = <<>>
      BY <2>1 DEF IInv, TypeOK, CountersAgree
    <3>2. Evidence = <<>>
      BY <3>1, EvidenceIndexed DEF IInv
    <3> QED
      BY <3>2 DEF Abstract!Undecided
  <2>2. CASE attempts # 0
    <3>1. /\ attempts > 0
          /\ attempts < Required
          /\ stable_keys # {}
          /\ stable_keys = SeenInAll(all_results)
          /\ Len(all_results) = attempts
      BY <2>2 DEF IInv, TypeOK, LoopPosition, CountersAgree, KeysAgree, Executing
    <3>2. all_results # <<>>
      BY <3>1 DEF IInv, TypeOK
    <3>3. Len(Evidence) < Required
      BY <3>1, EvidenceIndexed DEF IInv
    <3>4. Abstract!Reproduced(Evidence) # {}
      BY <3>1, <3>2, ReproducedIsSeenInAll DEF IInv
    <3> QED
      BY <3>3, <3>4 DEF Abstract!Undecided
  <2> QED
    BY <2>1, <2>2
<1>5. Judged = "pending" /\ Judged' = "pending"
  BY DEF Judged
<1> HIDE DEF e
<1> QED
  BY <1>2, <1>3, <1>4, <1>5 DEF Abstract!Execute

\* The verdict that run_plan returns is the judgement of its evidence.
LEMMA VerdictJustified ==
  ASSUME IInv
  PROVE  /\ MissingOracle \/ PlanRejected => Abstract!Judgement(Evidence) = "ERROR"
         /\ ReturnBase => Abstract!Judgement(Evidence) = BaseVerdict(all_results[1])
         /\ Conclude => Abstract!Judgement(Evidence) =
                          IF Promoted THEN "VULNERABLE" ELSE "FAIL"
<1>1. ASSUME attempts > 0
      PROVE  /\ Evidence # <<>>
             /\ all_results # <<>>
             /\ Evidence[1].base = BaseVerdict(all_results[1])
             /\ Len(Evidence) = attempts
             /\ Abstract!Reproduced(Evidence) = SeenInAll(all_results)
  <2>1. all_results # <<>> /\ 1 \in 1..Len(all_results) /\ Len(all_results) = attempts
    BY <1>1 DEF IInv, TypeOK, CountersAgree
  <2> QED
    BY <2>1, EvidenceIndexed, ReproducedIsSeenInAll DEF IInv
<1>2. ASSUME MissingOracle \/ PlanRejected
      PROVE  Abstract!Judgement(Evidence) = "ERROR"
  <2>1. attempts = 0
    BY <1>2 DEF MissingOracle, PlanRejected, IInv, LoopPosition
  <2>2. all_results = <<>>
    BY <2>1 DEF IInv, TypeOK, CountersAgree
  <2>3. Evidence = <<>>
    BY <2>2, EvidenceIndexed DEF IInv
  <2> QED
    BY <2>3 DEF Abstract!Judgement
<1>3. ASSUME ReturnBase
      PROVE  Abstract!Judgement(Evidence) = BaseVerdict(all_results[1])
  <2>1. attempts = 1 /\ BaseVerdict(all_results[1]) # "FAIL"
    BY <1>3 DEF ReturnBase, IInv, LoopPosition
  <2> QED
    BY <1>1, <2>1 DEF Abstract!Judgement
<1>4. ASSUME Conclude
      PROVE  Abstract!Judgement(Evidence) = IF Promoted THEN "VULNERABLE" ELSE "FAIL"
  <2>1. /\ attempts > 0
        /\ attempts \in 0..Required
        /\ BaseVerdict(all_results[1]) = "FAIL"
        /\ stable_keys = SeenInAll(all_results)
        /\ stable_keys # {} => confirmations = attempts
    BY <1>4 DEF Conclude, IInv, TypeOK, LoopPosition, CountersAgree, KeysAgree
  <2>2. Promoted <=> attempts = Required /\ stable_keys # {}
    BY <2>1, CoordinatorAssumption DEF Promoted
  <2> QED
    BY <1>1, <2>1, <2>2 DEF Abstract!Judgement
<1> QED
  BY <1>2, <1>3, <1>4

\* Binding the next plan forgets the judgement of the one before.
LEMMA BindPlanSimulates ==
  ASSUME IInv, IInv', BindPlan
  PROVE  [Abstract!Next]_(Abstract!vars)
<1>1. Evidence' = <<>> /\ Judged' = "pending"
  <2>1. all_results' = <<>> /\ phase' = "bound"
    BY DEF BindPlan
  <2> QED
    BY <2>1, EvidenceIndexed DEF Evidence, Judged
<1>2. CASE findings = <<>>
  <2>1. attempts = 0
    BY <1>2 DEF BindPlan, IInv, LoopPosition
  <2>2. all_results = <<>>
    BY <2>1 DEF IInv, TypeOK, CountersAgree
  <2>3. Evidence = <<>> /\ Judged = "pending"
    BY <1>2, <2>2, EvidenceIndexed DEF IInv, Judged
  <2> QED
    BY <1>1, <2>3 DEF Abstract!vars
<1>3. CASE findings # <<>>
  <2>1. findings[Len(findings)] \in FindingType
    BY <1>3 DEF IInv, TypeOK
  <2>2. Judged \in Verdict
    BY <1>3, <2>1 DEF BindPlan, Judged, FindingType
  <2>3. Judged # "pending"
    BY <2>2 DEF Verdict
  <2> QED
    BY <1>1, <2>3 DEF Abstract!Next, Abstract!NextPlan, Abstract!Init
<1> QED
  BY <1>2, <1>3

\* Every step of the campaign is a step of Promotion, or a stutter of it.
LEMMA StepSimulates ==
  ASSUME IInv, IInv', [Next]_vars
  PROVE  [Abstract!Next]_(Abstract!vars)
<1>1. CASE BindPlan
  BY <1>1, BindPlanSimulates
<1>2. CASE JudgeFirst \/ JudgeRepeat
  <2>1. PICK results \in Evaluations :
          Attempted(results) /\ phase' \in {"confirm", "conclude", "decided"}
    BY <1>2 DEF JudgeFirst, JudgeRepeat
  <2>2. Abstract!Execute
    BY <1>2, <2>1, ExecuteSimulates DEF JudgeFirst, JudgeRepeat
  <2> QED
    BY <2>2 DEF Abstract!Next
<1>3. CASE MissingOracle \/ PlanRejected
  <2>1. PICK finding : ReturnFinding(finding) /\ finding.verdict = "ERROR"
    <3>1. Finding("ERROR").verdict = "ERROR"
      BY DEF Finding
    <3>2. \A r : [Finding("ERROR") EXCEPT !.results = r].verdict = "ERROR"
      BY DEF Finding
    <3> QED
      BY <1>3, <3>1, <3>2 DEF MissingOracle, PlanRejected
  <2>2. Abstract!Judge
    BY <1>3, <2>1, VerdictJustified, JudgeSimulates DEF MissingOracle, PlanRejected
  <2> QED
    BY <2>2 DEF Abstract!Next
<1>4. CASE ReturnBase
  <2> DEFINE base == BaseVerdict(all_results[1])
  <2>1. Finding(base).verdict = base
    BY DEF Finding
  <2>2. Abstract!Judgement(Evidence) = base
    BY <1>4, VerdictJustified
  <2> HIDE DEF base
  <2>3. Abstract!Judge
    BY <1>4, <2>1, <2>2, JudgeSimulates DEF ReturnBase, base
  <2> QED
    BY <2>3 DEF Abstract!Next
<1>5. CASE Conclude
  <2> DEFINE judged == IF Promoted THEN "VULNERABLE" ELSE "FAIL"
  <2>1. Finding(judged).verdict = judged
    BY DEF Finding
  <2>2. Abstract!Judgement(Evidence) = judged
    BY <1>5, VerdictJustified
  <2>3. phase \notin {"idle", "report"} /\ ReturnFinding(Finding(judged))
    BY <1>5 DEF Conclude
  <2> HIDE DEF judged
  <2>4. Abstract!Judge
    BY <2>1, <2>2, <2>3, JudgeSimulates
  <2> QED
    BY <2>4 DEF Abstract!Next
<1>6. CASE \/ StartCampaign \/ FinishCampaign \/ AbortCampaign \/ CampaignExpires
           \/ FirstExecution \/ Repeat \/ RepeatRejected
  BY <1>6, StutterSimulates
     DEF StartCampaign, FinishCampaign, AbortCampaign, CampaignExpires, FirstExecution, Repeat,
         RepeatRejected, execVars, planVars, campaignVars, IInv, LoopPosition
<1>7. CASE /\ ExecutorStep \/ SessionExpires \/ ResolverFlips
           /\ UNCHANGED <<planVars, campaignVars>>
  <2>1. /\ phase \in {"gate", "steps"}
        /\ phase' \in {"gate", "steps", "returned", "violation", "raised"}
    BY <1>7 DEF ExecutorStep, RefusePlan, OpenSession, RefuseStep, ExhaustBudget, Observe,
                AdapterRaises, CallAdapter, SessionExpires, ResolverFlips
  <2> QED
    BY <1>7, <2>1, StutterSimulates DEF planVars, campaignVars
<1>8. CASE UNCHANGED vars
  BY <1>8, StutterSimulates DEF vars, execVars, planVars, campaignVars
<1> QED
  BY <1>1, <1>2, <1>3, <1>4, <1>5, <1>6, <1>7, <1>8
     DEF Next, ProgramStep, Environment, Terminated

\* run_plan implements Promotion: whatever the executor and the oracles do, it
\* executes a plan again only while its evidence leaves the question open, and
\* the verdict of every finding is the one its evidence justifies.
THEOREM PromotionImplemented == Spec => ImplementsPromotion
<1>1. Init => Abstract!Init
  <2> SUFFICES ASSUME Init PROVE Abstract!Init
    OBVIOUS
  <2>1. TypeOK
    BY InitIInv DEF IInv
  <2>2. Evidence = <<>>
    BY <2>1, EvidenceIndexed DEF Init
  <2> QED
    BY <2>2 DEF Init, Abstract!Init, Judged
<1>2. IInv /\ IInv' /\ [Next]_vars => [Abstract!Next]_(Abstract!vars)
  BY StepSimulates
<1> QED
  BY <1>1, <1>2, Invariance, PTL DEF Spec, ImplementsPromotion, Abstract!Spec

=============================================================================
