---------------------------- MODULE ProbeProofs ----------------------------
(***************************************************************************)
(* Proofs about Probe: what a verdict says of the target, for every list   *)
(* of plans, every gateway and service, and every number of confirmation   *)
(* runs, requests and steps.                                               *)
(*                                                                         *)
(* The world adds no behaviour to the coordinator, so that the invariants  *)
(* of CoordinatorProofs hold here too.                                     *)
(***************************************************************************)
EXTENDS Probe, CoordinatorProofs, SelectionProofs

----------------------------------------------------------------------------
(* What is assumed of the parameters.                                      *)

\* The coordinator was built with the oracles of the command line, and an
\* exhausted budget leaves the observation that execute_plan records.
RegisteredAnswers ==
  /\ OracleIds \subseteq {"http_status", "availability", "reachability", "upstream_zero",
                          "no_sensitive_leak", "evidence_receipt"}
  /\ \A o \in OracleIds, plan \in Plans, obs \in Seq(Observation) :
       Answers(o, plan, obs) = ProbeAnswers(o, plan, obs)
  /\ Budget = Response("budget", O!NoStatus, "none", <<>>)

----------------------------------------------------------------------------
(* The world adds nothing to the coordinator.                              *)

\* An answer of an adapter is an observation of the executor.
LEMMA AdapterCallObserves ==
  AdapterCall =>
    /\ Observe /\ UNCHANGED <<planVars, campaignVars>>
    /\ \E s, b, e : observations' = Append(observations, Response(Current.tool, s, b, e))
<1>1. ASSUME NEW s, NEW b, NEW e, Answered(s, b, e)
      PROVE  /\ Observe /\ UNCHANGED <<planVars, campaignVars>>
             /\ observations' = Append(observations, Response(Current.tool, s, b, e))
  BY <1>1 DEF Answered
<1>2. ReadCounter \/ Connect => \E s, b, e : Answered(s, b, e)
  BY DEF ReadCounter, Connect
<1>3. ASSUME Call
      PROVE  \E s, b, e : Answered(s, b, e)
  <2>1. \/ Answered(403, "clean", <<>>) \/ Answered(200, "clean", <<>>)
        \/ Answered(401, "clean", <<>>) \/ Answered(O!NoStatus, "none", <<>>)
    BY <1>3, WorldAssumption DEF Call, TimedOut
  <2> QED
    BY <2>1
<1>4. ASSUME Request
      PROVE  \E s, b, e : Answered(s, b, e)
  <2>1. \/ Answered(403, "clean", <<>>) \/ Answered(200, "clean", <<>>)
        \/ Answered(500, "clean", <<>>) \/ Answered(403, "canary", <<>>)
        \/ Answered(O!NoStatus, "none", <<>>)
    BY <1>4, WorldAssumption DEF Request, TimedOut
  <2> QED
    BY <2>1
<1> QED
  BY <1>1, <1>2, <1>3, <1>4 DEF AdapterCall

\* A step against the world is a step of run_campaign, or none of its own.
LEMMA ProbeStepIsStep ==
  ASSUME [ProbeNext]_probeVars
  PROVE  [Next]_vars
<1>1. CASE HarnessStep
  BY <1>1 DEF HarnessStep, Next, ProgramStep, ExecutorStep, Environment
<1>2. CASE AdapterCall
  BY <1>2, AdapterCallObserves DEF Next, ProgramStep, ExecutorStep
<1>3. CASE WorldStep \/ ProbeTerminated \/ UNCHANGED probeVars
  BY <1>3 DEF WorldStep, ProbeTerminated, Terminated, probeVars
<1> QED
  BY <1>1, <1>2, <1>3 DEF ProbeNext

\* Whatever the world does, what is true of run_campaign stays true: its
\* inductive invariant, and the place of the executor in the plan.
LEMMA ProbeInvariance == ProbeSpec => [](IInv /\ StepsUnderWay)
<1>1. ProbeInit => IInv /\ StepsUnderWay
  BY InitIInv DEF ProbeInit, Init, StepsUnderWay, Running
<1>2. IInv /\ StepsUnderWay /\ [ProbeNext]_probeVars => IInv' /\ StepsUnderWay'
  BY ProbeStepIsStep, NextIInv, StepsUnderWayStep
<1> QED
  BY <1>1, <1>2, PTL DEF ProbeSpec

----------------------------------------------------------------------------
(* What the oracles' answers come to.                                      *)

\* The results of an execution are those of the registered oracles.
LEMMA ResultsAre ==
  ASSUME RegisteredAnswers, IInv, StepsUnderWay, Running, NEW results \in Evaluations
  PROVE  /\ DOMAIN results = OraclesOf /\ OraclesOf \subseteq OracleIds
         /\ \A o \in OraclesOf :
              results[o] = Recorded(O!Evaluate(o, Judging.metadata, observations))
<1>1. plans[PlanNumber] \in Plans /\ OraclesOf \subseteq OracleIds
  BY StepsTyped DEF Plan, OraclesOf
<1>2. observations \in Seq(Observation)
  BY DEF IInv, TypeOK
<1>3. \A o \in OraclesOf :
        Answers(o, plans[PlanNumber], observations)
          = {O!Evaluate(o, Judging.metadata, observations)}
  BY <1>1, <1>2 DEF RegisteredAnswers, ProbeAnswers, Judging
<1>4. PICK a : /\ results = [o \in OraclesOf |-> Recorded(a[o])]
               /\ \A o \in OraclesOf :
                    a[o] \in Answers(o, plans[PlanNumber], observations) \cap AnswerSet
  BY DEF Evaluations
<1>5. \A o \in OraclesOf : a[o] = O!Evaluate(o, Judging.metadata, observations)
  BY <1>3, <1>4
<1> QED
  BY <1>1, <1>4, <1>5

\* An attempt fails because the answer of one of its oracles says so.
LEMMA FailureAnswered ==
  ASSUME RegisteredAnswers, IInv, StepsUnderWay, Running, NEW results \in Evaluations,
         BaseVerdict(results) = "FAIL"
  PROVE  \E o \in OraclesOf :
           O!Evaluate(o, Judging.metadata, observations).verdict \in {"FAIL", "VULNERABLE"}
<1>1. VerdictsOf(results) \cap {"VULNERABLE", "FAIL"} # {}
  BY DEF BaseVerdict
<1>2. PICK o \in DOMAIN results : results[o].verdict \in {"VULNERABLE", "FAIL"}
  BY <1>1 DEF VerdictsOf
<1>3. o \in OraclesOf
      /\ results[o] = Recorded(O!Evaluate(o, Judging.metadata, observations))
  BY ResultsAre
<1>4. O!Evaluate(o, Judging.metadata, observations).verdict \in {"FAIL", "VULNERABLE"}
  BY <1>2, <1>3 DEF Recorded, ErrorResult
<1> QED
  BY <1>3, <1>4

\* And passes because all of them say so.
LEMMA PassAnswered ==
  ASSUME RegisteredAnswers, IInv, StepsUnderWay, Running, NEW results \in Evaluations,
         BaseVerdict(results) = "PASS", NEW o \in OraclesOf
  PROVE  O!Evaluate(o, Judging.metadata, observations).verdict = "PASS"
<1>1. VerdictsOf(results) = {"PASS"}
  BY DEF BaseVerdict
<1>2. DOMAIN results = OraclesOf
      /\ results[o] = Recorded(O!Evaluate(o, Judging.metadata, observations))
  BY ResultsAre
<1>3. results[o].verdict = "PASS"
  BY <1>1, <1>2 DEF VerdictsOf
<1> QED
  BY <1>2, <1>3 DEF Recorded, ErrorResult

\* What a finding can be, by the step that returns it.
LEMMA ConcludedAs ==
  ASSUME IInv, [Next]_vars, Concluded
  PROVE  \/ (MissingOracle \/ PlanRejected) /\ NewFinding.verdict = "ERROR"
         \/ /\ ReturnBase /\ phase = "decided" /\ NewFinding.verdict # "FAIL"
            /\ NewFinding.verdict = BaseVerdict(all_results[1])
         \/ /\ Conclude /\ phase \in {"confirm", "conclude"}
            /\ NewFinding.verdict = IF Promoted THEN "VULNERABLE" ELSE "FAIL"
<1>1. MissingOracle \/ PlanRejected \/ ReturnBase \/ Conclude
  BY DEF Concluded, Next, ProgramStep, ExecutorStep, Environment, Terminated, StartCampaign,
         BindPlan, FinishCampaign, AbortCampaign, FirstExecution, JudgeFirst, JudgeRepeat,
         Attempted, Repeat, RepeatRejected, CampaignExpires, vars, campaignVars
<1>2. findings \in Seq(FindingType)
  BY DEF IInv, TypeOK
<1>3. ASSUME NEW finding, findings' = Append(findings, finding)
      PROVE  NewFinding = finding
  BY <1>2, <1>3 DEF NewFinding
<1>4. \A verdict : Finding(verdict).verdict = verdict
  BY DEF Finding
<1>5. CASE MissingOracle
  <2> DEFINE finding == [Finding("ERROR") EXCEPT
                           !.results = <<[o \in OraclesOf \ Registered |-> ErrorResult]>>]
  <2>1. NewFinding = finding
    BY <1>3, <1>5 DEF MissingOracle, ReturnFinding
  <2>2. finding.verdict = "ERROR"
    BY DEF Finding
  <2> QED
    BY <1>5, <2>1, <2>2
<1>6. CASE PlanRejected
  BY <1>3, <1>4, <1>6 DEF PlanRejected, ReturnFinding
<1>7. CASE ReturnBase
  BY <1>3, <1>4, <1>7 DEF ReturnBase, ReturnFinding, IInv, LoopPosition
<1>8. CASE Conclude
  BY <1>3, <1>4, <1>8 DEF Conclude, ReturnFinding
<1> QED
  BY <1>1, <1>5, <1>6, <1>7, <1>8

\* Returning a base verdict is no promotion.
LEMMA BaseIsNoPromotion ==
  ASSUME NEW results
  PROVE  BaseVerdict(results) # "VULNERABLE"
BY DEF BaseVerdict

----------------------------------------------------------------------------
(* Diagnostic plans.                                                       *)

\* A diagnostic status is never a failure, and a listener that does not answer
\* was not attacked.
LEMMA DiagnosticAnswers ==
  ASSUME NEW o \in {"http_status", "reachability"}, NEW metadata, metadata.diagnostic, NEW obs
  PROVE  O!Evaluate(o, metadata, obs).verdict \notin {"FAIL", "VULNERABLE"}
<1>1. \A v, print : O!Result(v, print).verdict = v
  BY DEF O!Result
<1>2. O!HttpStatus(metadata, obs).verdict \notin {"FAIL", "VULNERABLE"}
  BY <1>1 DEF O!HttpStatus, O!Undecided
<1>3. O!Reachability(obs).verdict \notin {"FAIL", "VULNERABLE"}
  BY <1>1 DEF O!Reachability, O!Undecided
<1> QED
  BY <1>2, <1>3 DEF O!Evaluate

\* The confirmation loop has entered on a failure, so not with a diagnostic plan.
LoopIsNoDiagnostic ==
  (Executing /\ attempts > 0) \/ phase \in {"confirm", "conclude"} =>
    ~Judging.metadata.diagnostic

\* The loop is entered by the first attempt, and stays with its plan.
LEMMA LoopIsNoDiagnosticStep ==
  ASSUME RegisteredAnswers, DiagnosticContracts, IInv, StepsUnderWay, LoopIsNoDiagnostic,
         [Next]_vars
  PROVE  LoopIsNoDiagnostic'
<1> USE DEF Executing
<1>1. CASE JudgeFirst
  <2>1. phase = "returned" /\ Running /\ Judging' = Judging
        /\ phase' \in {"confirm", "decided"}
    BY <1>1 DEF JudgeFirst, Attempted, Running, Phases, Judging, campaignVars, PlanNumber
  <2>2. ASSUME phase' = "confirm", Judging.metadata.diagnostic
        PROVE  FALSE
    <3>1. PICK results \in Evaluations : BaseVerdict(results) = "FAIL"
      BY <1>1, <2>2 DEF JudgeFirst
    <3>2. PICK o \in OraclesOf :
            O!Evaluate(o, Judging.metadata, observations).verdict \in {"FAIL", "VULNERABLE"}
      BY <2>1, <3>1, FailureAnswered
    <3>3. plans[PlanNumber] \in Plans
      BY <2>1, StepsTyped
    <3>4. o \in {"http_status", "reachability"}
      BY <2>2, <3>2, <3>3 DEF DiagnosticContracts, OraclesOf, Judging
    <3> QED
      BY <2>2, <3>2, <3>4, DiagnosticAnswers
  <2> QED
    BY <2>1, <2>2 DEF LoopIsNoDiagnostic
<1>2. CASE \/ MissingOracle \/ PlanRejected \/ ReturnBase \/ Conclude
           \/ StartCampaign \/ FinishCampaign \/ AbortCampaign \/ BindPlan
  <2>1. phase' \in {"idle", "report", "aborted", "bound"}
    BY <1>2 DEF MissingOracle, PlanRejected, ReturnBase, Conclude, ReturnFinding,
                StartCampaign, FinishCampaign, AbortCampaign, BindPlan
  <2> QED
    BY <2>1 DEF LoopIsNoDiagnostic
<1>3. CASE JudgeRepeat
  <2>1. phase = "returned" /\ attempts > 0 /\ Judging' = Judging
    BY <1>3 DEF JudgeRepeat, Attempted, Judging, campaignVars, PlanNumber
  <2> QED
    BY <2>1 DEF LoopIsNoDiagnostic
<1>4. CASE FirstExecution
  <2>1. phase' = "gate" /\ attempts' = 0
    BY <1>4 DEF FirstExecution, planVars, IInv, LoopPosition
  <2> QED
    BY <2>1 DEF LoopIsNoDiagnostic
<1>5. CASE Repeat \/ RepeatRejected
  <2>1. /\ attempts' = attempts /\ Judging' = Judging
        /\ phase = "confirm" \/ (phase = "violation" /\ attempts > 0)
    BY <1>5 DEF Repeat, RepeatRejected, planVars, campaignVars, Judging, PlanNumber
  <2> QED
    BY <2>1 DEF LoopIsNoDiagnostic
<1>6. CASE ExecutorStep /\ UNCHANGED <<planVars, campaignVars>>
  <2>1. /\ UNCHANGED attempts /\ Judging' = Judging
        /\ phase \in {"gate", "steps"}
        /\ phase' \in {"steps", "returned", "violation", "raised"}
    BY <1>6 DEF ExecutorStep, RefusePlan, OpenSession, RefuseStep, ExhaustBudget, Observe,
                AdapterRaises, CallAdapter, planVars, campaignVars, Judging, PlanNumber
  <2> QED
    BY <2>1 DEF LoopIsNoDiagnostic
<1>7. CASE Environment \/ UNCHANGED vars
  <2>1. UNCHANGED <<phase, attempts>> /\ Judging' = Judging
    BY <1>7 DEF Environment, CampaignExpires, SessionExpires, ResolverFlips, vars, execVars,
                planVars, campaignVars, Judging, PlanNumber
  <2> QED
    BY <2>1 DEF LoopIsNoDiagnostic
<1> QED
  BY <1>1, <1>2, <1>3, <1>4, <1>5, <1>6, <1>7 DEF Next, ProgramStep, Terminated

\* DiagnosticNeverAccuses: a plan with a diagnostic contract ends neither in FAIL
\* nor in VULNERABLE, whatever its steps do and whatever comes back.
THEOREM DiagnosticsAccuseNobody ==
  ASSUME RegisteredAnswers, DiagnosticContracts
  PROVE  ProbeSpec => DiagnosticNeverAccuses
<1>1. ProbeInit => LoopIsNoDiagnostic
  BY DEF ProbeInit, Init, LoopIsNoDiagnostic, Executing
<1>2. IInv /\ StepsUnderWay /\ LoopIsNoDiagnostic /\ [ProbeNext]_probeVars => LoopIsNoDiagnostic'
  BY ProbeStepIsStep, LoopIsNoDiagnosticStep
<1>3. ASSUME IInv, LoopIsNoDiagnostic, [ProbeNext]_probeVars, Concluded,
             Judging.metadata.diagnostic
      PROVE  NewFinding.verdict \notin {"FAIL", "VULNERABLE"}
  <2>1. ~(phase \in {"confirm", "conclude"})
    BY <1>3 DEF LoopIsNoDiagnostic
  <2>2. [Next]_vars
    BY <1>3, ProbeStepIsStep
  <2> QED
    BY <1>3, <2>1, <2>2, ConcludedAs, BaseIsNoPromotion
<1>4. IInv /\ LoopIsNoDiagnostic /\ [ProbeNext]_probeVars =>
        [Concluded /\ Judging.metadata.diagnostic
           => NewFinding.verdict \notin {"FAIL", "VULNERABLE"}]_probeVars
  BY <1>3
<1> QED
  BY <1>1, <1>2, <1>4, ProbeInvariance, PTL DEF ProbeSpec, DiagnosticNeverAccuses

\* bind_trusted_oracle_contract: without a seed, whatever steps the agents chose,
\* the contract their plan is judged by is a diagnostic one.
THEOREM SeedlessIsDiagnostic ==
  ASSUME NEW candidate \in Plan
  PROVE  LET plan == BoundWithoutSeed(candidate) IN
         /\ plan.steps = candidate.steps
         /\ plan.metadata.diagnostic
         /\ plan.oracle_ids \subseteq {"http_status", "reachability"}
<1> DEFINE plan == BoundWithoutSeed(candidate)
           tools == ToolsOf(candidate)
<1>1. /\ plan.steps = candidate.steps
      /\ plan.metadata = O!DiagnosticMetadata(tools)
      /\ plan.oracle_ids = O!DiagnosticOracles(tools)
  BY DEF BoundWithoutSeed, Plan
<1>2. O!DiagnosticMetadata(tools).diagnostic
  BY DEF O!DiagnosticMetadata
<1>3. O!DiagnosticOracles(tools) \subseteq {"http_status", "reachability"}
  BY DEF O!DiagnosticOracles
<1> QED
  BY <1>1, <1>2, <1>3

----------------------------------------------------------------------------
(* What the oracles read of the observations.                              *)

\* The oracles select as the rest of the model does.
LEMMA SameSelection ==
  ASSUME NEW s, NEW places
  PROVE  O!Selection(s, places) = Selection(s, places)
BY DEF O!Selection, Selection

\* at[i] is the place of the i-th value of a key in the observations.
Sampled(values, places, obs, key, at) ==
  /\ at \in [1..Len(values) -> places]
  /\ \A i, j \in 1..Len(values) : i < j => at[i] < at[j]
  /\ \A i \in 1..Len(values) : values[i] = obs[at[i]].evidence[key]
  /\ \A p \in places : \E i \in 1..Len(values) : at[i] = p

PlacesOf(key, obs) == {i \in DOMAIN obs : key \in DOMAIN obs[i].evidence}

\* The values of a key are those of the observations that have it, in order.
LEMMA ValuesAre ==
  ASSUME NEW S, NEW obs \in Seq(S), NEW key
  PROVE  /\ \E V : O!ValuesOf(key, obs) \in Seq(V)
         /\ \E at : Sampled(O!ValuesOf(key, obs), PlacesOf(key, obs), obs, key, at)
<1> DEFINE there == PlacesOf(key, obs)
           with == Selection(obs, there)
           values == [i \in DOMAIN with |-> with[i].evidence[key]]
<1>1. O!ValuesOf(key, obs) = values
  BY SameSelection DEF O!ValuesOf, PlacesOf
<1>2. there \in SUBSET (1..Len(obs))
  BY DEF PlacesOf
<1> HIDE DEF there
<1>3. with \in Seq(S) /\ \E at : Places(obs, there, with, at)
  BY <1>2, SelectionPlaces
<1>4. PICK at : Places(obs, there, with, at)
  BY <1>3
<1> HIDE DEF with
<1>5. Len(with) \in Nat /\ DOMAIN with = 1..Len(with)
  BY <1>3
<1>6. /\ values \in Seq({with[i].evidence[key] : i \in 1..Len(with)})
      /\ Len(values) = Len(with)
      /\ \A i \in 1..Len(with) : values[i] = with[i].evidence[key]
  BY <1>5
<1> HIDE DEF values
<1>7. Sampled(values, there, obs, key, at)
  BY <1>4, <1>6 DEF Sampled, Places
<1> QED
  BY <1>1, <1>6, <1>7 DEF there

\* Where the counter of the upstream was read.
CounterPlaces(obs) == {i \in PlacesOf("counter", obs) : obs[i].evidence["counter"] # O!NoCounter}

\* The counters are those of the observations that have one and that is not None.
LEMMA CountersAre ==
  ASSUME NEW S, NEW obs \in Seq(S)
  PROVE  /\ \E V : O!CountersRead(obs) \in Seq(V)
         /\ \E at : Sampled(O!CountersRead(obs), CounterPlaces(obs), obs, "counter", at)
<1> DEFINE values == O!ValuesOf("counter", obs)
           counted == {i \in DOMAIN values : values[i] # O!NoCounter}
           counters == Selection(values, counted)
<1>1. O!CountersRead(obs) = counters
  BY SameSelection DEF O!CountersRead
<1>2. PICK V, at : values \in Seq(V) /\ Sampled(values, PlacesOf("counter", obs), obs, "counter", at)
  BY ValuesAre
<1> HIDE DEF values
<1>3. Len(values) \in Nat /\ DOMAIN values = 1..Len(values)
  BY <1>2
<1>4. counted \in SUBSET (1..Len(values))
  BY <1>3
<1>5. \A i \in 1..Len(values) : i \in counted <=> values[i] # O!NoCounter
  BY <1>3
<1> HIDE DEF counted
<1>6. counters \in Seq(V) /\ \E on : Places(values, counted, counters, on)
  BY <1>2, <1>4, SelectionPlaces
<1>7. PICK on : Places(values, counted, counters, on)
  BY <1>6
<1> HIDE DEF counters
<1>8. Len(counters) \in Nat
  BY <1>6
<1> DEFINE to == [i \in 1..Len(counters) |-> at[on[i]]]
<1>9. ASSUME NEW i \in 1..Len(counters)
      PROVE  /\ on[i] \in 1..Len(values) /\ on[i] \in counted /\ counters[i] = values[on[i]]
             /\ at[on[i]] \in CounterPlaces(obs)
             /\ counters[i] = obs[at[on[i]]].evidence["counter"]
  <2>1. on[i] \in counted /\ counters[i] = values[on[i]]
    BY <1>7 DEF Places
  <2>2. on[i] \in 1..Len(values) /\ values[on[i]] # O!NoCounter
    BY <1>4, <1>5, <2>1
  <2>3. at[on[i]] \in PlacesOf("counter", obs)
        /\ values[on[i]] = obs[at[on[i]]].evidence["counter"]
    BY <1>2, <2>2 DEF Sampled
  <2> QED
    BY <2>1, <2>2, <2>3 DEF CounterPlaces
<1>10. to \in [1..Len(counters) -> CounterPlaces(obs)]
  BY <1>9
<1>11. ASSUME NEW i \in 1..Len(counters), NEW j \in 1..Len(counters), i < j
       PROVE  to[i] < to[j]
  <2>1. on[i] < on[j]
    BY <1>7, <1>11 DEF Places
  <2> QED
    BY <1>2, <1>9, <2>1 DEF Sampled
<1>12. ASSUME NEW p \in CounterPlaces(obs)
       PROVE  \E i \in 1..Len(counters) : to[i] = p
  <2>1. p \in PlacesOf("counter", obs) /\ obs[p].evidence["counter"] # O!NoCounter
    BY DEF CounterPlaces
  <2>2. PICK k \in 1..Len(values) : at[k] = p
    BY <1>2, <2>1 DEF Sampled
  <2>3. values[k] = obs[p].evidence["counter"]
    BY <1>2, <2>2 DEF Sampled
  <2>4. k \in counted
    BY <1>5, <2>1, <2>2, <2>3
  <2>5. PICK i \in 1..Len(counters) : on[i] = k
    BY <1>7, <2>4 DEF Places
  <2> QED
    BY <2>2, <2>5
<1>13. \A i \in 1..Len(counters) : counters[i] = obs[to[i]].evidence["counter"]
  BY <1>9
<1> HIDE DEF to
<1>14. Sampled(counters, CounterPlaces(obs), obs, "counter", to)
  BY <1>10, <1>11, <1>12, <1>13 DEF Sampled
<1> QED
  BY <1>1, <1>6, <1>14

----------------------------------------------------------------------------
(* Vulnerable means a defect.                                              *)

\* A response that the contract judges and does not expect.
Unexpected(o, metadata) ==
  /\ metadata.expected # {}
  /\ o.status # O!NoStatus
  /\ metadata.tools = {} \/ o.tool \in metadata.tools
  /\ o.status \notin metadata.expected \cup metadata.inconclusive

CounterAt(obs, i) == obs[i].evidence["counter"]

\* What may still make an attempt fail, with the counter of the upstream at now.
Suspect(obs, metadata, now) ==
  \/ \E i \in DOMAIN obs : Unexpected(obs[i], metadata) \/ obs[i].body = "canary"
  \/ \E i \in CounterPlaces(obs) : CounterAt(obs, i) < now
  \/ \E i, j \in CounterPlaces(obs) : i < j /\ CounterAt(obs, i) < CounterAt(obs, j)

\* What adapters put into their evidence.
Evidenced(obs) ==
  \A i \in DOMAIN obs :
    /\ DOMAIN obs[i].evidence \subseteq {"counter", "reachable"}
    /\ "counter" \in DOMAIN obs[i].evidence => CounterAt(obs, i) \in Nat \cup {O!NoCounter}

\* A status that http_status holds against the target was an unexpected one.
LEMMA StatusIsSuspect ==
  ASSUME NEW S, NEW obs \in Seq(S), NEW metadata,
         O!HttpStatus(metadata, obs).verdict \in {"FAIL", "VULNERABLE"}
  PROVE  \E i \in DOMAIN obs : Unexpected(obs[i], metadata)
<1> DEFINE counted == {i \in DOMAIN obs :
                         /\ obs[i].status # O!NoStatus
                         /\ metadata.tools = {} \/ obs[i].tool \in metadata.tools}
           answered == Selection(obs, counted)
           seen == [i \in DOMAIN answered |-> answered[i].status]
<1>1. O!StatusesSeen(metadata, obs) = seen
  BY SameSelection DEF O!StatusesSeen
<1>2. counted \in SUBSET (1..Len(obs))
  OBVIOUS
<1>3. answered \in Seq(S) /\ \E at : Places(obs, counted, answered, at)
  BY <1>2, SelectionPlaces
<1>4. PICK at : Places(obs, counted, answered, at)
  BY <1>3
<1>5. DOMAIN seen = 1..Len(answered) /\ \A i \in DOMAIN seen : seen[i] = answered[i].status
  BY <1>3
<1> HIDE DEF seen
<1>6. \A v, print : O!Result(v, print).verdict = v
  BY DEF O!Result
<1>7. /\ metadata.expected # {}
      /\ O!ToSet(seen) \cap metadata.inconclusive = {}
      /\ ~(O!ToSet(seen) \subseteq metadata.expected)
  BY <1>1, <1>6 DEF O!HttpStatus, O!Undecided
<1>8. O!ToSet(seen) = {seen[i] : i \in DOMAIN seen}
  BY DEF O!ToSet
<1>9. PICK i \in DOMAIN seen : seen[i] \notin metadata.expected \cup metadata.inconclusive
  BY <1>7, <1>8
<1>10. i \in 1..Len(answered) /\ seen[i] = answered[i].status
  BY <1>5, <1>9
<1>11. at[i] \in counted /\ answered[i] = obs[at[i]]
  BY <1>4, <1>10 DEF Places
<1> QED
  BY <1>7, <1>9, <1>10, <1>11 DEF Unexpected

\* A movement that upstream_zero sees is one between two readings.
LEMMA EffectIsSuspect ==
  ASSUME NEW S, NEW obs \in Seq(S), Evidenced(obs),
         O!UpstreamEffect(obs).verdict \in {"FAIL", "VULNERABLE"}
  PROVE  \E i, j \in CounterPlaces(obs) : i < j /\ CounterAt(obs, i) < CounterAt(obs, j)
<1> DEFINE counters == O!CountersRead(obs)
<1>1. PICK V, at : counters \in Seq(V) /\ Sampled(counters, CounterPlaces(obs), obs, "counter", at)
  BY CountersAre
<1>2. \A v, print : O!Result(v, print).verdict = v
  BY DEF O!Result
<1>3. /\ ~(Len(counters) < 2)
      /\ ~(O!Last(counters) - Head(counters) < 0)
      /\ O!Last(counters) - Head(counters) # 0
  BY <1>2 DEF O!UpstreamEffect, O!Undecided
<1> DEFINE n == Len(counters)
<1>4. n \in Nat /\ n >= 2 /\ Head(counters) = counters[1] /\ O!Last(counters) = counters[n]
  BY <1>1, <1>3 DEF O!Last
<1> HIDE DEF counters
<1>5. ASSUME NEW i \in 1..n
      PROVE  /\ at[i] \in CounterPlaces(obs) /\ counters[i] = CounterAt(obs, at[i])
             /\ counters[i] \in Nat
  <2>1. at[i] \in CounterPlaces(obs) /\ counters[i] = CounterAt(obs, at[i])
    BY <1>1 DEF Sampled, CounterAt
  <2>2. CounterAt(obs, at[i]) \in Nat
    BY <2>1 DEF CounterPlaces, PlacesOf, Evidenced, CounterAt
  <2> QED
    BY <2>1, <2>2
<1>6. 1 \in 1..n /\ n \in 1..n /\ 1 < n
  BY <1>4
<1> HIDE DEF n
<1>7. at[1] < at[n]
  BY <1>1, <1>6 DEF Sampled, n
<1>8. counters[1] < counters[n]
  BY <1>3, <1>4, <1>5, <1>6
<1> QED
  BY <1>5, <1>6, <1>7, <1>8

\* Nobody measures the health of the target.
LEMMA HealthUnmeasured ==
  ASSUME NEW S, NEW obs \in Seq(S), Evidenced(obs)
  PROVE  O!Availability(obs).verdict = "INCONCLUSIVE"
<1> DEFINE health == O!ValuesOf("health", obs)
<1>1. PICK V, at : health \in Seq(V) /\ Sampled(health, PlacesOf("health", obs), obs, "health", at)
  BY ValuesAre
<1>2. PlacesOf("health", obs) = {}
  BY DEF PlacesOf, Evidenced
<1> HIDE DEF health
<1>3. Len(health) \in Nat
  BY <1>1
<1>4. ASSUME Len(health) # 0
      PROVE  FALSE
  <2>1. 1 \in 1..Len(health)
    BY <1>3, <1>4
  <2> QED
    BY <1>1, <1>2, <2>1 DEF Sampled
<1>5. health = <<>>
  BY <1>1, <1>4
<1> QED
  BY <1>5 DEF O!Availability, O!Undecided, O!Result, health

\* An attempt fails only if something is held against the target.
LEMMA FailureIsSuspect ==
  ASSUME NEW S, NEW obs \in Seq(S), Evidenced(obs), NEW metadata, NEW now,
         NEW o \in {"http_status", "availability", "reachability", "upstream_zero",
                    "no_sensitive_leak", "evidence_receipt"},
         O!Evaluate(o, metadata, obs).verdict \in {"FAIL", "VULNERABLE"}
  PROVE  Suspect(obs, metadata, now)
<1>1. \A v, print : O!Result(v, print).verdict = v
  BY DEF O!Result
<1>2. CASE o = "http_status"
  BY <1>2, StatusIsSuspect DEF O!Evaluate, Suspect
<1>3. CASE o = "upstream_zero"
  BY <1>3, EffectIsSuspect DEF O!Evaluate, Suspect
<1>4. CASE o = "availability"
  BY <1>4, HealthUnmeasured DEF O!Evaluate
<1>5. CASE o = "reachability"
  BY <1>1, <1>5 DEF O!Evaluate, O!Reachability, O!Undecided
<1>6. CASE o = "evidence_receipt"
  BY <1>1, <1>6 DEF O!Evaluate, O!EvidenceReceipt, O!Undecided
<1>7. CASE o = "no_sensitive_leak"
  <2>1. O!SensitiveLeak(metadata, obs).verdict \in {"FAIL", "VULNERABLE"}
    BY <1>7 DEF O!Evaluate
  <2> DEFINE bodies == {obs[i].body : i \in DOMAIN obs} \ {"none"}
  <2>2. O!SensitiveLeak(metadata, obs) =
          IF ~metadata.markers \/ bodies = {} THEN O!Undecided
          ELSE O!Result(IF "canary" \in bodies THEN "VULNERABLE" ELSE "PASS",
                        [leaked |-> "canary" \in bodies])
    BY DEF O!SensitiveLeak
  <2> HIDE DEF bodies
  <2>3. "canary" \in bodies
    BY <1>1, <2>1, <2>2 DEF O!Undecided
  <2> QED
    BY <2>3 DEF Suspect, bodies
<1> QED
  BY <1>2, <1>3, <1>4, <1>5, <1>6, <1>7

\* An observation more makes an execution suspect by what is unexpected of it, or
\* by a counter that has moved.
Measures(o) == "counter" \in DOMAIN o.evidence /\ o.evidence["counter"] # O!NoCounter

LEMMA SuspectAppend ==
  ASSUME NEW S, NEW obs \in Seq(S), NEW r, NEW metadata, NEW now,
         Suspect(Append(obs, r), metadata, now), ~Suspect(obs, metadata, now)
  PROVE  \/ Unexpected(r, metadata) \/ r.body = "canary"
         \/ /\ Measures(r)
            /\ \/ r.evidence["counter"] < now
               \/ \E i \in CounterPlaces(obs) : CounterAt(obs, i) < r.evidence["counter"]
<1> DEFINE more == Append(obs, r)
           n == Len(obs) + 1
<1>1. Len(obs) \in Nat /\ DOMAIN obs = 1..Len(obs)
  OBVIOUS
<1>2. /\ DOMAIN more = 1..n /\ more[n] = r
      /\ \A i \in DOMAIN obs : i \in DOMAIN more /\ more[i] = obs[i]
      /\ \A i \in DOMAIN more : i \in DOMAIN obs \/ i = n
  <2>1. obs \in Seq(S \cup {r}) /\ r \in S \cup {r}
    OBVIOUS
  <2>2. more \in Seq(S \cup {r}) /\ Len(more) = n
    BY <2>1
  <2>3. more[n] = r /\ \A i \in 1..Len(obs) : more[i] = obs[i]
    BY <2>1
  <2> QED
    BY <1>1, <2>2, <2>3
<1>3. Suspect(more, metadata, now)
  OBVIOUS
<1> HIDE DEF more
<1>4. \A i : i \in CounterPlaces(more) => /\ i \in DOMAIN more /\ Measures(more[i])
  BY DEF CounterPlaces, PlacesOf, Measures
<1>5. \A i \in DOMAIN obs : Measures(obs[i]) => i \in CounterPlaces(obs)
  BY DEF CounterPlaces, PlacesOf, Measures
<1>6. CASE \E i \in DOMAIN more : Unexpected(more[i], metadata) \/ more[i].body = "canary"
  BY <1>2, <1>6 DEF Suspect
<1>7. CASE \E i \in CounterPlaces(more) : CounterAt(more, i) < now
  <2>1. PICK i \in CounterPlaces(more) : CounterAt(more, i) < now
    BY <1>7
  <2>2. CASE i = n
    BY <1>2, <1>4, <2>1, <2>2 DEF CounterAt
  <2>3. CASE i \in DOMAIN obs
    BY <1>2, <1>4, <1>5, <2>1, <2>3 DEF CounterAt, Suspect
  <2> QED
    BY <1>2, <1>4, <2>2, <2>3
<1>8. CASE \E i, j \in CounterPlaces(more) : i < j /\ CounterAt(more, i) < CounterAt(more, j)
  <2>1. PICK i \in CounterPlaces(more), j \in CounterPlaces(more) :
          i < j /\ CounterAt(more, i) < CounterAt(more, j)
    BY <1>8
  <2>2. i \in DOMAIN obs
    <3>1. i \in 1..n /\ j \in 1..n
      BY <1>2, <1>4
    <3> QED
      BY <1>1, <2>1, <3>1
  <2>3. i \in CounterPlaces(obs) /\ CounterAt(more, i) = CounterAt(obs, i)
    BY <1>2, <1>4, <1>5, <2>2 DEF CounterAt
  <2>4. CASE j = n
    BY <1>2, <1>4, <2>1, <2>3, <2>4 DEF CounterAt
  <2>5. CASE j \in DOMAIN obs
    <3>1. j \in CounterPlaces(obs) /\ CounterAt(more, j) = CounterAt(obs, j)
      BY <1>2, <1>4, <1>5, <2>5 DEF CounterAt
    <3> QED
      BY <2>1, <2>3, <3>1 DEF Suspect
  <2> QED
    BY <1>2, <1>4, <2>4, <2>5
<1> QED
  BY <1>3, <1>6, <1>7, <1>8 DEF Suspect

LEMMA EvidencedAppend ==
  ASSUME NEW S, NEW obs \in Seq(S), Evidenced(obs), NEW r,
         DOMAIN r.evidence \subseteq {"counter", "reachable"},
         "counter" \in DOMAIN r.evidence =>
           r.evidence["counter"] \in Nat \cup {O!NoCounter}
  PROVE  Evidenced(Append(obs, r))
<1> DEFINE more == Append(obs, r)
<1>1. obs \in Seq(S \cup {r}) /\ r \in S \cup {r}
  OBVIOUS
<1>2. DOMAIN more = 1..(Len(obs) + 1) /\ more[Len(obs) + 1] = r
      /\ \A i \in 1..Len(obs) : more[i] = obs[i]
  BY <1>1
<1>3. \A i \in DOMAIN more : i \in DOMAIN obs \/ more[i] = r
  BY <1>2
<1> HIDE DEF more
<1>4. \A i \in DOMAIN more : (more[i] = obs[i] /\ i \in DOMAIN obs) \/ more[i] = r
  <2>1. DOMAIN obs = 1..Len(obs)
    OBVIOUS
  <2> QED
    BY <1>2, <1>3, <2>1
<1>5. Evidenced(more)
  BY <1>4 DEF Evidenced, CounterAt
<1> QED
  BY <1>5 DEF more

----------------------------------------------------------------------------
(* What an adapter call does to the world.                                 *)

\* A reading of the counter, which leaves the world as it is.
CounterReading(r) ==
  /\ r.tool = "upstream_counter" /\ r.body # "canary"
  /\ DOMAIN r.evidence = {"counter"}
  /\ r.evidence["counter"] \in {hits, O!NoCounter}
  /\ r.status \in {O!NoStatus, 200}
  /\ r.status = O!NoStatus => r.evidence["counter"] = O!NoCounter
  /\ UNCHANGED world

\* Any other answer: unless it is the one due, it counts as a defect.
OtherAnswer(r) ==
  /\ r.tool \in {"mcp_call", "http_request", "tcp_probe"}
  /\ DOMAIN r.evidence \subseteq {"reachable"}
  /\ "reachable" \in DOMAIN r.evidence => r.tool = "tcp_probe"
  /\ \/ UNCHANGED <<hits, forwarded>>
     \/ r.tool = "mcp_call" /\ hits' = hits + 1 /\ forwarded' = forwarded + 1
  /\ \/ defects' = defects + 1
     \/ /\ UNCHANGED <<hits, defects>>
        /\ r.body # "canary" /\ r.status \in {O!NoStatus, 401, 403}
  /\ late' \in {late, late + 1}
  /\ UNCHANGED <<strays, restarts>>

LEMMA AnswersOfTheWorld ==
  ASSUME AdapterCall
  PROVE  \E r : /\ observations' = Append(observations, r) /\ r.tool = Current.tool
                /\ CounterReading(r) \/ OtherAnswer(r)
<1>1. ASSUME NEW s, NEW b, NEW e, Answered(s, b, e)
      PROVE  observations' = Append(observations, Response(Current.tool, s, b, e))
  BY <1>1 DEF Answered
<1>2. \A t, s, b, e : /\ Response(t, s, b, e).tool = t /\ Response(t, s, b, e).status = s
                      /\ Response(t, s, b, e).body = b /\ Response(t, s, b, e).evidence = e
  BY DEF Response
<1>3. DOMAIN <<>> = {}
  OBVIOUS
<1>4. CASE ReadCounter
  <2>1. PICK s, c : /\ Answered(s, IF s = O!NoStatus THEN "none" ELSE "clean", [counter |-> c])
                    /\ s \in {O!NoStatus, 200} /\ c \in {hits, O!NoCounter}
                    /\ s = O!NoStatus => c = O!NoCounter
    BY <1>4 DEF ReadCounter, O!NoStatus
  <2> DEFINE r == Response(Current.tool, s, IF s = O!NoStatus THEN "none" ELSE "clean", [counter |-> c])
  <2>2. r.evidence = [counter |-> c] /\ r.status = s /\ r.tool = "upstream_counter"
        /\ r.body \in {"none", "clean"}
    BY <1>2, <1>4 DEF ReadCounter
  <2>3. observations' = Append(observations, r)
    BY <1>1, <2>1
  <2>4. UNCHANGED world
    BY <1>4 DEF ReadCounter
  <2> HIDE DEF r
  <2>5. CounterReading(r)
    BY <2>1, <2>2, <2>4 DEF CounterReading
  <2> QED
    BY <1>4, <2>2, <2>3, <2>5 DEF ReadCounter
<1>5. CASE Call
  <2>1. PICK s, b : /\ Answered(s, b, <<>>) /\ b \in {"none", "clean"}
                    /\ \/ /\ UNCHANGED <<hits, forwarded>>
                       \/ hits' = hits + 1 /\ forwarded' = forwarded + 1
                    /\ \/ defects' = defects + 1
                       \/ UNCHANGED <<hits, defects>> /\ s \in {O!NoStatus, 401, 403}
                    /\ late' \in {late, late + 1}
    <3>1. PICK does \in Gateway :
            /\ CASE does \in {"deny", "leak"}    -> Answered(403, "clean", <<>>)
                 [] does \in {"allow", "accept"} -> Answered(200, "clean", <<>>)
                 [] does = "challenge"           -> Answered(401, "clean", <<>>)
                 [] does \in {"late", "lost"}    -> TimedOut
            /\ hits' = IF does \in {"leak", "allow"} THEN hits + 1 ELSE hits
            /\ forwarded' = IF does \in {"leak", "allow"} THEN forwarded + 1 ELSE forwarded
            /\ defects' = IF does \in {"leak", "allow"} \/ does \in {"allow", "accept"}
                          THEN defects + 1 ELSE defects
            /\ late' = IF does = "late" THEN late + 1 ELSE late
      BY <1>5 DEF Call
    <3>2. does \in {"deny", "leak", "allow", "accept", "challenge", "late", "lost"}
      BY WorldAssumption
    <3>3. CASE does \in {"deny", "leak"}
      <4>1. Answered(403, "clean", <<>>)
        BY <3>1, <3>3
      <4> QED
        BY <3>1, <3>3, <4>1
    <3>4. CASE does \in {"allow", "accept"}
      <4>1. Answered(200, "clean", <<>>)
        BY <3>1, <3>4
      <4> QED
        BY <3>1, <3>4, <4>1
    <3>5. CASE does = "challenge"
      <4>1. Answered(401, "clean", <<>>)
        BY <3>1, <3>5
      <4> QED
        BY <3>1, <3>5, <4>1
    <3>6. CASE does \in {"late", "lost"}
      <4>1. Answered(O!NoStatus, "none", <<>>)
        BY <3>1, <3>6 DEF TimedOut
      <4> QED
        BY <3>1, <3>6, <4>1
    <3> QED
      BY <3>2, <3>3, <3>4, <3>5, <3>6
  <2> DEFINE r == Response(Current.tool, s, b, <<>>)
  <2>2. r.evidence = <<>> /\ r.status = s /\ r.tool = Current.tool /\ r.body = b
        /\ r.tool = "mcp_call"
    BY <1>2, <1>5 DEF Call
  <2>3. observations' = Append(observations, r)
    BY <1>1, <2>1
  <2>4. UNCHANGED <<strays, restarts>>
    BY <1>5 DEF Call
  <2> HIDE DEF r
  <2>5. OtherAnswer(r)
    BY <1>3, <2>1, <2>2, <2>4 DEF OtherAnswer
  <2> QED
    BY <2>2, <2>3, <2>5
<1>6. CASE Request
  <2>1. PICK s, b : /\ Answered(s, b, <<>>)
                    /\ \/ defects' = defects + 1
                       \/ /\ UNCHANGED defects
                          /\ b \in {"none", "clean"} /\ s \in {O!NoStatus, 401, 403}
    <3>1. PICK does \in Service :
            /\ CASE does = "refuse" -> Answered(403, "clean", <<>>)
                 [] does = "serve"  -> Answered(200, "clean", <<>>)
                 [] does = "break"  -> Answered(500, "clean", <<>>)
                 [] does = "expose" -> Answered(403, "canary", <<>>)
                 [] does = "lost"   -> TimedOut
            /\ defects' = IF does \in {"serve", "break", "expose"} THEN defects + 1 ELSE defects
      BY <1>6 DEF Request
    <3>2. does \in {"refuse", "serve", "break", "expose", "lost"}
      BY WorldAssumption
    <3>3. CASE does = "refuse"
      <4>1. Answered(403, "clean", <<>>)
        BY <3>1, <3>3
      <4> QED
        BY <3>1, <3>3, <4>1
    <3>4. CASE does = "lost"
      <4>1. Answered(O!NoStatus, "none", <<>>)
        BY <3>1, <3>4 DEF TimedOut
      <4> QED
        BY <3>1, <3>4, <4>1
    <3>5. CASE does \in {"serve", "break", "expose"}
      <4>1. \E s, b : Answered(s, b, <<>>)
        BY <3>1, <3>5
      <4> QED
        BY <3>1, <3>5, <4>1
    <3> QED
      BY <3>2, <3>3, <3>4, <3>5
  <2> DEFINE r == Response(Current.tool, s, b, <<>>)
  <2>2. r.evidence = <<>> /\ r.status = s /\ r.tool = Current.tool /\ r.body = b
        /\ r.tool = "http_request"
    BY <1>2, <1>6 DEF Request
  <2>3. observations' = Append(observations, r)
    BY <1>1, <2>1
  <2>4. UNCHANGED <<hits, late, forwarded, strays, restarts>>
    BY <1>6 DEF Request
  <2> HIDE DEF r
  <2>5. OtherAnswer(r)
    BY <1>3, <2>1, <2>2, <2>4 DEF OtherAnswer
  <2> QED
    BY <2>2, <2>3, <2>5
<1>7. CASE Connect
  <2>1. PICK up \in BOOLEAN : Answered(O!NoStatus, "none", [reachable |-> up])
    BY <1>7 DEF Connect
  <2> DEFINE r == Response(Current.tool, O!NoStatus, "none", [reachable |-> up])
  <2>2. r.evidence = [reachable |-> up] /\ r.status = O!NoStatus /\ r.tool = Current.tool
        /\ r.body = "none" /\ r.tool = "tcp_probe"
    BY <1>2, <1>7 DEF Connect
  <2>3. observations' = Append(observations, r)
    BY <1>1, <2>1
  <2>4. UNCHANGED <<hits, late, forwarded, defects, strays, restarts>>
    BY <1>7 DEF Connect, world
  <2> HIDE DEF r
  <2>5. OtherAnswer(r)
    BY <2>2, <2>4 DEF OtherAnswer
  <2> QED
    BY <2>2, <2>3, <2>5
<1> QED
  BY <1>4, <1>5, <1>6, <1>7 DEF AdapterCall

----------------------------------------------------------------------------
(* Every failing execution met a defect or a stray hit.                    *)

WorldTyped ==
  {hits, late, forwarded, defects, strays, restarts} \subseteq Nat

\* The executions that count as confirmations have met a defect each, and one
\* under way that may fail has met one more.
DefectsInv ==
  /\ WorldTyped
  /\ Evidenced(observations)
  /\ Running => confirmations <= defects + strays
  /\ phase \in {"steps", "returned"} /\ Suspect(observations, Judging.metadata, hits) =>
       confirmations + 1 <= defects + strays

\* What the counters of a plan are, in numbers.
LEMMA CountsTyped ==
  ASSUME IInv, WorldTyped
  PROVE  /\ confirmations \in Nat /\ attempts \in Nat /\ confirmations <= attempts
         /\ hits \in Nat /\ forwarded \in Nat /\ defects \in Nat /\ strays \in Nat
         /\ restarts \in Nat /\ observations \in Seq(Observation)
BY CoordinatorAssumption DEF IInv, TypeOK, CountersAgree, WorldTyped

\* An answer of an adapter makes an execution suspect only by a defect.
LEMMA DefectsAtCalls ==
  ASSUME RefusalsExpected, RegisteredAnswers, IInv, StepsUnderWay, DefectsInv, AdapterCall
  PROVE  DefectsInv'
<1>1. /\ phase = "steps" /\ Running /\ phase' \in {"steps", "returned"}
      /\ Judging' = Judging /\ UNCHANGED confirmations
  BY AdapterCallObserves DEF AdapterCall, Observe, Running, Phases, campaignVars, planVars,
                             Judging, PlanNumber
<1>2. PICK r : /\ observations' = Append(observations, r) /\ r.tool = Current.tool
               /\ CounterReading(r) \/ OtherAnswer(r)
  BY AnswersOfTheWorld
<1>3. Judging \in Plans /\ r.tool \in ToolsOf(Judging)
  <2>1. Judging \in Plans /\ steps = Judging.steps /\ DOMAIN steps = 1..Len(steps)
        /\ Len(steps) \in Nat
    BY <1>1, StepsTyped DEF Judging
  <2>2. Len(observations) + 1 \in DOMAIN steps
    BY <1>1, <2>1 DEF StepsUnderWay, IInv, TypeOK
  <2> QED
    BY <1>2, <2>1, <2>2 DEF Current, ToolsOf
<1> DEFINE metadata == Judging.metadata
<1>4. /\ confirmations \in Nat /\ hits \in Nat /\ defects \in Nat /\ strays \in Nat
      /\ observations \in Seq(Observation)
  BY CountsTyped DEF DefectsInv
<1>5. CASE CounterReading(r)
  <2>1. WorldTyped' /\ UNCHANGED <<hits, defects, strays>>
    BY <1>5 DEF CounterReading, world, DefectsInv, WorldTyped
  <2>2. Evidenced(observations')
    <3>1. r.evidence["counter"] \in Nat \cup {O!NoCounter}
      BY <1>4, <1>5 DEF CounterReading
    <3> QED
      BY <1>2, <1>4, <1>5, <3>1, EvidencedAppend DEF CounterReading, DefectsInv
  <2>3. ~Unexpected(r, metadata) /\ r.body # "canary"
    <3>1. r.tool = "upstream_counter" /\ r.status \in {O!NoStatus, 200} /\ r.body # "canary"
      BY <1>5 DEF CounterReading
    <3> QED
      BY <1>3, <3>1 DEF RefusalsExpected, Unexpected
  <2>4. ASSUME Suspect(observations', metadata, hits)
        PROVE  Suspect(observations, metadata, hits)
    <3>1. SUFFICES ASSUME ~Suspect(observations, metadata, hits) PROVE FALSE
      OBVIOUS
    <3>2. /\ Measures(r)
          /\ \/ r.evidence["counter"] < hits
             \/ \E i \in CounterPlaces(observations) :
                  CounterAt(observations, i) < r.evidence["counter"]
      BY <1>2, <1>4, <2>3, <2>4, <3>1, SuspectAppend
    <3>3. r.evidence["counter"] = hits
      BY <1>5, <3>2 DEF CounterReading, Measures
    <3>4. \E i \in CounterPlaces(observations) : CounterAt(observations, i) < hits
      BY <1>4, <3>2, <3>3
    <3> QED
      BY <3>1, <3>4 DEF Suspect
  <2> QED
    BY <1>1, <2>1, <2>2, <2>4 DEF DefectsInv
<1>6. CASE OtherAnswer(r)
  <2>1. WorldTyped'
    BY <1>6 DEF OtherAnswer, DefectsInv, WorldTyped
  <2>2. Evidenced(observations')
    BY <1>2, <1>4, <1>6, EvidencedAppend DEF OtherAnswer, DefectsInv
  <2>3. confirmations <= defects + strays
    BY <1>1 DEF DefectsInv
  <2>4. CASE defects' = defects + 1
    <3>1. confirmations + 1 <= defects' + strays' /\ confirmations <= defects' + strays'
      BY <1>4, <1>6, <2>3, <2>4 DEF OtherAnswer
    <3> QED
      BY <1>1, <2>1, <2>2, <3>1 DEF DefectsInv
  <2>5. CASE /\ UNCHANGED <<hits, defects>>
             /\ r.body # "canary" /\ r.status \in {O!NoStatus, 401, 403}
    <3>1. ~Unexpected(r, metadata)
      BY <1>3, <2>5 DEF RefusalsExpected, Unexpected
    <3>2. ~Measures(r)
      BY <1>6 DEF OtherAnswer, Measures
    <3>3. Suspect(observations', metadata, hits) => Suspect(observations, metadata, hits)
      BY <1>2, <1>4, <2>5, <3>1, <3>2, SuspectAppend
    <3>4. UNCHANGED strays
      BY <1>6 DEF OtherAnswer
    <3> QED
      BY <1>1, <2>1, <2>2, <2>3, <2>5, <3>3, <3>4 DEF DefectsInv
  <2> QED
    BY <1>6, <2>4, <2>5 DEF OtherAnswer
<1> QED
  BY <1>2, <1>5, <1>6

\* A stray hit is counted, and a restart moves the counter back.
LEMMA DefectsAtWorldSteps ==
  ASSUME IInv, DefectsInv, WorldStep
  PROVE  DefectsInv'
<1>1. /\ UNCHANGED <<phase, observations, confirmations, defects>> /\ Judging' = Judging
      /\ Running' = Running /\ phase = "steps" /\ Running
  BY DEF WorldStep, StrayCall, LateForward, Stray, Restart, vars, execVars, planVars, campaignVars,
         Judging, PlanNumber, Running, Phases
<1>2. /\ confirmations \in Nat /\ hits \in Nat /\ defects \in Nat /\ strays \in Nat
  BY CountsTyped DEF DefectsInv
<1>3. WorldTyped'
  <2>1. late \in Nat /\ late > 0 => late - 1 \in Nat
    OBVIOUS
  <2> QED
    BY <2>1 DEF WorldStep, StrayCall, LateForward, Stray, Restart, DefectsInv, WorldTyped
<1>4. CASE StrayCall \/ LateForward
  <2>1. strays' = strays + 1
    BY <1>4 DEF StrayCall, LateForward, Stray
  <2>2. confirmations + 1 <= defects + strays' /\ confirmations <= defects + strays'
    BY <1>1, <1>2, <2>1 DEF DefectsInv
  <2> QED
    BY <1>1, <1>3, <2>2 DEF DefectsInv
<1>5. CASE Restart
  <2>1. hits' = 0 /\ UNCHANGED strays
    BY <1>5 DEF Restart
  <2>2. ASSUME Suspect(observations, Judging.metadata, 0)
        PROVE  Suspect(observations, Judging.metadata, hits)
    <3>1. CASE \E i \in CounterPlaces(observations) : CounterAt(observations, i) < 0
      <4>1. PICK i \in CounterPlaces(observations) : CounterAt(observations, i) < 0
        BY <3>1
      <4>2. CounterAt(observations, i) \in Nat
        BY DEF DefectsInv, Evidenced, CounterPlaces, PlacesOf, CounterAt
      <4> QED
        BY <4>1, <4>2
    <3> QED
      BY <2>2, <3>1 DEF Suspect
  <2> QED
    BY <1>1, <1>3, <2>1, <2>2 DEF DefectsInv
<1> QED
  BY <1>4, <1>5 DEF WorldStep

\* What fails has met a defect of its own; the harness itself hits nobody.
LEMMA DefectsAtHarnessSteps ==
  ASSUME RegisteredAnswers, IInv, StepsUnderWay, DefectsInv, HarnessStep
  PROVE  DefectsInv'
<1>0. /\ confirmations \in Nat /\ attempts \in Nat /\ confirmations <= attempts /\ hits \in Nat
      /\ defects \in Nat /\ strays \in Nat /\ observations \in Seq(Observation)
  BY CountsTyped DEF DefectsInv
<1>1. WorldTyped' /\ UNCHANGED hits
      /\ (phase # "idle" => UNCHANGED <<defects, strays>>)
  BY DEF HarnessStep, DefectsInv, WorldTyped
<1>2. CASE JudgeFirst \/ JudgeRepeat
  <2>1. /\ phase = "returned" /\ Running /\ phase' \in {"confirm", "decided", "conclude"}
        /\ UNCHANGED observations
        /\ (JudgeFirst => attempts = 0)
    BY <1>2 DEF JudgeFirst, JudgeRepeat, Attempted, Running, Phases
  <2>2. ASSUME confirmations' # confirmations
        PROVE  confirmations' = confirmations + 1 /\ Suspect(observations, Judging.metadata, hits)
    <3>1. PICK results \in Evaluations :
            /\ BaseVerdict(results) = "FAIL"
            /\ confirmations' = confirmations + 1
      BY <1>0, <1>2, <2>1, <2>2 DEF JudgeFirst, JudgeRepeat
    <3>2. PICK o \in OraclesOf :
            O!Evaluate(o, Judging.metadata, observations).verdict \in {"FAIL", "VULNERABLE"}
      BY <2>1, <3>1, FailureAnswered
    <3>3. o \in {"http_status", "availability", "reachability", "upstream_zero",
                 "no_sensitive_leak", "evidence_receipt"}
      BY <2>1, <3>1, ResultsAre DEF RegisteredAnswers
    <3> QED
      BY <1>0, <3>1, <3>2, <3>3, FailureIsSuspect DEF DefectsInv
  <2>3. confirmations' <= defects + strays
    BY <1>0, <2>1, <2>2 DEF DefectsInv
  <2> QED
    BY <1>1, <2>1, <2>3 DEF DefectsInv
<1>3. CASE BindPlan
  <2>1. confirmations' = 0 /\ phase' = "bound" /\ UNCHANGED observations
    BY <1>3 DEF BindPlan
  <2>2. defects' \in Nat /\ strays' \in Nat
    BY <1>1 DEF WorldTyped
  <2>3. \A d, n \in Nat : 0 <= d + n
    OBVIOUS
  <2>4. 0 <= defects' + strays'
    BY <2>2, <2>3
  <2> QED
    BY <1>1, <2>1, <2>4 DEF DefectsInv
<1>4. CASE StartCampaign \/ FinishCampaign \/ MissingOracle \/ PlanRejected \/ ReturnBase \/ Conclude
  <2>1. ~Running' /\ phase' \notin {"steps", "returned"} /\ UNCHANGED observations
    BY <1>4 DEF StartCampaign, FinishCampaign, MissingOracle, PlanRejected, ReturnBase, Conclude,
                ReturnFinding, Running
  <2> QED
    BY <1>1, <2>1 DEF DefectsInv
<1>5. CASE \/ FirstExecution \/ Repeat \/ RepeatRejected
           \/ (RefusePlan \/ RefuseStep) /\ UNCHANGED <<planVars, campaignVars>>
  <2>1. /\ Running /\ phase # "idle" /\ UNCHANGED <<observations, confirmations>>
        /\ phase' \notin {"steps", "returned"}
    BY <1>5 DEF FirstExecution, Repeat, RepeatRejected, RefusePlan, RefuseStep, planVars,
                Running, Phases
  <2> QED
    BY <1>1, <2>1 DEF DefectsInv
<1>6. CASE OpenSession /\ UNCHANGED <<planVars, campaignVars>>
  <2>1. /\ Running /\ phase # "idle" /\ observations' = <<>> /\ UNCHANGED confirmations
    BY <1>6 DEF OpenSession, planVars, Running, Phases
  <2>2. DOMAIN <<>> = {}
    OBVIOUS
  <2>3. Evidenced(<<>>) /\ \A metadata, now : ~Suspect(<<>>, metadata, now)
    BY <2>2 DEF Evidenced, Suspect, CounterPlaces, PlacesOf
  <2> QED
    BY <1>1, <2>1, <2>3 DEF DefectsInv
<1>7. CASE ExhaustBudget /\ UNCHANGED <<planVars, campaignVars>>
  <2>1. /\ Running /\ phase = "steps" /\ observations' = Append(observations, Budget)
        /\ UNCHANGED confirmations /\ Judging' = Judging
    BY <1>7 DEF ExhaustBudget, planVars, campaignVars, Running, Phases, Judging, PlanNumber
  <2>2. /\ Budget.status = O!NoStatus /\ Budget.body = "none" /\ DOMAIN Budget.evidence = {}
    BY DEF RegisteredAnswers, Response
  <2>3. Evidenced(observations')
    BY <1>0, <2>1, <2>2, EvidencedAppend DEF DefectsInv
  <2>4. ~Unexpected(Budget, Judging.metadata) /\ ~Measures(Budget) /\ Budget.body # "canary"
    BY <2>2 DEF Unexpected, Measures
  <2>5. Suspect(observations', Judging.metadata, hits) =>
          Suspect(observations, Judging.metadata, hits)
    BY <1>0, <2>1, <2>4, SuspectAppend
  <2> QED
    BY <1>1, <2>1, <2>3, <2>5 DEF DefectsInv
<1>8. CASE SessionExpires /\ UNCHANGED <<planVars, campaignVars>>
  <2>1. /\ Running /\ phase = "steps" /\ UNCHANGED <<phase, observations, confirmations>>
        /\ Judging' = Judging
    BY <1>8 DEF SessionExpires, planVars, campaignVars, Running, Phases, Judging, PlanNumber
  <2> QED
    BY <1>1, <2>1 DEF DefectsInv
<1> QED
  BY <1>2, <1>3, <1>4, <1>5, <1>6, <1>7, <1>8 DEF HarnessStep

\* VulnerableMeansDefect: what is confirmed Required times over has met as many
\* defects of the target or stray hits of its upstream.
THEOREM VulnerabilityMeansDefect ==
  ASSUME RegisteredAnswers, RefusalsExpected
  PROVE  ProbeSpec => VulnerableMeansDefect
<1>1. ProbeInit => DefectsInv
  <2> SUFFICES ASSUME ProbeInit PROVE DefectsInv
    OBVIOUS
  <2>1. WorldTyped
    BY DEF ProbeInit, WorldInit, WorldTyped
  <2>2. DOMAIN <<>> = {}
    OBVIOUS
  <2>3. Evidenced(observations)
    BY <2>2 DEF ProbeInit, Init, Evidenced
  <2> QED
    BY <2>1, <2>3 DEF ProbeInit, Init, DefectsInv, Running
<1>2. ASSUME IInv, StepsUnderWay, DefectsInv, [ProbeNext]_probeVars
      PROVE  DefectsInv'
  <2>1. CASE ProbeTerminated \/ UNCHANGED probeVars
    <3>1. UNCHANGED <<hits, late, forwarded, defects, strays, restarts, phase, observations,
                      confirmations, plans, findings>>
      BY <2>1 DEF ProbeTerminated, Terminated, probeVars, vars, world, execVars, planVars,
                  campaignVars
    <3> QED
      BY <1>2, <3>1 DEF DefectsInv, WorldTyped, Running, Judging, PlanNumber
  <2> QED
    BY <1>2, <2>1, DefectsAtHarnessSteps, DefectsAtCalls, DefectsAtWorldSteps DEF ProbeNext
<1>3. ASSUME IInv, DefectsInv, [ProbeNext]_probeVars, Concluded,
             NewFinding.verdict = "VULNERABLE"
      PROVE  defects + strays >= Required
  <2>1. Conclude /\ Promoted /\ phase \in {"confirm", "conclude"}
    BY <1>3, ProbeStepIsStep, ConcludedAs, BaseIsNoPromotion
  <2>2. confirmations >= Required /\ Running
    BY <2>1 DEF Promoted, Running, Phases
  <2>3. confirmations <= defects + strays
    BY <1>3, <2>2 DEF DefectsInv
  <2>4. confirmations \in Nat /\ defects \in Nat /\ strays \in Nat /\ Required \in Nat
    BY <1>3, CountsTyped, CoordinatorAssumption DEF DefectsInv
  <2> QED
    BY <2>2, <2>3, <2>4
<1>4. IInv /\ DefectsInv /\ [ProbeNext]_probeVars =>
        [Concluded /\ NewFinding.verdict = "VULNERABLE" => defects + strays >= Required]_probeVars
  BY <1>3
<1> QED
  BY <1>1, <1>2, <1>4, ProbeInvariance, PTL DEF ProbeSpec, VulnerableMeansDefect

----------------------------------------------------------------------------
(* The pass of a bracketed plan proves the denial.                         *)

\* The readings of the first execution, as long as the upstream is not restarted:
\* the calls that were passed on lie between the first and the last of them.
WindowOpen ==
  phase \in {"steps", "returned"} /\ attempts = 0 /\ restarts = 0 /\ Bracketed(Judging)

WindowInv ==
  LET counters == CounterPlaces(observations) IN
  /\ WorldTyped
  /\ Evidenced(observations)
  /\ phase = "bound" \/ (phase = "gate" /\ attempts = 0) => forwarded = 0
  /\ WindowOpen =>
       /\ counters \subseteq {1, Len(steps)}
       /\ observations = <<>> => forwarded = 0
       /\ 1 \in counters => CounterAt(observations, 1) + forwarded <= hits
       /\ {1, Len(steps)} \subseteq counters =>
            CounterAt(observations, 1) + forwarded <= CounterAt(observations, Len(steps))
  /\ /\ phase = "decided" /\ restarts = 0 /\ Bracketed(Judging)
     /\ "upstream_zero" \in OraclesOf /\ BaseVerdict(all_results[1]) = "PASS"
     => forwarded = 0

\* The counters of one observation more.
LEMMA CountersAppend ==
  ASSUME NEW S, NEW obs \in Seq(S), NEW r
  PROVE  LET more == Append(obs, r)
             n == Len(obs) + 1
         IN
         /\ CounterPlaces(more) = CounterPlaces(obs) \cup (IF Measures(r) THEN {n} ELSE {})
         /\ CounterPlaces(obs) \subseteq 1..Len(obs)
         /\ \A i \in CounterPlaces(obs) : CounterAt(more, i) = CounterAt(obs, i)
         /\ CounterAt(more, n) = r.evidence["counter"]
<1> DEFINE more == Append(obs, r)
           n == Len(obs) + 1
<1>1. Len(obs) \in Nat /\ DOMAIN obs = 1..Len(obs)
  OBVIOUS
<1>2. /\ DOMAIN more = 1..n /\ more[n] = r
      /\ \A i \in 1..Len(obs) : more[i] = obs[i]
  <2>1. obs \in Seq(S \cup {r}) /\ r \in S \cup {r}
    OBVIOUS
  <2> QED
    BY <2>1
<1>3. /\ CounterPlaces(more) = {i \in DOMAIN more : Measures(more[i])}
      /\ CounterPlaces(obs) = {i \in DOMAIN obs : Measures(obs[i])}
  BY DEF CounterPlaces, PlacesOf, Measures
<1> HIDE DEF more
<1>4. 1..n = 1..Len(obs) \cup {n} /\ n \notin 1..Len(obs)
  BY <1>1
<1> HIDE DEF n
<1>5. CounterPlaces(more) = CounterPlaces(obs) \cup (IF Measures(r) THEN {n} ELSE {})
  BY <1>1, <1>2, <1>3, <1>4
<1>6. CounterPlaces(obs) \subseteq 1..Len(obs)
  BY <1>1, <1>3
<1>7. /\ \A i \in CounterPlaces(obs) : CounterAt(more, i) = CounterAt(obs, i)
      /\ CounterAt(more, n) = r.evidence["counter"]
  BY <1>2, <1>6 DEF CounterAt
<1> QED
  BY <1>5, <1>6, <1>7 DEF more, n

\* Within the window only the two readings move nothing, and every call passed on
\* comes after the first of them.
LEMMA WindowAtCalls ==
  ASSUME IInv, StepsUnderWay, WindowInv, AdapterCall
  PROVE  WindowInv'
<1>1. /\ phase = "steps" /\ Running /\ phase' \in {"steps", "returned"}
      /\ Judging' = Judging /\ UNCHANGED <<attempts, steps>>
  BY AdapterCallObserves DEF AdapterCall, Observe, Running, Phases, campaignVars, planVars,
                             Judging, PlanNumber
<1>2. PICK r : /\ observations' = Append(observations, r) /\ r.tool = Current.tool
               /\ CounterReading(r) \/ OtherAnswer(r)
  BY AnswersOfTheWorld
<1>3. /\ hits \in Nat /\ forwarded \in Nat /\ defects \in Nat /\ strays \in Nat
      /\ restarts \in Nat /\ late \in Nat /\ observations \in Seq(Observation)
  BY CountsTyped DEF WindowInv, WorldTyped
<1>4. steps = Judging.steps /\ Len(steps) \in Nat \ {0} /\ DOMAIN steps = 1..Len(steps)
      /\ Len(observations) \in Nat /\ Len(observations) < Len(steps)
  BY <1>1, <1>3, StepsTyped DEF Judging, StepsUnderWay
<1> DEFINE n == Len(observations) + 1
<1>5. n \in DOMAIN steps /\ r.tool = steps[n].tool
  BY <1>2, <1>4 DEF Current
<1>6. WorldTyped' /\ UNCHANGED restarts
  BY <1>2, <1>3 DEF CounterReading, OtherAnswer, world, WorldTyped
<1>7. Evidenced(observations')
  <2>1. Measures(r) \/ "counter" \in DOMAIN r.evidence =>
          r.evidence["counter"] \in Nat \cup {O!NoCounter}
    BY <1>2, <1>3 DEF CounterReading, OtherAnswer, Measures
  <2>2. DOMAIN r.evidence \subseteq {"counter", "reachable"}
    BY <1>2 DEF CounterReading, OtherAnswer
  <2> QED
    BY <1>2, <1>3, <2>1, <2>2, EvidencedAppend DEF WindowInv
<1>8. /\ CounterPlaces(observations') =
           CounterPlaces(observations) \cup (IF Measures(r) THEN {n} ELSE {})
      /\ CounterPlaces(observations) \subseteq 1..Len(observations)
      /\ \A i \in CounterPlaces(observations) :
           CounterAt(observations', i) = CounterAt(observations, i)
      /\ CounterAt(observations', n) = r.evidence["counter"]
  BY <1>2, <1>3, CountersAppend
<1>9. ASSUME WindowOpen'
      PROVE  /\ CounterPlaces(observations') \subseteq {1, Len(steps)}
             /\ observations' # <<>>
             /\ 1 \in CounterPlaces(observations') =>
                  CounterAt(observations', 1) + forwarded' <= hits'
             /\ {1, Len(steps)} \subseteq CounterPlaces(observations') =>
                  CounterAt(observations', 1) + forwarded' <= CounterAt(observations', Len(steps))
  <2>1. WindowOpen /\ Bracketed(Judging) /\ Len(steps) > 1
    BY <1>1, <1>4, <1>6, <1>9 DEF WindowOpen, Bracketed
  <2>2. \A i \in DOMAIN steps : steps[i].tool = "upstream_counter" <=> i \in {1, Len(steps)}
    BY <1>4, <2>1 DEF Bracketed
  <2>3. /\ CounterPlaces(observations) \subseteq {1, Len(steps)}
        /\ observations = <<>> => forwarded = 0
        /\ 1 \in CounterPlaces(observations) => CounterAt(observations, 1) + forwarded <= hits
    BY <2>1 DEF WindowInv
  <2>4. observations' # <<>> /\ 1 \in DOMAIN steps
    BY <1>2, <1>3, <1>4
  <2>5. Len(steps) \notin CounterPlaces(observations)
    <3>1. Len(steps) \notin 1..Len(observations)
      BY <1>4
    <3> QED
      BY <1>8, <3>1
  <2>6. 1 \in CounterPlaces(observations) =>
          CounterAt(observations, 1) \in Nat /\ CounterAt(observations', 1) = CounterAt(observations, 1)
    <3>1. \A i \in CounterPlaces(observations) : CounterAt(observations, i) \in Nat
      BY DEF WindowInv, Evidenced, CounterPlaces, PlacesOf, CounterAt
    <3> QED
      BY <1>8, <3>1
  <2>7. CASE CounterReading(r)
    <3>1. n \in {1, Len(steps)} /\ UNCHANGED <<hits, forwarded>>
      <4>1. r.tool = "upstream_counter" /\ UNCHANGED <<hits, forwarded>>
        BY <2>7 DEF CounterReading, world
      <4>2. n \in DOMAIN steps /\ steps[n].tool = "upstream_counter"
        BY <1>5, <4>1
      <4> HIDE DEF n
      <4> QED
        BY <2>2, <4>1, <4>2
    <3>2. Measures(r) => CounterAt(observations', n) = hits
      BY <1>8, <2>7 DEF CounterReading, Measures
    <3>3. CASE n = 1
      <4>1. Len(observations) = 0 /\ observations = <<>> /\ forwarded = 0
        BY <1>3, <1>4, <2>3, <3>3
      <4>2. CounterPlaces(observations) = {}
        BY <1>8, <4>1
      <4>3. Len(steps) # 1
        <5>1. \A l \in Nat : l > 1 => l # 1
          OBVIOUS
        <5>2. Len(steps) \in Nat /\ Len(steps) > 1
          BY <1>4, <2>1
        <5> QED
          BY <5>1, <5>2
      <4>4. hits + 0 <= hits
        BY <1>3
      <4> QED
        BY <1>8, <2>4, <3>1, <3>2, <3>3, <4>1, <4>2, <4>3, <4>4
    <3>4. CASE n # 1
      <4>1. n = Len(steps) /\ Len(steps) # 1
        BY <3>1, <3>4
      <4>2. /\ 1 \in CounterPlaces(observations') => 1 \in CounterPlaces(observations)
            /\ Len(steps) \in CounterPlaces(observations') => Measures(r)
        BY <1>8, <2>5, <3>4, <4>1
      <4> QED
        BY <1>8, <2>3, <2>4, <2>6, <3>1, <3>2, <4>1, <4>2
    <3> QED
      BY <3>3, <3>4
  <2>8. CASE OtherAnswer(r)
    <3>1. n \notin {1, Len(steps)} /\ ~Measures(r)
      BY <1>5, <2>2, <2>8 DEF OtherAnswer, Measures
    <3>2. CounterPlaces(observations') = CounterPlaces(observations)
      BY <1>8, <3>1
    <3>3. \/ UNCHANGED <<hits, forwarded>>
          \/ hits' = hits + 1 /\ forwarded' = forwarded + 1
      BY <2>8 DEF OtherAnswer
    <3>4. \A c \in Nat : c + forwarded <= hits => c + forwarded' <= hits'
      BY <1>3, <3>3
    <3> QED
      BY <2>3, <2>4, <2>5, <2>6, <3>2, <3>4
  <2> QED
    BY <1>2, <2>7, <2>8
<1> QED
  BY <1>1, <1>6, <1>7, <1>9 DEF WindowInv

\* Who else hits the upstream only moves its counter on.
LEMMA WindowAtWorldSteps ==
  ASSUME IInv, WindowInv, WorldStep
  PROVE  WindowInv'
<1>1. /\ UNCHANGED <<phase, steps, observations, attempts, forwarded>> /\ Judging' = Judging
      /\ phase = "steps"
  BY DEF WorldStep, StrayCall, LateForward, Stray, Restart, vars, execVars, planVars, campaignVars,
         Judging, PlanNumber
<1>2. hits \in Nat /\ forwarded \in Nat /\ restarts \in Nat
  BY CountsTyped DEF WindowInv
<1>3. WorldTyped'
  <2>1. late \in Nat /\ late > 0 => late - 1 \in Nat
    OBVIOUS
  <2> QED
    BY <2>1 DEF WorldStep, StrayCall, LateForward, Stray, Restart, WindowInv, WorldTyped
<1>4. CASE StrayCall \/ LateForward
  <2>1. hits' = hits + 1 /\ UNCHANGED restarts
    BY <1>4 DEF StrayCall, LateForward, Stray
  <2>2. \A c \in Nat : c + forwarded <= hits => c + forwarded <= hits'
    BY <1>2, <2>1
  <2>3. \A i \in CounterPlaces(observations) : CounterAt(observations, i) \in Nat
    BY DEF WindowInv, Evidenced, CounterPlaces, PlacesOf, CounterAt
  <2>4. WindowOpen' = WindowOpen
    BY <1>1, <2>1 DEF WindowOpen
  <2> QED
    BY <1>1, <1>3, <2>2, <2>3, <2>4 DEF WindowInv
<1>5. CASE Restart
  <2>1. restarts' # 0
    BY <1>2, <1>5 DEF Restart
  <2> QED
    BY <1>1, <1>3, <2>1 DEF WindowInv, WindowOpen
<1> QED
  BY <1>4, <1>5 DEF WorldStep

\* upstream_zero passes only if nothing was passed on within the window.
LEMMA ZeroMeansNone ==
  ASSUME IInv, StepsUnderWay, WindowInv, WindowOpen,
         O!UpstreamEffect(observations).verdict = "PASS"
  PROVE  forwarded = 0
<1> DEFINE counters == O!CountersRead(observations)
           places == CounterPlaces(observations)
<1>1. observations \in Seq(Observation) /\ forwarded \in Nat
  BY CountsTyped DEF WindowInv
<1>2. PICK V, at : counters \in Seq(V) /\ Sampled(counters, places, observations, "counter", at)
  BY <1>1, CountersAre
<1>3. \A v, print : O!Result(v, print).verdict = v
  BY DEF O!Result
<1>4. ~(Len(counters) < 2) /\ O!Last(counters) - Head(counters) = 0
  BY <1>3 DEF O!UpstreamEffect, O!Undecided
<1> DEFINE m == Len(counters)
<1>5. m \in Nat /\ m >= 2 /\ Head(counters) = counters[1] /\ O!Last(counters) = counters[m]
  BY <1>2, <1>4 DEF O!Last
<1> HIDE DEF counters
<1>6. ASSUME NEW i \in 1..m
      PROVE  /\ at[i] \in places /\ counters[i] = CounterAt(observations, at[i])
             /\ counters[i] \in Nat
  <2>1. at[i] \in places /\ counters[i] = CounterAt(observations, at[i])
    BY <1>2 DEF Sampled, CounterAt
  <2>2. CounterAt(observations, at[i]) \in Nat
    BY <2>1 DEF CounterPlaces, PlacesOf, WindowInv, Evidenced, CounterAt
  <2> QED
    BY <2>1, <2>2
<1>7. 1 \in 1..m /\ m \in 1..m /\ 1 < m
  BY <1>5
<1> HIDE DEF m
<1>8. at[1] < at[m] /\ counters[1] = counters[m]
  <2>1. at[1] < at[m]
    BY <1>2, <1>7 DEF Sampled, m
  <2>2. counters[m] - counters[1] = 0
    BY <1>4, <1>5
  <2> QED
    BY <1>6, <1>7, <2>1, <2>2
<1>9. places \subseteq {1, Len(steps)} /\ Len(steps) \in Nat /\ Len(steps) > 1
  <2>1. Running
    BY DEF WindowOpen, Running, Phases
  <2> QED
    BY <2>1, StepsTyped DEF WindowInv, WindowOpen, Bracketed, Judging
<1>10. at[1] = 1 /\ at[m] = Len(steps)
  <2>1. at[1] \in {1, Len(steps)} /\ at[m] \in {1, Len(steps)}
    BY <1>6, <1>7, <1>9
  <2> QED
    BY <1>8, <1>9, <2>1
<1>11. CounterAt(observations, 1) + forwarded <= CounterAt(observations, Len(steps))
  BY <1>6, <1>7, <1>10 DEF WindowInv
<1>12. CounterAt(observations, 1) = CounterAt(observations, Len(steps))
       /\ CounterAt(observations, 1) \in Nat
  BY <1>6, <1>7, <1>8, <1>10
<1> QED
  BY <1>1, <1>11, <1>12

LEMMA WindowAtHarnessSteps ==
  ASSUME RegisteredAnswers, IInv, StepsUnderWay, WindowInv, HarnessStep
  PROVE  WindowInv'
<1>0. observations \in Seq(Observation) /\ attempts \in Nat
  BY CountsTyped DEF WindowInv
<1>1. /\ WorldTyped' /\ UNCHANGED hits
      /\ phase # "idle" => UNCHANGED <<forwarded, restarts>>
      /\ phase = "idle" => forwarded' = 0
  BY DEF HarnessStep, WindowInv, WorldTyped
<1>2. CASE JudgeFirst
  <2>1. /\ phase = "returned" /\ Running /\ phase' \in {"confirm", "decided"} /\ attempts = 0
        /\ UNCHANGED observations /\ Judging' = Judging /\ OraclesOf' = OraclesOf
    BY <1>2 DEF JudgeFirst, Attempted, Running, Phases, campaignVars, Judging, OraclesOf, PlanNumber
  <2>2. PICK results \in Evaluations : all_results' = Append(all_results, results)
    BY <1>2 DEF JudgeFirst, Attempted
  <2>3. all_results'[1] = results
    <3>1. all_results \in Seq(Results) /\ Len(all_results) = 0 /\ results \in Results
      BY <1>2, <2>1, AttemptedTyped, EvaluationsTyped DEF IInv, TypeOK, CountersAgree, PlanBound,
                                                          Running
    <3> QED
      BY <2>2, <3>1
  <2>4. ASSUME restarts = 0, Bracketed(Judging), "upstream_zero" \in OraclesOf,
               BaseVerdict(results) = "PASS"
        PROVE  forwarded = 0
    <3>1. O!Evaluate("upstream_zero", Judging.metadata, observations).verdict = "PASS"
      BY <2>1, <2>4, PassAnswered
    <3>2. O!UpstreamEffect(observations).verdict = "PASS"
      BY <3>1 DEF O!Evaluate
    <3>3. WindowOpen
      BY <2>1, <2>4 DEF WindowOpen
    <3> QED
      BY <3>2, <3>3, ZeroMeansNone
  <2>5. UNCHANGED <<forwarded, restarts>>
    BY <1>1, <2>1
  <2> QED
    BY <1>1, <2>1, <2>3, <2>4, <2>5 DEF WindowInv, WindowOpen
<1>3. CASE BindPlan
  <2>1. phase' = "bound" /\ UNCHANGED observations /\ forwarded' = 0
    BY <1>1, <1>3 DEF BindPlan
  <2> QED
    BY <1>1, <2>1 DEF WindowInv, WindowOpen
<1>4. CASE StartCampaign \/ FinishCampaign \/ MissingOracle \/ PlanRejected \/ ReturnBase
           \/ Conclude \/ JudgeRepeat
  <2>1. /\ phase' \notin {"steps", "returned", "bound", "gate", "decided"}
        /\ UNCHANGED observations
    BY <1>4 DEF StartCampaign, FinishCampaign, MissingOracle, PlanRejected, ReturnBase, Conclude,
                ReturnFinding, JudgeRepeat, Attempted
  <2> QED
    BY <1>1, <2>1 DEF WindowInv, WindowOpen
<1>5. CASE \/ FirstExecution \/ Repeat \/ RepeatRejected
           \/ (RefusePlan \/ RefuseStep) /\ UNCHANGED <<planVars, campaignVars>>
  <2>1. /\ phase # "idle" /\ UNCHANGED <<observations, attempts>>
        /\ phase' \notin {"steps", "returned", "bound", "decided"}
        /\ phase' = "gate" => phase = "bound" \/ attempts > 0
    BY <1>5 DEF FirstExecution, Repeat, RepeatRejected, RefusePlan, RefuseStep, planVars,
                IInv, LoopPosition
  <2>2. phase' = "gate" /\ attempts' = 0 => forwarded' = 0
    BY <1>0, <1>1, <2>1 DEF WindowInv
  <2> QED
    BY <1>1, <2>1, <2>2 DEF WindowInv, WindowOpen
<1>6. CASE OpenSession /\ UNCHANGED <<planVars, campaignVars>>
  <2>1. /\ phase = "gate" /\ phase' = "steps" /\ observations' = <<>> /\ UNCHANGED attempts
    BY <1>6 DEF OpenSession, planVars
  <2>2. DOMAIN <<>> = {}
    OBVIOUS
  <2>3. Evidenced(<<>>) /\ CounterPlaces(<<>>) = {}
    BY <2>2 DEF Evidenced, CounterPlaces, PlacesOf
  <2>4. attempts = 0 => forwarded' = 0
    BY <1>1, <2>1 DEF WindowInv
  <2> QED
    BY <1>1, <2>1, <2>3, <2>4 DEF WindowInv, WindowOpen
<1>7. CASE ExhaustBudget /\ UNCHANGED <<planVars, campaignVars>>
  <2>1. /\ phase = "steps" /\ observations' = Append(observations, Budget) /\ phase' = "returned"
        /\ UNCHANGED <<attempts, steps>> /\ Judging' = Judging
        /\ UNCHANGED <<forwarded, restarts, hits>>
    BY <1>1, <1>7 DEF ExhaustBudget, planVars, campaignVars, Judging, PlanNumber
  <2>2. DOMAIN Budget.evidence = {}
    BY DEF RegisteredAnswers, Response
  <2>3. Evidenced(observations')
    BY <1>0, <2>1, <2>2, EvidencedAppend DEF WindowInv
  <2>4. ~Measures(Budget)
    BY <2>2 DEF Measures
  <2>5. /\ CounterPlaces(observations') = CounterPlaces(observations)
        /\ \A i \in CounterPlaces(observations) :
             CounterAt(observations', i) = CounterAt(observations, i)
    BY <1>0, <2>1, <2>4, CountersAppend
  <2>6. observations' # <<>>
    BY <1>0, <2>1
  <2>7. WindowOpen' => WindowOpen
    BY <2>1 DEF WindowOpen
  <2> QED
    BY <1>1, <2>1, <2>3, <2>5, <2>6, <2>7 DEF WindowInv
<1>8. CASE SessionExpires /\ UNCHANGED <<planVars, campaignVars>>
  <2>1. /\ phase = "steps" /\ UNCHANGED <<phase, steps, observations, attempts>>
        /\ Judging' = Judging /\ UNCHANGED <<forwarded, restarts, hits>>
    BY <1>1, <1>8 DEF SessionExpires, planVars, campaignVars, Judging, PlanNumber
  <2> QED
    BY <1>1, <2>1 DEF WindowInv, WindowOpen
<1> QED
  BY <1>2, <1>3, <1>4, <1>5, <1>6, <1>7, <1>8 DEF HarnessStep

\* PassMeansDenied: the PASS of a plan between two readings of the counter proves
\* that no call of it was passed on.
THEOREM PassProvesDenial ==
  ASSUME RegisteredAnswers
  PROVE  ProbeSpec => PassMeansDenied
<1>1. ProbeInit => WindowInv
  <2> SUFFICES ASSUME ProbeInit PROVE WindowInv
    OBVIOUS
  <2>1. WorldTyped /\ phase = "start" /\ observations = <<>>
    BY DEF ProbeInit, Init, WorldInit, WorldTyped
  <2>2. DOMAIN <<>> = {}
    OBVIOUS
  <2>3. Evidenced(observations)
    BY <2>1, <2>2 DEF Evidenced
  <2> QED
    BY <2>1, <2>3 DEF WindowInv, WindowOpen
<1>2. ASSUME IInv, StepsUnderWay, WindowInv, [ProbeNext]_probeVars
      PROVE  WindowInv'
  <2>1. CASE ProbeTerminated \/ UNCHANGED probeVars
    <3>1. UNCHANGED <<hits, late, forwarded, defects, strays, restarts, phase, observations,
                      attempts, all_results, steps, plans, findings>>
      BY <2>1 DEF ProbeTerminated, Terminated, probeVars, vars, world, execVars, planVars,
                  campaignVars
    <3> QED
      BY <1>2, <3>1 DEF WindowInv, WindowOpen, WorldTyped, Judging, OraclesOf, PlanNumber
  <2> QED
    BY <1>2, <2>1, WindowAtHarnessSteps, WindowAtCalls, WindowAtWorldSteps DEF ProbeNext
<1>3. ASSUME IInv, WindowInv, [ProbeNext]_probeVars, Concluded, NewFinding.verdict = "PASS",
             "upstream_zero" \in Judging.oracle_ids, Bracketed(Judging), restarts = 0
      PROVE  forwarded = 0
  <2>1. phase = "decided" /\ BaseVerdict(all_results[1]) = "PASS"
    BY <1>3, ProbeStepIsStep, ConcludedAs
  <2> QED
    BY <1>3, <2>1 DEF WindowInv, Judging, OraclesOf
<1>4. IInv /\ WindowInv /\ [ProbeNext]_probeVars =>
        [(/\ Concluded
          /\ NewFinding.verdict = "PASS"
          /\ "upstream_zero" \in Judging.oracle_ids
          /\ Bracketed(Judging)
          /\ restarts = 0)
         => forwarded = 0]_probeVars
  BY <1>3
<1> QED
  BY <1>1, <1>2, <1>4, ProbeInvariance, PTL DEF ProbeSpec, PassMeansDenied

----------------------------------------------------------------------------
(* Silence is not a pass.                                                  *)

\* What is observed of a step, by its tool; a budget observes nothing.
ObservationOf(step, o) ==
  /\ o # Budget => o.tool = step.tool
  /\ Measures(o) => step.tool = "upstream_counter" /\ o.status # O!NoStatus
  /\ "reachable" \in DOMAIN o.evidence => step.tool = "tcp_probe"

ObservedInv ==
  /\ WorldTyped
  /\ phase \in {"steps", "returned"} =>
       \A i \in DOMAIN observations :
         i \in DOMAIN steps /\ ObservationOf(steps[i], observations[i])
  /\ phase = "decided" /\ OneAnswer(Judging) /\ BaseVerdict(all_results[1]) = "PASS" =>
       FullyObserved

\* An expected status was seen at least once.
LEMMA StatusSeen ==
  ASSUME NEW S, NEW obs \in Seq(S), NEW metadata,
         O!HttpStatus(metadata, obs).verdict = "PASS"
  PROVE  \E i \in DOMAIN obs :
           obs[i].status # O!NoStatus /\ (metadata.tools = {} \/ obs[i].tool \in metadata.tools)
<1> DEFINE counted == {i \in DOMAIN obs :
                         /\ obs[i].status # O!NoStatus
                         /\ metadata.tools = {} \/ obs[i].tool \in metadata.tools}
           answered == Selection(obs, counted)
           seen == [i \in DOMAIN answered |-> answered[i].status]
<1>1. O!StatusesSeen(metadata, obs) = seen
  BY SameSelection DEF O!StatusesSeen
<1>2. counted \in SUBSET (1..Len(obs))
  OBVIOUS
<1>3. answered \in Seq(S) /\ \E at : Places(obs, counted, answered, at)
  BY <1>2, SelectionPlaces
<1>4. PICK at : Places(obs, counted, answered, at)
  BY <1>3
<1>5. Len(answered) \in Nat /\ DOMAIN answered = 1..Len(answered)
  BY <1>3
<1> HIDE DEF answered
<1>6. Len(answered) = 0 => seen = <<>>
  BY <1>5
<1> HIDE DEF seen
<1>7. \A v, print : O!Result(v, print).verdict = v
  BY DEF O!Result
<1>8. seen # <<>>
  BY <1>1, <1>7 DEF O!HttpStatus, O!Undecided
<1>9. 1 \in 1..Len(answered)
  BY <1>5, <1>6, <1>8
<1>10. at[1] \in counted
  BY <1>4, <1>9 DEF Places
<1> QED
  BY <1>10

\* Two readings of the counter were made.
LEMMA CounterSeen ==
  ASSUME NEW S, NEW obs \in Seq(S), O!UpstreamEffect(obs).verdict = "PASS"
  PROVE  \E i, j \in CounterPlaces(obs) : i < j
<1> DEFINE counters == O!CountersRead(obs)
<1>1. PICK V, at : counters \in Seq(V) /\ Sampled(counters, CounterPlaces(obs), obs, "counter", at)
  BY CountersAre
<1>2. ~(Len(counters) < 2)
  BY DEF O!UpstreamEffect, O!Undecided, O!Result
<1> HIDE DEF counters
<1>3. 1 \in 1..Len(counters) /\ 2 \in 1..Len(counters)
  <2>1. Len(counters) \in Nat
    BY <1>1
  <2> QED
    BY <1>2, <2>1
<1>4. at[1] \in CounterPlaces(obs) /\ at[2] \in CounterPlaces(obs) /\ at[1] < at[2]
  BY <1>1, <1>3 DEF Sampled
<1> QED
  BY <1>4

\* A connection was tried.
LEMMA ProbeSeen ==
  ASSUME NEW S, NEW obs \in Seq(S), O!Reachability(obs).verdict = "PASS"
  PROVE  \E i \in DOMAIN obs : "reachable" \in DOMAIN obs[i].evidence
<1> DEFINE probes == O!ValuesOf("reachable", obs)
<1>1. PICK V, at : probes \in Seq(V)
                   /\ Sampled(probes, PlacesOf("reachable", obs), obs, "reachable", at)
  BY ValuesAre
<1>2. probes # <<>>
  BY DEF O!Reachability, O!Undecided, O!Result
<1> HIDE DEF probes
<1>3. 1 \in 1..Len(probes)
  BY <1>1, <1>2
<1>4. at[1] \in PlacesOf("reachable", obs)
  BY <1>1, <1>3 DEF Sampled
<1> QED
  BY <1>4 DEF PlacesOf

\* If all of its oracles pass a plan that is measured, every step was answered.
LEMMA PassIsObserved ==
  ASSUME RegisteredAnswers, StepsMeasured, IInv, StepsUnderWay, ObservedInv,
         phase = "returned", OneAnswer(Judging),
         \A o \in OraclesOf :
           O!Evaluate(o, Judging.metadata, observations).verdict = "PASS"
  PROVE  FullyObserved
<1>1. /\ steps = Judging.steps /\ Judging \in Plans
      /\ Len(steps) \in Nat /\ DOMAIN steps = 1..Len(steps)
      /\ observations \in Seq(Observation)
  <2>1. Running
    BY DEF Running, Phases
  <2> QED
    BY <2>1, StepsTyped DEF Judging, IInv, TypeOK
<1>2. \A i \in DOMAIN observations :
        i \in DOMAIN steps /\ ObservationOf(steps[i], observations[i])
  BY DEF ObservedInv
<1>3. /\ Budget.status = O!NoStatus /\ DOMAIN Budget.evidence = {}
  BY DEF RegisteredAnswers, Response
<1>4. ASSUME NEW i \in DOMAIN steps
      PROVE  /\ i \in DOMAIN observations /\ observations[i] # Budget
             /\ observations[i].tool = "tcp_probe" \/ observations[i].status # O!NoStatus
  <2>1. \/ StatusMeasures(Judging, i) \/ CounterMeasures(Judging, i) \/ ProbeMeasures(Judging, i)
    BY <1>1 DEF StepsMeasured
  <2>2. CASE StatusMeasures(Judging, i)
    <3>1. O!HttpStatus(Judging.metadata, observations).verdict = "PASS"
      BY <2>2 DEF StatusMeasures, OraclesOf, Judging, O!Evaluate
    <3>2. PICK k \in DOMAIN observations :
            /\ observations[k].status # O!NoStatus
            /\ Judging.metadata.tools = {} \/ observations[k].tool \in Judging.metadata.tools
      BY <1>1, <3>1, StatusSeen
    <3>3. observations[k] # Budget /\ observations[k].tool = steps[k].tool /\ k \in DOMAIN steps
      BY <1>2, <1>3, <3>2 DEF ObservationOf
    <3>4. k = i
      BY <1>1, <2>2, <3>2, <3>3 DEF StatusMeasures, StatusJudges
    <3> QED
      BY <3>2, <3>3, <3>4
  <2>3. CASE CounterMeasures(Judging, i)
    <3>1. O!UpstreamEffect(observations).verdict = "PASS"
      BY <2>3 DEF CounterMeasures, OraclesOf, Judging, O!Evaluate
    <3>2. PICK a \in CounterPlaces(observations), b \in CounterPlaces(observations) : a < b
      BY <1>1, <3>1, CounterSeen
    <3>3. ASSUME NEW k \in CounterPlaces(observations)
          PROVE  /\ k \in DOMAIN observations /\ k \in DOMAIN steps
                 /\ steps[k].tool = "upstream_counter"
                 /\ observations[k] # Budget /\ observations[k].status # O!NoStatus
      <4>1. k \in DOMAIN observations /\ Measures(observations[k])
        BY DEF CounterPlaces, PlacesOf, Measures
      <4> QED
        BY <1>2, <1>3, <4>1 DEF ObservationOf, Measures
    <3>4. PICK j \in DOMAIN steps :
            \A k \in DOMAIN steps : steps[k].tool = "upstream_counter" => k \in {i, j}
      BY <1>1, <2>3 DEF CounterMeasures
    <3>5. a \in {i, j} /\ b \in {i, j} /\ a # b
      <4>1. a \in 1..Len(steps) /\ b \in 1..Len(steps)
        BY <1>1, <3>3
      <4>2. a # b
        BY <3>2, <4>1
      <4> QED
        BY <3>3, <3>4, <4>2
    <3>6. i \in CounterPlaces(observations)
      BY <3>5
    <3> QED
      BY <3>3, <3>6
  <2>4. CASE ProbeMeasures(Judging, i)
    <3>1. O!Reachability(observations).verdict = "PASS"
      BY <2>4 DEF ProbeMeasures, OraclesOf, Judging, O!Evaluate
    <3>2. PICK k \in DOMAIN observations : "reachable" \in DOMAIN observations[k].evidence
      BY <1>1, <3>1, ProbeSeen
    <3>3. /\ observations[k] # Budget /\ k \in DOMAIN steps
          /\ steps[k].tool = "tcp_probe" /\ observations[k].tool = "tcp_probe"
      BY <1>2, <1>3, <3>2 DEF ObservationOf
    <3>4. k = i
      BY <1>1, <2>4, <3>3 DEF ProbeMeasures
    <3> QED
      BY <3>2, <3>3, <3>4
  <2> QED
    BY <2>1, <2>2, <2>3, <2>4
<1>5. DOMAIN observations = DOMAIN steps
  BY <1>2, <1>4
<1>6. Len(observations) = Len(steps)
  <2>1. Len(observations) \in Nat /\ 1..Len(observations) = 1..Len(steps)
    BY <1>1, <1>5
  <2>2. \A m, n \in Nat : 1..m = 1..n => m = n
    OBVIOUS
  <2> QED
    BY <1>1, <2>1, <2>2
<1> QED
  BY <1>4, <1>5, <1>6 DEF FullyObserved

\* An observation more keeps its place.
LEMMA ObservedAppend ==
  ASSUME ObservedInv, IInv, phase = "steps", Len(observations) < Len(steps), Len(steps) \in Nat,
         DOMAIN steps = 1..Len(steps),
         NEW r, observations' = Append(observations, r),
         ObservationOf(steps[Len(observations) + 1], r)
  PROVE  \A i \in DOMAIN observations' :
           i \in DOMAIN steps /\ ObservationOf(steps[i], observations'[i])
<1> DEFINE n == Len(observations) + 1
<1>1. observations \in Seq(Observation \cup {r}) /\ r \in Observation \cup {r}
  BY DEF IInv, TypeOK
<1>2. /\ Len(observations) \in Nat /\ DOMAIN observations = 1..Len(observations)
      /\ DOMAIN observations' = 1..n /\ observations'[n] = r
      /\ \A i \in 1..Len(observations) : observations'[i] = observations[i]
  BY <1>1
<1>3. \A i \in 1..n : i \in 1..Len(observations) \/ i = n
  BY <1>2
<1>4. n \in DOMAIN steps
  BY <1>2
<1> HIDE DEF n
<1>5. \A i \in 1..Len(observations) :
        i \in DOMAIN steps /\ ObservationOf(steps[i], observations[i])
  BY <1>2 DEF ObservedInv
<1> QED
  BY <1>2, <1>3, <1>4, <1>5 DEF n

LEMMA ObservedAtCalls ==
  ASSUME RegisteredAnswers, IInv, StepsUnderWay, ObservedInv, AdapterCall
  PROVE  ObservedInv'
<1>1. /\ phase = "steps" /\ Running /\ phase' \in {"steps", "returned"} /\ UNCHANGED steps
  BY AdapterCallObserves DEF AdapterCall, Observe, Running, Phases
<1>2. PICK r : /\ observations' = Append(observations, r) /\ r.tool = Current.tool
               /\ CounterReading(r) \/ OtherAnswer(r)
  BY AnswersOfTheWorld
<1>3. /\ hits \in Nat /\ forwarded \in Nat /\ defects \in Nat /\ strays \in Nat
      /\ restarts \in Nat /\ late \in Nat
  BY DEF ObservedInv, WorldTyped
<1>4. WorldTyped'
  BY <1>2, <1>3 DEF CounterReading, OtherAnswer, world, WorldTyped
<1>5. Len(steps) \in Nat /\ DOMAIN steps = 1..Len(steps) /\ Len(observations) < Len(steps)
  BY <1>1, StepsTyped DEF StepsUnderWay
<1>6. ObservationOf(steps[Len(observations) + 1], r)
  BY <1>2 DEF ObservationOf, Current, CounterReading, OtherAnswer, Measures
<1> QED
  BY <1>1, <1>2, <1>4, <1>5, <1>6, ObservedAppend DEF ObservedInv

LEMMA ObservedAtOtherSteps ==
  ASSUME RegisteredAnswers, StepsMeasured, IInv, StepsUnderWay, ObservedInv,
         HarnessStep \/ WorldStep
  PROVE  ObservedInv'
<1>1. WorldTyped'
  <2>1. late \in Nat /\ late > 0 => late - 1 \in Nat
    OBVIOUS
  <2> QED
    BY <2>1 DEF HarnessStep, WorldStep, StrayCall, LateForward, Stray, Restart, ObservedInv,
                WorldTyped
<1>2. CASE JudgeFirst
  <2>1. /\ phase = "returned" /\ Running /\ phase' \in {"confirm", "decided"} /\ attempts = 0
        /\ UNCHANGED <<observations, steps>> /\ Judging' = Judging
    BY <1>2 DEF JudgeFirst, Attempted, Running, Phases, campaignVars, Judging, PlanNumber
  <2>2. PICK results \in Evaluations : all_results' = Append(all_results, results)
    BY <1>2 DEF JudgeFirst, Attempted
  <2>3. all_results'[1] = results
    <3>1. all_results \in Seq(Results) /\ Len(all_results) = 0 /\ results \in Results
      BY <1>2, <2>1, EvaluationsTyped DEF IInv, TypeOK, CountersAgree, PlanBound, Running
    <3> QED
      BY <2>2, <3>1
  <2>4. ASSUME OneAnswer(Judging), BaseVerdict(results) = "PASS"
        PROVE  FullyObserved
    <3>1. \A o \in OraclesOf :
            O!Evaluate(o, Judging.metadata, observations).verdict = "PASS"
      BY <2>1, <2>4, PassAnswered
    <3> QED
      BY <2>1, <2>4, <3>1, PassIsObserved
  <2>5. FullyObserved' = FullyObserved
    BY <2>1 DEF FullyObserved
  <2> QED
    BY <1>1, <2>1, <2>3, <2>4, <2>5 DEF ObservedInv
<1>3. CASE \/ BindPlan \/ StartCampaign \/ FinishCampaign \/ MissingOracle \/ PlanRejected
           \/ ReturnBase \/ Conclude \/ JudgeRepeat \/ FirstExecution \/ Repeat \/ RepeatRejected
           \/ (RefusePlan \/ RefuseStep) /\ UNCHANGED <<planVars, campaignVars>>
  <2>1. phase' \notin {"steps", "returned", "decided"}
    BY <1>3 DEF BindPlan, StartCampaign, FinishCampaign, MissingOracle, PlanRejected, ReturnBase,
                Conclude, ReturnFinding, JudgeRepeat, FirstExecution, Repeat, RepeatRejected,
                RefusePlan, RefuseStep
  <2> QED
    BY <1>1, <2>1 DEF ObservedInv
<1>4. CASE OpenSession /\ UNCHANGED <<planVars, campaignVars>>
  <2>1. phase' = "steps" /\ observations' = <<>>
    BY <1>4 DEF OpenSession
  <2>2. DOMAIN <<>> = {}
    OBVIOUS
  <2> QED
    BY <1>1, <2>1, <2>2 DEF ObservedInv
<1>5. CASE ExhaustBudget /\ UNCHANGED <<planVars, campaignVars>>
  <2>1. /\ Running /\ phase = "steps" /\ observations' = Append(observations, Budget)
        /\ phase' = "returned" /\ UNCHANGED steps
    BY <1>5 DEF ExhaustBudget, Running, Phases
  <2>2. DOMAIN Budget.evidence = {}
    BY DEF RegisteredAnswers, Response
  <2>3. \A step : ObservationOf(step, Budget)
    BY <2>2 DEF ObservationOf, Measures
  <2>4. Len(steps) \in Nat /\ DOMAIN steps = 1..Len(steps) /\ Len(observations) < Len(steps)
    BY <2>1, StepsTyped DEF StepsUnderWay
  <2> QED
    BY <1>1, <2>1, <2>3, <2>4, ObservedAppend DEF ObservedInv
<1>6. CASE WorldStep \/ (SessionExpires /\ UNCHANGED <<planVars, campaignVars>>)
  <2>1. phase = "steps" /\ UNCHANGED <<phase, steps, observations>>
    BY <1>6 DEF WorldStep, SessionExpires, vars, execVars
  <2> QED
    BY <1>1, <2>1 DEF ObservedInv
<1> QED
  BY <1>2, <1>3, <1>4, <1>5, <1>6 DEF HarnessStep

\* CuratedSilenceIsNotPass: no timeout, no step that was never run and no missing
\* measurement passes, in a plan every step of which an oracle measures.
THEOREM CuratedSilenceProved ==
  ASSUME RegisteredAnswers, StepsMeasured
  PROVE  ProbeSpec => CuratedSilenceIsNotPass
<1>1. ProbeInit => ObservedInv
  BY DEF ProbeInit, Init, WorldInit, ObservedInv, WorldTyped
<1>2. ASSUME IInv, StepsUnderWay, ObservedInv, [ProbeNext]_probeVars
      PROVE  ObservedInv'
  <2>1. CASE ProbeTerminated \/ UNCHANGED probeVars
    <3>1. UNCHANGED <<hits, late, forwarded, defects, strays, restarts, phase, observations,
                      all_results, steps, plans, findings>>
      BY <2>1 DEF ProbeTerminated, Terminated, probeVars, vars, world, execVars, planVars,
                  campaignVars
    <3> QED
      BY <1>2, <3>1 DEF ObservedInv, WorldTyped, Judging, PlanNumber, FullyObserved
  <2> QED
    BY <1>2, <2>1, ObservedAtCalls, ObservedAtOtherSteps DEF ProbeNext
<1>3. ASSUME IInv, ObservedInv, [ProbeNext]_probeVars, Concluded, NewFinding.verdict = "PASS",
             OneAnswer(Judging)
      PROVE  FullyObserved
  <2>1. phase = "decided" /\ BaseVerdict(all_results[1]) = "PASS"
    BY <1>3, ProbeStepIsStep, ConcludedAs
  <2> QED
    BY <1>3, <2>1 DEF ObservedInv
<1>4. IInv /\ ObservedInv /\ [ProbeNext]_probeVars =>
        [Concluded /\ NewFinding.verdict = "PASS" /\ OneAnswer(Judging)
           => FullyObserved]_probeVars
  BY <1>3
<1> QED
  BY <1>1, <1>2, <1>4, ProbeInvariance, PTL DEF ProbeSpec, CuratedSilenceIsNotPass
=============================================================================
