------------------------------- MODULE Probe -------------------------------
(***************************************************************************)
(* The coordinator with the registered oracles and adapters, against the   *)
(* world that plans probe: a gateway that should deny the calls of a plan, *)
(* a service that answers HTTP requests, a TCP listener, and a synthetic   *)
(* upstream that counts the calls that reach it and may be restarted, or   *)
(* be called by somebody else.                                             *)
(*                                                                         *)
(* The world adds no behaviour to the coordinator: an adapter call is an   *)
(* Observe step of the executor whose observation is what the world        *)
(* answers.  Every adapter catches what its connection can raise, so none  *)
(* of them takes the executor's AdapterRaises.                             *)
(***************************************************************************)
EXTENDS Coordinator, Integers

CONSTANTS
  Gateway,      \* what the gateway may do with a call
  Service,      \* what the service may answer a request
  MaxHits,      \* bound: hits of the upstream
  MaxStrays,    \* bound: calls of others, and of this client after a timeout, in a plan
  MaxRestarts   \* bound: restarts of the upstream during a plan

ASSUME WorldAssumption ==
  /\ Gateway \subseteq {"deny", "leak", "allow", "accept", "challenge", "late", "lost"}
  /\ Service \subseteq {"refuse", "serve", "break", "expose", "lost"}
  /\ {MaxHits, MaxStrays, MaxRestarts} \subseteq Nat

VARIABLES
  hits,        \* the counter of the synthetic upstream
  late,        \* calls the gateway has yet to forward, although they timed out
  forwarded,   \* calls of the current plan that the gateway passed on
  defects,     \* requests of the current plan not refused as they should be
  strays,      \* hits since the plan was bound that no call of the moment explains
  restarts     \* restarts of the upstream since the plan was bound

world == <<hits, late, forwarded, defects, strays, restarts>>
probeVars == <<vars, world>>

O == INSTANCE Oracles WITH Nothing <- NoFingerprint

Response(t, s, b, e) == [tool |-> t, status |-> s, body |-> b, evidence |-> e]

ToolsOf(plan) == {plan.steps[i].tool : i \in DOMAIN plan.steps}

\* bind_trusted_oracle_contract: the agents keep the steps they chose, and are
\* judged by what their seed is judged by, or diagnostically without one.
BoundTo(seed, candidate) ==
  [candidate EXCEPT !.oracle_ids = seed.oracle_ids, !.metadata = seed.metadata]

BoundWithoutSeed(candidate) ==
  [candidate EXCEPT !.oracle_ids = O!DiagnosticOracles(ToolsOf(candidate)),
                    !.metadata = O!DiagnosticMetadata(ToolsOf(candidate))]

\* The registered oracles give one answer each.
ProbeAnswers(o, plan, obs) == {O!Evaluate(o, plan.metadata, obs)}

\* An earlier plan may have left a call to be forwarded.
WorldInit ==
  hits = 0 /\ late \in 0..1 /\ forwarded = 0 /\ defects = 0 /\ strays = 0 /\ restarts = 0

----------------------------------------------------------------------------
(* Adapter calls.                                                          *)

Answered(s, b, e) ==
  /\ Observe
  /\ observations' = Append(observations, Response(Current.tool, s, b, e))
  /\ UNCHANGED <<planVars, campaignVars>>

TimedOut == Answered(O!NoStatus, "none", <<>>)

\* The upstream answers with its counter, with something else, or not in time.
ReadCounter ==
  /\ Current.tool = "upstream_counter"
  /\ \/ Answered(200, "clean", [counter |-> hits])
     \/ Answered(200, "clean", [counter |-> O!NoCounter])
     \/ Answered(O!NoStatus, "none", [counter |-> O!NoCounter])
  /\ UNCHANGED world

\* What the gateway may do: refuse the call, refuse it but pass it on, accept it
\* with or without passing it on, ask for authentication, or not answer in time,
\* and pass the call on later or never.
Call ==
  /\ Current.tool = "mcp_call"
  /\ \E does \in Gateway :
       LET passes  == does \in {"leak", "allow"}
           accepts == does \in {"allow", "accept"}
       IN
       /\ hits < MaxHits
       /\ CASE does \in {"deny", "leak"}    -> Answered(403, "clean", <<>>)
            [] does \in {"allow", "accept"} -> Answered(200, "clean", <<>>)
            [] does = "challenge"           -> Answered(401, "clean", <<>>)
            [] does \in {"late", "lost"}    -> TimedOut
       /\ hits' = IF passes THEN hits + 1 ELSE hits
       /\ forwarded' = IF passes THEN forwarded + 1 ELSE forwarded
       /\ defects' = IF passes \/ accepts THEN defects + 1 ELSE defects
       /\ late' = IF does = "late" THEN late + 1 ELSE late
  /\ UNCHANGED <<strays, restarts>>

\* The service refuses the request or serves it, breaks, exposes a canary, or
\* does not answer in time.
Request ==
  /\ Current.tool = "http_request"
  /\ \E does \in Service :
       /\ CASE does = "refuse" -> Answered(403, "clean", <<>>)
            [] does = "serve"  -> Answered(200, "clean", <<>>)
            [] does = "break"  -> Answered(500, "clean", <<>>)
            [] does = "expose" -> Answered(403, "canary", <<>>)
            [] does = "lost"   -> TimedOut
       /\ defects' = IF does \in {"serve", "break", "expose"} THEN defects + 1 ELSE defects
  /\ UNCHANGED <<hits, late, forwarded, strays, restarts>>

\* The listener accepts a connection, or does not.
Connect ==
  /\ Current.tool = "tcp_probe"
  /\ \E up \in BOOLEAN : Answered(O!NoStatus, "none", [reachable |-> up])
  /\ UNCHANGED world

AdapterCall == phase = "steps" /\ (ReadCounter \/ Call \/ Request \/ Connect)

----------------------------------------------------------------------------
(* The upstream on its own.                                                *)

Stray ==
  /\ strays < MaxStrays
  /\ hits < MaxHits
  /\ hits' = hits + 1
  /\ strays' = strays + 1

StrayCall ==
  Stray /\ UNCHANGED <<late, forwarded, defects, restarts>>

LateForward ==
  late > 0 /\ Stray /\ late' = late - 1 /\ UNCHANGED <<forwarded, defects, restarts>>

Restart ==
  /\ restarts < MaxRestarts
  /\ restarts' = restarts + 1
  /\ hits' = 0
  /\ UNCHANGED <<late, forwarded, defects, strays>>

\* Only a plan that reads the counter can notice.
WorldStep ==
  /\ phase = "steps"
  /\ "upstream_counter" \in ToolsOf(plans[PlanNumber])
  /\ StrayCall \/ LateForward \/ Restart
  /\ UNCHANGED vars

----------------------------------------------------------------------------

\* Every step of the campaign but the answers of the adapters.
HarnessStep ==
  /\ \/ StartCampaign \/ BindPlan \/ FinishCampaign \/ MissingOracle \/ FirstExecution
     \/ PlanRejected \/ JudgeFirst \/ ReturnBase \/ Repeat \/ RepeatRejected \/ JudgeRepeat
     \/ Conclude
     \/ (RefusePlan \/ OpenSession \/ RefuseStep \/ ExhaustBudget \/ SessionExpires)
        /\ UNCHANGED <<planVars, campaignVars>>
  /\ UNCHANGED <<hits, late>>
  /\ IF phase = "idle"
     THEN forwarded' = 0 /\ defects' = 0 /\ strays' = 0 /\ restarts' = 0
     ELSE UNCHANGED <<forwarded, defects, strays, restarts>>

ProbeTerminated == Terminated /\ UNCHANGED world

\* run_once runs the plans, none of which needs an authorization.
ProbeInit == Init /\ driver = "run_once" /\ ~authorized /\ WorldInit

ProbeNext == HarnessStep \/ AdapterCall \/ WorldStep \/ ProbeTerminated

ProbeSpec == ProbeInit /\ [][ProbeNext]_probeVars

----------------------------------------------------------------------------
(* What a verdict says about the world.                                    *)

Concluded == findings' # findings
NewFinding == findings'[Len(findings')]
Judging == plans[PlanNumber]

\* The counter is read once before the calls of the plan and once after them.
Bracketed(plan) ==
  {i \in DOMAIN plan.steps : plan.steps[i].tool = "upstream_counter"}
    = {1, Len(plan.steps)}
  /\ Len(plan.steps) > 1

\* A plan between two readings passes only if no call of it got past the
\* gateway, however answers and deadlines fall and whoever else calls, as long
\* as the upstream is not restarted: the PASS of upstream_zero is a proof of the
\* denial.
PassMeansDenied ==
  [][(/\ Concluded
      /\ NewFinding.verdict = "PASS"
      /\ "upstream_zero" \in Judging.oracle_ids
      /\ Bracketed(Judging)
      /\ restarts = 0)
     => forwarded = 0]_probeVars

\* A plan is VULNERABLE only if every one of its executions met a defect of the
\* target or a stray hit of the upstream: fewer strays than confirmation_runs
\* never make a vulnerability on their own, and restarts make none at all.
VulnerableMeansDefect ==
  [][Concluded /\ NewFinding.verdict = "VULNERABLE"
       => defects + strays >= Required]_probeVars

\* Every step was run, and every one that speaks HTTP was answered.
FullyObserved ==
  /\ Len(observations) = Len(steps)
  /\ \A i \in DOMAIN observations :
       /\ observations[i] # Budget
       /\ observations[i].tool = "tcp_probe" \/ observations[i].status # O!NoStatus

\* The status of one step only is judged, as in every curated plan.
OneAnswer(plan) ==
  \A i, j \in DOMAIN plan.steps :
    {plan.steps[i].tool, plan.steps[j].tool} \subseteq plan.metadata.tools => i = j

\* A plan like the curated ones, with one answer to judge, does not pass by a
\* timeout, by a step that was never run or by a missing measurement.
CuratedSilenceIsNotPass ==
  [][Concluded /\ NewFinding.verdict = "PASS" /\ OneAnswer(Judging)
       => FullyObserved]_probeVars

\* A timeout, a step that was never run or a missing measurement does not pass.
SilenceIsNotPass ==
  [][Concluded /\ NewFinding.verdict = "PASS" => FullyObserved]_probeVars

\* Without a seed the agents can accuse nobody: the contract their plan gets is
\* a diagnostic one, whatever they chose to send and whatever comes back.
DiagnosticNeverAccuses ==
  [][Concluded /\ Judging.metadata.diagnostic
       => NewFinding.verdict \notin {"FAIL", "VULNERABLE"}]_probeVars

\* The verdict PASS of a plan that attacks means that no call of it got past the
\* gateway, also after the agents have changed its steps.
PassMeansBlocked ==
  [][(/\ Concluded
      /\ NewFinding.verdict = "PASS"
      /\ ~Judging.metadata.diagnostic
      /\ restarts = 0)
     => forwarded = 0]_probeVars

\* The status of an answer alone, with no effect on the upstream, makes no
\* vulnerability.
StatusAloneIsNotEnough ==
  [][Concluded /\ NewFinding.verdict = "VULNERABLE" => hits > 0]_probeVars

----------------------------------------------------------------------------
(* What the contracts of the catalog and of bind_trusted_oracle_contract   *)
(* have in common.                                                         *)

\* A diagnostic plan names only the oracles that _diagnostic_oracles names.
DiagnosticContracts ==
  \A plan \in Plans :
    plan.metadata.diagnostic => plan.oracle_ids \subseteq {"http_status", "reachability"}

\* A contract with statuses expects a refusal and a challenge or leaves them undecided,
\* and does not judge the upstream by the status of its own counter.
RefusalsExpected ==
  \A plan \in {p \in Plans : p.metadata.expected # {}} :
    /\ {401, 403} \subseteq plan.metadata.expected \cup plan.metadata.inconclusive
    /\ \/ plan.metadata.tools # {} /\ "upstream_counter" \notin plan.metadata.tools
       \/ "upstream_counter" \notin ToolsOf(plan)
       \/ 200 \in plan.metadata.expected \cup plan.metadata.inconclusive

\* The one step whose status is judged, one of the two readings of the counter, the
\* one connection.
StatusJudges(plan, i) ==
  plan.metadata.tools = {} \/ plan.steps[i].tool \in plan.metadata.tools

StatusMeasures(plan, i) ==
  /\ "http_status" \in plan.oracle_ids
  /\ \A j \in DOMAIN plan.steps : StatusJudges(plan, j) => j = i

CounterMeasures(plan, i) ==
  /\ "upstream_zero" \in plan.oracle_ids
  /\ \E j \in DOMAIN plan.steps : \A k \in DOMAIN plan.steps :
       plan.steps[k].tool = "upstream_counter" => k \in {i, j}

ProbeMeasures(plan, i) ==
  /\ "reachability" \in plan.oracle_ids
  /\ \A j \in DOMAIN plan.steps : plan.steps[j].tool = "tcp_probe" => j = i

\* An oracle of the plan measures every step of it.
StepsMeasured ==
  \A plan \in Plans : OneAnswer(plan) =>
    \A i \in DOMAIN plan.steps :
      StatusMeasures(plan, i) \/ CounterMeasures(plan, i) \/ ProbeMeasures(plan, i)
=============================================================================
