------------------------------- MODULE Cycle -------------------------------
(***************************************************************************)
(* The daemon: run_once over and over under the service manager, with the  *)
(* evidence ledger and the report directory it leaves behind.              *)
(*                                                                         *)
(* What a plan does is the matter of Coordinator; here run_plan returns a  *)
(* verdict or raises.  The settings are read once: a configuration error   *)
(* that makes every cycle fail alike is left out.                          *)
(***************************************************************************)
EXTENDS Verdicts, Integers, Sequences, FiniteSets

CONSTANTS
  PlanVerdicts,   \* the verdicts run_plan may return
  Fixed,          \* the plans of the profile
  PlansPerCycle,  \* campaign.plans_per_cycle, 0 when it is not agentic
  MaxPlans,       \* budgets.max_plans
  Persist,        \* campaign.persist_evidence
  MaxCycles,      \* campaign.max_cycles
  Endless,        \* its null
  StartLimit,     \* StartLimitBurst of the service unit
  MaxCampaigns    \* bound: the cycles of all the lives of the daemon

ASSUME CycleAssumption ==
  /\ PlanVerdicts \subseteq Verdict
  /\ Fixed \in Nat \ {0}
  /\ PlansPerCycle \in Nat
  /\ MaxPlans \in Nat
  /\ Fixed <= MaxPlans
  /\ Persist \in BOOLEAN
  /\ MaxCycles \in (Nat \ {0}) \cup {Endless}
  /\ Endless \notin Nat
  /\ StartLimit \in Nat \ {0}
  /\ MaxCampaigns \in Nat

VARIABLES
  unit,        \* the service: "running", "stopped", or "failed"
  starts,      \* how often the service manager has started it
  pc,          \* where the daemon is
  cycle,       \* the cycles of this life
  worst,       \* the gravest exit code of this life
  stop,        \* a signal has set the event
  variations,  \* the plans the agents added in this cycle
  harness,     \* harness_errors of this cycle is not empty
  unread,      \* the memory could not be read in this cycle
  receipts,    \* the findings of this cycle whose storing was confirmed
  unconfirmed, \* the findings of this cycle whose storing was not
  judged,      \* the verdicts run_plan returned, campaign by campaign
  ledger,      \* the events the database holds
  reports,     \* <campaign>.json
  latest       \* latest.json

processVars == <<cycle, worst, stop>>
cycleVars == <<variations, harness, unread, receipts, unconfirmed>>
durable == <<ledger, reports, latest>>
vars == <<unit, starts, pc, processVars, cycleVars, judged, durable>>

Campaign == Len(judged)
Findings == judged[Campaign]
Planned == Fixed + variations

NoReport == [campaign |-> 0]

Init ==
  /\ unit = "running"
  /\ starts = 1
  /\ pc = "loop"
  /\ cycle = 0
  /\ worst = 0
  /\ stop = FALSE
  /\ variations = 0
  /\ harness = FALSE
  /\ unread = FALSE
  /\ receipts = {}
  /\ unconfirmed = {}
  /\ judged = <<>>
  /\ ledger = {}
  /\ reports = {}
  /\ latest = NoReport

----------------------------------------------------------------------------
(* One cycle.                                                              *)

Running(label) == unit = "running" /\ pc = label

WorstIsLast(code, other) == other                   \* mutant: no max

Worst(code, other) == IF code > other THEN code ELSE other

ForgetCycle ==
  /\ variations' = 0
  /\ harness' = FALSE
  /\ unread' = FALSE
  /\ receipts' = {}
  /\ unconfirmed' = {}

StartCycleAnyway ==                                 \* mutant: event not read
  /\ Running("loop")
  /\ Campaign < MaxCampaigns
  /\ cycle' = cycle + 1
  /\ judged' = Append(judged, <<>>)
  /\ ForgetCycle
  /\ pc' = IF Persist THEN "memory" ELSE "agents"
  /\ UNCHANGED <<unit, starts, worst, stop, durable>>

StartCycle ==
  /\ Running("loop") /\ ~stop
  /\ Campaign < MaxCampaigns
  /\ cycle' = cycle + 1
  /\ judged' = Append(judged, <<>>)
  /\ ForgetCycle
  /\ pc' = IF Persist THEN "memory" ELSE "agents"
  /\ UNCHANGED <<unit, starts, worst, stop, durable>>

\* A memory that cannot be read is noted; the campaign goes on without it.
ReadMemory ==
  /\ Running("memory")
  /\ unread' \in BOOLEAN
  /\ pc' = "agents"
  /\ UNCHANGED <<unit, starts, processVars, variations, harness, receipts,
                 unconfirmed, judged, durable>>

RequestedUnlimited == PlansPerCycle                 \* mutant: no capacity

\* Every seed gives one plan or one error, within what the budget leaves.
Requested ==
  LET capacity == MaxPlans - Fixed IN
  CHOOSE n \in {PlansPerCycle, capacity, Fixed} :
    \A other \in {PlansPerCycle, capacity, Fixed} : n <= other

RunAgents ==
  /\ Running("agents")
  /\ variations' \in 0..Requested
  /\ harness' = (variations' < Requested)
  /\ pc' = "plans"
  /\ UNCHANGED <<unit, starts, processVars, unread, receipts, unconfirmed, judged, durable>>

RunPlan ==
  /\ Running("plans")
  /\ Len(Findings) < Planned
  /\ \E verdict \in PlanVerdicts : judged' = [judged EXCEPT ![Campaign] = Append(@, verdict)]
  /\ UNCHANGED <<unit, starts, pc, processVars, cycleVars, durable>>

PlansDone ==
  /\ Running("plans")
  /\ Len(Findings) = Planned
  /\ pc' = IF Persist THEN "persist" ELSE "report"
  /\ UNCHANGED <<unit, starts, processVars, cycleVars, judged, durable>>

Handled == receipts \cup unconfirmed

AppendedUnlessRefused(n, stored, answered) ==       \* mutant: error swallowed
  /\ ledger' = IF stored
               THEN ledger \cup {[campaign |-> Campaign, finding |-> n, verdict |-> Findings[n]]}
               ELSE ledger
  /\ receipts' = receipts \cup {n}
  /\ unconfirmed' = unconfirmed

\* append answers with the event's number, is refused, or loses the answer of
\* an event that was stored; nothing is sent twice.
Appended(n, stored, answered) ==
  /\ ledger' = IF stored
               THEN ledger \cup {[campaign |-> Campaign, finding |-> n, verdict |-> Findings[n]]}
               ELSE ledger
  /\ receipts' = IF answered THEN receipts \cup {n} ELSE receipts
  /\ unconfirmed' = IF answered THEN unconfirmed ELSE unconfirmed \cup {n}

PersistFinding ==
  /\ Running("persist")
  /\ \E n \in 1..Planned :
       /\ n \notin Handled /\ 1..n-1 \subseteq Handled
       /\ \E stored, answered \in BOOLEAN :
            /\ answered => stored
            /\ Appended(n, stored, answered)
  /\ UNCHANGED <<unit, starts, pc, processVars, variations, harness, unread, judged, reports, latest>>

Persisted ==
  /\ Running("persist")
  /\ Handled = 1..Planned
  /\ pc' = "report"
  /\ UNCHANGED <<unit, starts, processVars, cycleVars, judged, durable>>

Document ==
  [campaign |-> Campaign, findings |-> Findings,
   accepted |-> receipts, errors |-> unconfirmed]

ReplaceLatestFirst(label) ==                        \* mutant: swapped order
  IF label = "report"
  THEN latest' = Document /\ pc' = "latest" /\ UNCHANGED reports
  ELSE reports' = reports \cup {Document} /\ pc' = "outcome" /\ UNCHANGED latest

\* The campaign's own file is replaced before latest.json.
Replace(label) ==
  IF label = "report"
  THEN reports' = reports \cup {Document} /\ pc' = "latest" /\ UNCHANGED latest
  ELSE latest' = Document /\ pc' = "outcome" /\ UNCHANGED reports

WriteReport ==
  /\ Running("report") \/ Running("latest")
  /\ Replace(pc)
  /\ UNCHANGED <<unit, starts, processVars, cycleVars, judged, ledger>>

ExitCodeOfFindings ==                               \* mutant: evidence ignored
  LET verdict == ReportVerdict({Findings[n] : n \in DOMAIN Findings}) IN
  IF harness \/ verdict = "ERROR" THEN 4
  ELSE IF verdict = "VULNERABLE" THEN 2
  ELSE IF verdict \in {"FAIL", "INCONCLUSIVE"} THEN 3
  ELSE 0

ExitCode ==
  LET verdict == ReportVerdict({Findings[n] : n \in DOMAIN Findings}) IN
  IF harness \/ verdict = "ERROR" THEN 4
  ELSE IF verdict = "VULNERABLE" THEN 2
  ELSE IF unread \/ unconfirmed # {} \/ verdict \in {"FAIL", "INCONCLUSIVE"} THEN 3
  ELSE 0

ReturnOutcome ==
  /\ Running("outcome")
  /\ worst' = Worst(worst, ExitCode)
  /\ pc' = "next"
  /\ UNCHANGED <<unit, starts, cycle, stop, cycleVars, judged, durable>>

RaisesUncounted ==                                  \* mutant: logged, not counted
  /\ \/ Running("agents") /\ Requested > 0
     \/ Running("plans") /\ Len(Findings) < Planned
     \/ Running("report")
     \/ Running("latest")
  /\ pc' = "next"
  /\ UNCHANGED <<unit, starts, processVars, cycleVars, judged, durable>>

\* Building the provider, a plan, or one of the two replaces raises: whatever
\* the cycle had found so far is lost, and the next cycle is tried.
CycleRaises ==
  /\ \/ Running("agents") /\ Requested > 0
     \/ Running("plans") /\ Len(Findings) < Planned
     \/ Running("report")
     \/ Running("latest")
  /\ worst' = Worst(worst, 4)
  /\ pc' = "next"
  /\ UNCHANGED <<unit, starts, cycle, stop, cycleVars, judged, durable>>

----------------------------------------------------------------------------
(* The loop, the signals and the service manager.                          *)

LastCycle == MaxCycles # Endless /\ cycle >= MaxCycles

\* stop.wait returns at the interval's end or when the event is set.
Pause ==
  /\ Running("next")
  /\ pc' = IF LastCycle THEN "leaving" ELSE "loop"
  /\ UNCHANGED <<unit, starts, processVars, cycleVars, judged, durable>>

Leaving == Running("leaving") \/ (Running("loop") /\ stop)

\* A daemon that was told to stop exits with 0.
ExitStatus == IF stop THEN 0 ELSE worst

Exit ==
  /\ Leaving
  /\ pc' = "gone"
  /\ unit' = IF ExitStatus = 0 THEN "stopped" ELSE "failed"
  /\ UNCHANGED <<starts, processVars, cycleVars, judged, durable>>

\* systemctl stop: the unit's KillSignal sets the event.
Signal ==
  /\ unit = "running" /\ ~stop
  /\ stop' = TRUE
  /\ UNCHANGED <<unit, starts, pc, cycle, worst, cycleVars, judged, durable>>

\* The process dies: on its own, or by SIGKILL when TimeoutStopSec has passed
\* after a signal, and then the unit is not started again.
Killed ==
  /\ unit = "running"
  /\ unit' = IF stop THEN "stopped" ELSE "failed"
  /\ pc' = "killed"
  /\ UNCHANGED <<starts, processVars, cycleVars, judged, durable>>

\* Restart=on-failure, up to the start limit.
Restart ==
  /\ unit = "failed"
  /\ starts < StartLimit
  /\ unit' = "running"
  /\ starts' = starts + 1
  /\ pc' = "loop"
  /\ cycle' = 0
  /\ worst' = 0
  /\ stop' = FALSE
  /\ ForgetCycle
  /\ UNCHANGED <<judged, durable>>

CycleStep ==
  \/ StartCycle \/ ReadMemory \/ RunAgents \/ RunPlan \/ PlansDone \/ PersistFinding
  \/ Persisted \/ WriteReport \/ ReturnOutcome \/ CycleRaises \/ Pause \/ Exit

Down ==
  /\ unit = "stopped" \/ (unit = "failed" /\ starts = StartLimit)
  /\ UNCHANGED vars

Next == CycleStep \/ Signal \/ Killed \/ Restart \/ Down

\* The process keeps running until it exits or dies: every call of a cycle is
\* bounded by a timeout, and stop.wait by the interval.
Spec == Init /\ [][Next]_vars /\ WF_vars(CycleStep)

----------------------------------------------------------------------------
(* What the daemon leaves behind.                                          *)

Report ==
  [campaign : Nat, findings : Seq(Verdict), accepted : SUBSET Nat, errors : SUBSET Nat]

Labels ==
  {"loop", "memory", "agents", "plans", "persist", "report", "latest", "outcome",
   "next", "leaving", "gone", "killed"}

\* Type invariant of the daemon: in particular the plans of a cycle stay within
\* the plan budget, whatever the agents added.
TypeOK ==
  /\ unit \in {"running", "stopped", "failed"}
  /\ starts \in 1..StartLimit
  /\ pc \in Labels
  /\ cycle \in Nat
  /\ worst \in {0, 2, 3, 4}
  /\ stop \in BOOLEAN
  /\ variations \in Nat /\ Planned <= MaxPlans
  /\ harness \in BOOLEAN
  /\ unread \in BOOLEAN
  /\ receipts \in SUBSET Nat
  /\ unconfirmed \in SUBSET Nat
  /\ judged \in Seq(Seq(Verdict))
  /\ ledger \in SUBSET [campaign : Nat, finding : Nat, verdict : Verdict]
  /\ reports \in SUBSET Report
  /\ latest \in Report \cup {NoReport}

\* latest.json is always a copy of a campaign's own report, however often the
\* daemon is killed between the two replaces.
LatestHasItsReport == latest # NoReport => latest \in reports

\* A report accounts for the evidence of each of its findings once: those it
\* counts as accepted are in the ledger with the finding's verdict, and those
\* the ledger lacks are among its errors.
EvidenceAccounted ==
  Persist => \A report \in reports :
    /\ report.accepted \cup report.errors = DOMAIN report.findings
    /\ report.accepted \cap report.errors = {}
    /\ \A n \in report.accepted :
         [campaign |-> report.campaign, finding |-> n, verdict |-> report.findings[n]] \in ledger

\* The campaigns of the life that has just ended.
OfThisLife == (Campaign - cycle + 1)..Campaign

VerdictOf(report) == ReportVerdict({report.findings[n] : n \in DOMAIN report.findings})

\* A daemon that ends by itself with exit code 0 has earned it: each of its
\* cycles passed every plan, wrote its report, and has its evidence stored.
GreenIsEarned ==
  pc = "gone" /\ ~stop /\ worst = 0 =>
    \A c \in OfThisLife : \E report \in reports :
      /\ report.campaign = c
      /\ Len(report.findings) >= Fixed
      /\ \A n \in DOMAIN report.findings :
           /\ report.findings[n] = "PASS"
           /\ Persist => [campaign |-> c, finding |-> n, verdict |-> "PASS"] \in ledger

\* A vulnerability that was found makes the unit fail, also when the cycle that
\* found it raised before its report was written.
FoundIsNotGreen ==
  pc = "gone" /\ ~stop /\ (\E c \in OfThisLife : \E n \in DOMAIN judged[c] :
                             judged[c][n] = "VULNERABLE") => worst # 0

\* Exit code 2 accuses the target.  A life of the daemon that ends with it has a
\* report that shows the vulnerability, and each of its cycles has a report that
\* is clean or vulnerable: a cycle that raised would have covered the code.
AccusationIsFounded ==
  pc = "gone" /\ ~stop /\ worst = 2 =>
    /\ \A c \in OfThisLife : \E report \in reports :
         report.campaign = c /\ VerdictOf(report) \in {"VULNERABLE", "PASS"}
    /\ \E report \in reports :
         report.campaign \in OfThisLife /\ VerdictOf(report) = "VULNERABLE"

\* The evidence is stored before the report is written.  When a life of the
\* daemon ends by itself with any code but 4, no event of it is an orphan: the
\* campaign it names has a report, with that finding and that verdict.
NoOrphanEvidence ==
  pc = "gone" /\ ~stop /\ worst # 4 =>
    \A event \in ledger : event.campaign \in OfThisLife =>
      \E report \in reports :
        /\ report.campaign = event.campaign
        /\ event.finding \in DOMAIN report.findings
        /\ report.findings[event.finding] = event.verdict

\* The steps the daemon has left at most, once no other cycle begins: one per
\* plan and per finding that is still to come.
StepsLeft ==
  CASE pc \in {"gone", "killed"}  -> 0
    [] pc \in {"loop", "leaving"} -> 1
    [] pc = "next"    -> 2
    [] pc = "outcome" -> 3
    [] pc = "latest"  -> 4
    [] pc = "report"  -> 5
    [] pc = "persist" -> 6 + Cardinality((1..Planned) \ Handled)
    [] pc = "plans"   -> 7 + Planned + (Planned - Len(Findings))
    [] pc = "agents"  -> 8 + 2 * MaxPlans
    [] pc = "memory"  -> 9 + 2 * MaxPlans

\* Once a signal has set the event, every step of the daemon brings it nearer to
\* its end, whatever the cycle under way meets: no other cycle begins, and what is
\* left of this one is bounded by the plan budget.
StopDrawsNear == [][stop /\ unit = "running" => StepsLeft' < StepsLeft]_vars
=============================================================================
