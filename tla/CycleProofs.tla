---------------------------- MODULE CycleProofs ----------------------------
(***************************************************************************)
(* Proofs about Cycle: whatever the budgets, the verdicts and the number   *)
(* of cycles and of restarts, what the daemon leaves behind and exits with *)
(* is what its campaigns found.                                            *)
(***************************************************************************)
EXTENDS Cycle, SequenceTheorems, FiniteSetTheorems, TLAPS

----------------------------------------------------------------------------
(* The verdict of a report.                                                *)

\* A report passes when each of its findings does, and there is one.
LEMMA PassMeansAllPass ==
  ASSUME NEW verdicts \in SUBSET Verdict, ReportVerdict(verdicts) = "PASS"
  PROVE  \A verdict \in verdicts : verdict = "PASS"
BY DEF ReportVerdict, Verdict

\* A finding that is VULNERABLE is not lost in the verdict of its report.
LEMMA VulnerableIsNotPass ==
  ASSUME NEW verdicts, "VULNERABLE" \in verdicts
  PROVE  ReportVerdict(verdicts) # "PASS"
BY DEF ReportVerdict

\* What an exit code says of the cycle that returned it.
LEMMA ExitCodeMeans ==
  /\ ExitCode \in {0, 2, 3, 4}
  /\ LET verdict == ReportVerdict({Findings[n] : n \in DOMAIN Findings}) IN
     /\ ExitCode = 2 => verdict = "VULNERABLE"
     /\ ExitCode = 0 => verdict \notin {"VULNERABLE", "FAIL", "INCONCLUSIVE", "ERROR"}
                        /\ unconfirmed = {}
BY DEF ExitCode

\* _report_verdict answers with a verdict whatever the findings.
LEMMA ReportVerdictTyped ==
  ASSUME NEW verdicts
  PROVE  ReportVerdict(verdicts) \in Verdict
BY DEF ReportVerdict, Verdict

\* The agents are never asked for more plans than the budget has left.
LEMMA RequestedFits == Requested \in Nat /\ Requested <= MaxPlans - Fixed
<1> DEFINE room == {PlansPerCycle, MaxPlans - Fixed, Fixed}
<1>1. room \subseteq Nat
  BY CycleAssumption
<1>2. \E n \in room : \A other \in room : n <= other
  BY CycleAssumption
<1> HIDE DEF room
<1>3. Requested = CHOOSE n \in room : \A other \in room : n <= other
  BY DEF Requested, room
<1>4. Requested \in room /\ \A other \in room : Requested <= other
  BY <1>2, <1>3
<1>5. MaxPlans - Fixed \in room
  BY DEF room
<1> QED
  BY <1>1, <1>4, <1>5

----------------------------------------------------------------------------
(* Types, and how campaigns and cycles count.                              *)

InCycle == pc \in {"memory", "agents", "plans", "persist", "report", "latest", "outcome"}

TypeInv ==
  /\ TypeOK
  /\ cycle <= Campaign
  /\ InCycle \/ pc = "next" => cycle >= 1
  /\ pc \in {"persist", "report", "latest", "outcome"} => Len(Findings) = Planned

\* The counters of the daemon, the findings of a cycle and the files keep their
\* types, and a cycle persists as many findings as it judged.
LEMMA TypeInvariant == Spec => []TypeInv
<1>1. Init => TypeInv
  <2> SUFFICES ASSUME Init PROVE TypeInv
    OBVIOUS
  <2>1. judged \in Seq(Seq(Verdict)) /\ Len(judged) = 0
    BY DEF Init
  <2>2. Planned <= MaxPlans /\ starts \in 1..StartLimit
    BY CycleAssumption DEF Init, Planned
  <2>3. TypeOK
    BY <2>1, <2>2 DEF Init, TypeOK, Labels
  <2> QED
    BY <2>1, <2>3 DEF Init, TypeInv, Campaign, InCycle
<1>2. ASSUME TypeInv, [Next]_vars
      PROVE  TypeInv'
  <2>1. Campaign \in Nat /\ DOMAIN judged = 1..Campaign /\ judged \in Seq(Seq(Verdict))
    BY <1>2 DEF TypeInv, TypeOK, Campaign
  <2>2. CASE StartCycle
    <3>1. judged' \in Seq(Seq(Verdict)) /\ Campaign' = Campaign + 1
      BY <2>1, <2>2 DEF StartCycle, Campaign
    <3>2. variations' = 0 /\ Fixed + variations' <= MaxPlans
      BY <2>2, CycleAssumption DEF StartCycle, ForgetCycle
    <3>3. pc' \in {"memory", "agents"}
      BY <2>2 DEF StartCycle
    <3>4. TypeOK'
      <4>1. /\ harness' \in BOOLEAN /\ unread' \in BOOLEAN
            /\ receipts' \in SUBSET Nat /\ unconfirmed' \in SUBSET Nat
        BY <2>2 DEF StartCycle, ForgetCycle
      <4>2. /\ ledger' \in SUBSET [campaign : Nat, finding : Nat, verdict : Verdict]
            /\ reports' \in SUBSET Report
            /\ latest' \in Report \cup {NoReport}
        BY <1>2, <2>2 DEF StartCycle, TypeInv, TypeOK, durable
      <4>3. /\ unit' \in {"running", "stopped", "failed"}
            /\ starts' \in 1..StartLimit
            /\ pc' \in Labels
            /\ cycle' \in Nat
            /\ worst' \in {0, 2, 3, 4}
            /\ stop' \in BOOLEAN
        BY <1>2, <2>2, <3>3 DEF StartCycle, TypeInv, TypeOK, Labels
      <4> QED
        BY <3>1, <3>2, <4>1, <4>2, <4>3 DEF TypeOK, Planned
    <3> QED
      BY <1>2, <2>1, <2>2, <3>1, <3>3, <3>4 DEF StartCycle, TypeInv, TypeOK, InCycle
  <2>3. CASE ReadMemory
    BY <1>2, <2>1, <2>3 DEF ReadMemory, Running, TypeInv, TypeOK, InCycle, Planned, Labels,
       Campaign, durable, processVars
  <2>4. CASE RunAgents
    <3>1. variations' \in 0..Requested
      BY <2>4 DEF RunAgents
    <3>2. Fixed \in Nat /\ MaxPlans \in Nat /\ Requested \in Nat
          /\ Requested <= MaxPlans - Fixed
      BY RequestedFits, CycleAssumption
    <3>3. \A added \in 0..Requested : added \in Nat /\ Fixed + added <= MaxPlans
      BY <3>2
    <3>4. variations' \in Nat /\ Fixed + variations' <= MaxPlans
      BY <3>1, <3>3
    <3>5. TypeOK'
      BY <1>2, <2>4, <3>4 DEF RunAgents, TypeInv, TypeOK, Labels, Planned, durable, processVars
    <3> QED
      BY <1>2, <2>1, <2>4, <3>5 DEF RunAgents, Running, TypeInv, InCycle, Campaign, processVars
  <2>5. CASE RunPlan
    <3>1. Campaign \in DOMAIN judged
      BY <1>2, <2>1, <2>5 DEF RunPlan, Running, TypeInv, TypeOK, InCycle
    <3>2. PICK verdict \in PlanVerdicts :
            judged' = [judged EXCEPT ![Campaign] = Append(judged[Campaign], verdict)]
      BY <2>5 DEF RunPlan
    <3>3. Append(judged[Campaign], verdict) \in Seq(Verdict)
      BY <2>1, <3>1, CycleAssumption
    <3>4. judged' \in Seq(Seq(Verdict)) /\ Campaign' = Campaign
      BY <2>1, <3>1, <3>2, <3>3 DEF Campaign
    <3> QED
      BY <1>2, <2>5, <3>4 DEF RunPlan, Running, TypeInv, TypeOK, InCycle, Planned, Labels,
         durable, processVars, cycleVars
  <2>6. CASE PlansDone
    BY <1>2, <2>6 DEF PlansDone, Running, TypeInv, TypeOK, InCycle, Planned, Labels,
       Campaign, Findings, durable, processVars, cycleVars
  <2>7. CASE PersistFinding
    <3>1. PICK n \in 1..Planned : \E stored, answered \in BOOLEAN : Appended(n, stored, answered)
      BY <2>7 DEF PersistFinding
    <3>2. PICK stored \in BOOLEAN, answered \in BOOLEAN : Appended(n, stored, answered)
      BY <3>1
    <3>3. n \in Nat
      BY <3>1, <1>2 DEF TypeInv, TypeOK, Planned
    <3>4. receipts' \in SUBSET Nat /\ unconfirmed' \in SUBSET Nat
      BY <1>2, <3>2, <3>3 DEF Appended, TypeInv, TypeOK
    <3>5. ledger' \in SUBSET [campaign : Nat, finding : Nat, verdict : Verdict]
      <4>1. Campaign \in DOMAIN judged /\ Campaign \in Nat
        BY <1>2, <2>1, <2>7 DEF PersistFinding, Running, TypeInv, TypeOK, InCycle
      <4>2. Findings \in Seq(Verdict) /\ Len(Findings) = Planned
        BY <1>2, <2>1, <2>7, <4>1 DEF PersistFinding, Running, TypeInv, Findings
      <4>3. Findings[n] \in Verdict
        BY <3>1, <3>3, <4>2
      <4> QED
        BY <1>2, <3>2, <3>3, <4>1, <4>3 DEF Appended, TypeInv, TypeOK
    <3> QED
      BY <1>2, <2>7, <3>4, <3>5 DEF PersistFinding, Running, TypeInv, TypeOK, InCycle, Planned,
         Labels, Campaign, Findings, processVars
  <2>8. CASE Persisted
    BY <1>2, <2>8 DEF Persisted, Running, TypeInv, TypeOK, InCycle, Planned, Labels,
       Campaign, Findings, durable, processVars, cycleVars
  <2>9. CASE WriteReport
    <3>1. Document \in Report
      BY <1>2, <2>1, <2>9 DEF WriteReport, Document, Report, Running, TypeInv, TypeOK, InCycle,
         Findings
    <3>2. reports' \in SUBSET Report /\ latest' \in Report \cup {NoReport}
          /\ pc' \in {"latest", "outcome"}
      BY <1>2, <2>9, <3>1 DEF WriteReport, Replace, TypeInv, TypeOK
    <3> QED
      BY <1>2, <2>9, <3>2 DEF WriteReport, Running, TypeInv, TypeOK, InCycle, Planned, Labels,
         Campaign, Findings, processVars, cycleVars
  <2>10. CASE ReturnOutcome
    BY <1>2, <2>10, ExitCodeMeans DEF ReturnOutcome, Worst, Running, TypeInv, TypeOK, InCycle,
       Planned, Labels, Campaign, durable, cycleVars
  <2>11. CASE CycleRaises
    BY <1>2, <2>11 DEF CycleRaises, Worst, Running, TypeInv, TypeOK, InCycle, Planned, Labels,
       Campaign, durable, cycleVars
  <2>12. CASE Pause \/ Exit \/ Signal \/ Killed \/ UNCHANGED vars
    <3>1. UNCHANGED <<starts, cycle, worst, variations, harness, unread, receipts, unconfirmed,
                      judged, ledger, reports, latest>>
      BY <2>12 DEF Pause, Exit, Signal, Killed, vars, processVars, cycleVars, durable
    <3>2. pc' = pc \/ pc' \in {"loop", "leaving", "gone", "killed"}
      BY <2>12 DEF Pause, Exit, Signal, Killed, vars
    <3>3. unit' = unit \/ unit' \in {"stopped", "failed"}
      BY <2>12 DEF Pause, Exit, Signal, Killed, vars
    <3>4. stop' = stop \/ stop' = TRUE
      BY <2>12 DEF Pause, Exit, Signal, Killed, vars, processVars
    <3>5. Campaign' = Campaign /\ Findings' = Findings /\ Planned' = Planned
      BY <3>1 DEF Campaign, Findings, Planned
    <3>6. TypeOK'
      <4>1. unit' \in {"running", "stopped", "failed"} /\ pc' \in Labels /\ stop' \in BOOLEAN
        BY <1>2, <3>2, <3>3, <3>4 DEF TypeInv, TypeOK, Labels
      <4> QED
        BY <1>2, <3>1, <3>5, <4>1 DEF TypeInv, TypeOK
    <3> QED
      BY <1>2, <3>1, <3>2, <3>5, <3>6 DEF TypeInv, InCycle
  <2>13. CASE Restart
    <3>1. variations' = 0 /\ Fixed + variations' <= MaxPlans /\ starts' \in 1..StartLimit
      BY <1>2, <2>13, CycleAssumption DEF Restart, ForgetCycle, TypeInv, TypeOK
    <3>2. TypeOK'
      <4>1. /\ harness' \in BOOLEAN /\ unread' \in BOOLEAN
            /\ receipts' \in SUBSET Nat /\ unconfirmed' \in SUBSET Nat
        BY <2>13 DEF Restart, ForgetCycle
      <4>2. /\ judged' \in Seq(Seq(Verdict))
            /\ ledger' \in SUBSET [campaign : Nat, finding : Nat, verdict : Verdict]
            /\ reports' \in SUBSET Report
            /\ latest' \in Report \cup {NoReport}
        BY <1>2, <2>13 DEF Restart, TypeInv, TypeOK, durable
      <4>3. /\ unit' \in {"running", "stopped", "failed"}
            /\ pc' \in Labels
            /\ cycle' \in Nat
            /\ worst' \in {0, 2, 3, 4}
            /\ stop' \in BOOLEAN
        BY <2>13 DEF Restart, Labels
      <4> QED
        BY <3>1, <4>1, <4>2, <4>3 DEF TypeOK, Planned
    <3> QED
      BY <1>2, <2>1, <2>13, <3>2 DEF Restart, TypeInv, InCycle, Campaign
  <2> QED
    BY <1>2, <2>2, <2>3, <2>4, <2>5, <2>6, <2>7, <2>8, <2>9, <2>10, <2>11, <2>12, <2>13
       DEF Next, CycleStep, Down
<1> QED
  BY <1>1, <1>2, PTL DEF Spec

----------------------------------------------------------------------------
(* The evidence of the cycle at hand.                                      *)

Event(n) == [campaign |-> Campaign, finding |-> n, verdict |-> Findings[n]]

\* How the findings of this cycle are stored, and then reported.
EvidenceInv ==
  /\ pc \in {"memory", "agents", "plans"} => receipts = {} /\ unconfirmed = {}
  /\ InCycle =>
       /\ receipts \cap unconfirmed = {}
       /\ \A n \in receipts : Event(n) \in ledger
  /\ Persist /\ pc \in {"report", "latest", "outcome"} => Handled = 1..Planned
  /\ pc \in {"latest", "outcome"} => Document \in reports

\* What the ledger says of a finding is what was judged.
LedgerInv ==
  \A event \in ledger :
    /\ event.campaign \in DOMAIN judged
    /\ event.finding \in DOMAIN judged[event.campaign]
    /\ judged[event.campaign][event.finding] = event.verdict

DurableInv == LatestHasItsReport /\ EvidenceAccounted /\ LedgerInv

\* Nothing the evidence rests on changes.
LEMMA EvidenceKept ==
  ASSUME DurableInv, UNCHANGED <<judged, ledger, reports, latest>>
  PROVE  DurableInv'
BY DEF DurableInv, LatestHasItsReport, EvidenceAccounted, LedgerInv

\* The ledger and the report directory only grow.
LEMMA DurableGrows ==
  ASSUME [Next]_vars
  PROVE  ledger \subseteq ledger' /\ reports \subseteq reports'
BY DEF Next, CycleStep, StartCycle, ReadMemory, RunAgents, RunPlan, PlansDone, PersistFinding,
       Appended, Persisted, WriteReport, Replace, ReturnOutcome, CycleRaises, Pause, Exit, Signal,
       Killed, Restart, Down, vars, durable

\* Between persist_findings and the replace of latest.json, the ledger and the
\* files hold what the findings of the campaign hold, also after a kill.
LEMMA EvidenceInvariant == Spec => [](EvidenceInv /\ DurableInv)
<1>1. Init => EvidenceInv /\ DurableInv
  BY DEF Init, EvidenceInv, DurableInv, InCycle, LatestHasItsReport, EvidenceAccounted, LedgerInv
<1>2. ASSUME TypeInv, EvidenceInv, DurableInv, [Next]_vars
      PROVE  EvidenceInv' /\ DurableInv'
  <2>1. /\ Campaign \in Nat /\ DOMAIN judged = 1..Campaign /\ judged \in Seq(Seq(Verdict))
        /\ InCycle => Campaign \in DOMAIN judged /\ Findings \in Seq(Verdict)
    BY <1>2 DEF TypeInv, TypeOK, Campaign, Findings
  <2>2. CASE StartCycle
    <3>1. pc' \in {"memory", "agents"} /\ receipts' = {} /\ unconfirmed' = {}
      BY <2>2 DEF StartCycle, ForgetCycle
    <3>2. EvidenceInv'
      BY <3>1 DEF EvidenceInv
    <3>3. /\ judged' = Append(judged, <<>>)
          /\ \A c \in DOMAIN judged : c \in DOMAIN judged' /\ judged'[c] = judged[c]
      BY <2>1, <2>2 DEF StartCycle
    <3>4. LedgerInv'
      BY <1>2, <2>2, <3>3 DEF StartCycle, durable, DurableInv, LedgerInv
    <3> QED
      BY <1>2, <2>2, <3>2, <3>4 DEF StartCycle, durable, DurableInv, LatestHasItsReport,
         EvidenceAccounted
  <2>3. CASE ReadMemory \/ RunAgents
    <3>1. EvidenceInv'
      BY <1>2, <2>3 DEF ReadMemory, RunAgents, Running, EvidenceInv
    <3> QED
      BY <2>3, <3>1, <1>2, EvidenceKept DEF ReadMemory, RunAgents, durable
  <2>4. CASE RunPlan
    <3>1. pc' = "plans" /\ receipts' = {} /\ unconfirmed' = {}
      BY <1>2, <2>4 DEF RunPlan, Running, EvidenceInv, cycleVars
    <3>2. EvidenceInv'
      BY <3>1 DEF EvidenceInv
    <3>3. PICK verdict \in PlanVerdicts :
            judged' = [judged EXCEPT ![Campaign] = Append(judged[Campaign], verdict)]
      BY <2>4 DEF RunPlan
    <3>4. Campaign \in DOMAIN judged /\ judged[Campaign] \in Seq(Verdict)
      BY <2>1, <2>4 DEF RunPlan, Running, InCycle
    <3>5. /\ DOMAIN judged' = DOMAIN judged
          /\ \A c \in DOMAIN judged : c # Campaign => judged'[c] = judged[c]
          /\ judged'[Campaign] = Append(judged[Campaign], verdict)
      BY <3>3, <3>4
    <3>6. \A n \in DOMAIN judged[Campaign] :
            n \in DOMAIN judged'[Campaign] /\ judged'[Campaign][n] = judged[Campaign][n]
      BY <3>4, <3>5, CycleAssumption
    <3>7. LedgerInv'
      BY <1>2, <2>4, <3>5, <3>6 DEF RunPlan, durable, DurableInv, LedgerInv
    <3> QED
      BY <1>2, <2>4, <3>2, <3>7 DEF RunPlan, durable, DurableInv, LatestHasItsReport,
         EvidenceAccounted
  <2>5. CASE PlansDone
    <3>1. pc = "plans" /\ pc' \in {"persist", "report"} /\ (Persist => pc' = "persist")
          /\ receipts' = {} /\ unconfirmed' = {}
      BY <1>2, <2>5 DEF PlansDone, Running, EvidenceInv, cycleVars
    <3>2. EvidenceInv'
      BY <3>1 DEF EvidenceInv
    <3> QED
      BY <2>5, <3>2, <1>2, EvidenceKept DEF PlansDone, durable
  <2>6. CASE PersistFinding
    <3>1. PICK n \in 1..Planned, stored \in BOOLEAN, answered \in BOOLEAN :
            n \notin Handled /\ (answered => stored) /\ Appended(n, stored, answered)
      BY <2>6 DEF PersistFinding
    <3>2. /\ pc = "persist" /\ pc' = "persist"
          /\ UNCHANGED <<judged, reports, latest>>
          /\ Len(Findings) = Planned /\ n \in DOMAIN Findings
      BY <1>2, <2>1, <2>6 DEF PersistFinding, Running, TypeInv, InCycle
    <3>3. /\ Campaign' = Campaign /\ Findings' = Findings
          /\ ledger' = IF stored THEN ledger \cup {Event(n)} ELSE ledger
          /\ receipts' = IF answered THEN receipts \cup {n} ELSE receipts
          /\ unconfirmed' = IF answered THEN unconfirmed ELSE unconfirmed \cup {n}
      BY <3>1, <3>2 DEF Appended, Event, Campaign, Findings
    <3>4. EvidenceInv'
      <4>1. receipts' \cap unconfirmed' = {}
        BY <1>2, <3>1, <3>2, <3>3 DEF EvidenceInv, InCycle, Handled
      <4>2. \A m \in receipts' : Event(m) \in ledger'
        BY <1>2, <3>1, <3>2, <3>3 DEF EvidenceInv, InCycle
      <4>3. \A m : Event(m)' = Event(m)
        BY <3>3 DEF Event
      <4> QED
        BY <3>2, <4>1, <4>2, <4>3 DEF EvidenceInv
    <3>5. LedgerInv'
      <4>1. Campaign \in DOMAIN judged /\ n \in DOMAIN judged[Campaign]
        BY <2>1, <3>2 DEF InCycle, Findings
      <4>2. ASSUME NEW event \in ledger' PROVE event \in ledger \/ event = Event(n)
        BY <3>3
      <4> QED
        BY <1>2, <3>2, <4>1, <4>2 DEF DurableInv, LedgerInv, Event, Findings
    <3>6. EvidenceAccounted'
      BY <1>2, <3>2, <3>3 DEF DurableInv, EvidenceAccounted
    <3> QED
      BY <1>2, <3>2, <3>4, <3>5, <3>6 DEF DurableInv, LatestHasItsReport
  <2>7. CASE Persisted
    <3>1. /\ pc = "persist" /\ pc' = "report" /\ Handled = 1..Planned
          /\ UNCHANGED <<judged, ledger, reports, latest, receipts, unconfirmed, variations>>
      BY <2>7 DEF Persisted, Running, durable, cycleVars
    <3>2. EvidenceInv'
      BY <1>2, <3>1 DEF EvidenceInv, InCycle, Handled, Planned, Event, Campaign, Findings
    <3> QED
      BY <1>2, <3>1, <3>2, EvidenceKept
  <2>8. CASE WriteReport
    <3>1. /\ pc \in {"report", "latest"} /\ pc' \in {"latest", "outcome"}
          /\ UNCHANGED <<judged, ledger, receipts, unconfirmed, variations>>
          /\ pc = "report" => reports' = reports \cup {Document} /\ latest' = latest
          /\ pc = "latest" => reports' = reports /\ latest' = Document
      BY <2>8 DEF WriteReport, Replace, Running, cycleVars
    <3>2. Document' = Document
      BY <3>1 DEF Document, Campaign, Findings
    <3>3. EvidenceInv'
      <4>1. Document \in reports'
        BY <1>2, <3>1 DEF EvidenceInv
      <4> QED
        BY <1>2, <3>1, <3>2, <4>1 DEF EvidenceInv, InCycle, Handled, Planned, Event, Campaign,
           Findings
    <3>4. LatestHasItsReport'
      BY <1>2, <3>1 DEF EvidenceInv, DurableInv, LatestHasItsReport
    <3>5. EvidenceAccounted'
      <4>1. ASSUME Persist
            PROVE  /\ Document.accepted \cup Document.errors = DOMAIN Document.findings
                   /\ Document.accepted \cap Document.errors = {}
                   /\ \A n \in Document.accepted :
                        [campaign |-> Document.campaign, finding |-> n,
                         verdict |-> Document.findings[n]] \in ledger
        <5>1. Handled = 1..Planned /\ receipts \cap unconfirmed = {}
              /\ \A n \in receipts : Event(n) \in ledger
          BY <1>2, <3>1, <4>1 DEF EvidenceInv, InCycle
        <5>2. DOMAIN Findings = 1..Planned
          BY <1>2, <2>1, <3>1 DEF TypeInv, InCycle
        <5> QED
          BY <5>1, <5>2 DEF Document, Handled, Event
      <4>2. \A report \in reports' : report \in reports \/ report = Document
        BY <3>1
      <4> QED
        BY <1>2, <3>1, <4>1, <4>2 DEF DurableInv, EvidenceAccounted
    <3>6. LedgerInv'
      BY <1>2, <3>1 DEF DurableInv, LedgerInv
    <3> QED
      BY <3>3, <3>4, <3>5, <3>6 DEF DurableInv
  <2>9. CASE ReturnOutcome \/ CycleRaises \/ Pause \/ Exit \/ Killed \/ Restart
    <3>1. pc' \in {"next", "leaving", "loop", "gone", "killed"}
      BY <2>9 DEF ReturnOutcome, CycleRaises, Pause, Exit, Killed, Restart
    <3>2. EvidenceInv'
      BY <3>1 DEF EvidenceInv, InCycle
    <3> QED
      BY <1>2, <2>9, <3>2, EvidenceKept
         DEF ReturnOutcome, CycleRaises, Pause, Exit, Killed, Restart, durable
  <2>10. CASE Signal \/ UNCHANGED vars
    <3>1. UNCHANGED <<pc, judged, ledger, reports, latest, receipts, unconfirmed, variations>>
      BY <2>10 DEF Signal, vars, durable, cycleVars
    <3>2. EvidenceInv'
      BY <1>2, <3>1 DEF EvidenceInv, InCycle, Handled, Planned, Event, Campaign, Findings, Document
    <3> QED
      BY <1>2, <3>1, <3>2, EvidenceKept
  <2> QED
    BY <1>2, <2>2, <2>3, <2>4, <2>5, <2>6, <2>7, <2>8, <2>9, <2>10 DEF Next, CycleStep, Down
<1> QED
  BY <1>1, <1>2, TypeInvariant, PTL DEF Spec

\* LatestHasItsReport, across any number of crashes.
THEOREM LatestIsReported == Spec => []LatestHasItsReport
<1>1. DurableInv => LatestHasItsReport
  BY DEF DurableInv
<1> QED
  BY <1>1, EvidenceInvariant, PTL

\* EvidenceAccounted, whatever answers of the database are lost.
THEOREM EvidenceIsAccounted == Spec => []EvidenceAccounted
<1>1. DurableInv => EvidenceAccounted
  BY DEF DurableInv
<1> QED
  BY <1>1, EvidenceInvariant, PTL

----------------------------------------------------------------------------
(* The cycles of a life of the daemon.                                     *)

\* The campaigns of this life whose cycle is over.
Finished == (Campaign - cycle + 1)..(IF InCycle THEN Campaign - 1 ELSE Campaign)

\* The campaign has a report, and the exit code so far is not milder than it.
Reported(c) ==
  \E report \in reports :
    /\ report.campaign = c
    /\ report.findings = judged[c]
    /\ Len(report.findings) >= Fixed
    /\ worst = 0 => VerdictOf(report) = "PASS" /\ report.errors = {}
    /\ worst = 2 => VerdictOf(report) \in {"PASS", "VULNERABLE"}

Accused ==
  \E report \in reports :
    report.campaign \in Finished /\ VerdictOf(report) = "VULNERABLE"

LifeInv ==
  pc # "killed" =>
    /\ worst # 4 => \A c \in Finished : Reported(c)
    /\ worst = 2 => Accused

\* A report stays one as the directory and the exit code grow.
LEMMA ReportedStays ==
  ASSUME NEW c, Reported(c), reports \subseteq reports', judged'[c] = judged[c],
         worst' = 0 => worst = 0, worst' = 2 => worst \in {0, 2}
  PROVE  Reported(c)'
BY DEF Reported, VerdictOf

\* A step that finishes no cycle and changes no exit code.
LEMMA LifeKept ==
  ASSUME LifeInv, pc # "killed", Finished' = Finished, worst' = worst,
         reports \subseteq reports', \A c \in Finished : judged'[c] = judged[c]
  PROVE  LifeInv'
<1>1. ASSUME worst' # 4, NEW c \in Finished
      PROVE  Reported(c)'
  BY <1>1, ReportedStays DEF LifeInv
<1>2. ASSUME worst' = 2
      PROVE  Accused'
  BY <1>2 DEF LifeInv, Accused, VerdictOf
<1> QED
  BY <1>1, <1>2 DEF LifeInv

\* The campaigns that are over have been judged, and the one at hand is not over.
LEMMA FinishedAre ==
  ASSUME TypeInv
  PROVE  /\ Finished \subseteq DOMAIN judged
         /\ InCycle => Campaign \notin Finished
         /\ Campaign \in Nat /\ cycle \in Nat
         /\ judged \in Seq(Seq(Verdict)) /\ DOMAIN judged = 1..Campaign
<1>1. Campaign \in Nat /\ cycle \in Nat /\ cycle <= Campaign
      /\ judged \in Seq(Seq(Verdict)) /\ DOMAIN judged = 1..Campaign
  BY DEF TypeInv, TypeOK, Campaign
<1>2. \A c \in Finished : c \in 1..Campaign /\ (InCycle => c # Campaign)
  BY <1>1 DEF Finished
<1> QED
  BY <1>1, <1>2

\* The worst exit code of a life of the daemon covers every cycle of that life.
LEMMA LifeInvariant == Spec => []LifeInv
<1>1. Init => LifeInv
  <2> SUFFICES ASSUME Init PROVE LifeInv
    OBVIOUS
  <2>1. Campaign = 0 /\ cycle = 0 /\ worst = 0
    BY DEF Init, Campaign
  <2>2. Finished = {}
    BY <2>1 DEF Finished, Init, InCycle
  <2> QED
    BY <2>1, <2>2 DEF LifeInv
<1>2. ASSUME TypeInv, TypeInv', EvidenceInv, LifeInv, [Next]_vars
      PROVE  LifeInv'
  <2>1. /\ Campaign \in Nat /\ cycle \in Nat /\ cycle <= Campaign
        /\ Finished \subseteq DOMAIN judged
        /\ judged \in Seq(Seq(Verdict)) /\ DOMAIN judged = 1..Campaign
        /\ worst \in {0, 2, 3, 4}
    BY <1>2, FinishedAre DEF TypeInv, TypeOK
  <2>2. CASE StartCycle
    <3>1. /\ pc = "loop" /\ pc' \in {"memory", "agents"} /\ cycle' = cycle + 1
          /\ judged' = Append(judged, <<>>) /\ UNCHANGED <<worst, reports>>
      BY <2>2 DEF StartCycle, Running, durable
    <3>2. Campaign' = Campaign + 1 /\ \A c \in DOMAIN judged : judged'[c] = judged[c]
      BY <2>1, <3>1 DEF Campaign
    <3>3. ~InCycle /\ InCycle'
      BY <3>1 DEF InCycle
    <3>4. Finished' = Finished
      BY <2>1, <3>1, <3>2, <3>3 DEF Finished
    <3> QED
      BY <1>2, <2>1, <3>1, <3>2, <3>4, LifeKept
  <2>3. CASE RunPlan
    <3>1. pc = "plans" /\ UNCHANGED <<pc, cycle, worst, reports>>
          /\ \E verdict \in PlanVerdicts :
               judged' = [judged EXCEPT ![Campaign] = Append(judged[Campaign], verdict)]
      BY <2>3 DEF RunPlan, Running, durable, processVars
    <3>2. /\ Campaign' = Campaign /\ \A c \in DOMAIN judged : c # Campaign => judged'[c] = judged[c]
      BY <2>1, <3>1 DEF Campaign
    <3>3. Finished' = Finished /\ Campaign \notin Finished
      BY <1>2, <3>1, <3>2, FinishedAre DEF Finished, InCycle
    <3> QED
      BY <1>2, <2>1, <3>1, <3>2, <3>3, LifeKept
  <2>4. CASE ReadMemory \/ RunAgents \/ PlansDone \/ PersistFinding \/ Persisted \/ WriteReport
    <3>1. InCycle /\ InCycle' /\ UNCHANGED <<cycle, worst, judged>>
      BY <2>4 DEF ReadMemory, RunAgents, PlansDone, PersistFinding, Persisted, WriteReport, Replace,
         Running, InCycle, processVars
    <3>2. Finished' = Finished /\ pc # "killed"
      BY <3>1 DEF Finished, Campaign, InCycle
    <3> QED
      BY <1>2, <3>1, <3>2, DurableGrows, LifeKept
  <2>5. CASE ReturnOutcome
    <3>1. /\ pc = "outcome" /\ pc' = "next" /\ worst' = Worst(worst, ExitCode)
          /\ UNCHANGED <<cycle, judged, reports>>
      BY <2>5 DEF ReturnOutcome, Running, durable
    <3>2. /\ worst' \in {worst, ExitCode}
          /\ worst' = 0 => worst = 0 /\ ExitCode = 0
          /\ worst' = 2 => worst \in {0, 2} /\ ExitCode \in {0, 2}
          /\ worst' # 4 => worst # 4
      BY <2>1, <3>1, ExitCodeMeans DEF Worst
    <3>3. Campaign' = Campaign
      BY <3>1 DEF Campaign
    <3>4. Finished' = Finished \cup {Campaign}
      <4>1. cycle >= 1 /\ InCycle /\ ~InCycle'
        BY <1>2, <3>1 DEF TypeInv, InCycle
      <4> QED
        BY <2>1, <3>1, <3>3, <4>1 DEF Finished
    <3>5. /\ Document \in reports
          /\ Document.campaign = Campaign
          /\ Document.findings = judged[Campaign]
          /\ Document.errors = unconfirmed
      BY <1>2, <3>1 DEF EvidenceInv, Document, Findings
    <3>6. Len(Document.findings) >= Fixed
      BY <1>2, <3>1, <3>5, CycleAssumption DEF TypeInv, TypeOK, Planned, Findings
    <3>7. VerdictOf(Document) = ReportVerdict({Findings[n] : n \in DOMAIN Findings})
      BY DEF VerdictOf, Document
    <3>8. /\ ExitCode = 0 => VerdictOf(Document) = "PASS" /\ unconfirmed = {}
          /\ ExitCode = 2 => VerdictOf(Document) = "VULNERABLE"
      BY <3>7, ExitCodeMeans, ReportVerdictTyped DEF Verdict
    <3>9. ASSUME worst' # 4, NEW c \in Finished'
          PROVE  Reported(c)'
      <4>1. CASE c \in Finished
        <5>1. Reported(c)
          BY <1>2, <3>1, <3>2, <3>9, <4>1 DEF LifeInv
        <5> QED
          BY <3>1, <3>2, <5>1, ReportedStays
      <4>2. CASE c = Campaign
        <5>1. /\ Document \in reports' /\ Document.campaign = c
              /\ Document.findings = judged'[c] /\ Len(Document.findings) >= Fixed
          BY <3>1, <3>5, <3>6, <4>2
        <5>2. /\ worst' = 0 => VerdictOf(Document) = "PASS" /\ Document.errors = {}
              /\ worst' = 2 => VerdictOf(Document) \in {"PASS", "VULNERABLE"}
          BY <3>2, <3>5, <3>8
        <5> QED
          BY <5>1, <5>2 DEF Reported, VerdictOf
      <4> QED
        BY <3>4, <3>9, <4>1, <4>2
    <3>10. ASSUME worst' = 2
           PROVE  Accused'
      <4>1. CASE worst = 2
        BY <1>2, <3>1, <3>4, <4>1 DEF LifeInv, Accused, VerdictOf
      <4>2. CASE ExitCode = 2
        BY <3>1, <3>4, <3>5, <3>8, <4>2 DEF Accused, VerdictOf
      <4> QED
        BY <3>2, <3>10, <4>1, <4>2
    <3> QED
      BY <3>9, <3>10 DEF LifeInv
  <2>6. CASE CycleRaises
    <3>1. worst' = 4
      BY <2>1, <2>6 DEF CycleRaises, Worst
    <3> QED
      BY <3>1 DEF LifeInv
  <2>7. CASE Pause \/ Exit
    <3>1. /\ ~InCycle /\ ~InCycle' /\ pc # "killed"
          /\ UNCHANGED <<cycle, worst, judged, reports>>
      BY <2>7 DEF Pause, Exit, Leaving, Running, InCycle, processVars, durable
    <3>2. Finished' = Finished
      BY <3>1 DEF Finished, Campaign
    <3> QED
      BY <1>2, <3>1, <3>2, LifeKept
  <2>8. CASE Signal \/ UNCHANGED vars
    <3>1. UNCHANGED <<pc, cycle, worst, judged, reports>>
      BY <2>8 DEF Signal, vars, processVars, durable
    <3>2. Finished' = Finished
      BY <3>1 DEF Finished, Campaign, InCycle
    <3>3. CASE pc = "killed"
      BY <3>1, <3>3 DEF LifeInv
    <3>4. CASE pc # "killed"
      BY <1>2, <3>1, <3>2, <3>4, LifeKept
    <3> QED
      BY <3>3, <3>4
  <2>9. CASE Killed
    BY <2>9 DEF Killed, LifeInv
  <2>10. CASE Restart
    <3>1. pc' = "loop" /\ cycle' = 0 /\ worst' = 0 /\ judged' = judged
      BY <2>10 DEF Restart
    <3>2. Campaign' = Campaign
      BY <3>1 DEF Campaign
    <3>3. Finished' = {}
      BY <2>1, <3>1, <3>2 DEF Finished, InCycle
    <3> QED
      BY <3>1, <3>3 DEF LifeInv
  <2> QED
    BY <1>2, <2>2, <2>3, <2>4, <2>5, <2>6, <2>7, <2>8, <2>9, <2>10 DEF Next, CycleStep, Down
<1> QED
  BY <1>1, <1>2, TypeInvariant, EvidenceInvariant, PTL DEF Spec

----------------------------------------------------------------------------
(* What the exit code of a life says.                                      *)

\* At the end of a life its campaigns are all over.
LEMMA LifeIsOver ==
  ASSUME pc = "gone"
  PROVE  Finished = OfThisLife
BY DEF Finished, OfThisLife, InCycle

\* A report of this life and what its verdict says of the findings.
LEMMA ReportOf ==
  ASSUME TypeInv, DurableInv, NEW report \in reports
  PROVE  /\ report.findings \in Seq(Verdict)
         /\ VerdictOf(report) = "PASS" =>
              \A n \in DOMAIN report.findings : report.findings[n] = "PASS"
<1>1. report.findings \in Seq(Verdict)
  BY DEF TypeInv, TypeOK, Report
<1>2. {report.findings[n] : n \in DOMAIN report.findings} \in SUBSET Verdict
  BY <1>1
<1>3. ASSUME VerdictOf(report) = "PASS", NEW n \in DOMAIN report.findings
      PROVE  report.findings[n] = "PASS"
  BY <1>2, <1>3, PassMeansAllPass DEF VerdictOf
<1> QED
  BY <1>1, <1>3

\* GreenIsEarned: exit code 0 vouches for every cycle.
THEOREM GreenVouches == Spec => []GreenIsEarned
<1>1. ASSUME TypeInv, DurableInv, LifeInv, pc = "gone", worst = 0, NEW c \in OfThisLife
      PROVE  \E report \in reports :
               /\ report.campaign = c
               /\ Len(report.findings) >= Fixed
               /\ \A n \in DOMAIN report.findings :
                    /\ report.findings[n] = "PASS"
                    /\ Persist => [campaign |-> c, finding |-> n, verdict |-> "PASS"] \in ledger
  <2>1. Reported(c)
    BY <1>1, LifeIsOver DEF LifeInv
  <2>2. PICK report \in reports :
          /\ report.campaign = c
          /\ Len(report.findings) >= Fixed
          /\ VerdictOf(report) = "PASS" /\ report.errors = {}
    BY <1>1, <2>1 DEF Reported
  <2>3. \A n \in DOMAIN report.findings : report.findings[n] = "PASS"
    BY <1>1, <2>2, ReportOf
  <2>4. ASSUME Persist, NEW n \in DOMAIN report.findings
        PROVE  [campaign |-> c, finding |-> n, verdict |-> "PASS"] \in ledger
    <3>1. n \in report.accepted
      BY <1>1, <2>2, <2>4 DEF DurableInv, EvidenceAccounted
    <3> QED
      BY <1>1, <2>2, <2>3, <2>4, <3>1 DEF DurableInv, EvidenceAccounted
  <2> QED
    BY <2>2, <2>3, <2>4
<1>2. TypeInv /\ DurableInv /\ LifeInv => GreenIsEarned
  BY <1>1 DEF GreenIsEarned
<1> QED
  BY <1>2, TypeInvariant, EvidenceInvariant, LifeInvariant, PTL

\* FoundIsNotGreen.
THEOREM FoundIsReported == Spec => []FoundIsNotGreen
<1>1. ASSUME TypeInv, DurableInv, LifeInv, pc = "gone", worst = 0, NEW c \in OfThisLife,
             NEW n \in DOMAIN judged[c]
      PROVE  judged[c][n] # "VULNERABLE"
  <2>1. PICK report \in reports : report.findings = judged[c] /\ VerdictOf(report) = "PASS"
    BY <1>1, LifeIsOver DEF LifeInv, Reported
  <2> QED
    BY <1>1, <2>1, ReportOf
<1>2. TypeInv /\ DurableInv /\ LifeInv => FoundIsNotGreen
  BY <1>1 DEF FoundIsNotGreen
<1> QED
  BY <1>2, TypeInvariant, EvidenceInvariant, LifeInvariant, PTL

\* AccusationIsFounded: exit code 2 has a vulnerability to show, and hides no
\* cycle that could not say.
THEOREM AccusationHasItsReport == Spec => []AccusationIsFounded
<1>1. ASSUME LifeInv, pc = "gone", worst = 2
      PROVE  /\ \A c \in OfThisLife : \E report \in reports :
                  report.campaign = c /\ VerdictOf(report) \in {"VULNERABLE", "PASS"}
             /\ \E report \in reports :
                  report.campaign \in OfThisLife /\ VerdictOf(report) = "VULNERABLE"
  <2>1. Finished = OfThisLife
    BY <1>1, LifeIsOver
  <2>2. \A c \in OfThisLife : Reported(c)
    BY <1>1, <2>1 DEF LifeInv
  <2>3. Accused
    BY <1>1 DEF LifeInv
  <2> QED
    BY <1>1, <2>1, <2>2, <2>3 DEF Reported, Accused
<1>2. LifeInv => AccusationIsFounded
  BY <1>1 DEF AccusationIsFounded
<1> QED
  BY <1>2, LifeInvariant, PTL

\* NoOrphanEvidence: what the ledger says was found, a report shows.
THEOREM EvidenceHasItsReport == Spec => []NoOrphanEvidence
<1>1. ASSUME DurableInv, LifeInv, pc = "gone", worst # 4, NEW event \in ledger,
             event.campaign \in OfThisLife
      PROVE  \E report \in reports :
               /\ report.campaign = event.campaign
               /\ event.finding \in DOMAIN report.findings
               /\ report.findings[event.finding] = event.verdict
  <2>1. Reported(event.campaign)
    BY <1>1, LifeIsOver DEF LifeInv
  <2> QED
    BY <1>1, <2>1 DEF Reported, DurableInv, LedgerInv
<1>2. DurableInv /\ LifeInv => NoOrphanEvidence
  BY <1>1 DEF NoOrphanEvidence
<1> QED
  BY <1>2, EvidenceInvariant, LifeInvariant, PTL

\* The type invariant, for every budget and number of restarts.
THEOREM DaemonTyped == Spec => []TypeOK
<1>1. TypeInv => TypeOK
  BY DEF TypeInv
<1> QED
  BY <1>1, TypeInvariant, PTL

----------------------------------------------------------------------------
(* The end of a service that was told to stop.                             *)

\* A running daemon is somewhere in its code; a cycle begins with no finding, and
\* runs no more plans than it has.
FindingsFit ==
  /\ unit = "running" => pc \notin {"gone", "killed"}
  /\ pc \in {"memory", "agents"} => Findings = <<>>
  /\ pc = "plans" => Len(Findings) <= Planned

\* Each plan that is run gives one finding.
LEMMA FindingsFitInvariant == Spec => []FindingsFit
<1>1. Init => FindingsFit
  BY DEF Init, FindingsFit
<1>2. ASSUME TypeInv, FindingsFit, [Next]_vars
      PROVE  FindingsFit'
  <2>1. /\ Campaign \in Nat /\ DOMAIN judged = 1..Campaign /\ judged \in Seq(Seq(Verdict))
        /\ Planned \in Nat
    BY <1>2, CycleAssumption DEF TypeInv, TypeOK, Campaign, Planned
  <2>2. CASE StartCycle
    <3>1. judged' = Append(judged, <<>>)
      BY <2>2 DEF StartCycle
    <3>2. Campaign' = Campaign + 1 /\ judged'[Campaign + 1] = <<>>
      BY <2>1, <3>1 DEF Campaign
    <3> QED
      BY <2>2, <3>2 DEF StartCycle, FindingsFit, Findings
  <2>3. CASE ReadMemory
    BY <1>2, <2>3 DEF ReadMemory, Running, FindingsFit, Findings, Campaign, Planned
  <2>4. CASE RunAgents
    <3>1. variations' \in Nat
      BY <2>4, RequestedFits DEF RunAgents
    <3>2. Findings' = <<>> /\ pc' = "plans"
      BY <1>2, <2>4 DEF RunAgents, Running, FindingsFit, Findings, Campaign
    <3>3. Fixed \in Nat
      BY CycleAssumption
    <3>4. \A added \in Nat : Fixed + added \in Nat
      BY <3>3
    <3>5. Planned' \in Nat
      BY <3>1, <3>4 DEF Planned
    <3> QED
      BY <3>2, <3>5 DEF FindingsFit
  <2>5. CASE RunPlan
    <3>1. Campaign \in DOMAIN judged
      BY <1>2, <2>1, <2>5 DEF RunPlan, Running, TypeInv, TypeOK, InCycle
    <3>2. PICK verdict \in PlanVerdicts :
            judged' = [judged EXCEPT ![Campaign] = Append(judged[Campaign], verdict)]
      BY <2>5 DEF RunPlan
    <3>3. Campaign' = Campaign /\ Findings' = Append(Findings, verdict)
      BY <2>1, <3>1, <3>2 DEF Campaign, Findings
    <3>4. Findings \in Seq(Verdict) /\ Len(Findings) < Planned
      BY <2>1, <2>5, <3>1 DEF RunPlan, Findings
    <3>5. Len(Findings') = Len(Findings) + 1 /\ Len(Findings) \in Nat
      BY <3>3, <3>4, CycleAssumption
    <3>6. Len(Findings') <= Planned'
      BY <2>1, <2>5, <3>4, <3>5 DEF RunPlan, Planned, cycleVars
    <3> QED
      BY <2>5, <3>6 DEF RunPlan, Running, FindingsFit
  <2>6. CASE \/ PlansDone \/ PersistFinding \/ Persisted \/ WriteReport \/ ReturnOutcome
             \/ CycleRaises \/ Pause \/ Exit \/ Killed \/ Restart
    <3>1. pc' \in {"persist", "report", "latest", "outcome", "next", "leaving", "loop",
                   "gone", "killed"}
      BY <2>6 DEF PlansDone, PersistFinding, Persisted, WriteReport, Replace, ReturnOutcome,
         CycleRaises, Pause, Exit, Killed, Restart, Running
    <3>2. unit' = "running" => pc' \notin {"gone", "killed"}
      BY <2>6 DEF PlansDone, PersistFinding, Persisted, WriteReport, Replace, ReturnOutcome,
         CycleRaises, Pause, Exit, Killed, Restart, Running
    <3> QED
      BY <3>1, <3>2 DEF FindingsFit
  <2>7. CASE Signal \/ UNCHANGED vars
    BY <1>2, <2>7 DEF Signal, vars, cycleVars, FindingsFit, Findings, Campaign, Planned
  <2> QED
    BY <1>2, <2>2, <2>3, <2>4, <2>5, <2>6, <2>7 DEF Next, CycleStep, Down
<1> QED
  BY <1>1, <1>2, TypeInvariant, PTL DEF Spec

\* The findings still to be persisted are a finite number of them.
LEMMA Unhandled ==
  ASSUME Planned \in Nat
  PROVE  /\ IsFiniteSet((1..Planned) \ Handled)
         /\ Cardinality((1..Planned) \ Handled) \in 0..Planned
<1>1. IsFiniteSet(1..Planned) /\ Cardinality(1..Planned) = Planned
  BY FS_Interval
<1> DEFINE rest == (1..Planned) \ Handled
<1>2. IsFiniteSet(rest) /\ Cardinality(rest) <= Cardinality(1..Planned)
  BY <1>1, FS_Subset
<1>3. Cardinality(rest) \in Nat
  BY <1>2, FS_CardinalityType
<1> QED
  BY <1>1, <1>2, <1>3

\* StopDrawsNear: every step of a service that was told to stop leaves it fewer steps
\* to take, whatever the cycle under way meets.
THEOREM StopIsHeeded == Spec => StopDrawsNear
<1>1. ASSUME TypeInv, EvidenceInv, FindingsFit, [Next]_vars, stop, unit = "running",
             ~(UNCHANGED vars)
      PROVE  StepsLeft' < StepsLeft
  <2>1. Planned \in Nat /\ Planned <= MaxPlans /\ MaxPlans \in Nat
    BY <1>1, CycleAssumption DEF TypeInv, TypeOK, Planned
  <2>2. InCycle => Findings \in Seq(Verdict) /\ Len(Findings) \in Nat
    <3>1. InCycle => Campaign \in DOMAIN judged /\ judged \in Seq(Seq(Verdict))
      BY <1>1 DEF TypeInv, TypeOK, Campaign
    <3> QED
      BY <3>1 DEF Findings
  <2>3. Cardinality((1..Planned) \ Handled) \in 0..Planned
    BY <2>1, Unhandled
  <2>4. pc \in Labels /\ pc \notin {"gone", "killed"} => StepsLeft \in Nat \ {0}
    <3>1. CASE pc = "persist"
      <4>1. StepsLeft = 6 + Cardinality((1..Planned) \ Handled)
        BY <3>1 DEF StepsLeft
      <4> QED
        BY <2>1, <2>3, <4>1
    <3>2. CASE pc = "plans"
      <4>1. StepsLeft = 7 + Planned + (Planned - Len(Findings))
        BY <3>2 DEF StepsLeft
      <4>2. Len(Findings) \in Nat /\ Len(Findings) <= Planned
        BY <1>1, <2>2, <3>2 DEF FindingsFit, InCycle
      <4> QED
        BY <2>1, <4>1, <4>2
    <3>3. CASE pc \in {"agents", "memory"}
      <4>1. StepsLeft = 8 + 2 * MaxPlans \/ StepsLeft = 9 + 2 * MaxPlans
        BY <3>3 DEF StepsLeft
      <4> QED
        BY <2>1, <4>1
    <3>4. CASE pc \in {"loop", "leaving", "next", "outcome", "latest", "report"}
      BY <3>4 DEF StepsLeft
    <3> QED
      BY <3>1, <3>2, <3>3, <3>4 DEF Labels
  <2>5. CASE Exit \/ Killed
    <3>1. StepsLeft' = 0
      BY <2>5 DEF Exit, Killed, StepsLeft
    <3>2. pc \in Labels /\ pc \notin {"gone", "killed"}
      BY <1>1 DEF TypeInv, TypeOK, FindingsFit
    <3> QED
      BY <2>4, <3>1, <3>2
  <2>6. CASE ReadMemory
    BY <2>1, <2>6 DEF ReadMemory, Running, StepsLeft
  <2>7. CASE RunAgents
    <3>1. variations' \in 0..Requested /\ pc = "agents" /\ pc' = "plans" /\ judged' = judged
      BY <2>7 DEF RunAgents, Running
    <3>2. /\ Fixed \in Nat /\ Requested \in Nat /\ Requested <= MaxPlans - Fixed
          /\ MaxPlans \in Nat
      BY RequestedFits, CycleAssumption
    <3>3. \A added \in 0..Requested : Fixed + added \in Nat /\ Fixed + added <= MaxPlans
      BY <3>2
    <3>4. Planned' \in Nat /\ Planned' <= MaxPlans
      BY <3>1, <3>3 DEF Planned
    <3>5. Findings' = <<>>
      BY <1>1, <3>1 DEF FindingsFit, Findings, Campaign
    <3>6. StepsLeft = 8 + 2 * MaxPlans /\ StepsLeft' = 7 + Planned' + (Planned' - 0)
      BY <3>1, <3>5 DEF StepsLeft
    <3>7. \A p, m \in Nat : p <= m => 7 + p + (p - 0) < 8 + 2 * m
      OBVIOUS
    <3> QED
      BY <3>2, <3>4, <3>6, <3>7
  <2>8. CASE RunPlan
    <3>1. Campaign \in DOMAIN judged /\ pc = "plans" /\ pc' = "plans" /\ Planned' = Planned
      BY <1>1, <2>8 DEF RunPlan, Running, TypeInv, TypeOK, InCycle, Campaign, Planned, cycleVars
    <3>2. PICK verdict \in PlanVerdicts :
            judged' = [judged EXCEPT ![Campaign] = Append(judged[Campaign], verdict)]
      BY <2>8 DEF RunPlan
    <3>3. Campaign' = Campaign /\ Findings' = Append(Findings, verdict)
      BY <1>1, <3>1, <3>2 DEF Campaign, Findings, TypeInv, TypeOK
    <3>4. Len(Findings') = Len(Findings) + 1 /\ Len(Findings) \in Nat
      BY <2>2, <3>1, <3>3, CycleAssumption DEF InCycle
    <3>5. StepsLeft = 7 + Planned + (Planned - Len(Findings))
          /\ StepsLeft' = 7 + Planned + (Planned - (Len(Findings) + 1))
      BY <3>1, <3>4 DEF StepsLeft
    <3> QED
      BY <2>1, <3>4, <3>5
  <2>9. CASE PlansDone
    <3>1. /\ pc = "plans" /\ Len(Findings) = Planned /\ pc' \in {"persist", "report"}
          /\ UNCHANGED <<variations, receipts, unconfirmed>>
      BY <2>9 DEF PlansDone, Running, cycleVars
    <3>2. StepsLeft = 7 + Planned + (Planned - Planned)
      BY <3>1 DEF StepsLeft
    <3>3. Planned' = Planned /\ Handled' = Handled
      BY <3>1 DEF Planned, Handled
    <3>4. StepsLeft' \in {5, 6 + Cardinality((1..Planned) \ Handled)}
      BY <3>1, <3>3 DEF StepsLeft
    <3> QED
      BY <2>1, <2>3, <3>2, <3>4
  <2>10. CASE PersistFinding
    <3>1. PICK n \in 1..Planned : /\ n \notin Handled
                                  /\ \E stored, answered \in BOOLEAN : Appended(n, stored, answered)
      BY <2>10 DEF PersistFinding
    <3>2. pc = "persist" /\ pc' = "persist" /\ Planned' = Planned
      BY <2>10 DEF PersistFinding, Running, Planned
    <3>3. Handled' = Handled \cup {n}
      BY <3>1 DEF Appended, Handled
    <3> DEFINE rest == (1..Planned) \ Handled
    <3>4. (1..Planned') \ Handled' = rest \ {n} /\ n \in rest
      BY <3>1, <3>2, <3>3
    <3>5. IsFiniteSet(rest)
      BY <2>1, Unhandled
    <3>6. Cardinality(rest \ {n}) = Cardinality(rest) - 1
      BY <3>4, <3>5, FS_RemoveElement
    <3>7. StepsLeft = 6 + Cardinality(rest) /\ StepsLeft' = 6 + Cardinality(rest \ {n})
      BY <3>2, <3>4 DEF StepsLeft
    <3> HIDE DEF rest
    <3>8. Cardinality(rest) \in Int
      BY <2>3 DEF rest
    <3> QED
      BY <3>6, <3>7, <3>8
  <2>11. CASE Persisted
    BY <2>1, <2>3, <2>11 DEF Persisted, Running, StepsLeft
  <2>12. CASE WriteReport \/ ReturnOutcome \/ Pause
    BY <2>12 DEF WriteReport, Replace, ReturnOutcome, Pause, Running, StepsLeft
  <2>13. CASE CycleRaises
    <3>1. /\ pc' = "next"
          /\ pc = "agents" \/ (pc = "plans" /\ Len(Findings) < Planned)
             \/ pc \in {"report", "latest"}
      BY <2>13 DEF CycleRaises, Running
    <3>2. StepsLeft' = 2
      BY <3>1 DEF StepsLeft
    <3>3. ASSUME pc = "plans", Len(Findings) < Planned
          PROVE  StepsLeft > 2
      <4>1. Len(Findings) \in Nat
        BY <2>2, <3>3 DEF InCycle
      <4>2. StepsLeft = 7 + Planned + (Planned - Len(Findings))
        BY <3>3 DEF StepsLeft
      <4> QED
        BY <2>1, <3>3, <4>1, <4>2
    <3>4. pc \in {"agents", "report", "latest"} => StepsLeft > 2
      BY <2>1 DEF StepsLeft
    <3> QED
      BY <3>1, <3>2, <3>3, <3>4
  <2>14. CASE StartCycle \/ Signal \/ Restart \/ Down
    BY <1>1, <2>14 DEF StartCycle, Signal, Restart, Down
  <2> QED
    BY <1>1, <2>5, <2>6, <2>7, <2>8, <2>9, <2>10, <2>11, <2>12, <2>13, <2>14
       DEF Next, CycleStep
<1> QED
  BY <1>1, TypeInvariant, EvidenceInvariant, FindingsFitInvariant, PTL DEF Spec, StopDrawsNear
=============================================================================
