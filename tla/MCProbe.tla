------------------------------- MODULE MCProbe -------------------------------
(***************************************************************************)
(* The curated denial plan of the catalog, what agents may make of it      *)
(* under its contract, their plans without a seed, and a plan an operator  *)
(* may give.                                                               *)
(***************************************************************************)
EXTENDS Probe

MCAdapters == {"http_request", "mcp_call", "tcp_probe", "upstream_counter"}

MCOracleIds ==
  {"http_status", "availability", "reachability", "upstream_zero", "no_sensitive_leak",
   "evidence_receipt"}

PlanOf(tools) ==
  [steps |-> [i \in DOMAIN tools |->
                [tool |-> tools[i], target |-> "literal", marked |-> FALSE,
                 mutates |-> FALSE]],
   destructive |-> FALSE,
   oracle_ids  |-> {"http_status", "upstream_zero"},
   metadata    |-> [expected |-> {400, 403, 404, 405, 422}, inconclusive |-> {401},
                    tools |-> {"mcp_call"}, markers |-> FALSE, diagnostic |-> FALSE,
                    vulnerability |-> TRUE]]

Denial == PlanOf(<<"upstream_counter", "mcp_call", "upstream_counter">>)

\* The call was moved out of the window.
MovedOut == PlanOf(<<"upstream_counter", "upstream_counter", "mcp_call">>)

\* The seed with a plain status contract, as those of the catalog without the
\* upstream, and a variation with one request more.
StatusSeed ==
  [PlanOf(<<"mcp_call">>) EXCEPT !.oracle_ids = {"http_status"}]
StatusTwice == BoundTo(StatusSeed, PlanOf(<<"mcp_call", "mcp_call">>))

\* What the agents propose without a seed.
Diagnostic == BoundWithoutSeed(PlanOf(<<"http_request", "tcp_probe">>))

\* An operator plants a canary, and asks for oracles that nothing measures.
Planted ==
  [PlanOf(<<"http_request">>) EXCEPT
     !.oracle_ids = {"http_status", "no_sensitive_leak"},
     !.metadata.tools = {}, !.metadata.markers = TRUE]
Unmeasured ==
  [Planted EXCEPT !.oracle_ids = {"http_status", "availability", "evidence_receipt"}]

MCPlans == {Denial, Diagnostic, Planted, Unmeasured}
Moved == {BoundTo(Denial, MovedOut)}
Repeated == {StatusTwice}
Curated == {Denial}

OneAtMost == {<<>>} \cup {<<plan>> : plan \in Plans}

MCMetadata == {plan.metadata : plan \in MCPlans \cup Moved \cup Repeated}

MCBudget == Response("budget", O!NoStatus, "none", <<>>)

Counters == O!NoCounter..MaxHits

MCResponses ==
  [tool : MCAdapters, status : {O!NoStatus, 200, 401, 403, 500},
   body : {"none", "clean", "canary"},
   evidence : {<<>>} \cup [counter : Counters] \cup [reachable : BOOLEAN]]

MCFingerprints ==
  [statuses : UNION {[1..n -> {200, 401, 403, 500}] : n \in 0..4}]
  \cup [delta : 0..MaxHits]
  \cup [counters : [1..2 -> 0..MaxHits]]
  \cup [probes : [1..1 -> BOOLEAN]]
  \cup [leaked : BOOLEAN]

MCAnswerSet == [verdict : Verdict, fingerprint : MCFingerprints \cup {NoFingerprint}]

\* What the proofs assume of the contracts holds of all of these.
ASSUME ContractsAssumption == DiagnosticContracts /\ RefusalsExpected /\ StepsMeasured
=============================================================================
