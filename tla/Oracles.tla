------------------------------ MODULE Oracles ------------------------------
(***************************************************************************)
(* The deterministic oracles, as functions of the trusted metadata of a    *)
(* plan and of the observations of one execution.                          *)
(*                                                                         *)
(* An observation is a record                                              *)
(*   tool      the adapter that made it                                    *)
(*   status    the HTTP status, or NoStatus if there was no response       *)
(*   body      "none", "clean", or "canary" if a forbidden marker is in it *)
(*   evidence  the typed evidence of the adapter, as a function of its keys*)
(* The metadata of a plan is a record                                      *)
(*   expected, inconclusive  sets of statuses                              *)
(*   tools          the adapters whose statuses count; all if empty        *)
(*   markers        forbidden_markers are configured                       *)
(*   diagnostic     the plan may not assert a vulnerability                *)
(*   vulnerability  an unexpected status is one                            *)
(* A fingerprint is a digest of the evidence given to it; here it is that  *)
(* evidence, as a record whose only field says of what kind it is.         *)
(***************************************************************************)
EXTENDS Integers, Selection, SequencesExt

CONSTANT Nothing   \* the fingerprint of a result without evidence

NoStatus == 0
NoCounter == -1    \* the value None of the counter

Result(v, print) == [verdict |-> v, fingerprint |-> print]

Undecided == Result("INCONCLUSIVE", Nothing)

\* The values of one key of the evidence, in the order they were observed.
ValuesOf(key, obs) ==
  LET with == Selection(obs, {i \in DOMAIN obs : key \in DOMAIN obs[i].evidence})
  IN  [i \in DOMAIN with |-> with[i].evidence[key]]

AllTrue(seq) == \A i \in DOMAIN seq : seq[i]

----------------------------------------------------------------------------
(* http_status: the statuses of the responses are those expected.          *)

\* The responses of every adapter are counted, whatever status_tools says.
StatusesSeenOfAll(metadata, obs) ==
  LET answered == Selection(obs, {i \in DOMAIN obs : obs[i].status # NoStatus})
  IN  [i \in DOMAIN answered |-> answered[i].status]

StatusesSeen(metadata, obs) ==
  LET judged(o) == metadata.tools = {} \/ o.tool \in metadata.tools
      counted == {i \in DOMAIN obs : obs[i].status # NoStatus /\ judged(obs[i])}
      answered == Selection(obs, counted)
  IN  [i \in DOMAIN answered |-> answered[i].status]

\* No response at all satisfies the expectation.
HttpStatusVacuous(metadata, obs) ==
  LET seen == StatusesSeen(metadata, obs) IN
  IF ToSet(seen) \cap metadata.inconclusive # {}
  THEN Result("INCONCLUSIVE", [statuses |-> seen])
  ELSE IF ToSet(seen) \subseteq metadata.expected
  THEN Result("PASS", [statuses |-> seen])
  ELSE Result("VULNERABLE", [statuses |-> seen])

\* A diagnostic plan is judged like the others.
HttpStatusAccuses(metadata, obs) ==
  LET seen == StatusesSeen(metadata, obs) IN
  IF metadata.expected = {} \/ seen = <<>> THEN Undecided
  ELSE IF ToSet(seen) \cap metadata.inconclusive # {}
  THEN Result("INCONCLUSIVE", [statuses |-> seen])
  ELSE Result(IF ToSet(seen) \subseteq metadata.expected THEN "PASS" ELSE "FAIL",
              [statuses |-> seen])

\* The lists of statuses of the contract are taken to be readable: one that is
\* not makes this oracle answer ERROR, which Coordinator allows of any oracle.
HttpStatus(metadata, obs) ==
  LET seen == StatusesSeen(metadata, obs)
      print == [statuses |-> seen]
  IN
  IF metadata.expected = {} \/ seen = <<>> THEN Undecided
  ELSE IF ToSet(seen) \cap metadata.inconclusive # {}
  THEN Result("INCONCLUSIVE", print)
  ELSE IF ToSet(seen) \subseteq metadata.expected
  THEN Result("PASS", print)
  ELSE IF metadata.diagnostic
  THEN Result("INCONCLUSIVE", print)
  ELSE IF metadata.vulnerability
  THEN Result("VULNERABLE", print)
  ELSE Result("FAIL", print)

----------------------------------------------------------------------------
(* upstream_zero: a denied action must not have moved the counter of the   *)
(* synthetic upstream between the first and the last time it was read.     *)

CountersRead(obs) ==
  LET values == ValuesOf("counter", obs)
  IN  Selection(values, {i \in DOMAIN values : values[i] # NoCounter})

\* A single reading is compared with itself.
UpstreamEffectOfOne(obs) ==
  LET counters == CountersRead(obs)
      delta == Last(counters) - Head(counters)
  IN
  IF counters = <<>> THEN Undecided
  ELSE IF delta < 0 THEN Result("INCONCLUSIVE", [counters |-> counters])
  ELSE IF delta = 0 THEN Result("PASS", [delta |-> delta])
  ELSE Result("VULNERABLE", [delta |-> delta])

UpstreamEffect(obs) ==
  LET counters == CountersRead(obs)
      delta == Last(counters) - Head(counters)
  IN
  IF Len(counters) < 2 THEN Undecided
  ELSE IF delta < 0 THEN Result("INCONCLUSIVE", [counters |-> counters])
  ELSE IF delta = 0 THEN Result("PASS", [delta |-> delta])
  ELSE Result("VULNERABLE", [delta |-> delta])

----------------------------------------------------------------------------
(* The other oracles.                                                      *)

\* reachability: a listener that does not answer was not attacked.
Reachability(obs) ==
  LET probes == ValuesOf("reachable", obs) IN
  IF probes = <<>> THEN Undecided
  ELSE Result(IF AllTrue(probes) THEN "PASS" ELSE "INCONCLUSIVE", [probes |-> probes])

\* availability: health was measured after the attack, and was good.
Availability(obs) ==
  LET health == ValuesOf("health", obs) IN
  IF health = <<>> THEN Undecided
  ELSE Result(IF AllTrue(health) THEN "PASS" ELSE "VULNERABLE", [health |-> health])

\* no_sensitive_leak: no body shows a canary that the operator planted.
SensitiveLeak(metadata, obs) ==
  LET bodies == {obs[i].body : i \in DOMAIN obs} \ {"none"}
      leaked == "canary" \in bodies
  IN
  IF ~metadata.markers \/ bodies = {} THEN Undecided
  ELSE Result(IF leaked THEN "VULNERABLE" ELSE "PASS", [leaked |-> leaked])

\* evidence_receipt: the target left evidence that can be correlated.
EvidenceReceipt(obs) ==
  LET receipts == ValuesOf("lsn", obs)
                  \o ValuesOf("evidence_lsn", obs) \o ValuesOf("evidence_id", obs)
  IN  IF receipts = <<>> THEN Undecided ELSE Result("PASS", [receipts |-> receipts])

\* The oracles the command line registers, by the identifier plans name.
Evaluate(oracle_id, metadata, obs) ==
  CASE oracle_id = "http_status"       -> HttpStatus(metadata, obs)
    [] oracle_id = "availability"      -> Availability(obs)
    [] oracle_id = "reachability"      -> Reachability(obs)
    [] oracle_id = "upstream_zero"     -> UpstreamEffect(obs)
    [] oracle_id = "no_sensitive_leak" -> SensitiveLeak(metadata, obs)
    [] oracle_id = "evidence_receipt"  -> EvidenceReceipt(obs)

----------------------------------------------------------------------------
(* bind_trusted_oracle_contract: what a plan of the agents is judged by.   *)

\* Without a curated seed the plan is diagnostic, and judged by what its own
\* tools measure.
DiagnosticMetadata(tools) ==
  [expected      |-> {200, 204, 400, 403, 404, 405, 409, 413, 415, 422, 429},
   inconclusive  |-> {401},
   tools         |-> tools \cap {"http_request", "mcp_call", "upstream_counter"},
   markers       |-> FALSE,
   diagnostic    |-> TRUE,
   vulnerability |-> FALSE]

DiagnosticOracles(tools) ==
  LET http == tools \cap {"http_request", "mcp_call", "upstream_counter"} IN
  {o \in {"http_status", "reachability"} :
     \/ o = "http_status" /\ http # {}
     \/ o = "reachability" /\ ("tcp_probe" \in tools \/ http = {})}
=============================================================================
