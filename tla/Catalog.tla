------------------------------ MODULE Catalog ------------------------------
(***************************************************************************)
(* The curated plans of a profile: one campaign's fixed hypotheses, every  *)
(* target of which comes from the settings.                                *)
(***************************************************************************)
EXTENDS Gate

CONSTANT Callback   \* the URL of a path below an upstream

ASSUME CallbackAssumption ==
  /\ Callback \in [Spelling -> Spelling]
  /\ \A t \in Spelling : OriginOf[Callback[t]] = OriginOf[t] /\ HostOf[Callback[t]] = HostOf[t]

ASSUME ContractAssumption ==
  /\ {"http_status", "upstream_zero", "reachability"} \subseteq OracleName
  /\ {"diagnostic", "rejection", "denial"} \subseteq Metadata

Listeners == {"core_rest", "core_grpc", "agent_api", "mcp_gateway", "otlp", "upstream"}

\* The metadata of a plan that may prove nothing about security.
Diagnostic(metadata) == metadata = "diagnostic"

Probe(tool, target, method, body) ==
  [tool |-> tool, target |-> target, method |-> method,
   path |-> IF tool = "mcp_call" THEN "/mcp" ELSE "/other",
   body |-> body, message |-> "absent", nested |-> {}, traits |-> {}, destructive |-> FALSE]

HttpPlan(tool, target, method, body, metadata) ==
  [campaign |-> "own", steps |-> <<Probe(tool, target, method, body)>>, risk |-> 0,
   oracle_ids |-> {"http_status"}, metadata |-> metadata]

\* The counter of the upstream is read before and after the call.
McpDenialPlan(targets, nested) ==
  LET hits == Probe("upstream_counter", targets["upstream"], "GET", "absent")
      call == [Probe("mcp_call", targets["mcp_gateway"], "POST", "absent")
                 EXCEPT !.message = "denial", !.nested = nested]
  IN [campaign |-> "own", steps |-> <<hits, call, hits>>, risk |-> 1,
      oracle_ids |-> {"http_status", "upstream_zero"}, metadata |-> "denial"]

ReachabilityPlan(targets) ==
  [campaign |-> "own",
   steps |-> <<[Probe("tcp_probe", targets["core_grpc"], "default", "absent")
                  EXCEPT !.path = "default"]>>,
   risk |-> 0, oracle_ids |-> {"reachability"}, metadata |-> "diagnostic"]

SmokePlans(targets) ==
  <<ReachabilityPlan(targets),
    HttpPlan("http_request", targets["core_rest"], "GET", "absent", "diagnostic"),
    HttpPlan("http_request", targets["agent_api"], "GET", "absent", "rejection"),
    HttpPlan("mcp_call", targets["mcp_gateway"], "POST", "malformed", "rejection"),
    McpDenialPlan(targets, {}),
    McpDenialPlan(targets, {[key |-> "both", to |-> Callback[targets["upstream"]]]})>>

FullPlans(targets) ==
  SmokePlans(targets) \o
  <<HttpPlan("http_request", targets["otlp"], "POST", "other", "diagnostic"),
    HttpPlan("mcp_call", targets["mcp_gateway"], "POST", "other", "diagnostic"),
    McpDenialPlan(targets, {})>>

PlansForProfile(profile, targets) ==
  IF profile = "smoke" THEN SmokePlans(targets) ELSE FullPlans(targets)
=============================================================================
