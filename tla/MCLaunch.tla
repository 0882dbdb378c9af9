------------------------------ MODULE MCLaunch ------------------------------
(***************************************************************************)
(* Small instances of Launch: a local and a remote laboratory, the         *)
(* profiles, and plans that keep within a seed or break one limit each.    *)
(***************************************************************************)
EXTENDS Launch

Local ==
  [core_rest |-> "rest", core_grpc |-> "grpc", agent_api |-> "agent",
   mcp_gateway |-> "mcp", otlp |-> "otlp", upstream |-> "up"]

Remote ==
  [core_rest |-> "r-rest", core_grpc |-> "r-grpc", agent_api |-> "r-agent",
   mcp_gateway |-> "r-mcp", otlp |-> "r-otlp", upstream |-> "r-up"]

\* "mcp/" is "mcp" with a slash, "mcp/v1" and "up/cb" have a path, "dns" is a name.
MCSpelling ==
  Values(Local) \cup Values(Remote)
    \cup {"mcp/", "mcp/v1", "up/cb", "r-up/cb", "dns", "junk"}

MCOrigin ==
  [s \in MCSpelling |->
     CASE s \in {"mcp/", "mcp/v1"} -> "mcp" [] s = "up/cb" -> "up" [] s = "r-up/cb" -> "r-up" [] OTHER -> s]

MCBase ==
  [s \in MCSpelling |->
     CASE s = "mcp/v1" -> "/v1" [] s \in {"up/cb", "r-up/cb"} -> "/cb" [] OTHER -> ""]

MCHost ==
  [s \in MCSpelling |->
     CASE s \in Values(Remote) \cup {"r-up/cb"} -> "192.168.56.20"
       [] s = "dns" -> "example" [] s = "junk" -> "nowhere" [] OTHER -> "127.0.0.1"]

MCCallback ==
  [s \in MCSpelling |-> CASE s = "up" -> "up/cb" [] s = "r-up" -> "r-up/cb" [] OTHER -> s]

----------------------------------------------------------------------------

Smoke ==
  [profile |-> "smoke", targets |-> Local, explicit |-> {},
   tools |-> HttpTools \cup {"tcp_probe"}, methods |-> ReadOnly \cup {"POST"},
   remote |-> FALSE, hosts |-> {}, max_steps |-> 3, max_plans |-> 10, per_cycle |-> 3]

InLab(lab0) == [lab0 EXCEPT !.targets = Remote, !.remote = TRUE, !.hosts = {"192.168.56.20"}]

\* The shipped settings, then narrower ones, then ones that must not load.
MCLabs ==
  {[Smoke EXCEPT !.explicit = Values(Local)],
   [Smoke EXCEPT !.max_plans = 8],
   [Smoke EXCEPT !.profile = "full", !.per_cycle = 1],
   [Smoke EXCEPT !.profile = "full", !.max_plans = 8],
   [Smoke EXCEPT !.profile = "destructive", !.methods = Verbs, !.per_cycle = 2],
   [InLab(Smoke) EXCEPT !.profile = "remote-lab", !.methods = Verbs, !.per_cycle = 1],
   InLab(Smoke),
   [Smoke EXCEPT !.explicit = {"mcp", "up"}, !.per_cycle = 1],
   [Smoke EXCEPT !.targets.mcp_gateway = "mcp/v1", !.per_cycle = 1],
   [Smoke EXCEPT !.explicit = {"mcp/"}],
   [Smoke EXCEPT !.targets = Remote],
   [Smoke EXCEPT !.hosts = {"192.168.56.20"}]}

----------------------------------------------------------------------------

MCRoster == <<"codex", "claude", "gemini">>

\* Two of the three share the first roles; the others have no route.
PairRoles ==
  [codex |-> {"recon", "planner", "critic"}, claude |-> {"recon", "planner", "critic"},
   gemini |-> {}]

PlanOf(steps) ==
  [campaign |-> "own", steps |-> steps, risk |-> 1, oracle_ids |-> {"http_status"},
   metadata |-> "lenient"]

Hits == Probe("upstream_counter", "up", "default", "absent")
Get(target) == Probe("http_request", target, "GET", "absent")
Deny == [Probe("mcp_call", "mcp", "default", "absent") EXCEPT !.message = "denial"]
Toward(key, to) == [Deny EXCEPT !.nested = {[key |-> key, to |-> to]}]

Faithful ==
  {PlanOf(<<Get("agent")>>), PlanOf(<<Get("r-agent")>>),
   PlanOf(<<Probe("mcp_call", "mcp", "POST", "malformed")>>),
   PlanOf(<<Hits, Deny>>), PlanOf(<<[Deny EXCEPT !.target = "mcp/v1"]>>),
   PlanOf(<<Hits, Toward("both", "up/cb"), Hits>>),
   PlanOf(<<Toward("gate", "dns")>>)}

\* The last of them are what only the destructive profile lets through.
Breaking ==
  {[PlanOf(<<Deny>>) EXCEPT !.campaign = "other"],
   [PlanOf(<<Deny>>) EXCEPT !.oracle_ids = {"homemade"}],
   PlanOf(<<Deny, Deny, Deny, Deny>>),
   PlanOf(<<[Deny EXCEPT !.tool = "unknown"]>>),
   PlanOf(<<Get("dns")>>), PlanOf(<<Get("mcp/")>>), PlanOf(<<Get("rest")>>),
   PlanOf(<<[Deny EXCEPT !.traits = {"slow"}]>>),
   PlanOf(<<[Deny EXCEPT !.traits = {"executable"}]>>),
   PlanOf(<<Toward("both", "bare")>>), PlanOf(<<Toward("agents", "up/cb")>>),
   [PlanOf(<<Deny>>) EXCEPT !.risk = 2],
   PlanOf(<<[Deny EXCEPT !.body = "other"]>>),
   PlanOf(<<Probe("http_request", "agent", "DELETE", "absent")>>)}

MCAgentPlan == Faithful \cup Breaking

MCCustomPlans ==
  {<<>>,
   <<PlanOf(<<Get("mcp/")>>), PlanOf(<<Get("dns")>>)>>,
   <<PlanOf(<<[Deny EXCEPT !.body = "other"]>>)>>,
   <<PlanOf(<<[Deny EXCEPT !.target = "mcp/v1"]>>)>>,
   <<PlanOf(<<[Deny EXCEPT !.traits = {"credential"}]>>),
     PlanOf(<<Deny, Deny, Deny, Deny>>)>>,
   <<[PlanOf(<<Probe("mcp_call", "mcp", "PUT", "blank")>>) EXCEPT !.metadata = "diagnostic"],
     PlanOf(<<Toward("gate", "/path"), Get("agent")>>)>>}
=============================================================================
