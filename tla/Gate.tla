-------------------------------- MODULE Gate --------------------------------
(***************************************************************************)
(* The safety gate: which steps may be sent, which of them need the        *)
(* operator's authorization, and what the adapters then send.              *)
(*                                                                         *)
(* A target is a spelling.  Two spellings may name one origin, and a host  *)
(* is what a spelling resolves to; one that cannot be parsed has no host.  *)
(* A spelling may go on after its origin, with a path and a query: the     *)
(* gate never looks at this base of it, and the adapters send it.          *)
(***************************************************************************)
EXTENDS Naturals, Sequences, FiniteSets

CONSTANTS
  Spelling,    \* the targets and destinations plans may be written with
  Host,
  OriginOf,    \* canonical_target: scheme, host and port
  BaseOf,      \* the path, without a slash at its end, and the query of a spelling
  HostOf,      \* the host of a spelling, or NoHost
  NoHost,
  Loopback,    \* the hosts every address of which is loopback
  Private,     \* the IP literals that are private or link-local
  OracleName,  \* the oracles plans may name
  Metadata     \* the metadata plans may carry, by name

ASSUME AddressAssumption ==
  /\ HostOf \in [Spelling -> Host \cup {NoHost}]
  /\ DOMAIN OriginOf = Spelling /\ DOMAIN BaseOf = Spelling
  /\ NoHost \notin Host
  /\ Loopback \subseteq Host
  /\ Private \subseteq Host

ReadOnly == {"GET", "HEAD", "OPTIONS"}
Verbs == ReadOnly \cup {"POST", "PUT", "PATCH", "DELETE"}
HttpTools == {"http_request", "mcp_call", "upstream_counter"}

\* A payload argument: no such key, null, an empty string or container, text
\* that is no JSON, the one synthetic tools/call that must be denied, and
\* anything else.
Payload == {"absent", "null", "blank", "empty", "malformed", "denial", "other"}

\* A key that both the gate and the agents' validation take for a destination,
\* or only one of them; the destination under it.
Nested ==
  [key : {"both", "gate", "agents"}, to : Spelling \cup {"/path", "bare"}]

Step ==
  [tool        : HttpTools \cup {"tcp_probe", "unknown"},
   target      : Spelling,
   method      : Verbs \cup {"default"},
   path        : {"default", "/mcp", "/other", "absolute"},
   body        : Payload,
   message     : Payload,
   nested      : SUBSET Nested,
   traits      : SUBSET {"credential", "executable", "oversized", "slow"},
   destructive : BOOLEAN]

\* Risk counts safe, elevated, destructive; the contract a plan is judged by is
\* its oracles and its metadata.
Plan ==
  [campaign   : {"own", "other"},
   steps      : Seq(Step) \ {<<>>},
   risk       : 0..2,
   oracle_ids : (SUBSET OracleName) \ {{}},
   metadata   : Metadata]

\* RuntimeConfig, and the tokens found in the environment.
Config ==
  [tools        : SUBSET (HttpTools \cup {"tcp_probe"}),
   methods      : SUBSET Verbs,
   allowed      : SUBSET Spelling,
   remote       : BOOLEAN,
   hosts        : SUBSET Host,
   max_steps    : Nat,
   remote_token : BOOLEAN]

Elements(s) == {s[i] : i \in DOMAIN s}

----------------------------------------------------------------------------
(* Effects, inferred from what the adapters do and not from labels.        *)

EffectiveMethod(step) ==
  IF step.method = "default"
  THEN IF step.tool = "mcp_call" THEN "POST" ELSE "GET"
  ELSE step.method

MessageFirst(step) ==                               \* mutant: the other key wins
  IF step.message = "absent" THEN step.body ELSE step.message

\* arguments.get("body", arguments.get("message"))
Document(step) == IF step.body = "absent" THEN step.message ELSE step.body

SafeSyntheticPost(step) ==
  /\ step.tool = "mcp_call"
  /\ step.path \in {"default", "/mcp"}
  /\ Document(step) \in {"blank", "malformed", "denial"}

CarriesPayload(step) ==
  \E kind \in {step.body, step.message} : kind \notin {"absent", "null", "blank", "empty"}

StepNeedsAuthorization(step) ==
  \/ step.destructive
  \/ /\ step.tool \in HttpTools
     /\ IF EffectiveMethod(step) \in ReadOnly
        THEN CarriesPayload(step)
        ELSE ~(EffectiveMethod(step) = "POST" /\ SafeSyntheticPost(step))

PlanNeedsAuthorization(plan) ==
  \/ plan.risk = 2
  \/ \E step \in Elements(plan.steps) : StepNeedsAuthorization(step)

\* What an adapter puts on the wire, and where: "path" is what it appends to the
\* base of the target.  mcp_call supplies a method, a path and a document of its
\* own, the others send only what "body" says.
Sent(step) ==
  [origin   |-> OriginOf[step.target],
   base     |-> BaseOf[step.target],
   method   |-> IF step.method # "default" THEN step.method
                ELSE IF step.tool = "mcp_call" THEN "POST" ELSE "GET",
   path     |-> IF step.tool = "mcp_call" /\ step.path = "default" THEN "/mcp" ELSE step.path,
   document |-> IF step.tool = "mcp_call" /\ step.body = "absent"
                THEN IF step.message = "absent" THEN "empty" ELSE step.message
                ELSE step.body]

----------------------------------------------------------------------------
(* Where a step may go.                                                    *)

IsRemote(target) == HostOf[target] \notin Loopback

TargetAuthorized(target, config) ==
  /\ HostOf[target] # NoHost
  /\ IsRemote(target) => config.remote /\ HostOf[target] \in Private \cap config.hosts

AllowedAsSpelled(target, config) ==                 \* mutant: text is compared
  target \in config.allowed

TargetAllowed(target, config) ==
  OriginOf[target] \in {OriginOf[t] : t \in config.allowed}

DestinationPasses(to, config) ==
  \/ to = "/path"
  \/ to \in Spelling /\ TargetAuthorized(to, config) /\ TargetAllowed(to, config)

\* validate_step.  Where it says no by raising, no other exception is told apart:
\* a bracketed host that urlsplit cannot read, or a port that is no number, raises
\* ValueError, which is no SafetyViolation, and ends run_once with an error.
StepPasses(step, config) ==
  /\ step.tool \in config.tools
  /\ TargetAuthorized(step.target, config)
  /\ IsRemote(step.target) => config.remote_token
  /\ TargetAllowed(step.target, config)
  /\ step.traits \subseteq {"executable"}
  /\ step.tool \in HttpTools =>
       EffectiveMethod(step) \in config.methods /\ step.path # "absolute"
  /\ \A nested \in step.nested :
       nested.key # "agents" => DestinationPasses(nested.to, config)

----------------------------------------------------------------------------
(* The operator's authorization: none, or a snapshot and a token.          *)

Authorization == [snapshot : {"none", "blank", "named"}, token : BOOLEAN]
NoAuthorization == [snapshot |-> "none", token |-> FALSE]

\* The token of the environment is the only one the program ever passes on.
AuthorizationValid(authorization) ==
  /\ authorization.snapshot = "named"
  /\ authorization.token

\* validate_plan: what refuses the plan, if anything.
Refusal(plan, authorization, config) ==
  IF Len(plan.steps) > config.max_steps THEN "steps"
  ELSE IF \E step \in Elements(plan.steps) : ~StepPasses(step, config) THEN "step"
  ELSE IF PlanNeedsAuthorization(plan) /\ ~AuthorizationValid(authorization)
       THEN "authorization"
  ELSE "none"
=============================================================================
