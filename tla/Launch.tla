------------------------------- MODULE Launch -------------------------------
(***************************************************************************)
(* run_once up to its verdicts: what is checked before anything is sent.   *)
(*                                                                         *)
(* The settings are admitted, the fixed plans chosen, the agents vary some *)
(* of them, the whole campaign is authorized once, and then the gate       *)
(* validates every plan again just before it would run.  The daemon calls  *)
(* the same function with no plan, snapshot or acknowledgement to give.    *)
(***************************************************************************)
EXTENDS Pipeline, Catalog

CONSTANTS
  Labs,          \* the settings files
  CustomPlans    \* the lists of plans an operator may pass, <<>> among them

Profiles == {"smoke", "full", "destructive", "remote-lab"}

\* LabSettings: explicit is runtime.safety.allowed_targets as written.
Lab ==
  [profile   : Profiles,
   targets   : [Listeners -> Spelling],
   explicit  : SUBSET Spelling,
   tools     : (SUBSET (HttpTools \cup {"tcp_probe"})) \ {{}},
   methods   : SUBSET Verbs,
   remote    : BOOLEAN,
   hosts     : SUBSET Host,
   max_steps : Nat \ {0},
   max_plans : Nat \ {0},
   per_cycle : Nat \ {0}]

ASSUME LaunchAssumption ==
  /\ Labs \subseteq Lab
  /\ CustomPlans \subseteq Seq(Plan)

VARIABLES
  driver,          \* "run" (an operator) or "daemon"
  lab,             \* the settings, with their defaults filled in
  phase,           \* how far the cycle is
  fixed,           \* the plans the cycle starts with
  authorization,   \* what _authorization returned
  refusals         \* what the gate said of each plan so far

launchVars == <<driver, lab, phase, fixed, authorization, refusals>>
vars == <<routingVars, pipelineVars, launchVars>>

Values(function) == {function[x] : x \in DOMAIN function}

\* The allowlist is compared with the targets as both are written.
Loads(settings) ==
  LET targets == Values(settings.targets) IN
  /\ settings.hosts # {} => settings.remote
  /\ \A target \in targets : TargetAuthorized(target, settings)
  /\ settings.explicit \subseteq targets

ConfigOf(settings, token) ==
  [tools |-> settings.tools, methods |-> settings.methods,
   allowed |-> IF settings.explicit = {} THEN Values(settings.targets) ELSE settings.explicit,
   remote |-> settings.remote, hosts |-> settings.hosts,
   max_steps |-> settings.max_steps, remote_token |-> token]

Init ==
  /\ PipelineInit
  /\ driver \in {"run", "daemon"}
  /\ lab \in {settings \in Labs : Loads(settings)}
  /\ \E token \in BOOLEAN : config = ConfigOf(lab, token)
  /\ maxRisk = IF lab.profile = "destructive" THEN 2 ELSE 1
  /\ phase = "admission"
  /\ fixed = <<>>
  /\ authorization = NoAuthorization
  /\ refusals = <<>>

----------------------------------------------------------------------------

RemoteTargets == {target \in Values(lab.targets) : IsRemote(target)}

DaemonAdmits ==
  driver = "daemon" => lab.profile \notin {"destructive", "remote-lab"} /\ RemoteTargets = {}

\* _remote_lab_authorization; nothing to acknowledge when all is local.
RemoteLabAuthorized(acknowledged, run_id) ==
  RemoteTargets # {} =>
    lab.profile = "remote-lab" /\ acknowledged /\ run_id /\ config.remote_token

Refuse ==
  /\ phase' = "refused"
  /\ UNCHANGED <<routingVars, pipelineVars, driver, lab, fixed, authorization, refusals>>

Admit ==
  /\ phase = "admission"
  /\ \E acknowledged, run_id \in IF driver = "run" THEN BOOLEAN ELSE {FALSE} :
       IF DaemonAdmits /\ RemoteLabAuthorized(acknowledged, run_id)
       THEN /\ phase' = "catalog"
            /\ UNCHANGED <<routingVars, pipelineVars, driver, lab, fixed, authorization, refusals>>
       ELSE Refuse

Minimum(set) == CHOOSE n \in set : \A k \in set : n <= k

\* Attacks are varied before the diagnostics, within the room left for plans.
SeedsOf(plans, agentic) ==
  LET diagnostics == {i \in DOMAIN plans : Diagnostic(plans[i].metadata)}
      ordered == Selection(plans, DOMAIN plans \ diagnostics) \o Selection(plans, diagnostics)
      requested == Minimum({lab.per_cycle, lab.max_plans - Len(plans), Len(plans)})
  IN IF agentic THEN SubSeq(ordered, 1, requested) ELSE <<>>

ChoosePlans ==
  /\ phase = "catalog"
  /\ \E custom \in IF driver = "run" THEN CustomPlans ELSE {<<>>} :
       LET chosen == IF custom = <<>> THEN PlansForProfile(lab.profile, lab.targets) ELSE custom IN
       IF (lab.profile = "destructive" /\ custom = <<>>) \/ Len(chosen) > lab.max_plans
       THEN Refuse
       ELSE /\ phase' = "agents"
            /\ fixed' = chosen
            /\ \E agentic \in BOOLEAN : seeds' = SeedsOf(chosen, agentic)
            /\ candidate' = IF seeds' = <<>> THEN {} ELSE seeds'[1]
            /\ UNCHANGED <<routingVars, config, maxRisk, seed, stage, variations, errors,
                           driver, lab, authorization, refusals>>

Agents ==
  /\ phase = "agents"
  /\ Vary
  /\ UNCHANGED launchVars

Plans == fixed \o [n \in DOMAIN variations |-> variations[n].plan]

LabelledDestructive ==                              \* mutant: labels believed
  lab.profile = "destructive" \/ \E plan \in Elements(Plans) : plan.risk = 2

CampaignNeedsAuthorization ==
  \/ lab.profile = "destructive"
  \/ \E plan \in Elements(Plans) : PlanNeedsAuthorization(plan)

\* One authorization for the whole campaign, its token from the environment.
Authorize ==
  /\ phase = "agents"
  /\ seed > Len(seeds)
  /\ IF ~CampaignNeedsAuthorization
     THEN /\ phase' = "plans"
          /\ UNCHANGED <<routingVars, pipelineVars, driver, lab, fixed, authorization, refusals>>
     ELSE \E given \in Authorization :
            /\ driver = "daemon" => given.snapshot = "none"
            /\ IF AuthorizationValid(given)
               THEN /\ phase' = "plans"
                    /\ authorization' = given
                    /\ UNCHANGED <<routingVars, pipelineVars, driver, lab, fixed, refusals>>
               ELSE Refuse

\* Every plan meets the gate again, as the first thing its execution does.
ValidateNext ==
  /\ phase = "plans"
  /\ Len(refusals) < Len(Plans)
  /\ refusals' = Append(refusals, Refusal(Plans[Len(refusals) + 1], authorization, config))
  /\ UNCHANGED <<routingVars, pipelineVars, driver, lab, phase, fixed, authorization>>

Ended ==
  /\ phase = "refused" \/ (phase = "plans" /\ Len(refusals) = Len(Plans))
  /\ UNCHANGED vars

Next == Admit \/ ChoosePlans \/ Agents \/ Authorize \/ ValidateNext \/ Ended

Spec == Init /\ [][Next]_vars

----------------------------------------------------------------------------
(* What is settled before anything is sent.                                *)

\* Type invariant of a launch: every seed is counted once, as a variation or as
\* an error, and the gate has spoken of a prefix of the plans.
TypeOK ==
  /\ RoutingTypeOK
  /\ phase \in {"admission", "catalog", "agents", "plans", "refused"}
  /\ config \in Config
  /\ seeds \in Seq(Plan) /\ fixed \in Seq(Plan)
  /\ seed \in 1..Len(seeds) + 1
  /\ stage \in 1..Boundary
  /\ variations \in Seq([seed : 1..Len(seeds), plan : Plan])
  /\ errors \in SUBSET (1..Len(seeds))
  /\ Len(variations) + Cardinality(errors) = seed - 1
  /\ authorization \in Authorization
  /\ refusals \in Seq({"none", "steps", "step", "authorization"})

\* Whatever six untrusted answers in a row did to it, a variation acts on the
\* targets of the seed it started from and is judged by that seed's contract.
VariationsKeepTheirSeed ==
  \A v \in Elements(variations) :
    /\ v.plan.oracle_ids = seeds[v.seed].oracle_ids
    /\ v.plan.metadata = seeds[v.seed].metadata
    /\ {step.target : step \in Elements(v.plan.steps)}
         \subseteq {step.target : step \in Elements(seeds[v.seed].steps)}

\* _authorization is asked for the whole campaign and its failure aborts the
\* cycle: no agent brings that about, only the profile or a fixed plan does.
AgentsNeverStopTheCycle ==
  CampaignNeedsAuthorization =>
    \/ lab.profile = "destructive"
    \/ \E plan \in Elements(fixed) : PlanNeedsAuthorization(plan)

\* What _authorization decides of the campaign settles every plan of it: the
\* gate, which classifies each again, never misses an authorization, and the
\* daemon never comes to a plan that needs one.
AuthorizationIsSettled ==
  phase = "plans" =>
    /\ "authorization" \notin Elements(refusals)
    /\ driver = "daemon" => \A plan \in Elements(Plans) : ~PlanNeedsAuthorization(plan)

\* A request of a kind that passes for harmless.  It says nothing of the base:
\* under one, the POST goes to a path that only ends in /mcp.
AsClassified(request) ==
  \/ request.method \in ReadOnly /\ request.document \in {"absent", "null", "blank", "empty"}
  \/ /\ request.method = "POST" /\ request.path = "/mcp"
     /\ request.document \in {"blank", "malformed", "denial"}

\* What _load_plans and the catalog name as targets, as far as the wire shows it.
Named(origin, base) ==
  \E plan \in Elements(fixed) : \E given \in Elements(plan.steps) :
    Sent(given).origin = origin /\ Sent(given).base = base

\* The gate infers effects from the arguments, the adapter makes a request of
\* them, with its own defaults: what passes without an authorization has, on the
\* wire, the method, the document and the step's own path of a read or of the
\* synthetic call that must be denied.  The base before that path is nothing the
\* gate classifies; it is one that the catalog or the operator named with this
\* origin, in the plans of the agents too.
SentAsClassified ==
  \A n \in DOMAIN refusals : refusals[n] = "none" =>
    \A step \in Elements(Plans[n].steps) : step.tool \in HttpTools =>
      /\ authorization = NoAuthorization => AsClassified(Sent(step))
      /\ Named(Sent(step).origin, Sent(step).base)

\* Settings under which nothing of the catalog is left out on purpose.
Unrestricted ==
  /\ Values(lab.targets) \subseteq config.allowed
  /\ {"GET", "POST"} \subseteq config.methods
  /\ HttpTools \cup {"tcp_probe"} \subseteq config.tools
  /\ config.max_steps >= 3

\* The curated plans, callback URL included, pass the gate of every lab that
\* gets as far as running them; otherwise a smoke test would refuse itself.
CatalogPassesItsGate ==
  phase = "plans" /\ Unrestricted /\ fixed = PlansForProfile(lab.profile, lab.targets) =>
    \A n \in DOMAIN refusals : n <= Len(fixed) => refusals[n] = "none"
=============================================================================
