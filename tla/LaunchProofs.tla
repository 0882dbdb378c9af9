---------------------------- MODULE LaunchProofs ----------------------------
(***************************************************************************)
(* Proofs about Launch: for every laboratory, every plan of an operator    *)
(* and every answer of a provider, what is settled before anything is      *)
(* sent.                                                                   *)
(*                                                                         *)
(* The seeds are any plans: how they are ordered and how many they are     *)
(* does not matter to what these theorems say of the variations.           *)
(***************************************************************************)
EXTENDS Launch, SelectionProofs

USE AddressAssumption, CallbackAssumption, ContractAssumption, PipelineAssumption, LaunchAssumption

----------------------------------------------------------------------------
(* The gate.                                                               *)

\* What a refusal, or its absence, says of the plan.
LEMMA RefusalMeans ==
  ASSUME NEW plan, NEW given, NEW settings
  PROVE  /\ Refusal(plan, given, settings) \in {"none", "steps", "step", "authorization"}
         /\ Refusal(plan, given, settings) = "authorization" =>
              PlanNeedsAuthorization(plan) /\ ~AuthorizationValid(given)
         /\ Refusal(plan, given, settings) = "none" /\ PlanNeedsAuthorization(plan) =>
              AuthorizationValid(given)
BY DEF Refusal

\* A step that needs no authorization is a read or the synthetic call, once the
\* adapter has filled in its defaults.
LEMMA HarmlessAsClassified ==
  ASSUME NEW step \in Step, step.tool \in HttpTools, ~StepNeedsAuthorization(step)
  PROVE  AsClassified(Sent(step))
<1> DEFINE request == Sent(step)
<1>1. /\ request.method = EffectiveMethod(step)
      /\ request.document = IF step.tool = "mcp_call" /\ step.body = "absent"
                            THEN IF step.message = "absent" THEN "empty" ELSE step.message
                            ELSE step.body
      /\ request.path = IF step.tool = "mcp_call" /\ step.path = "default"
                        THEN "/mcp" ELSE step.path
  BY DEF Sent, EffectiveMethod
<1>2. CASE EffectiveMethod(step) \in ReadOnly
  <2>1. step.body \in {"absent", "null", "blank", "empty"}
        /\ step.message \in {"absent", "null", "blank", "empty"}
    BY <1>2 DEF StepNeedsAuthorization, CarriesPayload
  <2> QED
    BY <1>1, <1>2, <2>1 DEF AsClassified
<1>3. CASE EffectiveMethod(step) \notin ReadOnly
  <2>1. EffectiveMethod(step) = "POST" /\ SafeSyntheticPost(step)
    BY <1>3 DEF StepNeedsAuthorization
  <2>2. request.method = "POST" /\ request.path = "/mcp"
    BY <1>1, <2>1 DEF SafeSyntheticPost
  <2>3. request.document \in {"blank", "malformed", "denial"}
    BY <1>1, <2>1 DEF SafeSyntheticPost, Document
  <2> QED
    BY <2>2, <2>3 DEF AsClassified
<1> QED
  BY <1>2, <1>3

----------------------------------------------------------------------------
(* The catalog.                                                            *)

\* The steps of the curated plans are steps.
LEMMA ProbeTyped ==
  ASSUME NEW tool \in HttpTools \cup {"tcp_probe"}, NEW target \in Spelling,
         NEW method \in Verbs \cup {"default"}, NEW body \in Payload
  PROVE  Probe(tool, target, method, body) \in Step
<1>1. (IF tool = "mcp_call" THEN "/mcp" ELSE "/other") \in {"default", "/mcp", "/other", "absolute"}
  OBVIOUS
<1>2. "absent" \in Payload
  BY DEF Payload
<1> QED
  BY <1>1, <1>2 DEF Probe, Step

\* A plan of one curated request is a plan.
LEMMA HttpPlanTyped ==
  ASSUME NEW tool \in HttpTools, NEW target \in Spelling,
         NEW method \in Verbs, NEW body \in Payload, NEW metadata \in Metadata
  PROVE  HttpPlan(tool, target, method, body, metadata) \in Plan
<1>1. <<Probe(tool, target, method, body)>> \in Seq(Step) \ {<<>>}
  BY ProbeTyped
<1>2. {"http_status"} \in (SUBSET OracleName) \ {{}}
  BY ContractAssumption
<1> QED
  BY <1>1, <1>2 DEF HttpPlan, Plan

\* So is the plan of the denied call, with a callback or without.
LEMMA McpDenialPlanTyped ==
  ASSUME NEW targets \in [Listeners -> Spelling], NEW nested \in SUBSET Nested
  PROVE  McpDenialPlan(targets, nested) \in Plan
<1> DEFINE hits == Probe("upstream_counter", targets["upstream"], "GET", "absent")
           base == Probe("mcp_call", targets["mcp_gateway"], "POST", "absent")
           call == [base EXCEPT !.message = "denial", !.nested = nested]
<1>1. targets["upstream"] \in Spelling /\ targets["mcp_gateway"] \in Spelling
  BY DEF Listeners
<1>2. hits \in Step /\ base \in Step
  BY <1>1, ProbeTyped DEF HttpTools, Verbs, ReadOnly, Payload
<1>3. call \in Step
  <2> HIDE DEF base
  <2> QED
    BY <1>2 DEF Step, Payload
<1> HIDE DEF hits, call
<1>4. <<hits, call, hits>> \in Seq(Step) \ {<<>>}
  BY <1>2, <1>3
<1>5. McpDenialPlan(targets, nested) =
        [campaign |-> "own", steps |-> <<hits, call, hits>>, risk |-> 1,
         oracle_ids |-> {"http_status", "upstream_zero"}, metadata |-> "denial"]
  BY DEF McpDenialPlan, hits, call
<1>6. {"http_status", "upstream_zero"} \in (SUBSET OracleName) \ {{}}
  BY ContractAssumption
<1> QED
  BY <1>4, <1>5, <1>6 DEF Plan

\* And so are the plans of every profile.
LEMMA CatalogTyped ==
  ASSUME NEW targets \in [Listeners -> Spelling], NEW profile
  PROVE  SmokePlans(targets) \in Seq(Plan) /\ PlansForProfile(profile, targets) \in Seq(Plan)
<1>1. \A listener \in Listeners : targets[listener] \in Spelling
  OBVIOUS
<1>2. ReachabilityPlan(targets) \in Plan
  <2> DEFINE base == Probe("tcp_probe", targets["core_grpc"], "default", "absent")
             step == [base EXCEPT !.path = "default"]
  <2>1. base \in Step
    BY <1>1, ProbeTyped DEF Payload, Listeners
  <2>2. step \in Step
    <3> HIDE DEF base
    <3> QED
      BY <2>1 DEF Step
  <2>3. ReachabilityPlan(targets) =
          [campaign |-> "own", steps |-> <<step>>, risk |-> 0,
           oracle_ids |-> {"reachability"}, metadata |-> "diagnostic"]
    BY DEF ReachabilityPlan
  <2> HIDE DEF step
  <2>4. <<step>> \in Seq(Step) \ {<<>>}
    BY <2>2
  <2>5. {"reachability"} \in (SUBSET OracleName) \ {{}}
    BY ContractAssumption
  <2> QED
    BY <2>3, <2>4, <2>5 DEF Plan
<1>3. \A tool \in HttpTools, listener \in Listeners, method \in Verbs, body \in Payload,
         metadata \in Metadata :
        HttpPlan(tool, targets[listener], method, body, metadata) \in Plan
  BY <1>1, HttpPlanTyped
<1>4. McpDenialPlan(targets, {}) \in Plan
  BY McpDenialPlanTyped
<1>5. McpDenialPlan(targets, {[key |-> "both", to |-> Callback[targets["upstream"]]]}) \in Plan
  <2>1. {[key |-> "both", to |-> Callback[targets["upstream"]]]} \in SUBSET Nested
    BY <1>1 DEF Nested, Listeners
  <2> QED
    BY <2>1, McpDenialPlanTyped
<1>6. SmokePlans(targets) \in Seq(Plan)
  <2>1. /\ HttpPlan("http_request", targets["core_rest"], "GET", "absent", "diagnostic") \in Plan
        /\ HttpPlan("http_request", targets["agent_api"], "GET", "absent", "rejection") \in Plan
        /\ HttpPlan("mcp_call", targets["mcp_gateway"], "POST", "malformed", "rejection") \in Plan
    BY <1>3, ContractAssumption DEF HttpTools, Listeners, Verbs, ReadOnly, Payload
  <2> QED
    BY <1>2, <2>1, <1>4, <1>5 DEF SmokePlans
<1>7. FullPlans(targets) \in Seq(Plan)
  <2>1. /\ HttpPlan("http_request", targets["otlp"], "POST", "other", "diagnostic") \in Plan
        /\ HttpPlan("mcp_call", targets["mcp_gateway"], "POST", "other", "diagnostic") \in Plan
    BY <1>3, ContractAssumption DEF HttpTools, Listeners, Verbs, ReadOnly, Payload
  <2> QED
    BY <1>4, <1>6, <2>1 DEF FullPlans
<1> QED
  BY <1>6, <1>7 DEF PlansForProfile

----------------------------------------------------------------------------
(* The invariant.                                                          *)

PhaseInv ==
  /\ driver \in {"run", "daemon"}
  /\ lab \in Lab
  /\ maxRisk = IF lab.profile = "destructive" THEN 2 ELSE 1
  /\ phase \in {"admission", "catalog", "agents", "plans", "refused"}
  /\ fixed \in Seq(Plan)
  /\ stage \in 1..Boundary
  /\ phase \in {"admission", "catalog"} => variations = <<>> /\ stage = 1

\* What a stage accepted is within the limits of the seed at hand.
CandidateInv ==
  stage > 1 => candidate \in Plan /\ Accepts(candidate)

KeepsItsSeed(v) ==
  /\ v.plan.oracle_ids = seeds[v.seed].oracle_ids
  /\ v.plan.metadata = seeds[v.seed].metadata
  /\ {step.target : step \in Elements(v.plan.steps)}
       \subseteq {step.target : step \in Elements(seeds[v.seed].steps)}

\* Variations are typed as far as their contract, which is the seed's.
VariationInv ==
  /\ \E S : variations \in Seq(S)
  /\ \A n \in DOMAIN variations :
       /\ KeepsItsSeed(variations[n])
       /\ variations[n].plan.steps \in Seq(Step)
       /\ PlanNeedsAuthorization(variations[n].plan) => maxRisk = 2

\* The gate has judged a prefix of the plans, under what was authorized.
GateInv ==
  /\ refusals \in Seq({"none", "steps", "step", "authorization"})
  /\ phase # "plans" => refusals = <<>>
  /\ Len(refusals) <= Len(Plans)
  /\ \A n \in DOMAIN refusals : refusals[n] = Refusal(Plans[n], authorization, config)

SettledInv ==
  phase = "plans" /\ CampaignNeedsAuthorization =>
    AuthorizationValid(authorization) /\ driver = "run"

LaunchInv == PhaseInv /\ CandidateInv /\ VariationInv /\ GateInv /\ SettledInv

----------------------------------------------------------------------------
(* The variations of one step.                                             *)

\* An accepted plan of the agents, bound to the contract of its seed, keeps the
\* seed's contract and targets, and needs an authorization only in the
\* destructive profile.
LEMMA BoundKeepsTheSeed ==
  ASSUME NEW plan \in Plan, Accepts(plan), maxRisk \in {1, 2}
  PROVE  LET v == [seed |-> seed, plan |-> Bound(plan, seeds[seed])] IN
         /\ KeepsItsSeed(v)
         /\ v.plan.steps \in Seq(Step)
         /\ PlanNeedsAuthorization(v.plan) => maxRisk = 2
<1> DEFINE v == [seed |-> seed, plan |-> Bound(plan, seeds[seed])]
<1>1. /\ v.seed = seed
      /\ v.plan.steps = plan.steps
      /\ v.plan.risk = plan.risk
      /\ v.plan.oracle_ids = seeds[seed].oracle_ids
      /\ v.plan.metadata = seeds[seed].metadata
  BY DEF Bound, Plan
<1> HIDE DEF v
<1>2. plan.steps \in Seq(Step) /\ plan.risk \in 0..2
  BY DEF Plan
<1>3. \A step \in Elements(plan.steps) : StepWithinLimits(step)
  BY DEF Accepts
<1>4. KeepsItsSeed(v)
  BY <1>1, <1>3 DEF KeepsItsSeed, StepWithinLimits, AllowedTargets
<1>5. PlanNeedsAuthorization(v.plan) => maxRisk = 2
  <2>1. plan.risk = 2 => maxRisk = 2
    BY <1>2 DEF Accepts
  <2>2. \A step \in Elements(plan.steps) : StepNeedsAuthorization(step) => maxRisk = 2
    BY <1>3 DEF StepWithinLimits
  <2> QED
    BY <1>1, <2>1, <2>2 DEF PlanNeedsAuthorization
<1> QED
  BY <1>1, <1>2, <1>4, <1>5 DEF v

\* One more element, of whatever type, in a sequence of whatever type.
LEMMA AppendAnything ==
  ASSUME NEW s, \E S : s \in Seq(S), NEW e
  PROVE  /\ \E S : Append(s, e) \in Seq(S)
         /\ DOMAIN Append(s, e) = DOMAIN s \cup {Len(s) + 1}
         /\ \A n \in DOMAIN s : Append(s, e)[n] = s[n]
         /\ Append(s, e)[Len(s) + 1] = e
<1>1. PICK S : s \in Seq(S)
  OBVIOUS
<1>2. s \in Seq(S \cup {e}) /\ e \in S \cup {e}
  BY <1>1
<1>3. /\ Append(s, e) \in Seq(S \cup {e})
      /\ Len(Append(s, e)) = Len(s) + 1
      /\ \A n \in 1..Len(s) : Append(s, e)[n] = s[n]
      /\ Append(s, e)[Len(s) + 1] = e
  BY <1>2, AppendProperties
<1>4. Len(s) \in Nat /\ DOMAIN s = 1..Len(s)
      /\ DOMAIN Append(s, e) = 1..Len(Append(s, e))
  BY <1>2, <1>3
<1> QED
  BY <1>3, <1>4

\* The plans of a cycle are the fixed ones and then the variations.
LEMMA PlansAre ==
  ASSUME NEW f \in Seq(Plan), NEW w, \E S : w \in Seq(S)
  PROVE  LET both == f \o [n \in DOMAIN w |-> w[n].plan] IN
         /\ Len(both) = Len(f) + Len(w)
         /\ Len(both) \in Nat
         /\ DOMAIN both = 1..Len(both)
         /\ \A n \in DOMAIN f : n \in DOMAIN both /\ both[n] = f[n]
         /\ \A n \in DOMAIN both :
              n \notin DOMAIN f =>
                /\ n - Len(f) \in DOMAIN w
                /\ both[n] = w[n - Len(f)].plan
<1> DEFINE varied == [n \in DOMAIN w |-> w[n].plan]
           both == f \o varied
<1>1. PICK S : w \in Seq(S)
  OBVIOUS
<1>2. Len(w) \in Nat /\ DOMAIN w = 1..Len(w)
  BY <1>1
<1>3. varied \in Seq({w[n].plan : n \in DOMAIN w})
      /\ Len(varied) = Len(w) /\ DOMAIN varied = DOMAIN w
  BY <1>2
<1> DEFINE All == Plan \cup {w[n].plan : n \in DOMAIN w}
<1>4. f \in Seq(All) /\ varied \in Seq(All)
  BY <1>3
<1>5. \A n \in DOMAIN w : varied[n] = w[n].plan
  OBVIOUS
<1> HIDE DEF varied, All, both
<1>6. /\ f \o varied \in Seq(All)
      /\ Len(f \o varied) = Len(f) + Len(varied)
      /\ \A n \in 1..(Len(f) + Len(varied)) :
           (f \o varied)[n] = IF n <= Len(f) THEN f[n] ELSE varied[n - Len(f)]
  BY <1>4, ConcatProperties
<1>7. both = f \o varied
  BY DEF both, varied
<1>8. Len(f) \in Nat /\ DOMAIN f = 1..Len(f)
  OBVIOUS
<1>9. DOMAIN both = 1..Len(both) /\ Len(both) = Len(f) + Len(w)
  BY <1>3, <1>6, <1>7
<1>10. \A n \in DOMAIN f : n \in DOMAIN both /\ both[n] = f[n]
  BY <1>2, <1>3, <1>6, <1>7, <1>8, <1>9
<1>11. ASSUME NEW n \in DOMAIN both, n \notin DOMAIN f
       PROVE  n - Len(f) \in DOMAIN w
              /\ both[n] = w[n - Len(f)].plan
  <2>1. n \in Nat /\ n > Len(f) /\ n <= Len(f) + Len(w)
    BY <1>2, <1>8, <1>9, <1>11
  <2>2. n - Len(f) \in DOMAIN w
    BY <1>2, <1>8, <2>1
  <2>3. both[n] = varied[n - Len(f)]
    BY <1>2, <1>3, <1>6, <1>7, <1>8, <2>1
  <2> QED
    BY <1>5, <2>2, <2>3
<1> QED
  BY <1>2, <1>8, <1>9, <1>10, <1>11 DEF both, varied

----------------------------------------------------------------------------
(* What a step leaves alone.                                               *)

\* A step that changes neither the candidate plan nor its seed leaves what
\* validate_agent_plan has established about it.
LEMMA CandidateKept ==
  ASSUME CandidateInv, UNCHANGED <<config, maxRisk, seeds, seed, stage, candidate>>
  PROVE  CandidateInv'
BY DEF CandidateInv, Accepts, StepWithinLimits, AllowedTargets, ArgumentsWithinReach,
       DestinationWithinReach

\* The variations already returned by _agentic_variations stay within their seeds
\* when no plan is added to them.
LEMMA VariationsKept ==
  ASSUME VariationInv, UNCHANGED <<variations, seeds, maxRisk>>
  PROVE  VariationInv'
BY DEF VariationInv, KeepsItsSeed

\* Before the gate has spoken there is nothing to keep.
LEMMA GateSilent ==
  ASSUME PhaseInv', VariationInv', refusals' = <<>>
  PROVE  GateInv'
<1>1. fixed' \in Seq(Plan) /\ \E S : variations' \in Seq(S)
  BY DEF PhaseInv, VariationInv
<1>2. Len(Plans') \in Nat
  BY <1>1, PlansAre DEF Plans
<1>3. refusals' \in Seq({"none", "steps", "step", "authorization"})
      /\ Len(refusals') = 0 /\ DOMAIN refusals' = {}
  OBVIOUS
<1> QED
  BY <1>2, <1>3 DEF GateInv

\* A step that only moves the phase, before the gate has spoken.
LEMMA PhaseMoves ==
  ASSUME LaunchInv, phase' \in {"catalog", "refused"}, phase # "plans",
         phase' = "catalog" => phase = "admission",
         UNCHANGED <<routingVars, pipelineVars, driver, lab, fixed, authorization, refusals>>
  PROVE  LaunchInv'
<1>1. PhaseInv'
  BY DEF LaunchInv, PhaseInv, pipelineVars
<1>2. CandidateInv'
  BY CandidateKept DEF LaunchInv, pipelineVars
<1>3. VariationInv'
  BY VariationsKept DEF LaunchInv, pipelineVars
<1>4. GateInv'
  <2>1. refusals' = <<>>
    BY DEF LaunchInv, GateInv
  <2> QED
    BY <1>1, <1>3, <2>1, GateSilent
<1>5. SettledInv'
  BY DEF SettledInv
<1> QED
  BY <1>1, <1>2, <1>3, <1>4, <1>5 DEF LaunchInv

----------------------------------------------------------------------------
(* The invariant holds.                                                    *)

\* A cycle begins with its invariant: nothing chosen, proposed, or validated.
LEMMA LaunchInvInit == Init => LaunchInv
<1> SUFFICES ASSUME Init PROVE LaunchInv
  OBVIOUS
<1>1. PhaseInv
  BY LaunchAssumption DEF Init, PipelineInit, PhaseInv, Boundary, Stages
<1>2. CandidateInv
  BY DEF Init, PipelineInit, CandidateInv
<1>3. VariationInv
  <2>1. variations = <<>> /\ variations \in Seq({})
    BY DEF Init, PipelineInit
  <2>2. DOMAIN variations = {}
    BY <2>1
  <2> QED
    BY <2>1, <2>2 DEF VariationInv
<1>4. GateInv
  <2>1. refusals = <<>>
    BY DEF Init
  <2>2. fixed \in Seq(Plan) /\ \E S : variations \in Seq(S)
    BY <1>1, <1>3 DEF PhaseInv, VariationInv
  <2>3. Len(Plans) \in Nat
    BY <2>2, PlansAre DEF Plans
  <2>4. refusals \in Seq({"none", "steps", "step", "authorization"})
        /\ Len(refusals) = 0 /\ DOMAIN refusals = {}
    BY <2>1
  <2> QED
    BY <2>1, <2>3, <2>4 DEF GateInv
<1>5. SettledInv
  BY DEF Init, SettledInv
<1> QED
  BY <1>1, <1>2, <1>3, <1>4, <1>5 DEF LaunchInv

\* Loading the settings (run_once's first checks) keeps the invariant.
LEMMA AdmitKeeps ==
  ASSUME LaunchInv, Admit
  PROVE  LaunchInv'
BY PhaseMoves DEF Admit, Refuse

\* Choosing the catalog or the custom plans, and the seeds the agents are given,
\* keeps the invariant.
LEMMA ChoosePlansKeeps ==
  ASSUME LaunchInv, ChoosePlans
  PROVE  LaunchInv'
<1>1. CASE Refuse
  BY <1>1, PhaseMoves DEF ChoosePlans, Refuse
<1>2. CASE ~Refuse
  <2>1. PICK custom \in CustomPlans \cup {<<>>} :
          LET chosen == IF custom = <<>> THEN PlansForProfile(lab.profile, lab.targets)
                        ELSE custom
          IN  phase' = "agents" /\ fixed' = chosen
    BY <1>2 DEF ChoosePlans
  <2>2. /\ phase = "catalog"
        /\ UNCHANGED <<routingVars, config, maxRisk, seed, stage, variations, errors,
                       driver, lab, authorization, refusals>>
    BY <1>2 DEF ChoosePlans
  <2>3. variations = <<>> /\ stage = 1
    BY <2>2 DEF LaunchInv, PhaseInv
  <2>4. PhaseInv'
    <3>1. lab.targets \in [Listeners -> Spelling]
      BY DEF LaunchInv, PhaseInv, Lab
    <3>2. fixed' \in Seq(Plan)
      BY <2>1, <3>1, CatalogTyped, LaunchAssumption
    <3> QED
      BY <2>1, <2>2, <3>2 DEF LaunchInv, PhaseInv
  <2>5. CandidateInv'
    BY <2>2, <2>3 DEF CandidateInv
  <2>6. VariationInv'
    <3>1. variations' = <<>> /\ variations' \in Seq({}) /\ DOMAIN variations' = {}
      BY <2>2, <2>3
    <3> QED
      BY <3>1 DEF VariationInv
  <2>7. GateInv'
    <3>1. refusals' = <<>>
      BY <2>2 DEF LaunchInv, GateInv
    <3> QED
      BY <2>4, <2>6, <3>1, GateSilent
  <2>8. SettledInv'
    BY <2>1 DEF SettledInv
  <2> QED
    BY <2>4, <2>5, <2>6, <2>7, <2>8 DEF LaunchInv
<1> QED
  BY <1>1, <1>2

\* The agents are done with a seed, with a variation of it or without.
LEMMA NextSeedKeeps ==
  ASSUME LaunchInv, phase = "agents", NextSeed, VariationInv', UNCHANGED launchVars
  PROVE  LaunchInv'
<1>1. stage' = 1 /\ UNCHANGED <<config, maxRisk, seeds>>
  BY DEF NextSeed
<1>2. PhaseInv'
  BY <1>1 DEF LaunchInv, PhaseInv, launchVars, Boundary, Stages
<1>3. CandidateInv'
  BY <1>1 DEF CandidateInv
<1>4. GateInv'
  <2>1. refusals' = <<>>
    BY DEF LaunchInv, GateInv, launchVars
  <2> QED
    BY <1>2, <2>1, GateSilent
<1>5. SettledInv'
  BY DEF SettledInv, launchVars
<1> QED
  BY <1>2, <1>3, <1>4, <1>5 DEF LaunchInv

\* A proposal that validate_agent_plan accepted becomes a candidate within its
\* seed.
LEMMA ProposeKeeps ==
  ASSUME LaunchInv, phase = "agents", Propose, UNCHANGED launchVars
  PROVE  LaunchInv'
<1>1. PICK plan \in AgentPlan : Accepts(plan) /\ candidate' = plan /\ stage' = stage + 1
  BY DEF Propose
<1>2. stage < Boundary /\ UNCHANGED <<config, maxRisk, seeds, seed, variations, errors>>
  BY DEF Propose
<1>3. PhaseInv'
  BY <1>1, <1>2 DEF LaunchInv, PhaseInv, launchVars, Boundary, Stages
<1>4. CandidateInv'
  <2>1. Accepts(plan)' <=> Accepts(plan)
    BY <1>2 DEF Accepts, StepWithinLimits, AllowedTargets, ArgumentsWithinReach,
                DestinationWithinReach
  <2> QED
    BY <1>1, <2>1, PipelineAssumption DEF CandidateInv
<1>5. VariationInv'
  BY <1>2, VariationsKept DEF LaunchInv
<1>6. GateInv'
  <2>1. refusals' = <<>>
    BY DEF LaunchInv, GateInv, launchVars
  <2> QED
    BY <1>3, <1>5, <2>1, GateSilent
<1>7. SettledInv'
  BY DEF SettledInv, launchVars
<1> QED
  BY <1>3, <1>4, <1>5, <1>6, <1>7 DEF LaunchInv

\* Every way a stage of the agents can go, an exception of a provider included,
\* keeps the invariant.
LEMMA AgentsKeep ==
  ASSUME LaunchInv, Agents
  PROVE  LaunchInv'
<1>1. phase = "agents" /\ UNCHANGED launchVars
  BY DEF Agents
<1>2. CASE Propose
  BY <1>1, <1>2, ProposeKeeps
<1>3. CASE ProposalFails
  <2>1. NextSeed /\ UNCHANGED variations
    BY <1>3 DEF ProposalFails
  <2>2. VariationInv'
    BY <2>1, VariationsKept DEF LaunchInv, NextSeed
  <2> QED
    BY <1>1, <2>1, <2>2, NextSeedKeeps
<1>4. CASE Boundaried
  <2> DEFINE v == [seed |-> seed, plan |-> Bound(candidate, seeds[seed])]
  <2>1. stage = Boundary /\ variations' = Append(variations, v) /\ NextSeed
    BY <1>4 DEF Boundaried
  <2>2. candidate \in Plan /\ Accepts(candidate)
    BY <2>1 DEF LaunchInv, CandidateInv, Boundary, Stages
  <2>3. maxRisk \in {1, 2}
    BY DEF LaunchInv, PhaseInv
  <2>4. /\ KeepsItsSeed(v)
        /\ v.plan.steps \in Seq(Step)
        /\ PlanNeedsAuthorization(v.plan) => maxRisk = 2
    BY <2>2, <2>3, BoundKeepsTheSeed
  <2>5. UNCHANGED <<seeds, maxRisk>>
    BY <2>1 DEF NextSeed
  <2> HIDE DEF v
  <2>6. VariationInv'
    <3>1. /\ \E S : variations \in Seq(S)
          /\ \A n \in DOMAIN variations :
               /\ KeepsItsSeed(variations[n])
               /\ variations[n].plan.steps \in Seq(Step)
               /\ PlanNeedsAuthorization(variations[n].plan) => maxRisk = 2
      BY DEF LaunchInv, VariationInv
    <3>2. /\ \E S : variations' \in Seq(S)
          /\ DOMAIN variations' = DOMAIN variations \cup {Len(variations) + 1}
          /\ \A n \in DOMAIN variations : variations'[n] = variations[n]
          /\ variations'[Len(variations) + 1] = v
      <4>1. \E S : variations \in Seq(S)
        BY <3>1
      <4>2. /\ \E S : Append(variations, v) \in Seq(S)
            /\ DOMAIN Append(variations, v) = DOMAIN variations \cup {Len(variations) + 1}
            /\ \A n \in DOMAIN variations : Append(variations, v)[n] = variations[n]
            /\ Append(variations, v)[Len(variations) + 1] = v
        BY <4>1, AppendAnything
      <4> QED
        BY <2>1, <4>2
    <3>3. ASSUME NEW n \in DOMAIN variations'
          PROVE  variations'[n] = v \/ (n \in DOMAIN variations /\ variations'[n] = variations[n])
      BY <3>2
    <3>4. ASSUME NEW w PROVE KeepsItsSeed(w)' <=> KeepsItsSeed(w)
      BY <2>5 DEF KeepsItsSeed
    <3>5. ASSUME NEW n \in DOMAIN variations'
          PROVE  /\ KeepsItsSeed(variations[n])'
                 /\ variations'[n].plan.steps \in Seq(Step)
                 /\ PlanNeedsAuthorization(variations'[n].plan) => maxRisk' = 2
      BY <2>4, <2>5, <3>1, <3>3 DEF KeepsItsSeed
    <3> QED
      BY <3>2, <3>5 DEF VariationInv
  <2> QED
    BY <1>1, <2>1, <2>6, NextSeedKeeps
<1> QED
  BY <1>2, <1>3, <1>4 DEF Agents, Vary

\* _authorization, which refuses the cycle or hands out what its plans need,
\* keeps the invariant.
LEMMA AuthorizeKeeps ==
  ASSUME LaunchInv, Authorize
  PROVE  LaunchInv'
<1>1. phase = "agents"
  BY DEF Authorize
<1>2. CASE Refuse
  BY <1>1, <1>2, PhaseMoves DEF Refuse
<1>3. CASE ~Refuse
  <2>1. /\ phase' = "plans"
        /\ UNCHANGED <<routingVars, pipelineVars, driver, lab, fixed, refusals>>
    BY <1>3 DEF Authorize
  <2>2. PhaseInv'
    BY <2>1 DEF LaunchInv, PhaseInv, pipelineVars
  <2>3. CandidateInv'
    BY <2>1, CandidateKept DEF LaunchInv, pipelineVars
  <2>4. VariationInv'
    BY <2>1, VariationsKept DEF LaunchInv, pipelineVars
  <2>5. GateInv'
    <3>1. refusals' = <<>>
      BY <1>1, <2>1 DEF LaunchInv, GateInv
    <3> QED
      BY <2>2, <2>4, <3>1, GateSilent
  <2>6. SettledInv'
    <3>1. CampaignNeedsAuthorization' <=> CampaignNeedsAuthorization
      BY <2>1 DEF CampaignNeedsAuthorization, Plans, pipelineVars
    <3>2. CampaignNeedsAuthorization =>
            AuthorizationValid(authorization') /\ driver # "daemon"
      BY <1>3 DEF Authorize, AuthorizationValid
    <3>3. driver' = driver /\ driver \in {"run", "daemon"}
      BY <2>1 DEF LaunchInv, PhaseInv
    <3> QED
      BY <3>1, <3>2, <3>3 DEF SettledInv, AuthorizationValid
  <2> QED
    BY <2>2, <2>3, <2>4, <2>5, <2>6 DEF LaunchInv
<1> QED
  BY <1>2, <1>3

\* validate_plan's answer about the next plan is what the authorization at hand
\* makes it.
LEMMA ValidateNextKeeps ==
  ASSUME LaunchInv, ValidateNext
  PROVE  LaunchInv'
<1> DEFINE n0 == Len(refusals) + 1
           said == Refusal(Plans[n0], authorization, config)
<1>1. /\ phase = "plans" /\ Len(refusals) < Len(Plans)
      /\ refusals' = Append(refusals, said)
      /\ UNCHANGED <<routingVars, pipelineVars, driver, lab, phase, fixed, authorization>>
  BY DEF ValidateNext
<1> HIDE DEF said
<1>2. PhaseInv'
  BY <1>1 DEF LaunchInv, PhaseInv, pipelineVars
<1>3. CandidateInv'
  BY <1>1, CandidateKept DEF LaunchInv, pipelineVars
<1>4. VariationInv'
  BY <1>1, VariationsKept DEF LaunchInv, pipelineVars
<1>5. Plans' = Plans /\ config' = config
  BY <1>1 DEF Plans, pipelineVars
<1>6. GateInv'
  <2>1. Len(Plans) \in Nat
    BY PlansAre DEF Plans, LaunchInv, PhaseInv, VariationInv
  <2>2. said \in {"none", "steps", "step", "authorization"}
    BY RefusalMeans DEF said
  <2>3. refusals \in Seq({"none", "steps", "step", "authorization"})
    BY DEF LaunchInv, GateInv
  <2>4. /\ refusals' \in Seq({"none", "steps", "step", "authorization"})
        /\ Len(refusals') = Len(refusals) + 1
        /\ Len(refusals) \in Nat
        /\ DOMAIN refusals' = DOMAIN refusals \cup {n0}
        /\ \A n \in DOMAIN refusals : refusals'[n] = refusals[n]
        /\ refusals'[n0] = said
    BY <1>1, <2>2, <2>3
  <2>5. \A n \in DOMAIN refusals' : refusals'[n] = Refusal(Plans[n], authorization, config)
    BY <2>4 DEF LaunchInv, GateInv, said
  <2> QED
    BY <1>1, <1>5, <2>1, <2>4, <2>5 DEF GateInv
<1>7. SettledInv'
  BY <1>1, <1>5 DEF LaunchInv, SettledInv, CampaignNeedsAuthorization
<1> QED
  BY <1>2, <1>3, <1>4, <1>6, <1>7 DEF LaunchInv

\* A step that changes nothing keeps the invariant, its primed form included.
LEMMA StutterKeeps ==
  ASSUME LaunchInv, UNCHANGED vars
  PROVE  LaunchInv'
<1>1. UNCHANGED <<pipelineVars, launchVars>>
  BY DEF vars
<1>2. PhaseInv'
  BY <1>1 DEF LaunchInv, PhaseInv, pipelineVars, launchVars
<1>3. CandidateInv'
  BY <1>1, CandidateKept DEF LaunchInv, pipelineVars
<1>4. VariationInv'
  BY <1>1, VariationsKept DEF LaunchInv, pipelineVars
<1>5. Plans' = Plans
  BY <1>1 DEF Plans, pipelineVars, launchVars
<1>6. GateInv'
  BY <1>1, <1>5 DEF LaunchInv, GateInv, pipelineVars, launchVars
<1>7. SettledInv'
  BY <1>1, <1>5 DEF LaunchInv, SettledInv, CampaignNeedsAuthorization, launchVars
<1> QED
  BY <1>2, <1>3, <1>4, <1>6, <1>7 DEF LaunchInv

\* The inductive invariant holds in every state of run_once up to its verdicts:
\* candidates and variations are within their seeds, and each answer of the gate
\* is the one its plan and the authorization make.
THEOREM LaunchInvariant == Spec => []LaunchInv
<1>1. LaunchInv /\ [Next]_vars => LaunchInv'
  BY AdmitKeeps, ChoosePlansKeeps, AgentsKeep, AuthorizeKeeps, ValidateNextKeeps,
     StutterKeeps DEF Next, Ended
<1> QED
  BY <1>1, LaunchInvInit, PTL DEF Spec

----------------------------------------------------------------------------
(* What it means.                                                          *)

\* VariationsKeepTheirSeed, whatever the providers answer and however many seeds
\* there are.
THEOREM SeedsKept == Spec => []VariationsKeepTheirSeed
<1>1. ASSUME LaunchInv, NEW v \in Elements(variations)
      PROVE  KeepsItsSeed(v)
  BY <1>1 DEF LaunchInv, VariationInv, Elements
<1>2. LaunchInv => VariationsKeepTheirSeed
  BY <1>1 DEF VariationsKeepTheirSeed, KeepsItsSeed
<1> QED
  BY <1>2, LaunchInvariant, PTL

\* A plan of the cycle is a fixed one or a variation.
LEMMA PlanOfTheCycle ==
  ASSUME LaunchInv, NEW n \in DOMAIN Plans
  PROVE  \/ Plans[n] \in Elements(fixed) /\ Plans[n] \in Plan
         \/ \E k \in DOMAIN variations : Plans[n] = variations[k].plan
<1>1. fixed \in Seq(Plan) /\ \E S : variations \in Seq(S)
  BY DEF LaunchInv, PhaseInv, VariationInv
<1>2. CASE n \in DOMAIN fixed
  <2>1. Plans[n] = fixed[n]
    BY <1>1, <1>2, PlansAre DEF Plans
  <2> QED
    BY <1>1, <1>2, <2>1 DEF Elements
<1>3. CASE n \notin DOMAIN fixed
  <2>1. n - Len(fixed) \in DOMAIN variations
        /\ Plans[n] = variations[n - Len(fixed)].plan
    BY <1>1, <1>3, PlansAre DEF Plans
  <2> QED
    BY <2>1
<1> QED
  BY <1>2, <1>3

\* AgentsNeverStopTheCycle.
THEOREM OnlyFixedPlansStopTheCycle == Spec => []AgentsNeverStopTheCycle
<1>1. ASSUME LaunchInv, CampaignNeedsAuthorization, lab.profile # "destructive"
      PROVE  \E plan \in Elements(fixed) : PlanNeedsAuthorization(plan)
  <2>1. PICK n \in DOMAIN Plans : PlanNeedsAuthorization(Plans[n])
    BY <1>1 DEF CampaignNeedsAuthorization, Elements
  <2>2. ASSUME NEW k \in DOMAIN variations, Plans[n] = variations[k].plan
        PROVE  FALSE
    BY <1>1, <2>1, <2>2 DEF LaunchInv, VariationInv, PhaseInv
  <2> QED
    BY <1>1, <2>1, <2>2, PlanOfTheCycle
<1>2. LaunchInv => AgentsNeverStopTheCycle
  BY <1>1 DEF AgentsNeverStopTheCycle
<1> QED
  BY <1>2, LaunchInvariant, PTL

\* What the gate has said, it said of a plan of the cycle.
LEMMA Judged ==
  ASSUME LaunchInv, NEW n \in DOMAIN refusals
  PROVE  n \in DOMAIN Plans /\ refusals[n] = Refusal(Plans[n], authorization, config)
<1>1. Len(Plans) \in Nat /\ DOMAIN Plans = 1..Len(Plans)
  BY PlansAre DEF Plans, LaunchInv, PhaseInv, VariationInv
<1>2. DOMAIN refusals = 1..Len(refusals) /\ Len(refusals) \in Nat
      /\ Len(refusals) <= Len(Plans)
  BY DEF LaunchInv, GateInv
<1> QED
  BY <1>1, <1>2 DEF LaunchInv, GateInv

\* It never says that an authorization is missing.
LEMMA NeverUnauthorized ==
  ASSUME LaunchInv, phase = "plans", NEW n \in DOMAIN refusals
  PROVE  refusals[n] # "authorization"
<1>1. n \in DOMAIN Plans /\ refusals[n] = Refusal(Plans[n], authorization, config)
  BY Judged
<1>2. PlanNeedsAuthorization(Plans[n]) => AuthorizationValid(authorization)
  BY <1>1 DEF LaunchInv, SettledInv, CampaignNeedsAuthorization, Elements
<1> QED
  BY <1>1, <1>2, RefusalMeans

\* AuthorizationIsSettled: what was decided once for the campaign is what the
\* gate decides plan by plan.
THEOREM AuthorizationSettlesAll == Spec => []AuthorizationIsSettled
<1>1. ASSUME LaunchInv, phase = "plans", driver = "daemon"
      PROVE  \A plan \in Elements(Plans) : ~PlanNeedsAuthorization(plan)
  BY <1>1 DEF LaunchInv, SettledInv, CampaignNeedsAuthorization
<1>2. LaunchInv => AuthorizationIsSettled
  BY <1>1, NeverUnauthorized DEF AuthorizationIsSettled, Elements
<1> QED
  BY <1>2, LaunchInvariant, PTL

----------------------------------------------------------------------------
(* The curated plans.                                                      *)

\* What a cycle that was admitted knows of its settings.
AdmittedInv ==
  /\ lab \in Lab
  /\ Loads(lab)
  /\ \E token \in BOOLEAN : config = ConfigOf(lab, token)
  /\ phase \in {"catalog", "agents", "plans"} /\ RemoteTargets # {} => config.remote_token

\* A cycle past its settings has settings that load, the ones of its laboratory.
LEMMA AdmittedInvariant == Spec => []AdmittedInv
<1>1. Init => AdmittedInv
  BY LaunchAssumption DEF Init, AdmittedInv
<1>2. ASSUME AdmittedInv, [Next]_vars
      PROVE  AdmittedInv'
  <2>1. UNCHANGED <<lab, config>>
    BY <1>2 DEF Next, Admit, Refuse, ChoosePlans, Agents, Vary, Propose, ProposalFails,
                Boundaried, NextSeed, Authorize, ValidateNext, Ended, vars, pipelineVars,
                launchVars
  <2>2. RemoteTargets' = RemoteTargets
    BY <2>1 DEF RemoteTargets
  <2>3. ASSUME phase' \in {"catalog", "agents", "plans"}, RemoteTargets # {}
        PROVE  config.remote_token
    <3>1. CASE phase \in {"catalog", "agents", "plans"}
      BY <1>2, <2>3, <3>1 DEF AdmittedInv
    <3>2. CASE phase \notin {"catalog", "agents", "plans"}
      <4>1. Admit /\ phase' # "refused"
        BY <1>2, <2>3, <3>2 DEF Next, Admit, Refuse, ChoosePlans, Agents, Authorize,
                ValidateNext, Ended, vars, launchVars
      <4> QED
        BY <2>3, <4>1 DEF Admit, Refuse, RemoteLabAuthorized
    <3> QED
      BY <3>1, <3>2
  <2> QED
    BY <1>2, <2>1, <2>2, <2>3 DEF AdmittedInv
<1> QED
  BY <1>1, <1>2, PTL DEF Spec

CuratedTools == HttpTools \cup {"tcp_probe"}

\* A curated target is authorized and allowed, and so is a callback on it.
LEMMA CuratedTargetPasses ==
  ASSUME AdmittedInv, phase = "plans", Unrestricted, NEW listener \in Listeners
  PROVE  LET target == lab.targets[listener] IN
         /\ target \in Spelling
         /\ TargetAuthorized(target, config) /\ TargetAllowed(target, config)
         /\ IsRemote(target) => config.remote_token
         /\ DestinationPasses(Callback[target], config)
<1> DEFINE target == lab.targets[listener]
<1>1. lab.targets \in [Listeners -> Spelling]
  BY DEF AdmittedInv, Lab
<1>2. target \in Values(lab.targets) /\ target \in Spelling
  BY <1>1 DEF Values
<1>3. config.remote = lab.remote /\ config.hosts = lab.hosts
  BY DEF AdmittedInv, ConfigOf
<1> HIDE DEF target
<1>4. TargetAuthorized(target, config)
  BY <1>2, <1>3 DEF AdmittedInv, Loads, TargetAuthorized
<1>5. TargetAllowed(target, config)
  BY <1>2 DEF Unrestricted, TargetAllowed
<1>6. IsRemote(target) => config.remote_token
  BY <1>2 DEF AdmittedInv, RemoteTargets
<1>7. DestinationPasses(Callback[target], config)
  BY <1>2, <1>4, <1>5, CallbackAssumption
     DEF DestinationPasses, TargetAuthorized, TargetAllowed, IsRemote
<1> QED
  BY <1>2, <1>4, <1>5, <1>6, <1>7 DEF target

\* So a curated request passes as a step.
LEMMA CuratedStepPasses ==
  ASSUME AdmittedInv, phase = "plans", Unrestricted,
         NEW listener \in Listeners, NEW step,
         step.target = lab.targets[listener], step.tool \in CuratedTools,
         step.method \in {"GET", "POST"}, step.path # "absolute", step.traits = {},
         \A d \in step.nested : DestinationPasses(d.to, config)
  PROVE  StepPasses(step, config)
<1>1. step.tool \in config.tools /\ step.method \in config.methods
  BY DEF Unrestricted, CuratedTools
<1>2. EffectiveMethod(step) = step.method
  BY DEF EffectiveMethod
<1>3. /\ TargetAuthorized(step.target, config) /\ TargetAllowed(step.target, config)
      /\ IsRemote(step.target) => config.remote_token
  BY CuratedTargetPasses
<1> QED
  BY <1>1, <1>2, <1>3 DEF StepPasses

\* A plan the gate has nothing against but its authorization.
Passes(plan) ==
  /\ Len(plan.steps) <= config.max_steps
  /\ \A step \in Elements(plan.steps) : StepPasses(step, config)

\* Each plan of catalog.py passes validate_plan under settings that load with room
\* for three steps, when nothing it needs is withheld.
LEMMA CuratedPlansPass ==
  ASSUME AdmittedInv, phase = "plans", Unrestricted
  PROVE  \A plan \in Elements(PlansForProfile(lab.profile, lab.targets)) : Passes(plan)
<1>1. config.max_steps >= 3 /\ config.max_steps \in Nat
  BY DEF Unrestricted, AdmittedInv, ConfigOf, Lab
<1>2. Passes(ReachabilityPlan(lab.targets))
  <2> DEFINE base == Probe("tcp_probe", lab.targets["core_grpc"], "default", "absent")
             step == [base EXCEPT !.path = "default"]
  <2>1. step.tool = "tcp_probe" /\ step.target = lab.targets["core_grpc"]
        /\ step.traits = {} /\ step.nested = {}
    BY DEF Probe
  <2>2. ReachabilityPlan(lab.targets).steps = <<step>>
    BY DEF ReachabilityPlan
  <2> HIDE DEF step
  <2>3. StepPasses(step, config)
    <3>1. /\ TargetAuthorized(lab.targets["core_grpc"], config)
          /\ TargetAllowed(lab.targets["core_grpc"], config)
          /\ IsRemote(lab.targets["core_grpc"]) => config.remote_token
      BY CuratedTargetPasses DEF Listeners
    <3>2. "tcp_probe" \in config.tools /\ "tcp_probe" \notin HttpTools
      BY DEF Unrestricted, HttpTools
    <3> QED
      BY <2>1, <3>1, <3>2 DEF StepPasses
  <2> QED
    BY <1>1, <2>2, <2>3 DEF Passes, Elements
<1>3. ASSUME NEW tool \in HttpTools, NEW listener \in Listeners, NEW method \in {"GET", "POST"},
             NEW body, NEW metadata
      PROVE  Passes(HttpPlan(tool, lab.targets[listener], method, body, metadata))
  <2> DEFINE step == Probe(tool, lab.targets[listener], method, body)
  <2>1. HttpPlan(tool, lab.targets[listener], method, body, metadata).steps = <<step>>
    BY DEF HttpPlan
  <2>2. /\ step.target = lab.targets[listener] /\ step.tool = tool /\ step.method = method
        /\ step.path # "absolute" /\ step.traits = {} /\ step.nested = {}
    BY DEF Probe
  <2> HIDE DEF step
  <2>3. StepPasses(step, config)
    BY <2>2, CuratedStepPasses DEF CuratedTools
  <2> QED
    BY <1>1, <2>1, <2>3 DEF Passes, Elements
<1>4. ASSUME NEW nested, \A d \in nested : DestinationPasses(d.to, config)
      PROVE  Passes(McpDenialPlan(lab.targets, nested))
  <2> DEFINE hits == Probe("upstream_counter", lab.targets["upstream"], "GET", "absent")
             base == Probe("mcp_call", lab.targets["mcp_gateway"], "POST", "absent")
             call == [base EXCEPT !.message = "denial", !.nested = nested]
  <2>1. McpDenialPlan(lab.targets, nested).steps = <<hits, call, hits>>
    BY DEF McpDenialPlan
  <2>2. /\ hits.target = lab.targets["upstream"] /\ hits.tool = "upstream_counter"
        /\ hits.method = "GET" /\ hits.path # "absolute" /\ hits.traits = {}
        /\ hits.nested = {}
    BY DEF Probe
  <2>3. /\ call.target = lab.targets["mcp_gateway"] /\ call.tool = "mcp_call"
        /\ call.method = "POST" /\ call.path # "absolute" /\ call.traits = {}
        /\ call.nested = nested
    BY DEF Probe
  <2> HIDE DEF hits, call
  <2>4. StepPasses(hits, config)
    BY <2>2, CuratedStepPasses DEF CuratedTools, HttpTools, Listeners
  <2>5. StepPasses(call, config)
    BY <1>4, <2>3, CuratedStepPasses DEF CuratedTools, HttpTools, Listeners
  <2> QED
    BY <1>1, <2>1, <2>4, <2>5 DEF Passes, Elements
<1>5. Passes(McpDenialPlan(lab.targets, {}))
  BY <1>4
<1>6. Passes(McpDenialPlan(lab.targets,
               {[key |-> "both", to |-> Callback[lab.targets["upstream"]]]}))
  <2>1. DestinationPasses(Callback[lab.targets["upstream"]], config)
    BY CuratedTargetPasses DEF Listeners
  <2> QED
    BY <1>4, <2>1
<1>7. \A plan \in Elements(SmokePlans(lab.targets)) : Passes(plan)
  <2>1. /\ Passes(HttpPlan("http_request", lab.targets["core_rest"], "GET", "absent", "diagnostic"))
        /\ Passes(HttpPlan("http_request", lab.targets["agent_api"], "GET", "absent", "rejection"))
        /\ Passes(HttpPlan("mcp_call", lab.targets["mcp_gateway"], "POST", "malformed", "rejection"))
    BY <1>3 DEF HttpTools, Listeners
  <2> QED
    BY <1>2, <1>5, <1>6, <2>1 DEF SmokePlans, Elements
<1>8. \A plan \in Elements(FullPlans(lab.targets)) : Passes(plan)
  <2>1. /\ Passes(HttpPlan("http_request", lab.targets["otlp"], "POST", "other", "diagnostic"))
        /\ Passes(HttpPlan("mcp_call", lab.targets["mcp_gateway"], "POST", "other", "diagnostic"))
    BY <1>3 DEF HttpTools, Listeners
  <2> DEFINE otlp == HttpPlan("http_request", lab.targets["otlp"], "POST", "other", "diagnostic")
             call == HttpPlan("mcp_call", lab.targets["mcp_gateway"], "POST", "other", "diagnostic")
             deny == McpDenialPlan(lab.targets, {})
             smoke == SmokePlans(lab.targets)
             Good == {plan \in Elements(smoke) \cup {otlp, call, deny} : Passes(plan)}
  <2>2. FullPlans(lab.targets) = smoke \o <<otlp, call, deny>>
    BY DEF FullPlans
  <2>3. Passes(otlp) /\ Passes(call) /\ Passes(deny)
    BY <1>5, <2>1
  <2>4. smoke \in Seq(Plan)
    BY CatalogTyped DEF AdmittedInv, Lab
  <2> HIDE DEF otlp, call, deny, smoke
  <2>5. smoke \in Seq(Elements(smoke))
    BY <2>4 DEF Elements
  <2>6. Elements(smoke) \subseteq Good
    BY <1>7 DEF smoke
  <2>7. smoke \in Seq(Good) /\ <<otlp, call, deny>> \in Seq(Good)
    BY <2>3, <2>5, <2>6
  <2>8. smoke \o <<otlp, call, deny>> \in Seq(Good)
    BY <2>7
  <2> QED
    BY <2>2, <2>8 DEF Elements
<1> QED
  BY <1>7, <1>8 DEF PlansForProfile

\* CatalogPassesItsGate, in every laboratory that loads.
THEOREM CatalogPasses == Spec => []CatalogPassesItsGate
<1>1. ASSUME LaunchInv, AdmittedInv, phase = "plans", Unrestricted,
             fixed = PlansForProfile(lab.profile, lab.targets),
             NEW n \in DOMAIN refusals, n <= Len(fixed)
      PROVE  refusals[n] = "none"
  <2>1. refusals[n] = Refusal(Plans[n], authorization, config)
    BY <1>1 DEF LaunchInv, GateInv
  <2>2. n \in DOMAIN fixed
    <3>1. n \in Nat \ {0}
      BY <1>1 DEF LaunchInv, GateInv
    <3> QED
      BY <1>1, <3>1 DEF LaunchInv, PhaseInv
  <2>3. Plans[n] = fixed[n]
    <3>1. fixed \in Seq(Plan) /\ \E S : variations \in Seq(S)
      BY <1>1 DEF LaunchInv, PhaseInv, VariationInv
    <3> QED
      BY <2>2, <3>1, PlansAre DEF Plans
  <2>4. Passes(Plans[n])
    BY <1>1, <2>2, <2>3, CuratedPlansPass DEF Elements
  <2>5. refusals[n] # "authorization"
    BY <1>1, NeverUnauthorized
  <2>6. Plans[n].steps \in Seq(Step) /\ config.max_steps \in Nat
    <3>1. Plans[n] \in Plan
      BY <1>1, <2>2, <2>3 DEF LaunchInv, PhaseInv
    <3> QED
      BY <1>1, <3>1 DEF Plan, AdmittedInv, ConfigOf, Lab
  <2> QED
    BY <2>1, <2>4, <2>5, <2>6 DEF Refusal, Passes
<1>2. LaunchInv /\ AdmittedInv => CatalogPassesItsGate
  BY <1>1 DEF CatalogPassesItsGate
<1> QED
  BY <1>2, LaunchInvariant, AdmittedInvariant, PTL

----------------------------------------------------------------------------
(* The rotation of the providers.                                          *)

\* A pool of RoutingProvider is never empty and names no provider twice.
LEMMA PoolTyped ==
  ASSUME NEW role \in Role
  PROVE  /\ Pool[role] \in Seq(Providers)
         /\ Len(Pool[role]) \in Nat \ {0}
         /\ \A i, j \in DOMAIN Pool[role] : Pool[role][i] = Pool[role][j] => i = j
<1>1. /\ Roster \in Seq(Providers) /\ Roster # <<>>
      /\ \A i, j \in DOMAIN Roster : Roster[i] = Roster[j] => i = j
  BY RosterAssumption
<1>2. Len(Roster) \in Nat \ {0} /\ DOMAIN Roster = 1..Len(Roster)
  BY <1>1
<1>3. CASE RoutesOf(role) = {}
  BY <1>1, <1>2, <1>3 DEF Pool
<1>4. CASE RoutesOf(role) # {}
  <2> DEFINE pool == Selection(Roster, RoutesOf(role))
  <2>1. Pool[role] = pool
    BY <1>4 DEF Pool
  <2>2. RoutesOf(role) \in SUBSET (1..Len(Roster))
    BY <1>2 DEF RoutesOf
  <2>3. pool \in Seq(Providers) /\ \E at : Places(Roster, RoutesOf(role), pool, at)
    BY <1>1, <2>2, SelectionPlaces
  <2> HIDE DEF pool
  <2>4. Len(pool) \in Nat /\ DOMAIN pool = 1..Len(pool)
    BY <2>3
  <2>5. PICK at : Places(Roster, RoutesOf(role), pool, at)
    BY <2>3
  <2>6. PICK p : p \in RoutesOf(role)
    BY <1>4
  <2>7. \E i \in 1..Len(pool) : at[i] = p
    BY <2>5, <2>6 DEF Places
  <2>8. Len(pool) # 0
    BY <2>4, <2>7
  <2>9. ASSUME NEW i \in 1..Len(pool), NEW j \in 1..Len(pool), pool[i] = pool[j]
        PROVE  i = j
    <3>1. pool[i] = Roster[at[i]] /\ pool[j] = Roster[at[j]]
      BY <2>5 DEF Places
    <3>2. at[i] \in 1..Len(Roster) /\ at[j] \in 1..Len(Roster)
      BY <2>2, <2>5 DEF Places
    <3>3. at[i] = at[j]
      BY <1>1, <1>2, <2>9, <3>1, <3>2
    <3>4. ~(i < j) /\ ~(j < i)
      BY <2>5, <3>2, <3>3 DEF Places
    <3> QED
      BY <2>4, <3>4
  <2> QED
    BY <2>1, <2>3, <2>4, <2>8, <2>9
<1> QED
  BY <1>3, <1>4

\* A turn of the rotation is a place of the pool.
LEMMA Turn ==
  ASSUME NEW n \in Nat, NEW size \in Nat \ {0}
  PROVE  (n % size) + 1 \in 1..size
<1>1. n % size \in 0..size - 1
  OBVIOUS
<1> QED
  BY <1>1

\* A request went to the provider its number and its pool make.
RotationInv ==
  /\ asked \in Seq([role : Role, route : Providers])
  /\ counter = Len(asked)
  /\ \A i \in DOMAIN asked :
       asked[i].route = Pool[asked[i].role][((i - 1) % Len(Pool[asked[i].role])) + 1]

\* RoutingProvider.select, for whatever stage of the agents, keeps the rotation.
LEMMA SelectKeeps ==
  ASSUME RotationInv, NEW role \in Role, Select(role)
  PROVE  RotationInv'
<1> DEFINE request == [role |-> role, route |-> Chosen(role)]
<1>1. counter' = counter + 1 /\ asked' = Append(asked, request)
  BY DEF Select
<1>2. Len(asked) \in Nat /\ DOMAIN asked = 1..Len(asked) /\ counter = Len(asked)
      /\ asked \in Seq([role : Role, route : Providers])
  BY DEF RotationInv
<1>3. Pool[role] \in Seq(Providers) /\ Len(Pool[role]) \in Nat \ {0}
  BY PoolTyped
<1>4. (counter % Len(Pool[role])) + 1 \in 1..Len(Pool[role])
  BY <1>2, <1>3, Turn
<1>5. Chosen(role) \in Providers
  BY <1>3, <1>4 DEF Chosen
<1>6. request \in [role : Role, route : Providers]
      /\ request.role = role /\ request.route = Chosen(role)
  BY <1>5
<1> HIDE DEF request
<1>7. /\ asked' \in Seq([role : Role, route : Providers])
      /\ Len(asked') = Len(asked) + 1
      /\ \A i \in 1..Len(asked) : asked'[i] = asked[i]
      /\ asked'[Len(asked) + 1] = request
  BY <1>1, <1>2, <1>6, AppendProperties
<1>8. DOMAIN asked' = 1..(Len(asked) + 1)
  BY <1>7
<1>9. ASSUME NEW i \in DOMAIN asked'
      PROVE  asked'[i].route = Pool[asked'[i].role][((i - 1) % Len(Pool[asked'[i].role])) + 1]
  <2>1. CASE i \in 1..Len(asked)
    BY <1>2, <1>7, <2>1 DEF RotationInv
  <2>2. CASE i \notin 1..Len(asked)
    <3>1. i = Len(asked) + 1 /\ i - 1 = counter
      BY <1>2, <1>8, <2>2
    <3> QED
      BY <1>6, <1>7, <3>1 DEF Chosen
  <2> QED
    BY <2>1, <2>2
<1>10. counter' = Len(asked')
  BY <1>1, <1>2, <1>7
<1> QED
  BY <1>7, <1>9, <1>10 DEF RotationInv, Pool, RoutesOf

\* The role of a stage that asks a provider.
LEMMA StageRole ==
  ASSUME stage \in 1..Boundary, stage < Boundary
  PROVE  Stages[stage] \in Role
BY PipelineAssumption DEF Stages, Boundary

\* Every request a cycle makes of its providers follows the rotation.
LEMMA RotationInvariant == Spec => []RotationInv
<1>1. Init => RotationInv
  BY DEF Init, PipelineInit, RoutingInit, RotationInv
<1>2. ASSUME LaunchInv, RotationInv, [Next]_vars
      PROVE  RotationInv'
  <2>1. CASE Propose \/ ProposalFails
    <3>1. stage < Boundary /\ Select(Stages[stage])
      BY <2>1 DEF Propose, ProposalFails
    <3>2. Stages[stage] \in Role
      BY <1>2, <3>1, StageRole DEF LaunchInv, PhaseInv
    <3> QED
      BY <1>2, <3>1, <3>2, SelectKeeps
  <2>2. CASE ~(Propose \/ ProposalFails)
    <3>1. UNCHANGED routingVars
      BY <1>2, <2>2 DEF Next, Admit, Refuse, ChoosePlans, Agents, Vary, Boundaried,
                        Authorize, ValidateNext, Ended, vars
    <3> QED
      BY <1>2, <3>1 DEF routingVars, RotationInv, Pool, RoutesOf
  <2> QED
    BY <2>1, <2>2
<1> QED
  BY <1>1, <1>2, LaunchInvariant, PTL DEF Spec

----------------------------------------------------------------------------
(* The fairness of one pool.                                               *)

\* The arithmetic of a counter modulo the size of a pool.
LEMMA Multiple ==
  ASSUME NEW k \in Int, NEW size \in Nat \ {0}, k >= 1
  PROVE  k * size >= size
<1>1. (k - 1) * size >= 0
  OBVIOUS
<1>2. k * size = (k - 1) * size + size
  OBVIOUS
<1> QED
  BY <1>1, <1>2

\* A remainder is determined by its number.
LEMMA QuotientUnique ==
  ASSUME NEW p \in Int, NEW q \in Int, NEW size \in Nat \ {0},
         NEW r \in 0..size - 1, NEW t \in 0..size - 1,
         p * size + r = q * size + t
  PROVE  r = t
<1>1. ASSUME p > q PROVE FALSE
  <2>1. p - q \in Int /\ p - q >= 1
    BY <1>1
  <2>2. (p - q) * size >= size
    BY <2>1, Multiple
  <2>3. (p - q) * size = p * size - q * size
    OBVIOUS
  <2> QED
    BY <2>2, <2>3
<1>2. ASSUME q > p PROVE FALSE
  <2>1. q - p \in Int /\ q - p >= 1
    BY <1>2
  <2>2. (q - p) * size >= size
    BY <2>1, Multiple
  <2>3. (q - p) * size = q * size - p * size
    OBVIOUS
  <2> QED
    BY <2>2, <2>3
<1> QED
  BY <1>1, <1>2

\* Every turn of the counter has a quotient.
LEMMA Remainder ==
  ASSUME NEW n \in Nat, NEW size \in Nat \ {0}
  PROVE  \E q \in Int : n = q * size + (n % size)
<1>1. n \div size \in Int /\ n % size \in Int
  OBVIOUS
<1>2. n = size * (n \div size) + (n % size)
  OBVIOUS
<1>3. size * (n \div size) = (n \div size) * size
  BY <1>1
<1> QED
  BY <1>1, <1>2, <1>3

\* A turn moved from its place of the pool to the place t, some rounds away.
LEMMA Shifted ==
  ASSUME NEW x \in Nat, NEW y \in Nat, NEW size \in Nat \ {0}, NEW t \in 0..size - 1,
         \E k \in Int : y = x + k * size - (x % size) + t
  PROVE  y % size = t
<1>1. PICK k \in Int : y = x + k * size - (x % size) + t
  OBVIOUS
<1>2. PICK q \in Int : x = q * size + (x % size)
  BY Remainder
<1>3. PICK p \in Int : y = p * size + (y % size)
  BY Remainder
<1>4. x % size \in 0..size - 1 /\ y % size \in 0..size - 1
  OBVIOUS
<1>5. (q + k) * size = q * size + k * size
  OBVIOUS
<1>6. q + k \in Int /\ (q + k) * size + t = p * size + (y % size)
  BY <1>1, <1>2, <1>3, <1>4, <1>5
<1> QED
  BY <1>4, <1>6, QuotientUnique

\* Two turns that come to one place are a round or more apart.
LEMMA RoundApart ==
  ASSUME NEW i \in Nat, NEW j \in Nat, NEW size \in Nat \ {0}, i % size = j % size, i < j
  PROVE  j - i >= size
<1>1. PICK p \in Int : i = p * size + (i % size)
  BY Remainder
<1>2. PICK q \in Int : j = q * size + (j % size)
  BY Remainder
<1>3. i % size \in 0..size - 1 /\ j % size \in 0..size - 1
  OBVIOUS
<1>4. j - i = q * size - p * size
  BY <1>1, <1>2, <1>3
<1>5. CASE q >= p + 1
  <2>1. q - p \in Int /\ q - p >= 1
    BY <1>5
  <2>2. (q - p) * size >= size
    BY <2>1, Multiple
  <2>3. (q - p) * size = q * size - p * size
    OBVIOUS
  <2> QED
    BY <1>4, <2>2, <2>3
<1>6. CASE p >= q + 1
  <2>1. p - q \in Int /\ p - q >= 1
    BY <1>6
  <2>2. (p - q) * size >= size
    BY <2>1, Multiple
  <2>3. (p - q) * size = p * size - q * size
    OBVIOUS
  <2> QED
    BY <1>4, <2>2, <2>3
<1>7. CASE p = q
  BY <1>4, <1>7
<1> QED
  BY <1>5, <1>6, <1>7

\* The turns of a window that come to the place s of a pool.
Turns(first, last, size, s) == {i \in first..last : (i - 1) % size = s}

\* Of the turns of a window, two places of a pool get as many, but for one: each
\* turn at s is followed down by one at t, except perhaps the first.
LEMMA TurnsEven ==
  ASSUME NEW first \in Nat \ {0}, NEW last \in Nat, NEW size \in Nat \ {0},
         NEW s \in 0..size - 1, NEW t \in 0..size - 1
  PROVE  Cardinality(Turns(first, last, size, s)) <= Cardinality(Turns(first, last, size, t)) + 1
<1> DEFINE A == Turns(first, last, size, s)
           B == Turns(first, last, size, t)
           k == IF s >= t THEN 0 ELSE -1
           d == IF s >= t THEN s - t ELSE s - t + size
           Late == {i \in A : i - d >= first}
<1>1. d \in 0..size - 1
  OBVIOUS
<1>2. A \in SUBSET (first..last) /\ B \in SUBSET (first..last)
  BY DEF Turns
<1>3. IsFiniteSet(first..last)
  BY FS_Interval
<1>4. IsFiniteSet(A) /\ IsFiniteSet(B) /\ Cardinality(A) \in Nat /\ Cardinality(B) \in Nat
  BY <1>2, <1>3, FS_Subset, FS_CardinalityType
<1>5. ASSUME NEW i \in Late
      PROVE  i - d \in B
  <2>1. i \in first..last /\ (i - 1) % size = s /\ i - d >= first
    BY <1>5 DEF Turns
  <2>2. i \in Nat /\ i - 1 \in Nat /\ (i - d) - 1 \in Nat /\ i - d \in first..last
    BY <1>1, <2>1
  <2>3. k \in Int
    OBVIOUS
  <2>4. (i - d) - 1 = (i - 1) + k * size - s + t
    <3>1. CASE s >= t
      <4>1. k * size = 0 /\ d = s - t
        BY <3>1
      <4> HIDE DEF k, d
      <4> QED
        BY <2>2, <4>1
    <3>2. CASE ~(s >= t)
      <4>1. k * size = 0 - size /\ d = s - t + size
        BY <3>2
      <4> HIDE DEF k, d
      <4> QED
        BY <2>2, <4>1
    <3> QED
      BY <3>1, <3>2
  <2> DEFINE x == i - 1
             y == (i - d) - 1
  <2>5. x \in Nat /\ y \in Nat /\ x % size = s /\ y = x + k * size - s + t
    BY <2>1, <2>2, <2>4
  <2> HIDE DEF k, d, x, y
  <2>6. \E l \in Int : y = x + l * size - (x % size) + t
    BY <2>3, <2>5
  <2>7. y % size = t
    BY <2>5, <2>6, Shifted
  <2> QED
    BY <2>2, <2>7 DEF Turns, y
<1> HIDE DEF d
<1>6. IsFiniteSet(Late) /\ Cardinality(Late) <= Cardinality(B) /\ Cardinality(Late) \in Nat
  <2> DEFINE f == [i \in Late |-> i - d]
  <2>1. f \in [Late -> B]
    BY <1>5
  <2>2. \A i, j \in Late : f[i] = f[j] => i = j
    BY <1>1, <1>2
  <2>3. f \in Injection(Late, B)
    BY <2>1, <2>2 DEF Injection, IsInjective
  <2> HIDE DEF f, Late, B
  <2> QED
    BY <1>4, <2>3, FS_Injection, FS_CardinalityType
<1>7. ASSUME NEW i \in A \ Late, NEW j \in A \ Late
      PROVE  i = j
  <2>1. /\ i \in first..last /\ (i - 1) % size = s /\ ~(i - d >= first)
        /\ j \in first..last /\ (j - 1) % size = s /\ ~(j - d >= first)
    BY <1>7 DEF Turns
  <2>2. i - 1 \in Nat /\ j - 1 \in Nat
    BY <2>1
  <2>3. ASSUME i < j PROVE FALSE
    <3> DEFINE x == i - 1
               y == j - 1
    <3>1. x \in Nat /\ y \in Nat /\ x % size = y % size /\ x < y
      BY <2>1, <2>2, <2>3
    <3> HIDE DEF x, y
    <3>2. y - x >= size
      BY <3>1, RoundApart
    <3>3. j - i >= size
      BY <2>1, <3>2 DEF x, y
    <3> QED
      BY <1>1, <2>1, <3>3
  <2>4. ASSUME j < i PROVE FALSE
    <3> DEFINE x == j - 1
               y == i - 1
    <3>1. x \in Nat /\ y \in Nat /\ x % size = y % size /\ x < y
      BY <2>1, <2>2, <2>4
    <3> HIDE DEF x, y
    <3>2. y - x >= size
      BY <3>1, RoundApart
    <3>3. i - j >= size
      BY <2>1, <3>2 DEF x, y
    <3> QED
      BY <1>1, <2>1, <3>3
  <2> QED
    BY <2>1, <2>3, <2>4
<1> HIDE DEF A, B, Late
<1>8. Cardinality(A) <= Cardinality(B) + 1
  <2>1. CASE A = Late
    BY <1>4, <1>6, <2>1
  <2>2. CASE A # Late
    <3>1. Late \subseteq A
      BY DEF Late
    <3>2. PICK e : e \in A \ Late
      BY <2>2, <3>1
    <3>3. A \in SUBSET (Late \cup {e})
      BY <1>7, <3>2
    <3>4. IsFiniteSet(Late \cup {e})
          /\ Cardinality(Late \cup {e}) = Cardinality(Late) + 1
      BY <1>6, <3>2, FS_AddElement
    <3>5. Cardinality(A) <= Cardinality(Late \cup {e})
      BY <3>3, <3>4, FS_Subset
    <3> QED
      BY <1>4, <1>6, <3>4, <3>5
  <2> QED
    BY <2>1, <2>2
<1> QED
  BY <1>8 DEF A, B

\* InARowIsFair, for every roster, every assignment of roles and every window
\* of requests: RoutingProvider spreads them evenly over the pool they share.
THEOREM PoolsAreFair == Spec => []InARowIsFair
<1>1. ASSUME RotationInv, NEW first \in DOMAIN asked, NEW last \in DOMAIN asked,
             \A i \in first..last : Pool[asked[i].role] = Pool[asked[first].role],
             NEW ka \in DOMAIN Pool[asked[first].role],
             NEW kb \in DOMAIN Pool[asked[first].role]
      PROVE  Share(Pool[asked[first].role][ka], first..last)
               <= Share(Pool[asked[first].role][kb], first..last) + 1
  <2> DEFINE pool == Pool[asked[first].role]
             size == Len(pool)
  <2>1. asked \in Seq([role : Role, route : Providers]) /\ DOMAIN asked = 1..Len(asked)
        /\ Len(asked) \in Nat
    BY <1>1 DEF RotationInv
  <2>2. /\ first \in Nat \ {0} /\ last \in Nat
        /\ \A i \in first..last : i \in DOMAIN asked
    BY <2>1
  <2>3. asked[first].role \in Role
    <3>1. first \in 1..Len(asked)
      BY <2>1
    <3>2. asked[first] \in [role : Role, route : Providers]
      BY <2>1, <3>1, ElementOfSeq
    <3> QED
      BY <3>2
  <2>4. /\ pool \in Seq(Providers) /\ size \in Nat \ {0} /\ DOMAIN pool = 1..size
        /\ \A i, j \in DOMAIN pool : pool[i] = pool[j] => i = j
    BY <2>3, PoolTyped
  <2>5. \A i \in first..last : asked[i].route = pool[((i - 1) % size) + 1]
    BY <1>1, <2>2 DEF RotationInv
  <2>6. ka \in 1..size /\ kb \in 1..size
    BY <2>4
  <2> HIDE DEF pool, size
  <2>7. ASSUME NEW k \in 1..size
        PROVE  Share(pool[k], first..last) = Cardinality(Turns(first, last, size, k - 1))
    <3>1. ASSUME NEW i \in first..last
          PROVE  asked[i].route = pool[k] <=> (i - 1) % size = k - 1
      <4>1. i - 1 \in Nat
        BY <2>2
      <4>2. ((i - 1) % size) + 1 \in 1..size /\ (i - 1) % size \in Int
        BY <2>4, <4>1, Turn
      <4>3. asked[i].route = pool[k] <=> ((i - 1) % size) + 1 = k
        BY <2>4, <2>5, <4>2
      <4> QED
        BY <2>4, <4>2, <4>3
    <3>2. {i \in first..last : asked[i].route = pool[k]} = Turns(first, last, size, k - 1)
      BY <3>1 DEF Turns
    <3> QED
      BY <3>2 DEF Share
  <2>8. ka - 1 \in 0..size - 1 /\ kb - 1 \in 0..size - 1
    BY <2>4, <2>6
  <2>9. Cardinality(Turns(first, last, size, ka - 1))
          <= Cardinality(Turns(first, last, size, kb - 1)) + 1
    BY <2>2, <2>4, <2>8, TurnsEven
  <2>10. /\ Share(pool[ka], first..last) = Cardinality(Turns(first, last, size, ka - 1))
         /\ Share(pool[kb], first..last) = Cardinality(Turns(first, last, size, kb - 1))
    BY <2>6, <2>7
  <2> QED
    BY <2>9, <2>10 DEF pool
<1>2. ASSUME RotationInv
      PROVE  InARowIsFair
  <2>1. ASSUME NEW first \in DOMAIN asked, NEW last \in DOMAIN asked,
               \A i \in first..last : Pool[asked[i].role] = Pool[asked[first].role],
               NEW a \in {Pool[asked[first].role][i] : i \in DOMAIN Pool[asked[first].role]},
               NEW b \in {Pool[asked[first].role][i] : i \in DOMAIN Pool[asked[first].role]}
        PROVE  Share(a, first..last) <= Share(b, first..last) + 1
    <3>1. PICK ka \in DOMAIN Pool[asked[first].role] : a = Pool[asked[first].role][ka]
      OBVIOUS
    <3>2. PICK kb \in DOMAIN Pool[asked[first].role] : b = Pool[asked[first].role][kb]
      OBVIOUS
    <3>3. Share(Pool[asked[first].role][ka], first..last)
            <= Share(Pool[asked[first].role][kb], first..last) + 1
      BY <1>1, <1>2, <2>1
    <3> QED
      BY <3>1, <3>2, <3>3
  <2> QED
    BY <2>1, Zenon DEF InARowIsFair, Even
<1> QED
  BY <1>2, RotationInvariant, PTL

----------------------------------------------------------------------------
(* The types: every seed is counted once.                                  *)

\* The seeds of _agentic_variations are some of the plans it is given: no more of
\* them are asked for than there are.
LEMMA SeedsTyped ==
  ASSUME lab \in Lab, NEW S, NEW plans \in Seq(S), Len(plans) <= lab.max_plans, NEW agentic
  PROVE  SeedsOf(plans, agentic) \in Seq(S)
<1> DEFINE diagnostics == {i \in DOMAIN plans : Diagnostic(plans[i].metadata)}
           attacks == DOMAIN plans \ diagnostics
           ordered == Selection(plans, attacks) \o Selection(plans, diagnostics)
           room == {lab.per_cycle, lab.max_plans - Len(plans), Len(plans)}
           requested == Minimum(room)
<1>1. Len(plans) \in Nat /\ DOMAIN plans = 1..Len(plans)
  OBVIOUS
<1>2. /\ attacks \in SUBSET (1..Len(plans)) /\ diagnostics \in SUBSET (1..Len(plans))
      /\ attacks \cup diagnostics = 1..Len(plans) /\ attacks \cap diagnostics = {}
  BY <1>1
<1> HIDE DEF attacks, diagnostics
<1>3. Selection(plans, attacks) \in Seq(S) /\ Selection(plans, diagnostics) \in Seq(S)
  BY <1>2, SelectionPlaces
<1>4. Len(Selection(plans, attacks)) + Len(Selection(plans, diagnostics)) = Len(plans)
  BY <1>2, SelectionSplit
<1>5. ordered \in Seq(S) /\ Len(ordered) = Len(plans)
  BY <1>3, <1>4
<1>6. requested \in 0..Len(plans)
  <2>1. lab.per_cycle \in Nat /\ lab.max_plans \in Nat
    BY DEF Lab
  <2>2. room \in SUBSET Nat /\ room # {}
    BY <1>1, <2>1
  <2>3. Len(plans) \in room
    OBVIOUS
  <2> HIDE DEF room
  <2>4. \E n \in room : \A k \in room : n <= k
    BY <2>2, SmallestOf
  <2>5. requested \in room /\ \A k \in room : requested <= k
    BY <2>4 DEF Minimum
  <2> HIDE DEF requested
  <2>6. requested \in Nat /\ requested <= Len(plans)
    BY <2>2, <2>3, <2>5
  <2> QED
    BY <1>1, <2>6
<1> HIDE DEF ordered, requested
<1>7. SubSeq(ordered, 1, requested) \in Seq(S)
  <2>1. \A i \in 1..requested : ordered[i] \in S
    BY <1>1, <1>5, <1>6
  <2> QED
    BY <1>1, <1>6, <2>1, SubSeqProperties
<1>8. SeedsOf(plans, agentic) = IF agentic THEN SubSeq(ordered, 1, requested) ELSE <<>>
  BY DEF SeedsOf, ordered, requested, room, attacks, diagnostics
<1> QED
  BY <1>7, <1>8

\* Every seed behind the one at hand is a variation or an error, and never both.
ProgressInv ==
  /\ seeds \in Seq(Plan)
  /\ seeds \in Seq(Elements(fixed))
  /\ seed \in 1..Len(seeds) + 1
  /\ variations \in Seq([seed : 1..Len(seeds), plan : Plan])
  /\ errors \in SUBSET (1..seed - 1)
  /\ Len(variations) + Cardinality(errors) = seed - 1
  /\ authorization \in Authorization
  /\ phase \in {"admission", "catalog"} => seeds = <<>>

\* _agentic_variations gives a seed up: its error is counted once.
LEMMA FailureCounted ==
  ASSUME ProgressInv, ProposalFails, UNCHANGED launchVars, phase = "agents"
  PROVE  ProgressInv'
<1>1. /\ seed <= Len(seeds)
      /\ errors' = errors \cup {seed} /\ seed' = seed + 1
      /\ UNCHANGED <<seeds, variations, authorization, phase, fixed>>
  BY DEF ProposalFails, NextSeed, launchVars
<1>2. /\ seeds \in Seq(Plan) /\ Len(seeds) \in Nat /\ seed \in 1..Len(seeds)
      /\ errors \in SUBSET (1..seed - 1) /\ Len(variations) \in Nat
      /\ Len(variations) + Cardinality(errors) = seed - 1
  BY <1>1 DEF ProgressInv
<1>3. seed - 1 \in Nat
  BY <1>2
<1>4. IsFiniteSet(errors)
  <2>1. IsFiniteSet(1..seed - 1)
    BY <1>3, CountUpTo
  <2> QED
    BY <1>2, <2>1, FS_Subset
<1>5. Cardinality(errors) \in Nat
  BY <1>4, FS_CardinalityType
<1>6. seed \notin errors
  BY <1>2
<1>7. Cardinality(errors \cup {seed}) = Cardinality(errors) + 1
  BY <1>4, <1>6, FS_AddElement
<1>8. errors' \in SUBSET (1..seed' - 1)
  BY <1>1, <1>2
<1>9. Len(variations') + Cardinality(errors') = seed' - 1
  BY <1>1, <1>2, <1>5, <1>7
<1>10. seed' \in 1..Len(seeds') + 1
  BY <1>1, <1>2
<1> QED
  BY <1>1, <1>8, <1>9, <1>10 DEF ProgressInv

\* The policy boundary of run_pipeline returns a plan, with its seed's contract.
LEMMA VariationCounted ==
  ASSUME LaunchInv, ProgressInv, Boundaried, UNCHANGED launchVars, phase = "agents"
  PROVE  ProgressInv'
<1> DEFINE v == [seed |-> seed, plan |-> Bound(candidate, seeds[seed])]
<1>1. /\ seed <= Len(seeds) /\ stage = Boundary
      /\ variations' = Append(variations, v) /\ seed' = seed + 1
      /\ UNCHANGED <<seeds, errors, authorization, phase, fixed>>
  BY DEF Boundaried, NextSeed, launchVars
<1>2. /\ seeds \in Seq(Plan) /\ Len(seeds) \in Nat /\ seed \in 1..Len(seeds)
      /\ errors \in SUBSET (1..seed - 1) /\ Len(variations) \in Nat
      /\ Len(variations) + Cardinality(errors) = seed - 1
      /\ variations \in Seq([seed : 1..Len(seeds), plan : Plan])
  BY <1>1 DEF ProgressInv
<1>3. candidate \in Plan /\ seeds[seed] \in Plan
  BY <1>1, <1>2 DEF LaunchInv, CandidateInv, Boundary, Stages
<1>4. Bound(candidate, seeds[seed]) \in Plan
  BY <1>3 DEF Bound, Plan
<1>5. v \in [seed : 1..Len(seeds), plan : Plan]
  BY <1>2, <1>4
<1> HIDE DEF v
<1>6. variations' \in Seq([seed : 1..Len(seeds), plan : Plan])
      /\ Len(variations') = Len(variations) + 1
  BY <1>1, <1>2, <1>5, AppendProperties
<1>7. Cardinality(errors) \in Nat
  <2>1. IsFiniteSet(1..seed - 1)
    BY <1>2, CountUpTo
  <2> QED
    BY <1>2, <2>1, FS_Subset, FS_CardinalityType
<1>8. Len(variations') + Cardinality(errors') = seed' - 1
  <2>1. seed' = seed + 1 /\ errors' = errors
    BY <1>1
  <2>2. Len(variations) \in Nat /\ seed \in Int
        /\ Len(variations) + Cardinality(errors) = seed - 1
    BY <1>2
  <2>3. Len(variations') = Len(variations) + 1 /\ Cardinality(errors') = Cardinality(errors)
    BY <1>6, <2>1
  <2> QED
    BY ONLY <1>7, <2>1, <2>2, <2>3
<1>9. errors' \in SUBSET (1..seed' - 1) /\ seed' \in 1..Len(seeds') + 1
  BY <1>1, <1>2
<1> QED
  BY <1>1, <1>6, <1>8, <1>9 DEF ProgressInv

\* The catalog or the operator's plans are chosen, and the seeds among them.
LEMMA SeedsChosen ==
  ASSUME LaunchInv, ProgressInv, ChoosePlans, ~Refuse
  PROVE  ProgressInv'
<1>1. PICK custom \in CustomPlans \cup {<<>>}, agentic \in BOOLEAN :
        LET chosen == IF custom = <<>> THEN PlansForProfile(lab.profile, lab.targets)
                      ELSE custom
        IN  /\ Len(chosen) <= lab.max_plans
            /\ fixed' = chosen
            /\ seeds' = SeedsOf(chosen, agentic)
  <2>1. PICK custom \in CustomPlans \cup {<<>>} :
          LET chosen == IF custom = <<>> THEN PlansForProfile(lab.profile, lab.targets)
                        ELSE custom
          IN  /\ ~(Len(chosen) > lab.max_plans)
              /\ fixed' = chosen
              /\ \E agentic \in BOOLEAN : seeds' = SeedsOf(chosen, agentic)
    BY DEF ChoosePlans
  <2> DEFINE chosen == IF custom = <<>> THEN PlansForProfile(lab.profile, lab.targets)
                       ELSE custom
  <2>2. lab.targets \in [Listeners -> Spelling] /\ lab.max_plans \in Nat
    BY DEF LaunchInv, PhaseInv, Lab
  <2>3. chosen \in Seq(Plan)
    BY <2>2, CatalogTyped, LaunchAssumption
  <2>4. Len(chosen) <= lab.max_plans
    BY <2>1, <2>2, <2>3
  <2> QED
    BY <2>1, <2>4
<1> DEFINE chosen == IF custom = <<>> THEN PlansForProfile(lab.profile, lab.targets)
                     ELSE custom
<1>2. lab \in Lab /\ lab.targets \in [Listeners -> Spelling]
  BY DEF LaunchInv, PhaseInv, Lab
<1>3. chosen \in Seq(Plan)
  BY <1>2, CatalogTyped, LaunchAssumption
<1>4. /\ Len(chosen) <= lab.max_plans
      /\ fixed' = chosen
      /\ seeds' = SeedsOf(chosen, agentic)
  BY <1>1
<1> HIDE DEF chosen
<1>5. seeds' \in Seq(Elements(chosen)) /\ seeds' \in Seq(Plan)
  <2>1. chosen \in Seq(Elements(chosen)) /\ Elements(chosen) \in SUBSET Plan
    BY <1>3 DEF Elements
  <2>2. seeds' \in Seq(Elements(chosen))
    BY <1>2, <1>4, <2>1, SeedsTyped
  <2> QED
    BY <2>1, <2>2
<1>6. /\ phase = "catalog" /\ phase' = "agents"
      /\ UNCHANGED <<seed, variations, errors, authorization>>
  BY DEF ChoosePlans
<1>7. seeds = <<>> /\ variations = <<>>
  BY <1>6 DEF LaunchInv, PhaseInv, ProgressInv
<1>8. seed = 1 /\ errors = {}
  BY <1>7 DEF ProgressInv
<1>9. Len(variations') + Cardinality(errors') = seed' - 1
  BY <1>6 DEF ProgressInv
<1>10. seed' \in 1..Len(seeds') + 1 /\ errors' \in SUBSET (1..seed' - 1)
  <2>1. Len(seeds') \in Nat
    BY <1>5
  <2> QED
    BY <1>6, <1>8, <2>1
<1>11. variations' \in Seq([seed : 1..Len(seeds'), plan : Plan])
  BY <1>6, <1>7
<1>12. authorization' \in Authorization
  BY <1>6 DEF ProgressInv
<1> QED
  BY <1>4, <1>5, <1>6, <1>9, <1>10, <1>11, <1>12 DEF ProgressInv

\* No seed of a cycle is lost or counted twice.
LEMMA ProgressInvariant == Spec => []ProgressInv
<1>1. Init => ProgressInv
  <2> SUFFICES ASSUME Init PROVE ProgressInv
    OBVIOUS
  <2>1. seeds = <<>> /\ seed = 1 /\ variations = <<>> /\ errors = {}
        /\ authorization = NoAuthorization
    BY DEF Init, PipelineInit
  <2>2. Cardinality(errors) = 0
    BY <2>1, FS_EmptySet
  <2>3. authorization \in Authorization
    BY <2>1 DEF NoAuthorization, Authorization
  <2>4. Len(variations) + Cardinality(errors) = seed - 1
    BY <2>1, <2>2
  <2>5. /\ seeds \in Seq(Plan) /\ seed \in 1..Len(seeds) + 1
        /\ variations \in Seq([seed : 1..Len(seeds), plan : Plan])
        /\ errors \in SUBSET (1..seed - 1)
    BY <2>1
  <2> QED
    BY <2>1, <2>3, <2>4, <2>5 DEF ProgressInv
<1>2. ASSUME LaunchInv, ProgressInv, [Next]_vars
      PROVE  ProgressInv'
  <2>1. CASE ChoosePlans /\ ~Refuse
    BY <1>2, <2>1, SeedsChosen
  <2>2. CASE ProposalFails /\ Agents
    BY <1>2, <2>2, FailureCounted DEF Agents
  <2>3. CASE Boundaried /\ Agents
    BY <1>2, <2>3, VariationCounted DEF Agents
  <2>4. CASE Authorize /\ ~Refuse
    <3>1. UNCHANGED <<seeds, seed, variations, errors, fixed>> /\ phase' = "plans"
      BY <2>4 DEF Authorize, pipelineVars
    <3>2. authorization' \in Authorization
      BY <1>2, <2>4 DEF Authorize, ProgressInv
    <3> QED
      BY <1>2, <3>1, <3>2 DEF ProgressInv
  <2>5. CASE ~(ChoosePlans /\ ~Refuse) /\ ~(ProposalFails /\ Agents)
             /\ ~(Boundaried /\ Agents) /\ ~(Authorize /\ ~Refuse)
    <3>1. /\ UNCHANGED <<seeds, seed, variations, errors, authorization, fixed>>
          /\ phase' \in {"admission", "catalog"} => phase \in {"admission", "catalog"}
      BY <1>2, <2>5 DEF Next, Admit, Refuse, ChoosePlans, Agents, Vary, Propose, Authorize,
                        ValidateNext, Ended, vars, pipelineVars, launchVars
    <3> QED
      BY <1>2, <3>1 DEF ProgressInv
  <2> QED
    BY <2>1, <2>2, <2>3, <2>4, <2>5
<1> QED
  BY <1>1, <1>2, LaunchInvariant, PTL DEF Spec

\* Launch.TypeOK: RuntimeConfig, the seeds and their variations are typed, and
\* every seed is accounted for once, whatever the providers answer.
THEOREM LaunchTypes == Spec => []TypeOK
<1>1. ASSUME LaunchInv, AdmittedInv, RotationInv, ProgressInv
      PROVE  TypeOK
  <2>1. RoutingTypeOK
    BY <1>1 DEF RotationInv, RoutingTypeOK
  <2>2. config \in Config
    <3>1. lab \in Lab /\ \E token \in BOOLEAN : config = ConfigOf(lab, token)
      BY <1>1 DEF AdmittedInv
    <3>2. Values(lab.targets) \in SUBSET Spelling
      BY <3>1 DEF Lab, Values
    <3> QED
      BY <3>1, <3>2 DEF ConfigOf, Config, Lab
  <2>3. errors \in SUBSET (1..Len(seeds))
    BY <1>1 DEF ProgressInv
  <2> QED
    BY <1>1, <2>1, <2>2, <2>3 DEF TypeOK, LaunchInv, PhaseInv, GateInv, ProgressInv
<1> QED
  BY <1>1, LaunchInvariant, AdmittedInvariant, RotationInvariant, ProgressInvariant, PTL

----------------------------------------------------------------------------
(* What is sent.                                                           *)

\* Every step of every plan of run_once goes where a step of the catalog's or the
\* operator's plans goes: a variation keeps to the targets of its seed.
LEMMA TargetGiven ==
  ASSUME LaunchInv, ProgressInv, NEW n \in DOMAIN Plans, NEW step \in Elements(Plans[n].steps)
  PROVE  \E plan \in Elements(fixed) : \E given \in Elements(plan.steps) :
           given.target = step.target
<1>1. CASE Plans[n] \in Elements(fixed)
  BY <1>1
<1>2. ASSUME NEW k \in DOMAIN variations, Plans[n] = variations[k].plan
      PROVE  \E given \in Elements(seeds[variations[k].seed].steps) :
               given.target = step.target
  <2>1. KeepsItsSeed(variations[k])
    BY DEF LaunchInv, VariationInv
  <2>2. step.target \in {given.target : given \in Elements(seeds[variations[k].seed].steps)}
    BY <1>2, <2>1 DEF KeepsItsSeed
  <2> QED
    BY <2>2
<1>3. ASSUME NEW k \in DOMAIN variations
      PROVE  seeds[variations[k].seed] \in Elements(fixed)
  <2>1. variations[k].seed \in 1..Len(seeds)
    <3>1. variations \in Seq([seed : 1..Len(seeds), plan : Plan])
      BY DEF ProgressInv
    <3>2. k \in 1..Len(variations)
      BY <3>1
    <3>3. variations[k] \in [seed : 1..Len(seeds), plan : Plan]
      BY <3>1, <3>2, ElementOfSeq
    <3> QED
      BY <3>3
  <2> QED
    BY <2>1 DEF ProgressInv
<1> QED
  BY <1>1, <1>2, <1>3, PlanOfTheCycle

\* SentAsClassified: whatever a plan is labelled, what leaves without an
\* authorization is what the gate took it for, in method, document and the step's
\* own path, and whatever precedes that path was named by a fixed plan.
THEOREM UnauthorizedAsClassified == Spec => []SentAsClassified
<1>1. ASSUME LaunchInv, NEW n \in DOMAIN refusals, refusals[n] = "none",
             authorization = NoAuthorization,
             NEW step \in Elements(Plans[n].steps), step.tool \in HttpTools
      PROVE  AsClassified(Sent(step))
  <2>1. refusals[n] = Refusal(Plans[n], authorization, config) /\ n \in DOMAIN Plans
    BY <1>1, Judged
  <2>2. ~AuthorizationValid(authorization)
    BY <1>1 DEF AuthorizationValid, NoAuthorization
  <2>3. ~StepNeedsAuthorization(step)
    BY <1>1, <2>1, <2>2, RefusalMeans DEF PlanNeedsAuthorization
  <2>4. Plans[n].steps \in Seq(Step)
    <3>1. ASSUME Plans[n] \in Plan PROVE Plans[n].steps \in Seq(Step)
      BY <3>1 DEF Plan
    <3> QED
      BY <1>1, <2>1, <3>1, PlanOfTheCycle DEF LaunchInv, VariationInv
  <2>5. step \in Step
    BY <1>1, <2>4 DEF Elements
  <2> QED
    BY <1>1, <2>3, <2>5, HarmlessAsClassified
<1>2. ASSUME LaunchInv, ProgressInv, NEW n \in DOMAIN refusals,
             NEW step \in Elements(Plans[n].steps)
      PROVE  Named(Sent(step).origin, Sent(step).base)
  <2>1. PICK plan \in Elements(fixed) : \E given \in Elements(plan.steps) :
               given.target = step.target
    BY <1>2, Judged, TargetGiven
  <2>2. PICK given \in Elements(plan.steps) : given.target = step.target
    BY <2>1
  <2>3. Sent(given).origin = Sent(step).origin /\ Sent(given).base = Sent(step).base
    BY <2>2 DEF Sent
  <2> QED
    BY <2>1, <2>3 DEF Named
<1>3. LaunchInv /\ ProgressInv => SentAsClassified
  BY <1>1, <1>2 DEF SentAsClassified
<1> QED
  BY <1>3, LaunchInvariant, ProgressInvariant, PTL
=============================================================================
