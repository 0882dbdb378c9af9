------------------------------ MODULE Pipeline ------------------------------
(***************************************************************************)
(* The agents of a cycle: for each curated seed, six requests to the       *)
(* providers refine one plan, every answer is checked against the limits   *)
(* of the seed, and the policy boundary gives the seed's oracle contract   *)
(* back to the result.                                                     *)
(*                                                                         *)
(* A provider is not trusted: it answers with any plan, or fails.          *)
(***************************************************************************)
EXTENDS Routing, Gate

CONSTANTS
  AgentPlan,       \* the plans a provider may answer with
  OracleIds        \* the registered oracles

ASSUME PipelineAssumption ==
  /\ AgentPlan \subseteq Plan
  /\ {"recon", "planner", "critic", "mutator", "minimizer"} \subseteq Role

VARIABLES
  config,       \* the settings of the runtime
  maxRisk,      \* the risk the profile leaves to the agents
  seeds,        \* the curated plans to vary
  seed,         \* the number of the seed being varied
  stage,        \* the next stage of its pipeline
  candidate,    \* the plan the last stage accepted
  variations,   \* the plans returned, each with the number of its seed
  errors        \* the seeds whose pipeline failed

pipelineVars == <<config, maxRisk, seeds, seed, stage, candidate, variations, errors>>

Stages == <<"recon", "planner", "critic", "mutator", "critic", "minimizer", "policy-boundary">>
Boundary == Len(Stages)

\* The loop over the seeds starts with the first of them.
PipelineInit ==
  /\ RoutingInit
  /\ seeds = <<>>
  /\ seed = 1
  /\ stage = 1
  /\ candidate = {}
  /\ variations = <<>>
  /\ errors = {}

----------------------------------------------------------------------------
(* validate_agent_plan: the limits of one seed.                            *)

AllowedTargetsOfAll ==                              \* mutant: one surface for all
  UNION {{step.target : step \in Elements(seeds[n].steps)} : n \in DOMAIN seeds}

AllowedTargets == {step.target : step \in Elements(seeds[seed].steps)}

\* Unlike the gate, the agents are held to the origins of their seed.
DestinationWithinReach(to) ==
  \/ to = "/path"
  \/ /\ to \in Spelling
     /\ HostOf[to] # NoHost
     /\ OriginOf[to] \in {OriginOf[target] : target \in AllowedTargets}

ArgumentsWithinReach(step) ==
  /\ "executable" \notin step.traits
  /\ \A nested \in step.nested :
       nested.key # "gate" => DestinationWithinReach(nested.to)

StepWithinReach(step) ==                            \* mutant: effects not inferred
  /\ step.tool \in config.tools
  /\ step.target \in AllowedTargets
  /\ "slow" \notin step.traits
  /\ ArgumentsWithinReach(step)

StepWithinLimits(step) ==
  /\ step.tool \in config.tools
  /\ step.target \in AllowedTargets
  /\ "slow" \notin step.traits
  /\ StepNeedsAuthorization(step) => maxRisk = 2
  /\ ArgumentsWithinReach(step)

Accepts(plan) ==
  /\ plan.campaign = "own"
  /\ Len(plan.steps) <= config.max_steps
  /\ plan.risk <= maxRisk
  /\ plan.oracle_ids \subseteq OracleIds
  /\ \A step \in Elements(plan.steps) : StepWithinLimits(step)

----------------------------------------------------------------------------

NextSeed ==
  /\ seed' = seed + 1
  /\ stage' = 1
  /\ candidate' = IF seed < Len(seeds) THEN seeds[seed + 1] ELSE {}
  /\ UNCHANGED <<config, maxRisk, seeds>>

\* One request to the provider of the stage's role, and its answer.
Propose ==
  /\ seed <= Len(seeds)
  /\ stage < Boundary
  /\ Select(Stages[stage])
  /\ \E plan \in AgentPlan :
       /\ Accepts(plan)
       /\ candidate' = plan
       /\ stage' = stage + 1
  /\ UNCHANGED <<config, maxRisk, seeds, seed, variations, errors>>

ProposalFailsOpen ==                                \* mutant: the last plan is kept
  /\ seed <= Len(seeds)
  /\ stage < Boundary
  /\ Select(Stages[stage])
  /\ errors' = errors \cup {seed}
  /\ variations' = Append(variations, [seed |-> seed, plan |-> candidate])
  /\ NextSeed

\* The provider fails, answers with no plan, or with one outside the limits:
\* the seed is given up, and the next one starts its pipeline.
ProposalFails ==
  /\ seed <= Len(seeds)
  /\ stage < Boundary
  /\ Select(Stages[stage])
  /\ errors' = errors \cup {seed}
  /\ NextSeed
  /\ UNCHANGED variations

\* The verdict's inputs are the seed's, whatever the agents chose.
Bound(plan, contract) ==
  [plan EXCEPT !.oracle_ids = contract.oracle_ids, !.metadata = contract.metadata]

Boundaried ==
  /\ seed <= Len(seeds)
  /\ stage = Boundary
  /\ variations' = Append(variations, [seed |-> seed, plan |-> Bound(candidate, seeds[seed])])
  /\ NextSeed
  /\ UNCHANGED <<routingVars, errors>>

Vary == Propose \/ ProposalFails \/ Boundaried
=============================================================================
