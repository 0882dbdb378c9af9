# TLA+ models of the HeraclitusDB attack harness

This directory holds TLA+ specifications of `heraclitus_attack` (the Python
package under `src/src/heraclitus_attack`), TLC configurations that check them on
small instances, and TLAPS proofs of the theorems that matter most. Paths below
are relative to that package unless they start with `src/`.

The harness runs curated and LLM-proposed attack plans against a database under
test and *judges* them. Two kinds of mistake would make it worthless: a verdict
that does not follow from the evidence, and an effect on the target that nobody
authorized. Most of what is modelled here is about these two.

## 1. Inventory

### Components, their state and their operations

| component | source | state | operations |
|---|---|---|---|
| Coordinator | `coordinator.py` | per campaign: deadline, findings; per plan: attempts, all results, stable keys, confirmations | `run_campaign`, `run_plan`, `_evaluate`, `_base_verdict`, `_failure_keys` |
| Safe tool executor | `executor.py` | per session: deadline, `requests_used` | `new_session`, `execute_step`, `execute_plan` |
| Safety gate | `safety.py` | none (asks the resolver at every call) | `validate_plan`, `validate_step`, effect classification |
| Oracles | `oracles.py` | none | six `evaluate` functions, registry |
| Network adapters | `tools.py` | none between calls | HTTP request, MCP call, TCP probe, upstream counter |
| Data models | `models.py` | immutable records | construction, JSON |
| Plan catalog | `catalog.py` | static | the curated plans of a profile |
| Agent pipeline | `agents/` | the candidate plan, the stages passed | six proposals per seed, `validate_agent_plan`, `bind_trusted_oracle_contract` |
| Provider routing | `providers/routing.py` | `_counter`, `last_route` | `_select` |
| LLM providers | `providers/` | none | one HTTP request per completion |
| Memory sinks | `memory.py` | the ledger (external) | `append`, `recent` |
| Reporting | `reporting.py` | `<campaign>.json`, `latest.json` | `persist_findings`, `write_report` |
| One cycle, daemon | `cli.py` | cycle number, worst exit code, stop event | `run_once`, `daemon`, signals, `doctor` |
| Service unit | `src/deploy/systemd/` | starts, exit status | restart on failure, stop, kill |
| Arena session and worker | `arena.py`, `arena_worker.py` | worker process, message queue | `start`, `request`, `execute`, `close` |
| Remote relays | `arena.py`, `arena_worker.py` | listeners, threads, counters | `start`, accept, bridge, `close` |
| Arena run | `arena.py` | steps, candidates, deadline | `run_arena`, report |
| Configuration, settings, credentials | `config.py`, `settings.py`, `credentials.py` | read once | validation |
| Console | `console.py` | none | output |

### How they interact

`daemon` calls `run_once` until it is told to stop. A cycle reads the memory,
lets the agent pipeline vary the curated seeds (each of its requests goes through
the provider routing), and hands every plan to `Coordinator.run_plan`. That calls
`SafeToolExecutor.execute_plan` once and then again for every confirmation; the
executor asks the safety gate about the plan, and about each step again just
before it calls the adapter. The oracles see only the observations of one
execution. The findings are appended to the ledger of the database, and the
report is written by two atomic file replaces. The arena is a second program: a
session with a worker in a namespace, over JSON lines, with relays for remote
targets. `run_arena` starts the relays, then the session, then lets a provider
choose one command after the other; commands connect through the relays; the
session and the relays are closed on every path. Nothing of it enters a verdict.

The verdict path is one thread. What makes it hard is not interleaving inside the
process but everything that happens between its steps: the resolver changes its
answer, deadlines pass, adapters fail or raise, timed-out calls reach the
upstream later, somebody else calls it, it restarts, an append loses its answer,
the process is signalled or killed. The arena is truly concurrent: the thread of
the run, the worker process, one accepting thread per endpoint and one bridging
thread per connection.

### What makes each component correct

* Coordinator: `VULNERABLE` only for evidence reproduced in every one of
  `confirmation_runs` executions; a broken or undecided oracle decides before a
  failing one; every campaign ends.
* Executor and gate: no effect without the authorization it needs; effects are
  bounded; a plan reported as rejected had none.
* Oracles: `PASS` means that the call was denied; silence never passes.
* Pipeline and routing: a variation stays within its seed; no plan accepted from a
  provider makes the cycle need an authorization it would not need without; the
  providers that share a role take turns (they do not, finding 6).
* Launch: what is authorized once for a campaign is what the gate asks for plan
  by plan; the catalog passes its own gate.
* Cycle: exit code 0 is earned and exit code 2 founded, evidence is accounted
  for, `latest.json` is always a copy of a campaign's report, a stop request ends
  the service.
* Arena: an answer belongs to its request, although no line carries a number; a
  report is complete; no listener or started worker outlives the run, the
  threads end by themselves, and nothing is carried after the end of it. What a
  connection carries through its two relays arrives in order, and an answer
  whole.

## 2. Modules

| module | models | how its state and actions correspond to the code |
|---|---|---|
| `Verdicts` | verdicts and what is read off oracle results | `Recorded` is `_evaluate`'s treatment of an answer (a raising or mismatched oracle becomes `ERROR`), `BaseVerdict`, `FailureKeys`, `ReportVerdict` are the functions of those names |
| `Promotion` | abstract specification: a verdict as a function of evidence | no counters and no incremental set: a plan may be executed again only while the evidence leaves the question open |
| `Executor` | `execute_plan` as actions | `OpenSession`/`RefusePlan` (`validate_plan`), `Observe`, `RefuseStep`, `ExhaustBudget`, `SessionExpires`, `AdapterRaises`; the environment moves the clock and the resolver |
| `Coordinator` | `run_campaign`, and `run_plan` called by it or by `run_once`; extends `Executor` | `driver` says who calls; one action per branch between two calls of the executor: `FirstExecution`, `PlanRejected`, `JudgeFirst`, `ReturnBase`, `Repeat`, `RepeatRejected`, `JudgeRepeat`, `Conclude`, ... The oracles are an operator constant, so they may be anything |
| `CoordinatorProofs` | theorems about `Coordinator` | see section 5 |
| `Selection` | the elements of a sequence at some of its places | what a comprehension with a condition returns, as a recursive function, so that it can be reasoned about; used by `Oracles`, `Routing` and `Launch` |
| `SelectionProofs` | lemmas about `Selection` | see section 5 |
| `Oracles` | all six oracles of the registry, and the contract of a plan without a seed | functions of the trusted metadata and of a sequence of observations |
| `Probe` | `Coordinator` with `Oracles` against a gateway, a service, a listener and an upstream | adapter calls become calls of a world that may leak, accept, deny, challenge, break, expose a canary, stay silent, forward late, be called by others, or restart |
| `ProbeProofs` | theorems about `Probe` | see section 5 |
| `Gate` | `SafetyPolicy`: effects, targets, destinations, authorizations; what the adapters send | functions of a step, a plan and the settings: `StepNeedsAuthorization`, `TargetAuthorized`, `TargetAllowed`, `StepPasses`, `Refusal` (`validate_plan`), and `Sent`, the request an adapter makes of a step: where it goes, the base that the target itself gives the path, and method, path and document with the adapter's own defaults |
| `Catalog` | `catalog.py` | the nine curated plans as functions of the targets, and `PlansForProfile` |
| `Routing` | `RoutingProvider` | one counter for all roles, the pool of a role, and the history of choices, in which the properties count how often each provider was asked |
| `Pipeline` | the agents of a cycle, extends `Routing` and `Gate` | `Propose` is one provider request with `validate_agent_plan`, `ProposalFails` any exception on the way, `Boundaried` the policy boundary with `bind_trusted_oracle_contract` |
| `Launch` | `run_once` up to its verdicts, extends `Pipeline` and `Catalog` | `phase` is the place in `run_once`: `Admit` (`LabSettings`, `_remote_lab_authorization`, the daemon's own checks), `ChoosePlans` (`_load_plans`, the catalog, the seeds of `_agentic_variations`), `Agents`, `Authorize` (`_authorization`), `ValidateNext` (the `validate_plan` each execution begins with) |
| `LaunchProofs` | theorems about `Launch` | see section 5 |
| `Cycle` | `run_once` as called by `daemon`, ledger, report files, service manager | one action per call of `run_once` whose failure is handled differently; `Killed` and `Restart` are the unit's |
| `CycleProofs` | theorems about `Cycle` | see section 5 |
| `RelaySet` | `RemoteRelaySet` | `BindEndpoint`/`BindFails` are `start`; `SetStop`, `CloseListeners`, `ThreadsJoined` are `close`; `Accept`, `DialSucceeds`, `DialFails`, `AcceptorEnds` the accepting thread; `BeginRound`, `Forward`, `EndOfStream`, `BridgeStops` the bridging thread, which tests the flag before its `select` and not before its `recv` |
| `Conversation` | abstract specification of the commands of an arena | a command under way, the commands executed, their results and the outcome; no lines, pipes or timeouts |
| `ArenaSession` | host and worker over JSON lines | `host` is the place of the calling thread, `inbox` and `messages` the two pipes (with the reading thread's queue); one action per line sent or received, per way a wait can end, and per step of `close` |
| `Arena` | `run_arena`, extends `ArenaSession` and `RelaySet` | the loop over actions, the `finally` clause and the report; deadline, interrupt and connecting commands as the environment |
| `ArenaProofs` | theorems about `Arena` | see section 5 |
| `Bridge` | one connection through `_TcpToUnixForwarder` and `RemoteRelaySet._bridge` | a sequence per direction of each of the three sockets pairs; each bridge is at its `select`, its `recv` or its `sendall`; peers send, half-close, receive and leave; the worker dies with the processes in it |
| `BridgeProofs`, `AnswerProofs` | theorems about `Bridge` | see section 5 |
| `MCCoordinator`, `MCProbe`, `MCLaunch`, `MCCycle`, `MCArena`, `MCBridge` | the instances TLC checks | |

A definition whose comment calls it a plausible mistake or a mutant (a guard
dropped, an off by one, a swapped order) is not part of the specification: it is
there to put in the place of the definition below it, and to see that a property
notices.

### How the modules divide the system

A cycle is modelled in three stretches that meet at what one hands to the next.
`Launch` ends with the list of plans and the gate's answer to each. `Coordinator`
takes any list of plans and any answers of gate and resolver, so it covers what
`Launch` hands it; `Probe` puts real oracles and a world around it. `Cycle` takes
any verdicts. The steps of `Executor` are coarser than those of `Gate`: a step there
is what may change between two validations of it.

### Abstractions

* In `Executor`, a step is what the gate and the budgets tell apart: whether its
  tool has an adapter, whether its target is an allowlisted address, the name
  `localhost` (resolved again at every validation) or anything else, its own mark,
  and the effect inferred from method and payload.
* In `Gate`, a target is a *spelling*: two spellings may share an origin
  (`canonical_target`), a spelling has a host or cannot be parsed, and it has a *base*:
  its path and query, which the adapters put around the path of the step and the
  gate does not look at. A spelling that makes `urlsplit` raise `ValueError` (a
  malformed bracketed host) is refused like any other that cannot be parsed; in the
  code that exception is no `SafetyViolation` and leaves `run_once`. Documents are
  told apart as far as `_safe_synthetic_post` and `_carries_payload` tell them apart
  (absent, `null`, blank text, empty, text that is no JSON, the one synthetic call,
  anything else). The walk through nested arguments is its result: destinations,
  each under a key that the gate, the agents' own validation, or both take for one.
* Fingerprints are model values in `Coordinator`, and the evidence itself in
  `Oracles`: a digest is taken to be injective.
* Time is a flag per deadline that may be raised at any moment.
* Identifiers, reasons, wording, layout and redaction are left out.
* In `Cycle`, a plan is a verdict or an exception; errors that come from the
  configuration and would make every cycle fail alike are left out (they are
  `Launch`'s `Refuse`).
* In the arena, a command is its number and whether it is fit for the protocol, a
  result the number of the command it answers; the contents of results, the
  titles of candidates and the `inspect` operation, which nothing sends, are left
  out. `Kill` takes effect at once. The operator may interrupt the start of the
  session and its loop, not the cleanup. `RelaySet` keeps of the data on a
  connection only whether there was any, and has many connections; `Bridge` has
  one, with its data.
* In `Bridge`, an element is what one `recv` returns, and a buffer is a number of
  elements. Closing a socket with data unread resets the connection, and any part
  of what was on its way may be lost. There is no urgent data: a socket that `select`
  reports as exceptional ends a bridge at once (`arena.py:376`), and `AnswerIsWhole`
  is not claimed of such a connection.
* In `Oracles`, the lists of statuses in a contract can be read as statuses; one
  that cannot makes the oracle answer `ERROR`, which `Coordinator` allows of any oracle.

## 3. Runs

Every run is finite and explores its instance completely. Deadlock is checked in
all of them but `bridge` (a finished campaign, launch or service stutters
explicitly; a connection whose two bridges have ended, or wait for each other as
`EachBlocksTheOther` says, has nothing left to do).

| run | checks | what it shows |
|---|---|---|
| `campaign` | `TypeOK`, `PromotedOnlyIfReproduced`, `PromotedOnlyIfDecided`, `EffectsAuthorized`, `PlanEffectsBounded`, `ImplementsPromotion`, `SteadyRejectionHasNoEffect`, `CampaignDrawsNear`, `CampaignEnds` | three confirmations of one plan with two oracles, one of which may answer anything (every verdict, two fingerprints, raising, answering for another oracle) while the other passes, raises or fails with one print; of plans whose second step may be refused at any validation; of every kind of plan that a branch of gate and budgets is there for, alone and after a plan that may be promoted: the incremental counters and key set give exactly the verdict the whole evidence justifies, one broken or undecided oracle outweighs a failing one, no evidence of the first plan counts for the second, what reaches the target is authorized and bounded, and nothing if a plan of literal targets is reported as rejected; and the campaign ends, also without a campaign deadline |
| `launch` | `TypeOK`, `VariationsKeepTheirSeed`, `AgentsNeverStopTheCycle`, `AuthorizationIsSettled`, `SentAsClassified`, `CatalogPassesItsGate` | twelve settings (nine load) over a local and a remote laboratory and all four profiles, one of them with a gateway whose URL has a path, driven by an operator or the daemon; the whole catalog or custom plans; up to three seeds; providers that answer with seven faithful plans, fourteen that break one limit each, or not at all; every authorization |
| `denial` | `PassMeansDenied`, `VulnerableMeansDefect`, `CuratedSilenceIsNotPass`, `DiagnosticNeverAccuses` | the curated plan counter, call, counter, a plan of the agents without a seed and two plans of an operator, confirmed twice, against a gateway with seven behaviours, a service with five, late forwarding, two stray hits and a restart of the upstream |
| `daemon` | `TypeOK`, `LatestHasItsReport`, `EvidenceAccounted`, `GreenIsEarned`, `FoundIsNotGreen`, `AccusationIsFounded`, `NoOrphanEvidence`, `StopDrawsNear` | two campaigns of up to two plans over two lives of the daemon; every append may be refused or lose its answer, every stage may raise |
| `arena` | `TypeOK`, `ReportIsComplete`, `AtMostOneLateCommand`, `NothingLeftBehind`, `LateConnectionIsMute`, `ImplementsConversation`, `ArenaEnds`, `RelayQuiets` | three actions, two endpoints, one of which has a client; a worker that may not come up, hang, refuse, answer late or die at any moment; relays that may fail to start half way, or be closed while they connect or carry data |
| `bridge` | `TypeOK`, `InOrder`, `AnswerIsWhole`, `BridgesEnd` | two elements each way over buffers of one: peers half-close, leave, reset; timeouts toward the target; the worker dies and the relay is closed at any time |
| `rejected_after_effect` | `RejectedPlanHasNoEffect` | **violated**, finding 1 |
| `budget_does_not_cancel` | `BudgetCancelsCampaign` | **violated**, finding 2 |
| `timeout_passes` | `SilenceIsNotPass` | **violated**, finding 3 |
| `status_alone` | `StatusAloneIsNotEnough` | **violated**, finding 4 |
| `varied_contract` | `PassMeansBlocked` | **violated**, finding 5 |
| `roles_do_not_rotate` | `RoleRotates` | **violated**, finding 6 |

### Bounds, and why they are enough

* `campaign`: `Required = 3` is the shipped `confirmation_runs`: a first, a middle
  and a last confirmation, so that a key may be lost and come back. Two fingerprints
  let an oracle flap. A plan with the oracles that may answer anything is proposed by
  itself; the pairs, whose one oracle passes or fails with either print, are what it
  takes for one plan to leave something behind for the next. `MaxRequests = 2` is
  smaller than the plan of three reads, and `MaxSteps = 3` than that of four. A
  proposal may have as many plans as `MaxPlans`, or one too many. The theorems cover
  every number.
* In `denial`, `Required = 2` and `MaxStrays = 2`: strays alone can reproduce a
  failure in both executions, and `VulnerableMeansDefect` says that fewer cannot.
  `MaxHits = 4` is what one execution of the longest plan and the strays add up
  to; a call beyond it is not made. One restart may fall into the plan. `MCProbe` also has
  TLC evaluate the hypotheses of the theorems of `ProbeProofs` for these plans
  (`ContractsAssumption`).
* `launch`: `per_cycle = 3` against the shipped 4, because a fourth seed meets
  nothing that a third has not: the first seed, one between, and the last.
  `max_plans` is 10, which leaves room for all three, or 8, which cuts them short;
  `max_steps = 3` is the length of the longest curated plan, and a provider answers
  with a plan of four. `MaxAsked = 18` is three complete pipelines of six requests.
* `daemon`: `MaxCampaigns = 2` with `StartLimit = 2` gives one life of two cycles,
  which a code that is overwritten rather than maximised needs, and two lives of
  one cycle, which a crash between the two file replaces needs.
* In `arena`, a start can fail with one of two endpoints already served; with three
  actions an answer can be late in the first, a middle and the last iteration. One
  client is enough for a connection to be late; the theorems cover every number of
  actions, endpoints and connections.
* `bridge`: with `Capacity = 1` every send can block, and two elements of one
  direction fill the buffer between the two relays and the hand of the one that
  feeds it, so that both bridges can block each other.

### Fairness

`Coordinator` assumes weak fairness of the program's own steps (`ProgramStep`) and
`Cycle` of the daemon's (`CycleStep`): the thread is never blocked for ever,
because every adapter, append and completion has a timeout, and `stop.wait` an
interval. Nothing is assumed of the clock, the resolver, the signals, the kills
or the service manager: a campaign must end even if its deadline never passes,
and a stop request must end the service even if it is never killed. For two of these
ends the core is a property of single steps, which is stated and proved beside or
instead of the liveness property: `CampaignDrawsNear`, every step of a campaign makes
less of the plans, executions or steps that are left, and `StopDrawsNear`, after a
signal every step of the daemon makes less of `StepsLeft`, a natural number that is
zero when it is gone. What remains to be said is that such a step is always possible
until then, which is what the deadlock check of the runs says, and that it is taken.

`Arena` assumes weak fairness of the thread of the run, of each accepting thread
and of each bridging thread. Every wait of the first has a timeout (`queue.get`,
`wait`, `join`), as have `accept`, `connect` and `select` in the others; a blocking
`sendall` is taken to end because a peer that is sent data reads it or is gone.
Nothing is assumed of the worker, its commands or the clock: `ArenaEnds` holds also
when a command never ends.

`Bridge` looks into that last assumption. It is fair to each bridging thread and to
the receiving of the two peers, and to nothing else; a `sendall` without room is
not enabled. `BridgesEnd` then holds with one exception, `EachBlocksTheOther`: one
thread serves both directions, so the two relays may each be in a `sendall` that
only the other's `recv` could release. The end of the worker, which `run_arena`
brings about before it closes the relays, releases the host's side; that is the
second half of the property. `Launch` and `Probe` state no liveness: `Launch` is a
sequence of bounded loops, and the end of a campaign is `Coordinator`'s.

## 4. Findings

Disagreements between the code and what the repository says of it. Each is the
counterexample of one run.

1. *A rejected plan can have had effects* (`executor.py:54`). Steps are validated
   again, and adapters looked up, one by one; the refusal of a later step loses
   the observations of the earlier ones, and the plan is reported with
   `attempts=0`.
2. *A spent budget does not cancel the campaign* (`executor.py:97`), although the
   threat model says that any exceeded budget does.
3. *A timeout can pass* (`oracles.py:77`). `http_status` judges the responses
   there are. The curated plans are safe, because each has one answer to judge
   (`CuratedSilenceIsNotPass`); a variation with two requests is not.
4. *A status alone makes a vulnerability* (`coordinator.py:164`): one failing
   oracle is enough, also when `upstream_zero` measured no effect.
5. *A varied plan can pass without having measured anything*
   (`agents/pipeline.py:42`). The agents may move the second reading of the
   counter before the call; the contract of the seed is given back to the plan,
   and `upstream_zero` compares two readings that no call lies between.
   `PassMeansDenied` shows that the oracle is sound where the readings bracket
   the calls.
6. *The providers of a role do not rotate* (`providers/routing.py:38`), although
   `src/docs/PROVIDERS.md:71` says that those who share one do. One counter, which the
   requests of all roles move, picks from the pool of each: a role that two
   providers share goes to the same one again whenever an odd number of other
   requests lies in between, and with six requests for every seed, as long as none
   fails, each role is always asked at counters of one parity. What the counter does give is `InARowIsFair`: requests
   that follow each other and share a pool, as those of the arena's only role, are
   spread evenly (`PoolsAreFair`).

Not findings, because no document says otherwise, but worth knowing:

* The findings of a cycle that raises reach neither a report nor, if a plan
  raised, the ledger (`cli.py:499`). The exit code still tells (`FoundIsNotGreen`,
  `NoOrphanEvidence`), except after a stop request, which always exits with 0.
* Exit code 3 or 4 of one cycle covers a 2 of another (`cli.py:498`), so 2 says
  that *every* cycle could report (`AccusationIsFounded`), and the absence of 2
  says nothing of the absence of vulnerabilities.
* The catalog of the profile `full` holds a plan that needs an authorization, and
  the daemon has none to give: with that profile every cycle of it is refused.
* The contract that `bind_trusted_oracle_contract` has for plans without a seed is
  not reached by the program, whose pipelines all start from one. `denial` checks it
  all the same (`DiagnosticNeverAccuses`).
* The gate compares origins (`canonical_target`, `safety.py:226`), and the path by
  which it knows the synthetic call is that of the step. The adapters put the path and
  query of the target around it (`tools.py:155`). With a target `http://127.0.0.1:8787/admin`
  the call that must be denied passes without an authorization, and goes to
  `/admin/mcp`. `SentAsClassified` therefore says what is classified (method, document,
  the path of the step) and where the rest comes from: every base is one that the
  catalog or a plan of the operator names with that origin. The agents cannot make
  one up, because their targets are those of the seed.
* A provider can stop a cycle all the same: a plan whose arguments have a string for
  `headers` of an `mcp_call` (`tools.py:272`), or under a key that only the gate
  takes for a destination one that `urlsplit` cannot read, raises `ValueError` out of
  `run_once`. `AgentsNeverStopTheCycle` is about authorization only. An adapter that
  raises is in `Executor` (`AdapterRaises`), a plan that raises in `Cycle`, and what it
  costs is the first point of this list.
* An arena session that fails to start is not closed, because `__enter__` has not
  returned: its worker lives until the program ends (`arena.py:513`).
  `NothingLeftBehind` therefore speaks of sessions that started.
* A relay that is connecting while it is closed reaches the target afterwards.
  `LateConnectionIsMute` shows that nothing is carried over such a connection.
* A late or refused answer ends the run, and the report with all earlier steps is
  lost. So is it when the worker dies between `poll` and the `shutdown` line in
  `close`, although the loop has ended well (`PipeBreaks`).

## 5. Proofs

### The coordinator

`CoordinatorProofs` proves, for every number of plans, steps, oracles,
fingerprints, confirmations and every answer of oracles, gate and adapters:

* `TypeCorrect`: `Spec => []TypeOK`. Its content is in the bounds: a session never
  counts more requests than its budget, and attempts and confirmations never
  exceed `confirmation_runs`.
* `PromotionSound`: `Spec => []PromotedOnlyIfReproduced`. A `VULNERABLE` finding
  holds `confirmation_runs` failing executions with a common failure key.
* `PromotionDecided`: `Spec => []PromotedOnlyIfDecided`. In each of those executions
  every oracle the plan names was registered, answered and decided.
* `EffectsAlwaysAuthorized`, `EffectsAlwaysBounded`: no adapter call of a plan that
  needs an authorization without one, and no more calls than
  `confirmation_runs * max_requests_per_plan`.
* `RejectionHasNoEffect`: `Spec => SteadyRejectionHasNoEffect`. A plan with literal
  targets and tools that all have adapters (`Steady`) has reached nothing when it is
  reported as never attempted. Of other plans this does not hold (finding 1), which
  is why the property asks for it plan by plan.
* `EveryStepIsNearer`: `Spec => CampaignDrawsNear`, and `MeasureIsNatural`: none of the
  three numbers it compares is ever negative. Together they say that a campaign is
  finite; `CampaignEnds` adds that its thread is never blocked.
* `PromotionImplemented`: `Spec => ImplementsPromotion`, the refinement of
  `Promotion`.

*The inductive invariant.* `PromotedOnlyIfReproduced` speaks of concluded plans
only, and says nothing about the loop that concludes them. `IInv` adds what the
loop maintains: `PlanBound` (while a plan runs, it has a place in the proposal, so
`plans[PlanNumber]` is a plan), `CountersAgree` (there are as many results as
attempts, and as many confirmations while keys are stable), `LoopPosition` (what
each phase knows about the counters: for example, an execution under way is the
first one, or keys are stable and fewer than `Required` are done), and `KeysAgree`
(the set kept by intersection is the set of the keys seen in *all* the results).
The last one carries the argument: `Conclude` promotes when the counter has
reached `Required`, `CountersAgree` turns that into the number of results, and
`KeysAgree` turns the non-empty set into a key common to all of them. It rests on
`SeenInAllAppend`, the effect of one more execution on that set. The later
theorems add to it what a finding keeps of its executions, what `validate_plan`
established when the session was opened, and the sum of what the sessions of a
plan have used.

*The refinement.* `evidence` is read off `all_results`, and `verdict` off the last
finding while no plan is running. `JudgeFirst` and `JudgeRepeat` are abstract
executions, justified by `LoopPosition` and `KeysAgree`; `ReturnBase`,
`PlanRejected`, `MissingOracle` and `Conclude` are judgements; `BindPlan` is the next
plan; everything else stutters.

*Assumptions.* `CoordinatorAssumption`, `BudgetAssumption` and
`NoFingerprintAssumption`, all about constants: budgets are positive (`config.py`
checks that they are), plans are plans, answers are answers, the budget's
observation differs from those of adapters. TLC evaluates them in every run.

### The launch

`LaunchProofs` proves, for every laboratory, every list of plans of an operator,
every way of ordering and choosing seeds, and every answer of a provider:
`SeedsKept` (`VariationsKeepTheirSeed`), `OnlyFixedPlansStopTheCycle`
(`AgentsNeverStopTheCycle`), `LaunchTypes` (`TypeOK`), `AuthorizationSettlesAll`
(`AuthorizationIsSettled`), `UnauthorizedAsClassified` (`SentAsClassified`),
`CatalogPasses` (`CatalogPassesItsGate`), and `PoolsAreFair`, which is about `InARowIsFair`.
No run checks that one: it is what is true beside finding 6.

*The inductive invariant* `LaunchInv` follows a plan through the stages:
`CandidateInv` (from the first accepted proposal on, the candidate is within the
limits of the seed at hand), `VariationInv` (each variation keeps the contract and
the targets of the seed it names, and needs an authorization only where the
profile allows destructive risk), `GateInv` (each answer of the gate is the one
its plan, the authorization and the settings make) and `SettledInv` (a campaign
that needs an authorization reaches the plans only with a valid one, and never
under the daemon). With it, `AuthorizationIsSettled` is what `Refusal` means: a
plan that needs an authorization makes the campaign need one. `SentAsClassified`
has two halves. `HarmlessAsClassified` compares the gate's reading of a step's arguments
with the adapter's, default by default. `TargetGiven` follows a target back: a step of a
variation has one of the targets of its seed (`VariationInv`), a seed is one of the fixed
plans (`ProgressInv`), and those are the ones that `Named` asks for. `CatalogPasses` adds `AdmittedInv` (the
settings of a cycle have loaded, and remote targets have their token) and
`CallbackAssumption`, that the callback URL of the catalog has the origin of its
upstream.

`LaunchTypes` and `PoolsAreFair` need to know what is picked out of a sequence: the
seeds of a profile, the plans of a filter, the requests of one pool. `Selection` is a
recursive function, and `SelectionProofs` shows that it exists and what it returns
(`SelectionPlaces`: the elements of the places, in their order and no other;
`SelectionLength`: as many as there are places). The library states induction for an
operator; here it is done over the length of a prefix by the smallest counterexample
(`SmallestOf`, `Upwards`), which needs none. The fairness of a pool then is a statement
about a counter and a modulus: among the requests in a row of one pool any two
providers are chosen equally often, give or take one.

*Assumptions.* `AddressAssumption`, `CallbackAssumption`, `ContractAssumption`,
`PipelineAssumption` and `LaunchAssumption`: what the parts of an address are, and
that plans are plans.

### The probe

`ProbeProofs` proves, for every plan, every world and every number of confirmations,
what a verdict means in the world:

* `VulnerabilityMeansDefect` (`VulnerableMeansDefect`): what is confirmed `Required`
  times has met as many defects of the target, or stray calls of others.
* `PassProvesDenial` (`PassMeansDenied`): the `PASS` of a plan between two readings of
  the counter means that no call of its was passed on in between.
* `CuratedSilenceProved` (`CuratedSilenceIsNotPass`): in a plan every step of which some
  oracle measures, nothing passes that was not observed.
* `DiagnosticsAccuseNobody` (`DiagnosticNeverAccuses`), and `SeedlessIsDiagnostic`: the
  contract given to a plan without a seed is a diagnostic one.

*From the coordinator.* `ProbeStepIsStep` shows that a step of `Probe` is a step of
`Coordinator` or leaves it alone, so that everything proved about the coordinator holds
in it (`ProbeInvariance`).

*The inductive invariants.* Each relates what an execution has observed to what it has
met. `DefectsInv`: the executions that count as confirmations have met a defect or a
stray call each, and so has the one under way once what it observed makes an oracle
fail (`Suspect`, which an observation can only make true together with such a call).
`WindowInv`: as long as the upstream is not restarted, the calls passed on since the
first reading are part of the difference of the two. `ObservedInv`: what is observed of a
step comes from the tool of the step, so that an oracle which needs one answer of that
tool and has none does not pass. All three turn on what the oracles select from the
observations, which is `Selection` again.

*Hypotheses.* They are hypotheses of the theorems, and not assumptions on the constants
of `Probe`, because a plan file of an operator need not satisfy them. TLC evaluates all
but the first for the plans of every run of `MCProbe` (`ContractsAssumption`).

* `RegisteredAnswers`: the answers are those of the six oracles, as `cli.py` registers
  them, and a spent budget observes what `execute_plan` records of it.
* `DiagnosticContracts`: a diagnostic contract names only `http_status` and
  `reachability`, as the only one in the code does.
* `RefusalsExpected`: a contract that has expected statuses counts 401 and 403 among
  those or the undecided ones, and is not judged by the status of its counter. Every
  curated contract over HTTP in `catalog.py` is of this kind, and `pipeline.py` gives a
  variation the contract of its seed.
* `StepsMeasured`: every step of a plan with one answer to judge is judged by its
  status, or is one of two readings, or is the one connection, as in the catalog.

### The daemon

`CycleProofs` proves for every budget, every number of plans, cycles and restarts
and every fate of an append: `DaemonTyped`, `LatestIsReported`, `EvidenceIsAccounted`,
`GreenVouches`, `FoundIsReported`, `AccusationHasItsReport` and
`EvidenceHasItsReport`, one for each invariant of the run `daemon`, and `StopIsHeeded`
for its action property `StopDrawsNear`.

*The inductive invariant* has three layers. `TypeInv` adds to the types that a
cycle persists as many findings as it planned. `EvidenceInv` and `LedgerInv` say
what is known while a cycle persists its findings (each is confirmed, unconfirmed,
or still to come, and the confirmed ones are in the ledger) and that the ledger
never says anything of a finding but what was judged; the two properties of what
is on disk follow, across kills. `LifeInv` is about a life of the daemon: unless
its worst code is 4, each of its finished cycles has the report that code
promises, and a worst code of 2 has a report to show. The proof turns on the order
of the codes: 4 covers all others, so a cycle that raised is never hidden behind
another's 0, 2 or 3.

*Assumptions.* `CycleAssumption`: what `config.py` checks of the numbers.

### The arena

`ArenaProofs` proves, for every number of actions and every set of endpoints and
connections, all the safety properties of the run `arena`: `TypeCorrect`,
`ReportsComplete`, `OneLateCommand`, `EverythingTakenDown`,
`LateConnectionsMute`, and `ConversationImplemented`, the refinement of `Conversation`.
`AnswersMatch` says by itself what the refinement implies: the i-th step of a report
holds the result of the i-th command.

*The inductive invariant* has two halves that are kept independently of each other.
`RelayInv` says when a connection can be late: `LateIsStopped` (only with `_stop` set,
and then it is open or ended, never in the middle of a round), `CarriedWasOpen`
(data implies that the target was reached) and `ListenersClosed`. `RunInv` follows
the conversation with the worker. Lines carry no numbers, so the argument is that
at most one is ever under way: `BetweenCommands` says that both pipes are empty
when the loop goes on, `CommandUnderWay` that a command is in exactly one place (in
the worker's input, in its answer, or lost with the worker), and any other way out
of `receive` leaves the loop for good. `CleanEnd` keeps what a report needs: a run
that has not failed left the loop with nothing under way, and sends the worker
nothing but the request to end. `Cleanup` says what each phase after `close` knows,
`LateCommands` that a command sent late implies a deadline that has passed, after
which no iteration begins. `LinesUnderWay` and `BusyHasCommand` are there for the
type: they bound the pipes also in runs that have failed.

*The refinement.* The command under way is the one the host waits for, or else the one
at the head of the worker's input; `began` are the commands executed, and `failed` is
the broken conversation. `CommandUnderWay` carries the steps of a run that goes well.
A run that has failed needs an invariant of its own, because its worker reads on while
it is being closed: `CommandWithWorker` says that a command which nobody waits for any
more is the one after those of the report, that it was started only if the worker is
busy with it, and that only the request to end may wait behind it. So it may still be
executed, once, and neither it nor any other is asked, recorded or reported again.

*The way to the end.* `ArenaEnds` and `RelayQuiets` say that threads end, under
fairness. What a proof can add is that no thread runs in circles. `HostIsNearer`
proves of every step of `run_arena` that it makes `HostLeft` smaller, and of every other
step that it does not make it greater, so neither a worker that answers late, nothing
or nonsense, nor an operator's interrupt, keeps the loop going; `HostMeasureIsNatural`
bounds it by 13, three for each action and one for each endpoint. `RelayIsNearer` does
the same for the threads of the relays from the moment `_stop` is set, one by one,
because `close` gives up joining them after a while and `run_arena` may be over before
they are: each of their steps brings an endpoint or a connection nearer to its end, and
no client of the arena, however much it sends, takes one further away. Before `_stop`
nothing of the kind holds, since a target may send for ever. That a thread takes its
next step at all stays with TLC.

*Assumptions.* `ArenaAssumption` (at least one action, which `ArenaLimits` checks) and
`RelayAssumption` (the endpoints are a list of the settings, hence finite; a connection
belongs to an endpoint).

### The relays

`BridgeProofs` and `AnswerProofs` prove for every size of the buffers and every number
of elements:

* `BridgeTyped`: `Spec => []TypeOK`. No channel holds more than its capacity, also
  when a connection is reset, and a bridge has ended exactly when its sockets are
  closed.
* `BridgeInOrder`: `Spec => []InOrder`. Whatever is closed, reset or lost, a peer has
  received a beginning of what the other sent, without a gap.
* `AnswersWhole`: `Spec => []AnswerIsWhole`.
* `ConnectionIsNearer`: `Spec => ConnectionDrawsNear`, and `ConnectionIsBounded`: a
  connection takes a bounded number of steps in all.

*The inductive invariants.* `FlowInv` counts along the path of a direction: `r[i]`
elements received by the i-th party, `s[i]` handed on by it. `ChannelHolds` says that
a channel holds the elements that follow `r[i]`, in order, up to `s[i - 1]` while both
its parties are there; `BridgeHolds` that a bridge has handed on all it received,
but for the element in its hand. The counts are not variables of `Bridge`: the
invariant says that some exist, and each action either moves one of them
(`SendFlows`, `HearsFlows`, `ReceiveFlows`, `SendAllFlows`) or leaves the direction
alone, but for the end of a channel one of whose parties is closed (`FlowsOn`). Both
directions are one proof, because `Chan` and `Party` number the path from its sender.

`AnswerIsWhole` relates the two directions, because either ends both. `Loss` is what
was sent in a direction and is neither received nor on its way; no step makes it
smaller (`LossStays`), so a client that has been heard in full has lost nothing at any
earlier moment. `Whole` says what follows from that: the answer has lost nothing
either, and the relays end from the target's side on, the forwarder only after the
host's relay and that only after the target. A bridge that ends then drops nothing:
what it would have handed on is empty, and so is the channel whose unread data would
reset the other (`FinishWhole`). This needs that the end of a stream means what it
says, which is `EndInv`: what `select` found readable is still readable when `recv` is
called, also if the connection was reset in between (`Found`), and nothing is left for
a party that is closed (`Emptied`).

*The way to the end.* `StepsLeft` counts what a connection has left: for every element
what it still costs to be sent, received by a relay, handed on and heard; for each
bridge a round it may begin, and for each peer that it may shut down, leave and hear
the end. `ConnectionIsNearer` proves that each step, whoever takes it, makes it smaller,
and `ConnectionIsBounded` that it is a natural number, at most `16 * MaxSent + 11`. The
delicate step is the one of a bridge whose `sendall` ends its round: it lengthens what
the bridge has left, by less than it shortens what the element has left. So a bridge
never goes round its `select` loop for nothing, not even on a socket which is readable
because it has ended, and a connection that does not end is one that waits. What it may
wait for is what `BridgesEnd` adds.

*Assumptions.* `BridgeAssumption`: a buffer has room for an element.

### Only model-checked

`CampaignEnds`, `ArenaEnds`, `RelayQuiets` and `BridgesEnd`: liveness under fairness is
out of the prover's reach. Every other property of a passing run has its theorem, and
for these four the theorems that measure the way to the end (`EveryStepIsNearer`,
`HostIsNearer`, `RelayIsNearer`, `ConnectionIsNearer`) leave TLC the question that is
about `ENABLED`: that nobody who still has steps to take waits for ever.

## 6. Plan

Done: the verdict path (`Verdicts`, `Promotion`, `Executor`, `Coordinator`), its
meaning in the world (`Oracles`, `Probe`), what precedes it (`Gate`, `Catalog`,
`Routing`, `Pipeline`, `Launch`) and follows it (`Cycle`), and the arena (`Conversation`,
`RelaySet`, `ArenaSession`, `Arena`, `Bridge`); proofs about all of them.

Next:

1. The execution of one command in the worker (`_execute`: its process group, the
   output limits and the timeout).
2. The loss of the server's process group in a local arena.

## 7. Not modelled, and why

* LLM providers, the console, argument parsing, `show-config` and `doctor`: pure I/O
  without state kept between calls.
* Below the network adapters' "answer, failure or exception": headers, truncation,
  sockets.
* Credentials: what a token's absence does is in `Gate` and `Launch`; the headers made
  of it are not. The ranges of single settings are assumptions on constants.
* JSON, redaction, prompts and the layout of reports: no property is about them.
* `last_route`: the program has one caller at a time, which reads it before its
  next request.
* The memory events of the pipeline: the program never gives it a sink.
* The building of the arena's namespace: its failure is `SpawnFails`; what it mounts
  and hides is the kernel's business.
* The window of the service manager's start limit and the unit's sandboxing.
