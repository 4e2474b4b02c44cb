# Formal models of the port energy-carbon cockpit

TLA+ models, TLC configurations and TLAPS proofs for the core of the backend
(`src/backend/app`): the services that keep state, and the evaluators that judge
signed site evidence. Paths below are relative to that directory unless they
start with `src/`.

## The system

One uvicorn process serves the API; synchronous routes run in a thread pool, so
every service object is called by several threads. State lives in module-level
singletons guarded by a lock each, and in small files that are replaced or
appended to.

| Component | State it keeps | Operations | Hard behaviour |
|---|---|---|---|
| Simulator, `services/runtime_simulator.py` | running flag, step, battery, injected scenario with its last step, last published snapshot, 500 replies by idempotency key; nothing on disk | start, stop, reset, advance, inject, `control`, `snapshot` (ticks by elapsed time), `apply_action` | a snapshot may tick first; callers hold no lock between two calls; bounded reply table |
| Decision service, `services/runtime_decision.py` | decision records, creation keys, `decisions.json` | create, approve, execute, rollback, get/list/audit | several writes per call (memory, simulator, audit log, file), any of which may fail or be cut off by a restart; replays by key; reads a snapshot and acts on it later |
| Integration gateway, `integration/gateway.py` | evidence per adapter with recent ids and sequence, `integration-state.json`, resident envelopes in memory | ingest, status, shadow snapshot | validation outside the lock, two separate locked reads for one release, resends and older messages, restart |
| Audit log and middleware, `core/security.py` | hash-chained JSONL file, rate-limit windows | append, verify, allow, dispatch | torn lines, readers without the lock, effect before audit, a table of clients that is purged |
| Training service, `rl/training.py` | current job, pause and stop events, run directories | start, control, status, learner callback, completion, registry, load | a learner thread against control requests, restart, failing writes |
| Dispatch-v7 switch, `rl/dispatch_switch_v7.py`, `rl/guarded_dispatch_v7.py`, `rl/qualified_dispatch_v7.py` | mode, policy and its digest, switch receipts | switch, step, replay | evidence read file by file while others may write it; two guards, one within the other |
| Evidence evaluators, ten of `services/*.py` with their signers in `src/scripts/sign_*.py` | none: one package in, a report out | evaluate; off line: prepare, approve, sign | several parties each sign a part, in any order and before or after an edit; ten to twenty gates that must fit each other |
| RL environment, `rl/environment.py` | one episode | reset, step | numeric; single-threaded |
| Linkage pipeline, `api/routes_linkage.py` | registry of child processes | start, stop, poll | process life cycle |
| Policies, benchmarks, datasets, other scripts, frontend | report files, browser state | offline | not stateful across calls |

The routes of `api/routes_runtime.py` call the simulator and the decision
service directly. The decision service calls the simulator (`snapshot`, then
`apply_action`, each under the simulator's own lock) and `append_audit_event`.
The simulator calls nobody. The gateway calls `verify_audit_chain` and is not
connected to the simulator. The training service, the dispatch switch and every
evaluator are on their own; the evaluators share a deployment, its trusted keys
and a way of working.

What makes each component correct:

* Simulator: the decision gate and the battery envelope hold in every published
  snapshot; an injected scenario lasts as long as asked; a retried mutation acts
  once.
* Decision service: a command needs a quorum of distinct people other than the
  requester and no veto; it is sent once and its rollback at most once and
  afterwards; what a client was shown is durable; the record, the audit log and
  the file agree.
* Gateway: a release is one consistent, fresh, aligned cut of the sources;
  sequences never go back; evidence survives a restart.
* Audit: the chain verifies whenever no line was damaged; every mutation is in it.
* Limiter: a client is refused exactly when it was granted the limit within the
  window, whatever was purged.
* Training: at most one active job; a stop ends it; a finished run has its
  artifact and manifest.
* Dispatch switch: learned weights decide only while the sealed file is in place;
  what they decide is certified against causal MPC; receipts tell who decided.
* Evaluators: what passes is what every signer had before them; a package that is
  pending lacks its trust and nothing else; figures that different gates answer
  for agree; offices that must be apart are; better evidence is never worse off.

## Modules

| Module | Models | How its state and actions correspond to the code |
|---|---|---|
| `SimulatorPhysics` | the methods of `RealtimePortSimulator`, as operators from a state to the set of possible next states | `running` = `_running`; `scenario`, `left` = `_scenario` and `until_step - step`; `temp` = band of `_battery_temperature_c` (46 C and 50 C are the thresholds of the code); `power` = band of the published battery power (900 kW is the derating limit); `allowed` = `decision_allowed` of the last snapshot |
| `RuntimeSimulator` | the simulator with its clients: `/runtime/control`, `/runtime/scenarios/inject`, the clock | one action per control action, `Inject`, `Replay`, `Tick`; `remembered` = keys of `_mutation_idempotency` in insertion order |
| `RuntimeDecision` | `RuntimeDecisionService` with the simulator beside it | `mem` = `_state["decisions"]`, `disk` = the state file, `op` = the call that holds the lock and its next step; `...Begin` actions run a method up to its first simulator or audit call, `Apply`, `AuditWrite`, `Persist` the rest, `...Replay` the early return by key, `AuditFails` and `PersistFails` the exceptions, `Crash` a restart with the file or without it (`Loaded`), `SimulatorRequest` and `SimulatorReset` other threads |
| `DecisionLifecycle` | what the service promises of its ledger | abstract: one lifecycle step of one decision at a time; `astray` is a start without the ledger, after which the first step begins a new one |
| `ShadowGateway` | `PortIntegrationGateway` with its sources and the network | `mem` = `_state["adapters"]` (newest sequence and id table of each adapter), `disk` = the state file, `resident` = `_resident_envelopes`; `Validate` is `ingest` before the lock, `Replay`, `Reject`, `Accept` its ends under the lock, `Persist` and `PersistFails` the write; `ReadClock`, `PassGates` or `Block`, and `Release` are the steps of `shadow_snapshot`; `Send` is a source (`Emitted`: a new snapshot, other values under a used id, an earlier snapshot again), `Crash` a restart with the file or without it |
| `TrainingJob` | `TrainingService`: the job, its learner thread, the files of its run | `job` = `_job` (id and status), `events` = `_pause` and `_stop`, `at` = where each learner thread is, `state`, `manifest`, `artifact` = the files; a call that holds `_lock` has a `plan` of writes, each a step that may fail (`WriteFails`) or be cut off (`Crash`); `Start`, `Pause`, `Resume`, `Stop`, `Ignored` are requests, `Callback`, `Record`, `Checkpoint`, `Finish`, `LearnFails`, `Handler` the learner |
| `AuditChain` | the middleware's effect and audit, `append_audit_event`, `verify_audit_chain` | `file` = the lines of the log; `Lock`, `ReadPrevious`, `Write` or `WriteFails` are one append; `WrittenKinds` how its line is read back, `Verifies` is the verifier |
| `RateLimiter` | `SlidingWindowRateLimiter.allow` | `events` = the deques by client; `Allow` and `Refuse` are the two ends of a call, `Purged` the rebuild of a table that is too long, `granted` what was really granted |
| `DispatchSwitch` | `DispatchSwitcherV7` in `replay_switches`, `verify_report`, the guards | `disk` = pointer, reports, recomputed evidence, policy files; `call` = how far `switch("learned_v7")` is and what it has read, one action per read (`BeginSwitch`, `Verify`, `ReadReport`, `ComparePolicy`, `LoadPolicy`); `StepMpc`, `StepLearned`, `StepFallsBack` are the ends of `step`; `Edit` is anybody who may write the files |
| `Evidence` | what the evaluators share | rows as sequences of records, tolerances, a digest as the value it is of |
| `CarbonAssets` | `CarbonAssetComplianceService` | allowance lots, trades, retirements, the ledger replayed against the registry, three offices and a registry attester |
| `SiteCutover` | `SiteCutoverService` | a signed module per domain, operational acceptance, approvals by role, one authority per key |
| `PortCollaboration` | `PortCollaborationService` | arrivals, berth milestones, priorities, shore power, fuel, fees, benefit sharing; seven source domains |
| `OperationsPlanning` | `OperationsEnergyPlanningService` | the greedy schedule of berths, cranes, yard, trucks, reefers and the storage search, behind twelve gates; eight sources |
| `ElectricalNetwork` | `ElectricalNetworkAssessmentService` | power through the tree of a feeder as it is, after each outage and as an island, with voltages, protection and chargers, behind fourteen gates; six sources |
| `CommercialSettlement` | `CommercialSettlementService` | the bill rebuilt from the meter, contracts, certificates, tenants, demand response, behind sixteen gates; eight sources |
| `AlgorithmProduction` | `AlgorithmProductionQualificationService` | a candidate policy against the champion: pairs, forecasts, latencies, seasons, injections, shadow run, behind fifteen gates; six sources |
| `MeasurementVerification` | `MeasurementVerificationService` | baseline and reporting intervals, exclusions, adjustments, uncertainty, behind ten gates and the reviewer |
| `EnergyCarbonManagement` | `EnergyCarbonManagementService` | a year of plan, operation, audit, corrective action and management review, behind fourteen gates and the reviewer |
| `EnterpriseSecurity` | `EnterpriseSecurityService` | identity, tenants, networks, availability, recovery, oversight, behind seventeen gates and three of trust; nine sources |
| `MCRuntimeSimulator`, `MCRuntimeDecision` | instances | symmetry, a view, and a check of the temperature bands against the arithmetic |
| `MCShadowGateway` | two gateways side by side, one with many envelopes and faults, one with two sources | `part` says which one a behaviour is of |
| `MCPlatform` | simulator, audit log, limiter and dispatch switch in one process | they share no variable; `part` says which one moves |
| `MCSiteEvidence` | the ten evaluators of one deployment | `part` is the kind of the package |
| `RuntimeDecisionProofs` | proofs about `RuntimeDecision` | types; authority and command order; what the file keeps, with and without failed writes; the refinement of `DecisionLifecycle`; derating |
| `ShadowGatewayProofs` | proofs about `ShadowGateway` | types; order of what is saved; the newest envelope is recognised; what is released |
| `MCShadowGatewayProofs` | the same of `MCShadowGateway` | both registries of the run |
| `TrainingJobProofs` | proofs about `TrainingJob` | types; one learner, no running job held, honest outcomes, artifacts of ready strategies |
| `AuditChainProofs` | proofs about `AuditChain` | the log's invariant; edits are detected |
| `DispatchSwitchProofs` | proofs about `DispatchSwitch` | types; sealed weights; two guards in a row; receipts |
| `PlatformProofs` | proofs about `RuntimeSimulator`, `RateLimiter` and `MCPlatform` | keys take effect once; a scenario lasts as asked; the limit is exact; a component's invariant holds in the composition |
| `SiteEvidenceProofs` | proofs about the ten evaluators and `MCSiteEvidence` | types; what passes is as its signers signed it; duties are apart; what pends lacks its trust only; order is kept and figures agree, for some kinds |

Every evaluator module has the same four variables: `request` is the package as it
is posted, `report` the last answer of `evaluate()`, `edits` how often the package
was changed, and `vouched` what each signer had before them when they signed (a
history). `Edit` changes one fact of the package, as one of its parties may before
or after a signature; `Sign` runs the signer script, which signs whatever is there;
`Evaluate` is the whole handler: every gate in the order of the code, the blockers,
the figures and the status. A gate is an operator named after the gate.

Abstractions, and why they lose nothing the properties see:

* *Physics.* A tick may move the temperature to any band that the recurrence
  `0.72 T + 0.28 target` reaches from the present one (`MCRuntimeSimulator`
  compares `NextBands` with the arithmetic in tenths of a degree), and may lower
  the power further (state of charge). The transformer and energy-balance
  reasons for closing the gate are one Boolean, free in every tick.
* *Several due ticks.* `snapshot()` may run up to 24 ticks; the model runs one.
  The others are those of further `snapshot()` requests just before, which
  `SimulatorRequest` and `Tick` contain.
* *Recommendation and projection.* The recommended action is any power the
  projection allows; the risk level (one or two approvals) is free.
* *Hashes.* `record_sha256` is the flag `sealed`: whether it is the hash of the
  record as it is. An event's entry in the audit log is its flag `audited`.
* *Names.* `decision_id` is a hash of the creation key, so a decision is named by
  that key and the two tables of the state change together.
* *Envelopes.* An envelope of the gateway is its adapter and sequence number, with
  an id, a time of observation and a payload, which is named by the envelope that
  had it first; any envelope once sent may be delivered at any time and any number
  of times, which is delay, reordering and redelivery at once, and never being
  delivered is loss. All are well signed and well formed: what `ingest` adds to
  `errors` for others keeps them out before the lock changes anything. A source may
  send a used id with other values, or an earlier snapshot, id and values, as a new
  envelope: `ingest` compares id and digest alone and takes it for a replay. The gates of mode, identity and audit chain may close at
  any time (`Block`).
* *Plans.* The writes of one locked call of the training service are a list that
  is worked off; a failed or cut-off write leaves the old file or a torn one.
  Metrics, checkpoints and progress are not told apart from the state file.
* *State files that cannot be read.* Both `_load` methods answer a file that does not
  parse, or is of another schema, with an empty state and no error; the next write
  replaces it. `Crash` chooses (fault "read"), and the history `unread` is true from
  such a start until that write. A restart after it may read the old file again.
* *Log lines.* A line of the audit log is the events whose text it has; a hash is
  the text it is taken of. An event with a line end of `str.splitlines` other than the
  newline in its path (which JSON leaves as it is) is read back as parts that do not
  parse: as one broken line, since nothing tells them apart (fault "separator"). The part of a line that a failed write leaves may be
  nothing, some of it, or all but the newline.
* *Evidence.* People, keys and rows are names; times, money and energy are small
  integers in units that make every ratio of the package whole, so that no gate is
  decided by rounding. A package starts as one that passes, with the rows that its
  gates compare, and an edit changes one fact to values on either side of a limit.
  What a schema refuses is not enumerated; what is formatted or only copied into the
  report is left out. A signature is the pair of a key and the content signed.
* *Dispatch files.* A digest is its content; an edit replaces a file, points to
  another release, or puts a file back. What the guards compare is a cost, a count of
  unsafe figures and `rest`, which stands for all that must not get worse, in units
  of the guards' tolerances.
* *Ties of the search.* The schedule of the vessels keeps the best `berth_beam_width`
  partial plans and cuts between equal scores by a digest; `Beams` lets the cut fall
  anyhow among them.
* *History variables.* `commands`, `seen`, `unread`, `effects`, `asked`, `shaped`,
  `saved`, `heard`, `vouched`, `torn` and `granted` guard nothing; they record what the properties speak of.

## Runs

| Run | Question | Result |
|---|---|---|
| `decision_faults` | authority, command order, type, the inductive invariant and a file that no write takes anything from, with crash, audit and persist faults | holds |
| `decision_crash` | durability of authority and of shown votes, record hash, audit before file, the monotone file and the refinement of `DecisionLifecycle`, with crashes and files that cannot be read; the battery envelope with over-temperature injected between any two steps | holds |
| `gateway` | replay protection, recognition of the newest envelope, accounted values with redelivery, used ids, snapshots sent again, failed writes, unreadable files and restarts; beside it, released values that are durable evidence resent since the restart | holds |
| `training` | one learner at a time, events that do not outlive their job, true outcomes, ready strategies with their artifact, and that a stop ends the job | holds |
| `platform` | idempotent mutations and scenario duration; the chain under concurrent appends, raising handlers, cut-off writes, divided lines and restarts, and the detection of edits; the limiter's count; sealed weights, certified decisions and truthful receipts of a replay | holds |
| `site_evidence` | the five promises of the ten evaluators (below), when packages are edited and signed in any order | holds |
| `gateway_race` | are the released values those that the gates saw? | violated: finding |
| `training_wedge` | does a stop end the job when the first state write of `start` fails? | violated: finding |
| `audit_torn` | is an answered mutation readable in the log after an earlier write was cut off? | violated: finding |
| `cutover_flipped` | is a package blocked whose votes were changed after signing? | violated: finding |
| `port_benefit` | is the benefit of a call shared once? | violated: finding |
| `plan_infeasible` | does "infeasible" mean that no plan keeps the hard constraints? | violated: finding |

`site_evidence` checks one property per promise; each is a conjunction with one
conjunct, defined in the evaluator's module, for every kind of package it applies to:

* `PassesAsSigned`: what passes has the content that each signer had before them. Each
  signs a part, so this says that the parts together cover what the gates read of the
  evidence. The cutover is the exception that `cutover_flipped` shows: its approvals
  sign the package without the approvals, so that the decision and the date of each,
  which the gate reads as well, are signed by nobody; there the property speaks of
  policy, figures and module evidence only.
* `PendingLacksOnlyTrust`: a package answered as pending, blocked by trust or waiting
  for a reviewer passes as it is once the right keys sign it: no business gate hides
  behind a trust gate.
* `FiguresAgree`: e.g. a ledger replayed from trades and retirements meets the
  registry's balance; a released plan can be carried out by the berths, cranes, gates
  and storage it names, judged without its search; a network that is ready feeds its
  buses now, the critical ones after each outage and as an island; the tenants' bills
  add up to what the meter, the tariff and the contracts cost; no hour of a meter is
  counted twice; every tenant has a key of its own.
* `DutiesApart`: offices that must be apart are held by as many people and keys,
  although approvals are looked up by the last row of a role.
* `OrderIsKept`: thresholds and times are compared the right way round: figures that
  improve on a package that passes block nothing, priorities rank as scored,
  marginal abatement costs never fall along their curve, a review comes after what it
  reviews.

Faults are constants, so what a property needs can be read off its run. A state file
that cannot be read ("read") is part of what the properties say, not an exception to
them: `DurableHistoryGrows`, `AcknowledgedVoteSurvives` and `ImplementsLifecycle` allow
the loss by the first write of a process that began without the file and by nothing
else, `SavedInOrder` is about the life of one file. So the code loses every decision,
and the gateway's protection against replays of before, when a file does not parse
once; neither tells. Three
properties fail with a fault added to `Faults`, and say what the code does then:

* `RecordHashValid` fails with "audit": `approve`, `execute` and `rollback` change
  the record before the audit writer runs and hash it afterwards. When the writer
  raises, the audit endpoint reports an invalid record hash until the next
  operation on the record.
* `AcknowledgedVoteSurvives` fails with "persist": after a failed state write the
  retry with the same key is answered from memory and writes nothing, so a
  restart loses the vote.
* `ReleaseIsEvidenced` fails with "persist": `ingest` changes memory before it
  writes, and `status` compares with memory. After a failed write the retry is
  answered as a replay and the state file stays behind what is released.

Bounds. `Decisions` has one element: two decisions share nothing but the lock,
the simulator (whose other users `SimulatorRequest` already covers) and the
file, which is written as a whole. Three people are a requester and two
approvers, the most that any risk level needs; two keys allow a replay and a
second attempt with another key. `MaxDuration` bounds the duration of an
injection (the code admits 192): what matters is whether it has ended.
`decision_faults` uses the scenario "normal" only, because the tick already opens
and closes the gate freely; `decision_crash` adds the over-temperature, the one that
the envelope depends on. "read" is off in `decision_faults` for the size of the run;
`FileNeverForgets` covers all four faults together. `platform` has more keys (4) than the simulator's table holds
(3), so keys are evicted and return. No state constraint is used; nothing grows
without bound because every command needs a status that it removes.
`ScenarioIds` keeps three scenarios that the control logic treats differently and
"disturbance" for the ones that only scale magnitudes.

The gateway's id table holds two ids instead of 100. In `gateway` one instance has
one adapter with three envelopes, so that an id is dropped from the table and comes
back, and two deliveries waiting for the lock; adapters share nothing in `ingest`.
A snapshot that is sent again needs the third number too. The other has a dynamic
source and a registry with two envelopes each, the second of which may be the first
snapshot again; a window of freshness of zero ticks tells every time of observation
from the next.
`gateway_race` has two dynamic sources, a window shorter than the age limit and a
clock that outlives both, so that alignment and freshness may each fail alone.

`training` has two jobs (what one leaves to the next), two steps per job and three
requests (pause, resume, stop). The audit log of `platform` has three requests after
up to two lines without a hash: a line that is cut off or divided, one that is run
together with it, and one that is chained to both. Its limiter has two clients, a limit of two, a
window of two ticks and a table of one, so that every grant may purge. Its replay has
two releases, one sound and one anything, two weights that fit the contract and one
file that does not, four hours with the learned window in the middle, and two edits
at any moment: the smallest number with which a file is changed between two reads and
put back.

`site_evidence` edits a package `PackageEdits` = 1 time (carbon assets, site cutover and
collaboration: `MaxEdits` = 2 times) from one that passes. One edit reaches every gate from both sides, because the
edits take values below, at and above each limit; two reach pairs of gates that are
meant to compensate. There are one trusted key and one that is not, except for site
cutover, where keys belong to authorities. Packages have the two or three rows that
an aggregate or a uniqueness check needs to go wrong.

Deadlock is checked except in the runs of `TrainingJob` and `AuditChain`, of
`platform` and of the evaluators, whose jobs, requests, hours and edits are used up.
Fairness is assumed in `TrainingJob` only: a learner thread runs, and so does the thread that holds the lock (weak fairness of
each). `threading.RLock` promises no order among waiters; requests are
finitely many (`MaxCalls`), so the learner gets the lock without such a
promise. A paused job need not end, and nothing forces a client to resume it.
The other components are driven by requests alone, and have no liveness to
claim.

## Findings

* `gateway_race`: `integration/gateway.py:455` says that values are returned only
  when all gates pass. `status()` gives the lock back before `shadow_snapshot()`
  reads the values; an envelope ingested in between is released unaligned, and
  the reply's `source_evidence` cites another one.
* `training_wedge`: `rl/training.py:312` answers a stop with "current checkpoint
  will be saved". `start()` makes the job running before its first state write
  and before the learner exists; if the write raises, a stop leaves the job
  "stopping" for ever and no other job can start.
* `audit_torn`: `src/README.md:541` says that mutations are written to the
  chained log. After a write that was cut off, the next append goes to the same
  line and reports success; neither event can be read.
* `cutover_flipped`: `src/docs/SITE_CUTOVER_ACCEPTANCE.md:57` says that content changed
  after signing is blocked directly. `approval_subject_sha256` leaves the approvals out
  (`services/site_cutover.py:45`), the gate reads their decisions (`:325`): a rejection
  that was signed and then set to "approved" passes. The same line of the document says
  that a key without the authority for its domain blocks directly; the code answers
  `reconciled_pending_attestation` for it (`:356-371`), as for a key that is not
  configured. `DutiesApart` only says that such a package is never eligible.
* `port_benefit`: `src/docs/PORT_CALL_COLLABORATION.md:51` says that claims are
  unique, so that one reduction takes part in the sharing once. The gate judges the
  first sharing row of a call, the verified totals sum every row: a row sent twice
  passes and is released twice.
* `plan_infeasible`: `src/docs/OPERATIONS_ENERGY_JOINT_PLANNING.md:42` says that
  `infeasible` means that the hard constraints cannot be met. The storage search
  offers discharges beyond the load of a slot and prices them without the balance
  that a later gate demands; when the over-supplied trajectory is the cheapest, the
  answer is infeasible although another trajectory of the same table balances.

Met while modelling, without a run of their own:

* `services/runtime_decision.py:556` reapplies current limits before a command is
  sent, but reads them by `snapshot()`, which releases the simulator's lock;
  `apply_action()` may tick first. A receipt may name an input snapshot whose limit
  the recorded action exceeds; the battery is safe all the same, because the tick
  clamps again (`ThermalEnvelope`).
* `services/runtime_decision.py:70` and `integration/gateway.py:186`: a state file that
  cannot be read counts as empty, and the next write replaces it (see "Runs").
* `integration/gateway.py:276`: a snapshot that is sent again in a new envelope becomes
  resident without a change of the evidence. `status()` judges freshness by the
  evidence's `observed_at` and alignment by the resident envelope's, which then differ:
  values are judged fresh by one time and aligned by another. `Ready` has both;
  `gateway_race` leaves re-sent snapshots out, so that what it shows is the race.
* `core/security.py:328`: JSON is written with `ensure_ascii=False` and read back by
  `str.splitlines()`, which also ends a line at U+2028 or U+0085: a path with one of them
  breaks the chain (`VerifiedIsComplete` holds: the verifier sees it).
* `core/security.py:105`: only the deque in use is trimmed, so those of clients that
  went away are never empty and the purge finds next to nothing: the count stays
  exact (`LimitIsExact`), the table grows.
* `rl/dispatch_switch_v7.py:149`: a replay passes by its first two receipts, also
  when damage took the learned hours away; the receipts tell (`ReceiptsTellTheModes`).
  `switch()` compares the digest of a file and then reads it again: weights loaded in
  between run for as long as the sealed bytes are back when `step()` compares them,
  which is why `LearnedIsSealed` asks for files that did not change meanwhile.
* `services/algorithm_production.py:584-597`: one passing injection of the required
  kinds suffices for item 11 of `src/docs/ALGORITHM_PRODUCTION_QUALIFICATION.md`.
* `services/enterprise_security.py:292`: more acknowledgements than messages count as
  a delivery ratio above the limit; `services/energy_carbon_management.py:456` counts
  indicators, not objectives, as on target.

## Proofs

`RuntimeDecisionProofs` proves `[]TypeOK` (`TypeCorrect`),
`[]AuthorityInvariant`, `[]ExecutionAuthorised` and `[]CommandsInOrder` of `Spec`, for any sets of decisions, people and keys, any
scenarios and durations, and any combination of faults. Assumptions on the
constants: an absent person or key is none of the real ones, `Faults` is a set of
known faults, `MaxDuration` is positive and "normal" is a scenario.

`ExecutionAuthorised` is not inductive: a status in the file says nothing of how
it was reached, and the call in flight may have been decided on a status that has
changed. `AuthorityInvariant` adds what is missing. `Lawful` holds of *every*
record in memory and in the file, so that reloading the file after a crash, or
keeping memory after a failed write, keeps it. `CommandsFit` ties the commands
sent to this simulator to the status in memory (a restart forgets both).
`CallFits` says that the call in flight still fits: the status that `execute` or
`rollback` checked is there when the simulator answers, which holds because the
service's lock is kept. The proof has a step per action; the lemmas `LawfulKept` and
`LawfulVote` carry the two ways a record changes, and `AuthorityFrame` the actions
that leave records alone.

Its second half is about the file. With any faults, `FileNeverForgets` proves
`DurableHistoryGrows`: memory is always ahead of the file (`Extends`, a preorder) unless
the file is unread, a restart and a write that raises leave the file alone, and
`Clean` says that a record has no receipt before it is executed or blocked, so a write
never replaces one. What is left to a first write after an unread file is exactly the
case that the property names. Under `NoFailedWrites` (`Faults` holds at most "crash" and
"read"; the process may still stop between any two steps, and start without its file)
`Settled` says that memory and file
agree except on the record of the call in flight. From it follow
`AuthorityIsDurable`, `AcknowledgedVoteSurvives`, `RecordHashValid` and
`DurableEventsAudited`. The assumption is needed: after a failed write memory is ahead
of the file for good. `FileImplementsLifecycle` proves the refinement: what the call
in flight is about to write is one step of the lifecycle from what the file says
(`Takes`), so `Persist` maps to that step and every other step to a stutter; counting
ayes by people is counting votes because nobody votes twice. `PowerIsDerated` proves
`ThermalEnvelope` for any commands and faults.

`ShadowGatewayProofs` proves the safety invariants of `ShadowGateway` that hold, for
any adapters, any number of envelopes and any faults, from the assumptions that the
bounds are positive and that no adapter has the name of the absent one. Each rests on
the one before: `TableInvariant` (types, and a table of recent ids never grows beyond
its limit), `NewestIsRecognised` (the id of the newest envelope survives the sort by
name that the file imposes, because trimming drops from the other end; `ByName` is the
order, of which the proof only needs that the same ids come back), `OrderInvariant`
(a number that was saved in this file is at most the newest in it and, unless the file is
unread, in memory, and below one that is being saved), `ResidentInvariant` (values in memory are recorded, and belong to
a source that has sent since the restart), `DurableInvariant`. `ReleasedIsEvidenced` has
the hypothesis `WritesSucceed`: a failed write leaves memory ahead of the file.
`MCShadowGatewayProofs` shows that both gateways of `MCShadowGateway` are instances of
`ShadowGateway` under these assumptions, so its six invariants hold for every set of
adapters.

`TrainingJobProofs` proves `[]TypeOK`, `[]OneLearner`, `[]RunningIsNotHeld`,
`[]HonestOutcome` and `[]ReadyHasArtifact` of `Spec`, for any number of jobs, steps and requests and any
faults, from the assumption that the bounds are positive. `LearnerInvariant` adds
to `OneLearner` what the call that holds the lock is about to do: a start in flight
finds no learner training, a learner that will go on is that of the current, active
job, and only a call that ends the job changes its status (`Holds`).
`OutcomeInvariant` adds to `HonestOutcome` that the status in memory is as honest as
the files, that the stop event says whether the job was asked to stop while it is
active or its outcome is still to be drawn (`StopTold`), that no file calls an active
job finished, and that runs without a directory have no files and no stops
(`Known`). The lemma `AdvanceKeeps` carries every step of a plan. For
`ReadyHasArtifact` the plan of a call in flight is what matters: the call that ends a
job writes the artifact before the manifest that offers it, and no later step of the
same plan takes it back.

`AuditChainProofs` proves `[]LogInvariant` of `AuditChain`, from the assumptions that
no request is called "none" and that the log of the release before is finite. That
the log verifies is not inductive: what an append has read must still be the last hash
when it writes (`HolderReads`, by the lock), and damage must not spread, so `Chained`
says of *each* line that it continues the one before it, also when others are broken.
`AnsweredHold` gives completeness: an answered request has its event, or there is a
broken line for a verifier to see. For edits, `EventsAreDone` says that no two events
are the same; the lemma `MisplacedIsDetected` then shows that a line which follows an
event cannot stand in its place, which covers removal and exchange alike.

`DispatchSwitchProofs` proves `[]DispatchInvariant` of `DispatchSwitch`, for any
releases, weights, outcomes, hours and number of edits. `ReadSoFar` follows the call
through its reads and says, as long as no file changed, what each has established;
`Switched` carries it over to the weights in charge, and needs that the call happens
once: its receipt forbids another. `QualifiedIsNeverWorse` is the arithmetic of the
two guards. `ReceiptsAreTrue` proves `[]ReceiptsTellTheModes` from `HoursAssumption`
(the window lies within the episode): the receipts so far account for every hour so
far, and damage is what ends a learned stretch before the hand-back.

`PlatformProofs` has three parts. The first proves `[]TypeOK`,
`[]KeysTakeEffectOnce` and `[]ScenarioLastsAsAsked` of `RuntimeSimulator`: the table
holds exactly the keys of the last effects, and the ticks a scenario has shaped and
those it has left add up to what was asked. The second carries the components'
theorems to the composition that the run checks: every step of `MCPlatform` is one of
the component's or leaves its variables alone. The third proves `[]LimitIsExact` of
the limiter for any clients, limit, window, table size and clock bound
(`LimiterAssumption`): a deque is a suffix of all the requests that were granted to the
client, and what is cut off in front is older than the window (`SuffixOf`), so the loop
that pops old events leaves exactly those in the window, and purging a table only drops
clients without any. With these, every property of the run `platform` is proved:
`KeysTakeEffectOnce` and `ScenarioLastsAsAsked` for any keys, table and durations,
`ChainVerifies`, `VerifiedIsComplete` and `EditsDetected` for any requests, legacy lines
and faults, `LimitIsExact`, `LearnedIsSealed`, `NeverWorseThanMpc` and
`ReceiptsTellTheModes` for the replay that `MCPlatform` instantiates (the invariants
themselves for any), and `PlatformTypeOK`.

`SiteEvidenceProofs` proves `[]TypeOK`, `[]PassesAsSigned`, `[]DutiesApart` and
`[]PendingLacksOnlyTrust` of `MCSiteEvidence` for all ten evaluators, `[]OrderIsKept`
for four of the six kinds of package that it speaks of, and `[]FiguresAgree` for two of
nine: for any keys, any numbers of edits (`EditsAssumption`: they are natural numbers)
and any trust store that has the key "k1" (`TrustAssumption`: the witness of "signed
with a trusted key", used by `PendingLacksOnlyTrust` alone). The edits themselves are
those of the modules. A report that passes is of the package that is there now: that is the
easy half. The other half is about signatures. That what passes is what its signers
had before them is not inductive, because a package that has not passed
yet may carry signatures of old content: the invariants therefore say of *every* row
of the attestations, whoever is named in it, that what it was signed over is what the
owner of that domain vouched for, field by field (`PartsHold`), and that a row is
signed under its own name as long as no two rows have the same (`Signers`). A gate
compares a row with the package as it is, so a package that passes has, in each field,
what was vouched for, provided that the domains' parts together are the whole package
(`CsParts`, `EsParts`, ...: the lemma that fails when a field has no owner). Rows that
are doubled, dropped, renamed or appended keep this, since a signature travels with
its row. For `DutiesApart` the lemmas `OneMore`, `ThreeApart` and `FiveApart` count the people
whom the role gates have compared pairwise; `CsApprovers`, `EsApprovers`, `CaApprovers`
and `EcHolder` turn what the code finds by role, the last row of it, into who holds the
office, which needs that no other row has the same role.

`SitePendingLacksOnlyTrust` compares two evaluations, of the package as it is and of the
same package signed just now. Its argument goes gate by gate, never through the value of
a sum: the business gates read nothing that signing moves, so that each has the same
answer in both (`CsAsSigned`, `EsAsSigned`, `PcSamePayloads`, ...); the trust gates
hold of the package signed anew (`FreshTrusted`: the rows are one per domain, of known
names, in time, hashed over the package as it is, and by a trusted key). The second needs invariants of its own, as
the terms of a policy are edited like everything else: how old an attestation may be is
never less than zero and the dates are those of the schema (`Dated` and its like), the
attester of the carbon book holds no other office, and no book is later than the day
it is signed.

`SiteOrderIsKept` needs that figures, scores and dates stay numbers under every edit
(`PcScored`: scores are 0 to 100; `EcTimes`). For the cutover and the safeguards "as
good as" is a relation between packages, each gate is shown monotone in it, and the
better package is signed anew by all. For the collaboration the rank is one more than
the number of better scores in the berth's cohort, so that a better score has a
smaller set before it. For the cycle, plans come before the start, what is done lies
between start and end, and audit and review follow. The two kinds it leaves out are
named in the theorem's hypothesis.

`SiteFiguresAgree` is about the two kinds whose figures are counts. `EcCounted` shows why
the report of a cycle may compare indicators with objectives: the indicators have
different names, each of them is the one of some objective, so that they are no more
than the objectives, and as many on target as there are objectives means all of them
(`EcAimed`: an objective is judged by the one indicator of its name). `EsKeyed`: the
validator refuses an organization that is listed twice (`EsTenants`, an invariant), the
gate wants a key for each and no key twice.

Only model-checked are

* `StopEnds`: liveness, and needs fairness;
* `FiguresAgree` of the other seven kinds: sums over rows, ledgers replayed, a search for
  plans: what a fold or a recursive function computes for every input is an induction
  over data;
* of `OrderIsKept`, `ChargersHelp` (the waiting time of a queue falls with the number of
  chargers: Erlang's formula is a fold) and `CurveRises` (a curve is sorted, and its
  costs are sums), for the same reason;
* the agreement of `NextBands` with the arithmetic, which TLC evaluates;
* the properties of the runs that expect a violation.

## Plan

1. Decision service, simulator, abstract lifecycle; type, authority and durability
   proofs, and the refinement. (Done.)
2. `ShadowGateway`: ingest, status, shadow snapshot. (Modelled, checked, proved.)
3. `AuditChain`: appends, cut-off lines, verification. (Modelled, checked, proved.)
4. `TrainingJob`: job, learner, files, restart. (Modelled and checked; safety proved.)
   Left: evaluation, verification records and the stages of the model registry, where
   evidence of one artifact must not admit another.
5. `DispatchSwitch` and `RateLimiter`. (Modelled, checked, proved.) Left:
   conservation in the RL environment, the linkage registry.
6. The evaluators. (Ten modelled and checked; types, signatures, separation of duties,
   what pends, order for four of six kinds and figures for two of nine proved.)
   Left: `port_emissions_inventory`, and proofs about single gates
   whose sums have a fixed number of rows.
7. Refinement of the audit calls of `RuntimeDecision` by `AuditChain`.

## Not modelled

* `rl/environment.py`, the policies, tuning and benchmarks: floating-point dynamics of
  one single-threaded episode and offline experiments over it.
* `services/port_emissions_inventory.py` and the dashboard calculators: arithmetic
  from a request to a table, without gates that depend on each other.
* The registry's stages and the evaluation of `rl/training.py`, `api/routes_linkage.py`:
  planned. Most of the linkage routes assembles command lines and answers.
* Datasets, packaging and browser scripts, the deployment kit: file handling. The
  frontend keeps no authoritative state. Configuration is read once at start.

`PROJECT.json` lists every component with its reason.
