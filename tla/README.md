# HomeMagic: verification project

HomeMagic is a Rust daemon that keeps a household's devices (Shelly over HTTP and
WebSocket, Matter through a controller port), executes governed commands on them
and runs automations. This directory holds TLA+ models of the parts of the daemon
whose behaviour depends on concurrency, persistence and failure, TLC
configurations that check them on small instances, and TLAPS proofs.

## Inventory

| Component | State it keeps | Operations | What is hard | Modelled in |
| --- | --- | --- | --- | --- |
| Command service (`command_service.rs`, `command_repository.rs`, `domain/command.rs`) | commands and their audit log in SQLite; one private aggregate per call | `execute`, `cancel`, `approve_unlock`, `recover`, the transitions between | calls interleave at every await; crash between two durable steps; retried requests; stale aggregates | `Commands` |
| Matter desired state (`matter_commands.rs`, `matter_repository.rs`) | one desired slot per projection, supersession links, unlock authorizations | `register_desired`, `commit_dispatch`, `authorize_unlock` | optimistic transactions on what was read before; single-use authorizations; supersession races | `Commands` |
| Command limits (`policy.rs`) | stamps per actor, a semaphore per device, in memory | `try_acquire`, dropping a permit | the mutex covers only half of the operation | `CommandLimits` |
| Policy (`policy.rs`) | grants per actor | `evaluate` | decision is stale when used | `Commands`, in part |
| Automation scheduling (`automation_scheduler.rs`, `automation_events.rs`, `automation_engine.rs`) | event cursor, occurrences, timers, runs | `tick`, catch-up, admission (Single, Queued, Restart, Parallel) | the worker may fail and repeat any step; events and schedules arrive while runs are open | `AutomationScheduling` |
| Automation compiler, evaluator, simulator (`automation_compiler.rs`, `automation_evaluator.rs`, `automation_simulator.rs`) | none | compile, evaluate, simulate | groups, joins and failure policies; agreement with the runtime | `AutomationPrograms`, `AutomationPlans`, `Automation` |
| Automation lifecycle (`automation_lifecycle.rs`) | drafts, versions with evidence, approvals, active pointers | put draft, validate, simulate, approve, activate, disable, retire | two transactions per call; evidence older than what it is used for | `AutomationLifecycle` |
| Automation runtime (`automation_runtime.rs`) | run, continuation tree, command attempts, timers, trace | `step`, `cancel_run` | crash between a command and its record; revision conflicts; joins and races | `AutomationRuntime` |
| Matter operations (`matter_execution.rs`, `matter_administration.rs`, `matter_fabric_workflow.rs`, `matter_node_workflow.rs`) | operations with phases, a bounded queue, fabric stages, secrets | admit, execute, cancel, recover | ambiguous outcome of an external step; cancellation races completion | `MatterOperations` |
| Matter projection and subscriptions (`matter_projection.rs`, `matter_subscription_repair.rs`, `homemagic-matter/src/command.rs`) | projections, subscription rows, repairs | dispatch, confirm, repair | a projection read before a gap and stored after it; retries over a budget across crashes | `MatterProjection` |
| Foundation (`application/src/lib.rs`, `reconciliation.rs`, `registry.rs`) | device records in SQLite and in a registry in memory, the event log | refresh, freshness, metadata, removal, publication | writers of whole records with no lock over read, commit and registry; a deadline that drops a refresh at any await | `Foundation` |
| Shelly sessions (`homemagic-shelly/src/session.rs`, `websocket.rs`, `notification.rs`) | one task per device, a status cache | start, stop, connect, notify | replacement, gaps, reconnects, a refresh racing notifications | `Foundation` |
| Event subscription (`homemagic-api/src/lib.rs`) | cursor of a WebSocket client | accept, drain, wake-up, poll | wake-ups that are lost | `Foundation` |
| Matter sidecar (`sidecar_supervisor.rs`, `sidecar_protocol.rs`) | process, pending requests | spawn, request, restart | response after timeout, crash with requests in flight | no |
| Migrations, backup, authentication, secrets, the rest of the API | SQLite file, tokens, key store | - | single transactions, or pure input and output | no |

The API and the automation runtime call the command service; the command service
calls the Matter desired-state control and, after the dispatch is durable, an
adapter; adapters reach devices, whose reports come back through projections and
observations and advance the event log that automations and subscribers consume.
`serve` runs command recovery before anything else starts. All durable state is one
SQLite database behind one connection mutex, so a repository call is one atomic step;
everything between two calls may interleave.

Correctness, per component: a command is executed at most once per key, only
after an allow decision and a durable dispatch record, and its log explains its
state; a desired slot belongs to the newest request and an unlock consumes one
authorization; limits hold; a scheduled occurrence or event starts at most one run
and is not lost; a run performs each of its steps once across crashes and goes the way
its simulation went; only a governed version is active; a Matter operation mutates the
controller at most once and devices, controller and secrets agree; projections
never go back in time nor pass cached state for fresh; one session of a device
publishes on its own behalf, freshness settles and subscribers miss nothing.

## Modules

| Module | Models |
| --- | --- |
| `Commands` | the command path: service, command store, desired slots, authorizations, startup recovery |
| `CommandLifecycle` | the abstract promise `Commands` implements |
| `CommandsProofs` | theorems about `Commands` |
| `CommandGovernanceProofs` | theorems about audit, policy, slots, supersession, authorization and recovery of `Commands` |
| `CommandLimits` | the rate window and the device semaphores |
| `CommandLimitsProofs` | theorems about `CommandLimits` |
| `AutomationScheduling` | the automation worker's pass (events, schedules, recovery, interpreter round) against the owner's calls |
| `AutomationSchedulingProofs` | theorems about `AutomationScheduling` |
| `AutomationPlans` | the few operators on a plan that compiler, simulator and runtime share |
| `AutomationPrograms` | the compiler, the evaluator and the simulator as operators; extends `AutomationPlans` |
| `AutomationLifecycle` | drafts, versions, evidence, approvals and the active pointer; extends `AutomationPlans` |
| `AutomationRuntime` | the durable interpreter of one run beside the lifecycle; extends `AutomationLifecycle` |
| `Automation` | lifecycle and runtime over the plans of the real compiler, the real simulator and evaluator; extends `AutomationPrograms`, `AutomationRuntime` |
| `AutomationProofs` | theorems about `AutomationRuntime` and `AutomationLifecycle` |
| `MatterOperations` | handlers, queue, worker, repository and controller of the administration operations |
| `MatterOperationsProofs` | theorems about `MatterOperations` |
| `MatterProjection` | one commissioned node: projection, commands and subscription repair |
| `MatterProjectionProofs` | theorems about `MatterProjection` |
| `Foundation` | device records, their writers, sessions and a subscriber |
| `FoundationProofs` | theorem about `Foundation` |
| `MC*` | instances for TLC |

### Commands

Durable state is what SQLite holds: `commands`, `audit`, `slots`, `projections`,
`authorizations`, `supersessions`, `grants`. A service call is a thread of `Calls`
with a program counter and a private record: the aggregate it loaded (`own`), the
instant it captured (`now`), what it read of the slot (`view`). Each action is the
stretch of code from one repository or adapter call to the next, so an action
contains at most one transaction and everything the code computes after it:

| Action | Code |
| --- | --- |
| `execute`, `continue_received`, `transition` | `CommandService::execute` to `create_command`; validation and policy; every plain lifecycle write |
| `register_once`, `replace_matter_desired_state` | reading the slot, then the optimistic replacement with its retry loop |
| `commit_dispatch`, `record_matter_dispatch` | looking at the slot again, then the dispatch transaction |
| `adapter_dispatch`, `dispatch_committed`, `confirm` | the adapter call, its answer, the confirmation |
| `cancel`, `approve_unlock`, `authorize_unlock`, `create_unlock_authorization`, `authorize_and_record_unlock_dispatch` | the other two entry points |
| `recover`, `recover_one`, `serve` | startup; an error in recovery makes the process exit (`Fail`) |
| `Crash`, `Fault`, `replace_actor_grants`, `store_matter_projection`, `Tick` | the environment |

A payload is its kind; a device has one endpoint; what the policy and the
validation read that the module does not own (descriptors, constraints, capacity,
freshness of the device) is a nondeterministic verdict. `sent` counts adapter
invocations that reached the device and exists only for the properties.

### CommandLimits

`try_acquire` is three steps: the section under the mutex, the look at the device
semaphore, the attempt to take a permit. `MaxDelay` bounds how long a call may wait
between capturing `now` and entering `try_acquire`. The queue of an actor is kept in
the order of arrival, so a late call meets a queue from which later instants have
already dropped stamps that still count for its own: the limit holds in every window of
`actor_window` less that wait, and in `actor_window` itself only when calls do not wait
(`RateIsBounded`; with the full window TLC finds a counterexample for `MaxDelay` 1).
`accepted` is the history of an actor's accepted stamps and exists only for this property.

### AutomationScheduling

One automation identity with its versions. Durable state: `identity` (operational
state and version pointer), `events` and `cursor`, `occ` (occurrences), `runs` (each
with the timer of its delay). Volatile state: `worker`, the one task that repeats
`AutomationEngine::tick` with what it has loaded, `from` (`schedule_from`), and
`call`, a catch-up request in flight.

| Action | Code |
| --- | --- |
| `BeginPass`, `MaterializeEvent`, `AdvanceCursor` | `AutomationEventProcessor::process` |
| `LoadSchedules`, `MaterializeSchedule` | `AutomationScheduler::tick` |
| `ReadClock`, `LoadRecovery`, `ReadyTimer` | `process_recovery` up to its loop |
| `SkipOccurrence`, `MissOccurrence`, `DeferOccurrence`, `SuppressOccurrence`, `CancelForRestart`, `AcceptOccurrence`, `CreateRun` | the outcomes of one occurrence of the loop, one transaction each |
| `ReloadRuns`, `ReadRun`, `StepRun`, `EndPass` | the round of interpreter steps and the end of the pass |
| `PassFails`, `Crash` | an error leaves `schedule_from` where it was; a new process starts it at now |
| `Activate`, `Disable`, `Retire`, `CancelRun` | `AutomationLifecycleService` |
| `PrepareCatchUp`, `LoadMissed`, `RecordMissed`, `CreateCatchUp` | `request_catch_up`, step by step |
| `EmitEvent`, `Tick` | the environment |

A row's identity is what its hash is computed from, so a repeated creation meets
the existing row. A cron schedule is its set of instants. Consecutive reads without
a write between them are one step: each reads rows that the steps it is merged
across do not make depend on one another. The interpreter is a plan of one delay and
an outcome; that is enough to keep a run open across passes with a durable timer, and
the interpreter itself is in `AutomationRuntime`.
The event log is never pruned by this repository, so `CursorExpired` cannot occur.
`torn` counts the faults that hit a pass between an acceptance and its run.

### AutomationPrograms, AutomationLifecycle, AutomationRuntime, Automation

`AutomationPrograms` has no state. `compile` walks a document as the compiler does
(structure, targets, conditions, values, triggers, actions, groups and their joins, risk
and approval requirement) and returns a plan or its findings; `evaluate` is the
three-valued evaluation of conditions that the runtime and the simulator share;
`simulate` walks a plan over a fixture of triggers, observations and command outcomes.
Texts are abstracted to whether they are well formed, and a set of finding codes stands
for the diagnostics. Documents are trees, so these operators are RECURSIVE and the module
belongs to TLC; what the others need of it without recursion is in `AutomationPlans`.

`AutomationLifecycle` has the owner's calls, each cut where the code awaits the
repository: `PutDraft`; `Validate`, `CompileDraft`, `StoreVersion`; `Simulate`,
`StoreEvidence`, `AdvanceVersion`; `Decide`, `RecordDecision`; `Activate`,
`CommitActivation`; `Operate`, `CommitOperation` (disable, retire); `Abandon` (a
call that is dropped or fails between two transactions); `RegistryChanges`. A plan and
its hash are the pair of document and registry revision they were compiled from.

Lifecycle and runtime take the compiler's plans (`Plans`), the simulator (`Simulation`)
and the evaluator (`Evaluate`) as constants, so that the proofs about them hold whatever
these compute. `Automation` joins the parts: its ASSUMEs say that `Plans` are the
`CompiledPlans` of the documents (a constant, so that TLC compiles once) and that
`Governed` are the documents that command a governed device, and the configurations give
`simulate` and `evaluate_automation_condition` for the two operators.

`AutomationRuntime` adds one run: `run` (state, node, continuation stack, variables,
attempt, lasting conditions), `timers`, `trace`, `commands` by idempotency key. The
intervals of lasting conditions are a set, because the run has at most one per condition
hash and nothing depends on their order; a timer is what its identity is derived from:
node, kind and ready instant. `shared` is history: the timers that an interval was given
while another interval of the run already had them. An error of `execute` inside a dispatch
leaves the run as a crash at that point does, so `Crash` stands for both.

| Action | Code |
| --- | --- |
| `LoadRun`, `CommitStep` | `step` up to its decision on a copy; `commit_step` with its revision check |
| `BeginDispatch`, `DispatchTarget`, `EndDispatch` | `step_command`: one command service call per target between load and commit |
| `CancelRun`, `CancelTimers`, `CommitCancel` | `cancel_run` |
| `CreateRun`, `ReadyTimer` | the scheduler (`AutomationScheduling`) as the run sees it |
| `SettleCommand`, `Observe`, `Tick`, `Crash` | the command service, devices, the clock, the process |

### MatterOperations

Callers (RPC handlers) admit operations, a bounded queue carries them, one worker
executes them against the controller. Durable: operations with phase and revision,
fabric stage, secrets, fabric, repair records, node results, devices, projections. A
crash loses callers, queue and worker; the controller goes on. Every stretch up to one
transaction or one controller call is an action:

| Action | Code |
| --- | --- |
| `start_*`, `cancel_requested`, `admit` | `MatterAdministrationService` and the start halves of the workflows |
| `LoadStage`, `PutSecret`, `PutFails`, `SecretsReady`, `AttachFabric` | provisioning of the fabric's secrets, put by put |
| `submit`, `run_next`, `begin` | `MatterExecutionWorker`: bounded channel, take, authorization and load |
| `fabric_status`, `run_create`, `run_export`, `run_simulator_restore`, `load_fabric`, `activate_fabric`, `finish` | fabric workflow |
| `run_commission`, `commissioning_progress`, `advance`, `prepare_commissioning_projection`, `SubscribeNode`, `complete_commissioning` | commissioning |
| `run_remove_node`, `inspect_removal`, `clean_secrets`, `complete_node_removal` | removal |
| `run_cancel_commissioning`, `commit_matter_cancellation` | cancellation of a running commissioning |
| `recover_commissioning` | the recovery call |
| `Crash`, `ReplaceController`, `Revoke` | the environment |

The controller is the repository's deterministic simulator. An installation has one
fabric, so fabric ids are left out; time is left out because every transition passes a
later reading than the last. An envelope the simulator finds corrupt and an error of a
cancellation that took no effect end in `controller_error` like any other controller
error. `ctl.origin` remembers for each node the operation whose commissioning brought it
into the controller; it is history, the code keeps no such link
(`matter-node-workflows.md:97`).

### MatterProjection

One node. `project_matter_node` is the rule that selects a capability from the
descriptor; `normalize_matter_report`, `data_version_advances` (a comparison that
wraps, `VersionModulus`), `mark_matter_projection_stale` and
`advance_matter_projected_state` are the pure functions of `matter_projection.rs`;
`store_projection` is the optimistic write. A command is a flow `register_desired`,
`commit_dispatch`, `dispatch` (the slot is read again), `invoke`, `confirm`, `confirm_read`,
`confirm_store` with the row it read before the controller call. The worker's repair is `start`, `run`, `inventory`,
`begin_gap`, `read_gap`, `commit_gap`, `reserve`, `subscribe`, then
`record_established`, `record_subscribe_failure` or `record_ambiguous_dispatch`, with
deterministic jitter and a persisted retry instant. `Crash`, `lose_subscriptions` and
`Tick` are the environment; `epoch` and `calls` are history for the properties. Four
simplifications only add behaviours or leave out errors: a registration always succeeds
(its errors are in `Commands`), reports always carry a data version (the simulator's do), a
repair commits at the current instant instead of the one `run` captured, and `confirm`
reads slot and row in one step.

### Foundation

Every writer (`worker`, `api`, and the session tasks) is a process that reads a record
from the registry, changes its copy, commits it (`Apply`), puts it into the registry
(`upsert_all`), replaces or stops sessions where the code does, and wakes the subscriber
(`Wake`). No lock covers these steps.

| Action | Code |
| --- | --- |
| `runtime_worker`, `Scan`, `Reconcile`, `start`, `Joined` | the worker's loop and `refresh`, with the supervisor's mutex held while a replaced task is joined |
| `evaluate_freshness`, `update_device_metadata`, `remove_device`, `stop`, `Stopped` | the other facade calls |
| `Deadline`, `OrphanCommits` | `runtime_worker` drops a refresh at any await; a transaction already handed to the blocking pool still commits |
| `Connect`, `publish`, `NotifyStatus`, `NotifyEvent`, `SocketLost`, `Cancelled`, `Backoff` | the session task, its baseline, frames and reconnects |
| `accept_subscription`, `drain_events`, `Woken`, `Polled`, `SendFails` | the WebSocket subscription |
| `ApplyFails`, `Restart`, `Clock` | the environment |

A record keeps lifecycle, availability, first sight, last success and the metadata
people set; the rest of a snapshot, repairs and observed values are left out.

## Runs

| Run | Checks | Shows |
| --- | --- | --- |
| `lock` | `TypeOK`, `SlotTracksDispatch`, `SupersessionIsLinked`, `UnlockIsAuthorized`, `RecoverySettles` | an unlock waiting for approval and a lock replacing it, two calls, two approvals, a revocable grant, a crash |
| `mixed` | `OneInvocationPerKey`, `InvocationIsGoverned`, `AuditExplainsState`, `ImplementsLifecycle` | a reused key, a dry run, an unmanaged device, a fault and a crash |
| `live` | `CallsReturn`, `DaemonServesAgain` | progress under fair scheduling |
| `admission` | `PermitsConserved`, `RateIsBounded` | interleaved admissions whose instants arrive out of order |
| `engine` | `RunsOnlyForAccepted`, `CatchUpOnlyMissed`, `OverAdmissionIsTorn`, `NoTimerOutlivesItsRun`, `CheckpointAfterOccurrence`, `QueueIsFirstInFirstOut` | a queued and a restart version, schedules, an event and catch-up against a worker that may fail or crash at any step |
| `progress` | `EveryOccurrenceDecided`, `EveryAcceptanceRuns` | a queue moves on across a fault, and stops only behind a full page or an over-budget run |
| `automation` | `ActiveIsGoverned`, `SimulationPredictsRun`, `OnlyFailuresAreRetried`, `TimersMatchRun`, `EvaluatorIsSound`, `RunEnds` | authoring by two interleaving callers; runs of a race, nested groups, waits with one, two and two colliding lasting states, a retried command and exhausted budgets, against observations, a crash, a cancellation, a disabling |
| `matter_operations` | `DispatchedOnce`, `CancellationSettlesBoth`, `EnrolledIsBacked`, `StrayNodeIsUnfinished`, `AttachedFabricHasSecrets` | operations on two nodes by concurrent handlers and one worker with a crash, controller fault, revoked grant or replaced controller at any step |
| `matter_projection` | `NoCachedFresh`, `AttemptsWithinBudget`, `MismatchIsReal`, `ReportsAdvance` | commands on a light or a lock while its subscription is lost and repaired |
| `foundation` | `OneSessionPerDevice`, `EventsReachSubscriber`, `FreshnessConverges`, `FacadeCallsEnd` | worker, call, sessions and subscriber over one device record |
| `wedge` | `SlotIsSupersedable` violated | a cancelled or expired command keeps its slot |
| `simulation` | `SimulationPredictsRun` violated | a failure with policy continue inside a parallel branch |

### Bounds

`Commands`. Two commands on one device are enough for a supersession and for every
pair of calls that compete for a slot; two calls plus recovery give every pairwise
interleaving; one crash reaches every durable prefix of a command's life, because a
second startup begins from a state the first one could also have begun from. The
clock runs to the last deadline of the requests. `RegistrationAttempts` is 2 (4 in
the code), so both the retry and the last error happen. `lock` and `live` use
`AuthorizationLifetime` 1, so authorizations expire. Symmetry is used only in runs
without liveness.

`CommandLimits`. Three calls compete for two requests per window and one permit per
device, so both limits refuse; a call may wait 1 in a window of 3, so stamps arrive out of order,
and the clock (to 4) runs past the end of the first window.

`AutomationScheduling`. Two versions in `engine` (a switch of versions while runs are
open) and one in `progress`, instants at 1 and 2, clock to 2, a window of 0 (so
instants are missed), a delay of 1, one event, one idempotency key, one fault and at
most two owner calls (one in `progress`). A run budget of 1 makes runs exceed it in both
runs. `Page` (1000 in the code) is 10 in `engine`, more than the rows that exist, and 2 in
`progress`, so that accepted rows fill it. `EveryOccurrenceDecided` names the two ways in
which the code leaves a trigger undecided: `Crowded`, a page full of older rows, and
`HeldBack`, a run over its budget that stays open in front of the queue. Without either of
them TLC finds the property violated. `EveryAcceptanceRuns` has the first of them, which
these bounds do not reach for an acceptance; with two owner calls (303 000 states) TLC
finds that it is needed. Parallel mode is in the model and in the proofs and not in a run.

`Automation`. Eleven documents over a home of two lamps in a room and a lock. The
load `Authoring` offers documents 1 and 2 of two versions, two callers, six calls, one
fault and a registry change; `Running` and `Waiting` begin with an active version and
meet a crash, a cancellation or a disabling. Command outcomes are confirmation, a
retryable failure, a final one and one still open. `SimulationPredictsRun` compares a run
with the simulation of its plan on the outcomes the run met; it applies to plans whose
course depends on those alone (documents 3, 4 and 7). Retries are 1 of 1, so a retry
happens and is exhausted. The waits of documents 8 and 9 hold two intervals at once and
the lamp changes twice; those of document 8 cannot end together, those of document 9 can,
and then share a timer. Document 10 runs out of its trace budget and document 11 out of
its run budget. `RunEnds` names these three ways, and the disabled version, in which a run
stays open; with any of the first three left out, or with no timer allowed to be lost, TLC
finds a counterexample.

`MatterOperations`. Three operations with queue capacity 1 (a full queue happens), two
handlers while provisioning, one disruption in a behaviour; three secret references, so
a put fails or a crash comes before, between and after puts. `Nodewise` offers two
commissionings, two cancellations and a removal of two nodes, `Provisioning` two creations
from nothing, `Backup` an export and two restores. Keys, handlers
and nodes are symmetric.

`MatterProjection`. Two commands around one repair, or one command around two repairs
with two faults and two clock ticks; two attempts in the budget, so a retry happens and
the budget is exhausted. `VersionModulus` 8 is larger than the distance any stale copy can
fall behind here, as 2^32 is: the simulator counts from one and answers an overflow with an
error, so versions never wrap, and half the range would take 2^31 writes that nobody read. The
third descriptor lacks a command and is not projected.

`Foundation`. One device and two session tasks (one being replaced), eight loads of
bounded events: late notifications; a clock that passes both freshness limits; a call
against the clock, against a deadline, against a fault and a crash; a subscriber against
a dropped refresh, against faults, and coming back after a failed send. Scans that find the device are bounded, and this
matters: while every scan finds it and replaces its session, the baseline publication and
the freshness evaluation can overwrite each other after each replacement for ever.
`FreshnessConverges` therefore says that the registry settles once scans no longer find the
device and the clock stands still.

### Fairness

- `Commands`: a running call is polled and its repository and adapter calls return
  (`WF` on each thread's `Step`; the adapters use timeouts); the supervisor restarts the
  process (`WF` on `Startup`); time passes. Nothing is assumed of new requests, grants,
  reports, faults or crashes.
- `AutomationScheduling`: the worker is a task on a 100 ms interval (`WF` on
  `WorkerStep`), a catch-up request in flight is polled (`WF` on `CatchUpStep`), time
  passes. Nothing is assumed of owners, events and faults.
- `AutomationRuntime`: the worker steps open runs again and again (`WF` on `WorkerNext`),
  the scheduler creates the run and readies timers that are due, a dispatched command
  settles (every adapter call has a timeout and recovery settles what a crash left), time
  passes. Nothing is assumed of the owner and of observations.
- `Foundation`: the worker's interval and the subscription's poll fire again and again,
  tasks of the runtime are run, and the deadline of the worker's refresh passes while that
  refresh waits for a mutex or a task (`main.rs:1044`). Nothing is assumed of a device:
  `websocket.rs:104` and `websocket.rs:120` wait for the connection and for the baseline
  without a timeout and without looking at the cancellation, so `Connect` is not fair.
  Nothing is assumed either of scans finding a device, notifications, calls and faults.

`MatterOperations` and `MatterProjection` state no liveness: the daemon at this commit
starts no worker that would justify fairness.

## Disagreements

Two runs show that the code does not keep a statement of its documentation.

- `wedge`: `cancel` and `timeout` end a command that still holds an undispatched slot;
  `register_once` then tries to supersede it, fails with `PriorCommandNotCancellable`, and
  no later state-setting command of that device gets through; at startup the same error
  aborts `recover`. ADR-0036 says a new lock may supersede a still-undispatched unlock.
- `simulation`: `apply_failure` of the simulator continues with `execute_from(next, None)`,
  dropping the join its branch stops before, so that a failure passed over inside a group
  simulates the rest of the plan inside the branch and again after the join. The runtime
  runs it once. ADR-0021 says the runtime's order matches the deterministic simulator. The
  run `automation` therefore uses documents without continue or fallback inside a group.

Met while modelling; the models contain these behaviours, and no run is devoted to them:

- `command_service.rs:496` compares the deadline with the instant captured when the call
  began; `domain/command.rs:228` says a command must not dispatch at or after it.
- `policy.rs:212` looks at the permits before it takes one, so two calls may both be told
  that the last one is available; `policy.rs:185` says it acquires atomically.
- `automation_scheduler.rs:373`: after a fault between an acceptance and its run, the next
  pass creates the missing run without counting it and admits another trigger, where
  ADR-0027 says a single version accepts only when no open run exists.
  `OverAdmissionIsTorn` shows that this is the only way to exceed a run mode.
- `automation_repository.rs:1264` returns scheduled and accepted occurrences together,
  oldest first, at most 1000, and nothing removes accepted ones: once they fill the page no
  later trigger is decided. `automation_runtime.rs:210` reports a run over its budget as an
  error at every step, the run stays open, and a queued version defers every later trigger.
  ADR-0018:20 says "Every expected occurrence receives a durable status".
  `EveryOccurrenceDecided` shows that these are the only two exceptions.
- `matter_projection.rs:560` reads the lock states 1, 2, 3 as not fully locked, unlocked
  and locked; `simulator.rs:1034` writes 1 for locked and 2 for unlocked. A lock command
  that took effect on the simulator is reported as a mismatch, where
  `E4-007-05-02-sensitive-mutations.md:41` says `commands.execute` controls simulated light
  and lock state. `MismatchIsReal` therefore speaks of the light.
- `recover` loads one page of 256 commands (`RECOVERY_PAGE`) although the recovery guide
  says every non-terminal command is loaded, and `approve_unlock` dispatches with capacity
  hard-coded as available.

Foundation:

- Writers commit whole records read some awaits before. A removal is undone by a refresh,
  freshness or publication that read the record earlier; the registry may end older than
  the store; a rename is overwritten by the next scan.
- A refresh dropped between its commit and the registry lets the next refresh enrol the
  device again, with a new first sight and without its aliases.
- A session that was told to stop may still be connecting or publishing beside its
  successor when the deadline cuts `start` between cancelling and joining, and connecting
  and the baseline ignore the cancellation; ADR-0010 says a replacement joins the prior
  task. A session may be started for a device that a concurrent call removed.
  `OneSessionPerDevice` states what is kept.
- A device that accepts no connection and refuses none, or sends no baseline, keeps its
  session in `websocket.rs:104` or `websocket.rs:120` for ever, whatever it is told. The
  next `devices.refresh` or `remove_device` that replaces or stops this session then never
  returns (`session.rs:141` joins the task, `start` under the mutex); the worker is freed by
  its deadline. ADR-0010:20 says that starting a device cancels and joins its prior task.
  `FacadeCallsEnd` shows that nothing else keeps a call waiting.
- The worker and `devices.refresh` may scan at once, where ADR-0011 says at most one
  discovery cycle is active.
- A candidate seen with an instant before its first sight fails the whole refresh.
- A partial notification replaces the whole stored observation row, where ADR-0010 and
  `E1-006-shelly-managed-sessions.md` say omitted fields keep their timestamps.
- No adapter reports a device as sleeping, `remove_device` has no RPC method, and no
  code prunes events.

Matter:

- A failure after the controller commissioned the node ends the operation as failed with
  the node still in the controller; `E4-007-matter-rpc-workflows.md:70` says a partial
  commissioning stays repairable. `StrayNodeIsUnfinished` states what is kept: the operation
  that brought the node in never counts as completed or cancelled.
- A cancellation whose commissioning was closed by `recover_commissioning` can never
  complete, although `matter-node-workflows.md:88` says it can be retried.
- A removal resumed after its controller call cleans secrets without looking at the
  controller again; an operation whose grant is revoked while it waits stays open; a
  process loss during an export leaves it in need of repair; recommissioning a removed
  node meets its tombstone at the commit; `commissioning_progress` reads one page of 256
  events; a full channel drops the wake of an admitted operation, which then waits for the
  next request; a handler with a stale stage may put fresh secrets over stored ones.
- The daemon does not wire the execution worker, nothing in it consumes the controller's
  report events, `MatterSubscriptionRecovery` of `matter_subscription.rs` and
  `retain_matter`, `store_matter_repair` and `recover_matter` have no caller but tests.

Automation:

- An evaluation error leaves the run open with the same error at every step, and so does
  an exhausted trace or run budget; a run of a version that was disabled or replaced goes
  on or stays open.
- `simulate` and `decide` commit in two transactions; abandoned between them, a version
  stays in `Simulated`, or a decision is recorded and the version is not moved.
- A zero backoff gives a retry the timer identity of the attempt before it.
- The reduction of commands compares authored references, so an alias and an id of the
  same device are two targets (`docs/api/automation-ir.md:40` speaks of the same endpoint).
- Activation compares the plan with its evidence and not with the current registry, where
  ADR-0017 says evidence for another registry state cannot be reused.
- How long a state lasted is sampled only when the run is stepped.
- `automation_runtime.rs:1392`: the identity of a state-duration timer names run, node,
  kind and ready instant, not the condition. Two lasting conditions of a node that end at
  the same millisecond share a timer; the first to mature consumes it, and no later step
  can leave the node: an evaluation that reaches the other interval fails with
  `DurationTimerMissing`, and every exit, the wait timeout included, cancels the timers of
  pending intervals, which storage refuses for a consumed one. ADR-0024 says "Multiple
  duration clauses can mature deterministically one after another". With a wait for
  "on for 2, or for 1 once it is late" (document 9) TLC reaches such a run.
  `TimersMatchRun` shows that only a shared timer is ever lost, `RunEnds` that the run then
  stays open.
- `automation_runtime.rs:584`: a step that ends up waiting for a pending interval, with no
  timer to cancel, stores nothing. If it found a mature interval broken, that interval
  stays in the run and counts as held as soon as its condition is true again, where
  ADR-0024 says the runtime removes an interval whose condition evaluates false.

## Proofs

Every theorem holds for all values of the constants that satisfy the named ASSUMEs of its
module. The recurring difficulty is the same in every component: a call, a worker or a
repair acts on a copy it took some awaits ago. The inductive invariants therefore say how
such a copy relates to the stored row, and the proofs show that the version or revision
check of the repository makes that relation enough.

**`CommandsProofs`**

- `TypeCorrect`: `Spec => []TypeOK`. `TypeOK` is not inductive: `write` needs a goal
  that is a state, an unlock in progress needs its approver and an existing
  authorization. `TypeInv` adds these (`ThreadOK`, `AuthorizationHeld`).
- `AtMostOneInvocation`: `Spec => []OneInvocationPerKey`. The lemma `Effect` reduces
  every step to one of four kinds (receive, advance, invoke, rest). `DispatchInv` is
  inductive over these: a command without a dispatch record was never sent, a call
  at the adapter owns a dispatched, unsent command, no two calls own the same one,
  and a key names one command. It holds because the only way to the adapter is a
  transition to `Dispatched`, which `allows_transition_to` permits only from
  `Validated`, where `DispatchInv` says nothing was sent and nobody is at the adapter.
- `Refinement`: `Spec => ImplementsLifecycle`, from the same summary.

**`CommandGovernanceProofs`** (on top of `CommandsProofs`)

- `AuditIsComplete`, `InvocationsAreGoverned`, `SlotsTrackDispatches`,
  `SupersessionsAreLinked`, `UnlocksAreAuthorized`: the invariants `AuditExplainsState`,
  `InvocationIsGoverned`, `SlotTracksDispatch`, `SupersessionIsLinked`,
  `UnlockIsAuthorized`. None is inductive alone, because one transaction moves the row,
  the log, the slot, the link and the authorization together; `GovernanceInv` joins them
  with `CallsSound` and `PageSound`: what a call (or the page of `recover`) holds is a
  version of the stored row, and the stored row itself if it has its version. A
  durable write of a call is then a `Moves` step, and each part of the invariant is shown
  to survive a move once, for all actions that make one.
- `RecoveryIsComplete`: `Spec /\ []PageCoversOpen => []RecoverySettles`. `SettleInv` says
  where a command is that was open before the start and past its deadline: nowhere while
  the process serves; on the page or in the hands of `recover_one` while it recovers. The
  hypothesis (the open commands are finitely many and fit the page) is the behaviour the
  recovery guide describes; without it the property is false (Disagreements).

**`CommandLimitsProofs`**

- `PermitsAreConserved`: `Spec => []PermitsConserved`, for finitely many calls
  (`CallsAssumption`). A step changes one call, so the set of holders of a device gains
  or loses at most that call; the rest is cardinality.
- `RateIsKept`: `Spec => []RateIsBounded`. `RateInv` says that an actor's queue is the
  end of its history, that what is before the queue has expired by the present time, and
  that a call about to acquire is at most `MaxDelay` old. `PopExpired` says what the loop
  over the front of the queue drops; `Accepts` that the indices of a window that contains
  the new stamp are among those of the new queue, because what was dropped, by this call
  or any other, ended before the window begins. The queue is never assumed to be ordered.

**`AutomationSchedulingProofs`** (the rows of the tables are finitely many)

- `TypeCorrect`: `Spec => []TypeOK`, from `TInv`, which types every private copy of the
  worker and says what its loop variable ranges over in each stage.
- `OnlyAcceptedRun`: `Spec => []RunsOnlyForAccepted`, and
- `NoDoubleExecution`: `Spec => []CatchUpOnlyMissed`. Both come from `SInv`, which adds
  what makes them inductive: an occurrence the worker remembers as accepted is
  accepted in the table, a run it remembers exists, and a catch-up request about to
  create its occurrence has seen the instant recorded as missed. The argument is that
  these copies cannot become false: a decided occurrence never changes (`RowsKept`),
  runs are never removed (`RunsKept`), and only `CreateCatchUp` makes catch-up rows
  (`NoReplay`).
- `CheckpointFollowsOccurrence`: `Spec => CheckpointAfterOccurrence`, an action property.
  `EventInv`: the events still to do are the gap-free run of cursors behind the
  checkpoint, and at `Checkpoint` the first one's occurrence is durable.
- `QueueIsOrdered`: `Spec => QueueIsFirstInFirstOut`, an action property. `QueueInv`: every
  row of the page is ahead of the loop or left behind it, that is decided, not due, of
  another version or held back by a run that counts.
- `TimersEndWithRuns`: `Spec /\ []TimersFitPage => []NoTimerOutlivesItsRun`. `TimerInv`:
  while a pass may cancel runs, it knows every open timer; only the interpreter opens
  timers, and it does not run in that stage. The hypothesis says that the open timers fit
  the page (1000 rows) `cancel_run` and `process_recovery` look for them in; a timer
  outside the page would survive the cancellation of its run.
- `OnlyTornPassesOverAdmit`: `Spec /\ []RunsFitPage => []OverAdmissionIsTorn`.
  `AdmissionInv` counts the live executions of a version: its open runs and its
  acceptances that have no run yet. They exceed the run mode by at most `torn`, the number
  of passes interrupted between acceptance and run; the counter of the pass, or for
  `Restart` the runs it can cancel, misses no other. The hypothesis says that the open runs
  fit the page of runs a pass counts.

**`AutomationProofs`** (a plan's nodes have the nine known kinds with a natural retry limit
and targets in a list; commands are confirmed, failed or still open; the registry stays at
revisions that have plans)

- `ActiveVersionsAreGoverned`: `ASSUME CompilerIsSound PROVE Spec => []ActiveIsGoverned`.
  `LifecycleInv`: every version stored, or carried by a call to be stored, is of its
  document, and beyond `Simulated` it has a successful simulation of its own plan; a
  Ready version never changes (`TransitionKeeps`: `version_allows` leads from Ready to
  Retired only, which no call asks for), so a call that saw it Ready may activate it after
  any number of other calls; decisions are only added. The hypothesis is the compiler's
  half: the plan of a governed document requires an explicit approval. The run checks
  both halves together, and its mutant breaks the compiler's.
- `RetriesFollowFailures`: `Spec => []OnlyFailuresAreRetried`. `RetryInv` says what each
  copy of the run knows of the command table: the run, the write about to be committed,
  the dispatch in flight and the copies of a cancellation. A backoff or a dispatch names
  only targets whose attempt before failed with an error of the policy; results gathered
  one by one are as the table has them once they are settled. The table only grows and a
  settled command stays as it is (`Grows`), so a stale copy stays right, and a step that
  is repeated after a crash finds its keys used.
- `TimersAreKept`: `Spec /\ []EvaluatorIsSound => []TimersMatchRun`.
  `TimerInv` says which timers are open in each state of the run: none but the timer of
  its node's kind and those of its intervals, and every timer of a pending interval unless
  two intervals shared it (`TimersOK`, `IntervalsOK`, `OpenFor`), and something it waits for
  or a lost timer (`WaitsFor`). A step in flight (`WriteOK`), a dispatch (`CopyOK`)
  and a cancellation between its reads (`CancelFits`) hold copies; either the run has a
  later revision and `commit_step` refuses them, or what they write and the timers that
  stay open (`OpenAfter`) satisfy the same relation. One lemma per kind of node shows this
  for the writes it computes; a timer becoming ready, a settled command or a new
  observation changes neither revision nor which timers are open. `LifecycleInv` and
  `RetryInv` are used for the plan the run belongs to and for its attempt. The hypothesis
  is needed because the evaluator is a parameter of the runtime and recursive in the
  source; the run `automation` checks it for the real one.

**`MatterProjectionProofs`**

- `ReportsOnlyAdvance`: `Spec => ReportsAdvance`, an action property, and
- `FreshIsReadAfterGap`: `Spec => []NoCachedFresh`. `ProjInv`: a copy with the stored
  revision is the stored row (`Fits`), and a report held with such a copy was read in
  the current epoch, since beginning a gap takes a revision.
- `BudgetIsKept`: `Spec => []AttemptsWithinBudget`. `Budget`: the durable number of
  attempts counts every call before it is made, and is behind the calls only once the
  subscription is established and the next call has a gap, and a new budget, before it.
- `MismatchesAreReal`: `Spec /\ []WithinHalfRange => []MismatchIsReal`. `DeviceInv`: every
  report in the row, in a command or in the worker is one the device produced, and one
  that tells of a command's invocation is not older than that command. The hypothesis
  keeps the device within half the range of its data version, which is how far
  `data_version_advances` can tell later from earlier.

**`MatterOperationsProofs`**

- `DispatchIsOnce`: `Spec => []DispatchedOnce`. `OperationInv`: an operation is at
  revision 1 exactly while it is requested; for each place of the worker, the kinds it
  runs there, the stored phase and the number of dispatches (`Carried`); `Evolved` says
  that a moved operation has a new revision and a terminal one never moves.
- `FabricFollowsSecrets`: `Spec => []AttachedFabricHasSecrets`. A stage is ready only
  after all the puts of one handler, and no put is undone.
- `CancellationIsJoint`: `Spec => []CancellationSettlesBoth`. A cancellation about to
  settle holds both revisions; terminal phases are final.
- `EnrolledDevicesAreBacked`, `StrayNodesAreUnfinished`: `EnrolledIsBacked` and
  `StrayNodeIsUnfinished`. `NodeInv` follows each node from the controller's answer through
  projections and device to its removal, and each node in the controller back to the
  commissioning it came from (`ctl.origin`): a commissioning is closed as completed only with
  the device of its own node, and as cancelled only if the controller says that it had no
  effect.

**`FoundationProofs`**

- `SessionsAreUnique`: `Spec => []OneSessionPerDevice`. `Mutex`: a service that joins a
  replaced task holds the supervisor's mutex and the device has no owner; `Owner`: an
  owned task runs for its device and was not told to stop, so its slot is not reused.

Only model-checked, and why:

- Liveness (`CallsReturn`, `DaemonServesAgain`, `EveryOccurrenceDecided`,
  `EveryAcceptanceRuns`, `RunEnds`, `EventsReachSubscriber`, `FreshnessConverges`,
  `FacadeCallsEnd`): the prover does not treat fairness and ENABLED.
- `SimulationPredictsRun` compares the runtime with the recursive simulator; the prover
  does not support RECURSIVE operators, and the proof would be an induction over plans.
- `CompilerIsSound`, the hypothesis of `ActiveVersionsAreGoverned`, and
  `EvaluatorIsSound`, that of `TimersAreKept`, for the same reason.

## Not modelled

Listed in `PROJECT.json` with the reason. Queries, decoding, formatting, network
input and output, cryptography and the command-line tools are left out. SQLite is
taken to be atomic and durable per transaction. `retain_commands` and
`retain_automation` are not called by the daemon; if they were, `retain` could delete
a finished run and keep its accepted occurrence, whose run the next pass would create
again. Of the foundation: repairs, spaces, observed values, the deduplication window of
events, shutdown, and calls dropped when an RPC client disconnects. The sidecar process
and its protocol are not started by the daemon at this commit.

## Plan

1. `SidecarProtocol`: supervisor and requests.
2. A pure policy evaluator in place of the nondeterministic verdict of `Commands`.
