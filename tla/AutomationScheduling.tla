------------------------ MODULE AutomationScheduling ------------------------
(***************************************************************************)
(* The automation engine of one automation identity: the event consumer,   *)
(* the durable scheduler and the round of interpreter steps that one       *)
(* worker repeats, beside the lifecycle calls of its owner (activate,      *)
(* disable, retire, cancel a run, catch up a missed instant).              *)
(*                                                                         *)
(* Every repository call is one transaction and one step.  The worker      *)
(* keeps private copies of what it loaded: the active version, the page of *)
(* recoverable rows, the open runs with their revisions, the counters the  *)
(* admission reads.  Between two of its steps an owner's call, the clock,  *)
(* an error or a crash may intervene.                                      *)
(*                                                                         *)
(* Abstractions: the identity of a row is what its hash is derived from; a *)
(* cron schedule is its set of instants; the interpreter (automation       *)
(* runtime) is a plan of one delay followed by an outcome, enough to keep  *)
(* a run open across passes with a durable timer.  The event log is never  *)
(* pruned by this repository, so a cursor never expires.                   *)
(***************************************************************************)
EXTENDS Naturals, FiniteSets, Sequences

CONSTANTS
  Versions,        \* immutable versions of the automation, all Ready
  Mode,            \* run mode of each version: [kind, limit]
  Schedule,        \* instants of each version's schedule
  Subscribed,      \* versions with a trigger that matches the events
  SelfTrigger,     \* self-trigger policy of each version
  Window,          \* occurrence_window_ms
  Delay,           \* length of the plan's delay
  RunBudget,       \* maximum_run_duration_ms
  Page,            \* RECOVERY_PAGE, MAX_EVENT_PAGE: 1000 in the code
  Keys,            \* idempotency keys of catch-up requests
  MaxTime,         \* bound of the clock
  MaxEvents,       \* bound of the event log
  MaxCalls,        \* bound on owner calls
  MaxFaults,       \* bound on failed passes and crashes
  None

RunModes == {"Single", "Restart", "Queued", "Parallel"}

OccurrenceStates == {"Absent", "Scheduled", "Accepted", "MissedSkipped",
                     "Suppressed"}

RunStates == {"Absent", "Pending", "Running", "Waiting", "Completed",
              "Failed", "Cancelled"}

TimerStates == {"Absent", "Pending", "Ready", "Consumed", "Cancelled"}

Open == {"Pending", "Running", "Waiting"}

Instants == UNION {Schedule[v] : v \in Versions}

\* AutomationOccurrenceId::from_key over (automation, version, source key).
ScheduleId(v, t) == <<v, "schedule", t, None>>
EventId(v, c) == <<v, "event", c, None>>
CatchUpId(v, t, k) == <<v, "catch_up", t, k>>

Occurrences ==
  {ScheduleId(v, t) : v \in Versions, t \in Instants}
    \cup {EventId(v, c) : v \in Versions, c \in 1..MaxEvents}
    \cup {CatchUpId(v, t, k) : v \in Versions, t \in Instants, k \in Keys}

VersionOf(o) == o[1]
SourceOf(o) == o[2]

ASSUME ModeAssumption ==
  Mode \in [Versions -> [kind : RunModes, limit : Nat]]
ASSUME ScheduleAssumption == Schedule \in [Versions -> SUBSET Nat]
ASSUME SelfTriggerAssumption ==
  /\ Subscribed \subseteq Versions
  /\ SelfTrigger \in [Versions -> {"SameVersion", "SameCorrelation", "Allow"}]
ASSUME NumbersAssumption ==
  /\ Window \in Nat
  /\ Delay \in Nat
  /\ RunBudget \in Nat
  /\ Page \in Nat \ {0}
  /\ MaxTime \in Nat
  /\ MaxEvents \in Nat
  /\ MaxCalls \in Nat
  /\ MaxFaults \in Nat
\* The rows of the tables are finitely many.
ASSUME FiniteAssumption == IsFiniteSet(Occurrences)
ASSUME NoneAssumption == None \notin Versions /\ None \notin Keys /\ None \notin Occurrences

VARIABLES
  clock,
  identity,    \* operational state and active-version pointer
  events,      \* the durable event log; an event's cursor is its index
  cursor,      \* the checkpoint of the event consumer
  occ,         \* automation_occurrences
  runs,        \* automation_runs, each with the timer of its delay
  worker,      \* the automation worker and its private copies
  from,        \* schedule_from of the worker
  call,        \* the catch-up request in flight
  calls,       \* owner calls so far
  faults,      \* failed passes and crashes so far
  torn         \* passes interrupted between an acceptance and its run

vars == <<clock, identity, events, cursor, occ, runs, worker, from, call,
          calls, faults, torn>>

NoRun == [state |-> "Absent", rev |-> 0, created |-> 0, timer |-> "Absent",
          ready |-> 0]

IdleWorker ==
  [pc |-> "Idle", through |-> 0, active |-> None, todo |-> {}, now |-> 0,
   due |-> {}, page |-> {}, work |-> [o \in {} |-> "Absent"],
   open |-> [o \in {} |-> 0], timers |-> {}, count |-> 0, queued |-> 0, cur |-> None]

IdleCall == [pc |-> "Idle", v |-> None, t |-> 0, k |-> None]

Init ==
  /\ clock = 0
  /\ identity = [state |-> "Inactive", active |-> None]
  /\ events = <<>>
  /\ cursor = 0
  /\ occ = [o \in Occurrences |-> [state |-> "Absent", at |-> 0]]
  /\ runs = [o \in Occurrences |-> NoRun]
  /\ worker = IdleWorker
  /\ from = 0
  /\ call = IdleCall
  /\ calls = 0
  /\ faults = 0
  /\ torn = 0

-----------------------------------------------------------------------------
(* The repository *)

\* active_automation_versions: only an identity in state Active has one.
ActiveVersion == IF identity.state = "Active" THEN identity.active ELSE None

\* A stable identity that exists already is left as it is.
create_occurrence(o, at, state) ==
  occ' = IF occ[o].state = "Absent"
         THEN [occ EXCEPT ![o] = [state |-> state, at |-> at]]
         ELSE occ

\* Mutant: the storage layer does not check the occurrence's state.
may_transition_always(o, to) == occ[o].state # "Absent"

\* AutomationOccurrenceState::allows_transition_to.
may_transition(o, to) ==
  /\ occ[o].state = "Scheduled"
  /\ to \in {"Accepted", "MissedSkipped", "Suppressed"}

transition_occurrence(o, to) == occ' = [occ EXCEPT ![o].state = to]

\* ORDER BY occurred_at, event_cursor IS NOT NULL, event_cursor; the hashed
\* identity decides the rest, so any order of ties is possible.
Before(p, o) ==
  \/ occ[p].at < occ[o].at
  \/ /\ occ[p].at = occ[o].at
     /\ SourceOf(o) = "event"
     /\ SourceOf(p) = "event" => p[3] < o[3]

CreatedBefore(p, o) == runs[p].created < runs[o].created
ReadyBefore(p, o) == runs[p].ready < runs[o].ready

\* What a query of rows S with LIMIT Page may return, whatever its order.
Pages(S) ==
  IF Cardinality(S) <= Page
  THEN {S}
  ELSE {P \in SUBSET S : Cardinality(P) = Page}

\* Mutant: recovery returns only the occurrences still to be decided.
RecoverableScheduled == {o \in Occurrences : occ[o].state = "Scheduled"}

RecoverableOccurrences ==
  {o \in Occurrences : occ[o].state \in {"Scheduled", "Accepted"}}
OpenRuns == {o \in Occurrences : runs[o].state \in Open}
StartedRuns == {o \in Occurrences : runs[o].state # "Absent"}
OpenTimers == {o \in Occurrences : runs[o].timer \in {"Pending", "Ready"}}

\* The pages of the recovery queries, each in the order of its query.
OccurrencePages ==
  {P \in Pages(RecoverableOccurrences) :
     \A p \in P, q \in RecoverableOccurrences \ P : ~Before(q, p)}
RunPages ==
  {P \in Pages(OpenRuns) : \A p \in P, q \in OpenRuns \ P : ~CreatedBefore(q, p)}
TimerPages ==
  {P \in Pages(OpenTimers) : \A p \in P, q \in OpenTimers \ P : ~ReadyBefore(q, p)}

\* Mutant: the timers of a cancelled run are left as they are.
CancelledRunOnly(run, withTimer) ==
  [run EXCEPT !.state = "Cancelled", !.rev = @ + 1]

\* commit_step with a cancelled run: the run's state and revision, and the
\* timers of the run among those the caller loaded.
Cancelled(run, withTimer) ==
  [run EXCEPT !.state = "Cancelled", !.rev = @ + 1,
              !.timer = IF withTimer /\ @ \in {"Pending", "Ready"}
                        THEN "Cancelled" ELSE @]

-----------------------------------------------------------------------------
(* The pass of the worker: AutomationEngine::tick *)

owner_vars == <<identity, call, calls>>

\* A stage-wide error ends the pass; the schedule boundary stays.
AbortPass == worker' = IdleWorker

\* self_suppressed.
self_suppressed(v, cause) ==
  /\ cause # None
  /\ \/ SelfTrigger[v] = "SameVersion" /\ cause = v
     \/ SelfTrigger[v] = "SameCorrelation"

\* The tick of the worker begins and AutomationEventProcessor::process loads
\* its checkpoint, one page of events and the active version.  What is read
\* early here only makes the pass work on older copies.
BeginPass ==
  /\ worker.pc = "Idle"
  /\ worker' =
       [IdleWorker EXCEPT
          !.pc = "Events", !.through = clock, !.active = ActiveVersion,
          !.todo = {c \in 1..Len(events) : c > cursor /\ c <= cursor + Page}]
  /\ UNCHANGED <<clock, events, cursor, occ, runs, from, faults, torn>>
  /\ UNCHANGED owner_vars

\* The next element of a loop over cursors or instants in ascending order.
Oldest(S) == {x \in S : \A y \in S : x <= y}

\* Mutant: a self-caused event leaves no record.
MaterializeUnsuppressed ==
  /\ worker.pc = "Events"
  /\ \E c \in Oldest(worker.todo) :
       LET v == worker.active
       IN  IF v \in Subscribed /\ ~self_suppressed(v, events[c].cause)
           THEN create_occurrence(EventId(v, c), events[c].at, "Scheduled")
           ELSE UNCHANGED occ
  /\ worker' = [worker EXCEPT !.pc = "Checkpoint"]
  /\ UNCHANGED <<clock, events, cursor, runs, from, faults, torn>>
  /\ UNCHANGED owner_vars

\* materialize_event for the oldest unhandled event of the page.
MaterializeEvent ==
  /\ worker.pc = "Events"
  /\ \E c \in Oldest(worker.todo) :
       LET v == worker.active
       IN  IF v \in Subscribed
           THEN create_occurrence(
                  EventId(v, c), events[c].at,
                  IF self_suppressed(v, events[c].cause)
                  THEN "Suppressed" ELSE "Scheduled")
           ELSE UNCHANGED occ
  /\ worker' = [worker EXCEPT !.pc = "Checkpoint"]
  /\ UNCHANGED <<clock, events, cursor, runs, from, faults, torn>>
  /\ UNCHANGED owner_vars

\* advance_automation_event_cursor, once every occurrence is durable.
AdvanceCursor ==
  /\ worker.pc = "Checkpoint"
  /\ \E c \in Oldest(worker.todo) :
       /\ cursor' = c
       /\ worker' = [worker EXCEPT !.pc = "Events", !.todo = @ \ {c}]
  /\ UNCHANGED <<clock, events, occ, runs, from, faults, torn>>
  /\ UNCHANGED owner_vars

\* AutomationScheduler::tick loads the active version again and derives the
\* instants of (from, through].
LoadSchedules ==
  /\ worker.pc = "Events"
  /\ worker.todo = {}
  /\ LET v == ActiveVersion
     IN  worker' =
           [worker EXCEPT
              !.pc = "Schedules", !.active = v,
              !.todo = IF v = None THEN {}
                       ELSE {t \in Schedule[v] : from < t /\ t <= worker.through}]
  /\ UNCHANGED <<clock, events, cursor, occ, runs, from, faults, torn>>
  /\ UNCHANGED owner_vars

MaterializeSchedule ==
  /\ worker.pc = "Schedules"
  /\ \E t \in Oldest(worker.todo) :
       /\ create_occurrence(ScheduleId(worker.active, t), t, "Scheduled")
       /\ worker' = [worker EXCEPT !.todo = @ \ {t}]
  /\ UNCHANGED <<clock, events, cursor, runs, from, faults, torn>>
  /\ UNCHANGED owner_vars

\* process_recovery takes its instant before it loads anything.
ReadClock ==
  /\ worker.pc = "Schedules"
  /\ worker.todo = {}
  /\ worker' = [worker EXCEPT !.pc = "Load", !.now = clock]
  /\ UNCHANGED <<clock, events, cursor, occ, runs, from, faults, torn>>
  /\ UNCHANGED owner_vars

\* recoverable_automation_work: one page of each kind of row; the open runs
\* of the active version are counted once.
LoadRecovery ==
  /\ worker.pc = "Load"
  /\ \E W \in OccurrencePages,
        R \in RunPages,
        T \in TimerPages :
       LET mine == {o \in R : VersionOf(o) = worker.active}
       IN  worker' =
             [worker EXCEPT
                !.pc = "Recovery",
                !.page = W,
                !.work = [o \in W |-> occ[o].state],
                !.open = [o \in mine |-> runs[o].rev],
                !.count = Cardinality(mine),
                !.timers = T,
                !.due = {o \in T : /\ runs[o].timer = "Pending"
                                   /\ runs[o].ready <= worker.now}]
  /\ UNCHANGED <<clock, events, cursor, occ, runs, from, faults, torn>>
  /\ UNCHANGED owner_vars

\* An expired timer becomes ready; a timer cancelled meanwhile fails the pass.
ReadyTimer ==
  /\ worker.pc = "Recovery"
  /\ \E o \in worker.due :
       IF runs[o].timer = "Pending"
       THEN /\ runs' = [runs EXCEPT ![o].timer = "Ready"]
            /\ worker' = [worker EXCEPT !.due = @ \ {o}]
       ELSE AbortPass /\ UNCHANGED runs
  /\ UNCHANGED <<clock, events, cursor, occ, from, faults, torn>>
  /\ UNCHANGED owner_vars

\* Mutant: the page is processed in any order.
AtAnyOccurrence(o) ==
  /\ worker.pc = "Recovery"
  /\ worker.due = {}
  /\ o \in DOMAIN worker.work
  /\ worker.cur \in {None, o}

\* The occurrence the loop over the page has reached.
AtOccurrence(o) ==
  /\ worker.pc = "Recovery"
  /\ worker.due = {}
  /\ o \in DOMAIN worker.work
  /\ IF worker.cur # None
     THEN o = worker.cur
     ELSE \A p \in DOMAIN worker.work : ~Before(p, o)

\* schedule windows end; event and catch-up windows do not.
WindowOver(o) ==
  /\ SourceOf(o) = "schedule"
  /\ worker.now > occ[o].at + Window

\* A loaded occurrence of the active version that is still to be decided.
Undecided(o) ==
  /\ AtOccurrence(o)
  /\ VersionOf(o) = worker.active
  /\ worker.work[o] = "Scheduled"

Due(o) == Undecided(o) /\ ~WindowOver(o) /\ occ[o].at <= worker.now

\* Mutant: a queued trigger is deferred before the active count is looked at.
admission_deferring(mode, active, queued) ==
  CASE mode.kind = "Queued" /\ queued < mode.limit -> "Defer"
    [] mode.kind = "Single" /\ active = 0 -> "Accept"
    [] mode.kind = "Restart" -> "Accept"
    [] mode.kind = "Parallel" /\ active < mode.limit -> "Accept"
    [] OTHER -> "Suppress"

\* Mutant: the acceptances of this pass are not counted.
CountAtLoad(o) == worker.count

\* The function admission of the scheduler.
admission(mode, active, queued) ==
  CASE mode.kind \in {"Single", "Queued"} /\ active = 0 -> "Accept"
    [] mode.kind = "Restart" -> "Accept"
    [] mode.kind = "Queued" /\ active # 0 /\ queued < mode.limit -> "Defer"
    [] mode.kind = "Parallel" /\ active < mode.limit -> "Accept"
    [] OTHER -> "Suppress"

Decision(o) == admission(Mode[VersionOf(o)], worker.count, worker.queued)

Without(f, o) == [p \in DOMAIN f \ {o} |-> f[p]]

NextOccurrence(o) == [worker EXCEPT !.work = Without(@, o), !.cur = None]

\* transition_automation_occurrence; an occurrence decided by someone else
\* meanwhile fails the pass.
Decide(o, to) ==
  IF may_transition(o, to)
  THEN /\ transition_occurrence(o, to)
       /\ worker' = NextOccurrence(o)
  ELSE AbortPass /\ UNCHANGED occ

SkipOccurrence(o) ==
  /\ AtOccurrence(o)
  /\ \/ VersionOf(o) # worker.active
     \/ Undecided(o) /\ ~WindowOver(o) /\ occ[o].at > worker.now
  /\ worker' = NextOccurrence(o)
  /\ UNCHANGED <<clock, events, cursor, occ, runs, from, faults, torn>>
  /\ UNCHANGED owner_vars

MissOccurrence(o) ==
  /\ Undecided(o)
  /\ WindowOver(o)
  /\ Decide(o, "MissedSkipped")
  /\ UNCHANGED <<clock, events, cursor, runs, from, faults, torn>>
  /\ UNCHANGED owner_vars

\* A queued trigger stays Scheduled and is loaded again by the next pass.
DeferOccurrence(o) ==
  /\ Due(o)
  /\ Decision(o) = "Defer"
  /\ worker' = [NextOccurrence(o) EXCEPT !.queued = @ + 1]
  /\ UNCHANGED <<clock, events, cursor, occ, runs, from, faults, torn>>
  /\ UNCHANGED owner_vars

SuppressOccurrence(o) ==
  /\ Due(o)
  /\ Decision(o) = "Suppress"
  /\ Decide(o, "Suppressed")
  /\ UNCHANGED <<clock, events, cursor, runs, from, faults, torn>>
  /\ UNCHANGED owner_vars

Restarts(o) == Mode[VersionOf(o)].kind = "Restart"

\* cancel_for_restart: one transaction for each run the pass knows as open;
\* a run that moved on since it was loaded fails the pass.
CancelForRestart(o) ==
  /\ Due(o)
  /\ Restarts(o)
  /\ \E r \in DOMAIN worker.open :
       IF runs[r].rev = worker.open[r]
       THEN /\ runs' = [runs EXCEPT ![r] = Cancelled(@, r \in worker.timers)]
            /\ worker' = [worker EXCEPT !.open = Without(@, r), !.cur = o]
       ELSE AbortPass /\ UNCHANGED runs
  /\ UNCHANGED <<clock, events, cursor, occ, from, faults, torn>>
  /\ UNCHANGED owner_vars

\* The pass's own counter after an acceptance.
CountAfter(o) == IF Restarts(o) THEN 1 ELSE worker.count + 1

\* The acceptance is durable before its run is; the counter is the pass's own.
AcceptOccurrence(o) ==
  /\ Due(o)
  /\ Decision(o) = "Accept"
  /\ Restarts(o) => DOMAIN worker.open = {}
  /\ IF may_transition(o, "Accepted")
     THEN /\ transition_occurrence(o, "Accepted")
          /\ worker' = [worker EXCEPT
                          !.work[o] = "Accepted", !.cur = o,
                          !.count = CountAfter(o)]
     ELSE AbortPass /\ UNCHANGED occ
  /\ UNCHANGED <<clock, events, cursor, runs, from, faults, torn>>
  /\ UNCHANGED owner_vars

\* create_run, for an occurrence accepted now or by an earlier pass: the run
\* identity is the occurrence's, so an existing run is only confirmed.
CreateRun(o) ==
  /\ AtOccurrence(o)
  /\ VersionOf(o) = worker.active
  /\ worker.work[o] = "Accepted"
  /\ LET run == IF runs[o].state = "Absent"
                THEN [NoRun EXCEPT !.state = "Pending", !.created = worker.now]
                ELSE runs[o]
         known == worker.open
     IN  /\ runs' = [runs EXCEPT ![o] = run]
         /\ worker' =
              [NextOccurrence(o) EXCEPT
                 !.open = IF run.state \in Open /\ o \notin DOMAIN known
                          THEN [r \in DOMAIN known \cup {o} |->
                                  IF r = o THEN run.rev ELSE known[r]]
                          ELSE known]
  /\ UNCHANGED <<clock, events, cursor, occ, from, faults, torn>>
  /\ UNCHANGED owner_vars

\* The engine reloads the open runs once the scheduler is done.
ReloadRuns ==
  /\ worker.pc = "Recovery"
  /\ worker.due = {}
  /\ DOMAIN worker.work = {}
  /\ \E R \in RunPages :
       worker' = [IdleWorker EXCEPT !.pc = "Runs", !.todo = R,
                                    !.through = worker.through]
  /\ UNCHANGED <<clock, events, cursor, occ, runs, from, faults, torn>>
  /\ UNCHANGED owner_vars

\* AutomationRuntime::step reads the run and the identity's version pointer,
\* whatever the identity's state; a run over its budget only reports an error.
ReadRun(o) ==
  /\ worker.pc = "Runs"
  /\ o \in worker.todo
  /\ \A p \in worker.todo : ~CreatedBefore(p, o)
  /\ worker' =
       IF \/ runs[o].state \notin Open
          \/ identity.active # VersionOf(o)
          \/ clock > runs[o].created + RunBudget
       THEN [worker EXCEPT !.todo = @ \ {o}]
       ELSE [worker EXCEPT !.pc = "Step", !.cur = o, !.count = runs[o].rev]
  /\ UNCHANGED <<clock, events, cursor, occ, runs, from, faults, torn>>
  /\ UNCHANGED owner_vars

\* One durable step of the plan: start, create the delay's timer, wait for
\* it, consume it, finish.
Stepped(run, outcome) ==
  CASE run.state = "Pending" ->
         [run EXCEPT !.state = "Running", !.rev = @ + 1]
    [] run.state = "Running" /\ run.timer = "Absent" ->
         [run EXCEPT !.state = "Waiting", !.rev = @ + 1, !.timer = "Pending",
                     !.ready = IF clock + Delay > MaxTime THEN MaxTime
                               ELSE clock + Delay]
    [] run.state = "Waiting" /\ run.timer = "Pending" -> run
    [] run.state = "Waiting" /\ run.timer = "Ready" ->
         [run EXCEPT !.state = "Running", !.rev = @ + 1, !.timer = "Consumed"]
    [] OTHER -> [run EXCEPT !.state = outcome, !.rev = @ + 1]

\* commit_automation_step with the revision read; a stale revision is a
\* failure of this run alone.
StepRun ==
  /\ worker.pc = "Step"
  /\ LET o == worker.cur
     IN  /\ \E outcome \in {"Completed", "Failed"} :
              runs' = IF runs[o].rev = worker.count
                      THEN [runs EXCEPT ![o] = Stepped(@, outcome)]
                      ELSE runs
         /\ worker' = [worker EXCEPT !.pc = "Runs", !.todo = @ \ {o},
                                     !.cur = None, !.count = 0]
  /\ UNCHANGED <<clock, events, cursor, occ, from, faults, torn>>
  /\ UNCHANGED owner_vars

\* The boundary of the schedule window moves only after a whole pass.
EndPass ==
  /\ worker.pc = "Runs"
  /\ worker.todo = {}
  /\ from' = worker.through
  /\ worker' = IdleWorker
  /\ UNCHANGED <<clock, events, cursor, occ, runs, faults, torn>>
  /\ UNCHANGED owner_vars

\* The pass holds an acceptance it made whose run does not exist yet.
BetweenAcceptanceAndRun ==
  /\ worker.pc = "Recovery"
  /\ worker.cur # None
  /\ worker.cur \in DOMAIN worker.work
  /\ worker.work[worker.cur] = "Accepted"

Interrupted ==
  /\ faults < MaxFaults
  /\ faults' = faults + 1
  /\ torn' = IF BetweenAcceptanceAndRun THEN torn + 1 ELSE torn
  /\ worker' = IdleWorker

\* A repository error during the pass.
PassFails ==
  /\ worker.pc # "Idle"
  /\ Interrupted
  /\ UNCHANGED <<clock, identity, events, cursor, occ, runs, from, call, calls>>

\* The process dies; the new worker starts its schedule window at now.
Crash ==
  /\ Interrupted
  /\ from' = clock
  /\ call' = IdleCall
  /\ UNCHANGED <<clock, identity, events, cursor, occ, runs, calls>>

-----------------------------------------------------------------------------
(* Calls of the owner: AutomationLifecycleService *)

engine_vars == <<clock, events, cursor, worker, from, faults, torn>>

OwnerCall == calls < MaxCalls /\ calls' = calls + 1

\* activate and rollback move the pointer to any Ready version.
Activate(v) ==
  /\ OwnerCall
  /\ identity.state # "Retired"
  /\ identity' = [state |-> "Active", active |-> v]
  /\ UNCHANGED <<occ, runs, call>>
  /\ UNCHANGED engine_vars

\* disable and retire keep the version pointer.
Disable ==
  /\ OwnerCall
  /\ identity.state = "Active"
  /\ identity' = [identity EXCEPT !.state = "Disabled"]
  /\ UNCHANGED <<occ, runs, call>>
  /\ UNCHANGED engine_vars

Retire ==
  /\ OwnerCall
  /\ identity.state # "Retired"
  /\ identity' = [identity EXCEPT !.state = "Retired"]
  /\ UNCHANGED <<occ, runs, call>>
  /\ UNCHANGED engine_vars

\* cancel_run: one commit on the revision read, with the run's timers.
CancelRun(o) ==
  /\ OwnerCall
  /\ runs[o].state \in Open
  /\ \E T \in TimerPages :
       runs' = [runs EXCEPT ![o] = Cancelled(@, o \in T)]
  /\ UNCHANGED <<identity, occ, call>>
  /\ UNCHANGED engine_vars

\* request_catch_up proves the instant belongs to the active schedule and its
\* window is over, and records it as missed unless it is already stored.  The
\* reads of identity and version before it are one step with it.
PrepareCatchUp(t, k) ==
  /\ call.pc = "Idle"
  /\ OwnerCall
  /\ LET v == ActiveVersion
     IN  /\ v # None
         /\ t \in Schedule[v]
         /\ clock > t + Window
         /\ create_occurrence(ScheduleId(v, t), t, "MissedSkipped")
         /\ call' = [pc |-> "Load", v |-> v, t |-> t, k |-> k]
  /\ UNCHANGED <<identity, runs>>
  /\ UNCHANGED engine_vars

\* Mutant: any stored occurrence may be caught up.
LoadMissedUnchecked ==
  /\ call.pc = "Load"
  /\ call' = IF occ[ScheduleId(call.v, call.t)].state = "Scheduled"
             THEN [call EXCEPT !.pc = "Transition"]
             ELSE [call EXCEPT !.pc = "Create"]
  /\ UNCHANGED <<identity, calls, occ, runs>>
  /\ UNCHANGED engine_vars

\* It reads the row back: only a missed or undecided one may be caught up.
LoadMissed ==
  /\ call.pc = "Load"
  /\ LET state == occ[ScheduleId(call.v, call.t)].state
     IN  call' = CASE state = "Scheduled" -> [call EXCEPT !.pc = "Transition"]
                   [] state = "MissedSkipped" -> [call EXCEPT !.pc = "Create"]
                   [] OTHER -> IdleCall
  /\ UNCHANGED <<identity, calls, occ, runs>>
  /\ UNCHANGED engine_vars

RecordMissed ==
  /\ call.pc = "Transition"
  /\ LET o == ScheduleId(call.v, call.t)
     IN  IF may_transition(o, "MissedSkipped")
         THEN /\ transition_occurrence(o, "MissedSkipped")
              /\ call' = [call EXCEPT !.pc = "Create"]
         ELSE call' = IdleCall /\ UNCHANGED occ
  /\ UNCHANGED <<identity, calls, runs>>
  /\ UNCHANGED engine_vars

\* The separately identified occurrence, or the one an equal request made.
CreateCatchUp ==
  /\ call.pc = "Create"
  /\ create_occurrence(CatchUpId(call.v, call.t, call.k), clock, "Scheduled")
  /\ call' = IdleCall
  /\ UNCHANGED <<identity, calls, runs>>
  /\ UNCHANGED engine_vars

-----------------------------------------------------------------------------
(* The environment *)

\* A device, an observation or a command outcome appends an event; a command
\* of a run names the run's version as its cause.
EmitEvent ==
  /\ Len(events) < MaxEvents
  /\ \E cause \in {None} \cup {VersionOf(o) : o \in StartedRuns} :
       events' = Append(events, [at |-> clock, cause |-> cause])
  /\ UNCHANGED <<clock, cursor, occ, runs, worker, from, faults, torn>>
  /\ UNCHANGED owner_vars

Tick ==
  /\ clock < MaxTime
  /\ clock' = clock + 1
  /\ UNCHANGED <<events, cursor, occ, runs, worker, from, faults, torn>>
  /\ UNCHANGED owner_vars

-----------------------------------------------------------------------------
ProcessOccurrence ==
  \E o \in Occurrences :
    \/ SkipOccurrence(o)
    \/ MissOccurrence(o)
    \/ DeferOccurrence(o)
    \/ SuppressOccurrence(o)
    \/ CancelForRestart(o)
    \/ AcceptOccurrence(o)
    \/ CreateRun(o)

WorkerStep ==
  \/ BeginPass
  \/ MaterializeEvent
  \/ AdvanceCursor
  \/ LoadSchedules
  \/ MaterializeSchedule
  \/ ReadClock
  \/ LoadRecovery
  \/ ReadyTimer
  \/ ProcessOccurrence
  \/ ReloadRuns
  \/ \E o \in Occurrences : ReadRun(o)
  \/ StepRun
  \/ EndPass

CatchUpStep == LoadMissed \/ RecordMissed \/ CreateCatchUp

Next ==
  \/ WorkerStep
  \/ CatchUpStep
  \/ PassFails
  \/ Crash
  \/ \E v \in Versions : Activate(v)
  \/ Disable
  \/ Retire
  \/ \E o \in Occurrences : CancelRun(o)
  \/ \E t \in Instants, k \in Keys : PrepareCatchUp(t, k)
  \/ EmitEvent
  \/ Tick

Spec == Init /\ [][Next]_vars

FairSpec == Spec /\ WF_vars(WorkerStep) /\ WF_vars(CatchUpStep) /\ WF_vars(Tick)

-----------------------------------------------------------------------------
(* Properties *)

WorkerStages == {"Idle", "Events", "Checkpoint", "Schedules", "Load",
                 "Recovery", "Runs", "Step"}

\* The types of the durable rows and of the private copies.
TypeOK ==
  /\ clock \in 0..MaxTime
  /\ identity \in [state : {"Inactive", "Active", "Disabled", "Retired"},
                   active : Versions \cup {None}]
  /\ events \in Seq([at : Nat, cause : Versions \cup {None}])
  /\ cursor \in 0..Len(events)
  /\ occ \in [Occurrences -> [state : OccurrenceStates, at : Nat]]
  /\ runs \in [Occurrences -> [state : RunStates, rev : Nat, created : Nat,
                               timer : TimerStates, ready : Nat]]
  /\ worker.pc \in WorkerStages
  /\ worker.active \in Versions \cup {None}
  /\ worker.cur \in Occurrences \cup {None}
  /\ DOMAIN worker.work \subseteq Occurrences
  /\ DOMAIN worker.open \subseteq Occurrences
  /\ from \in 0..MaxTime
  /\ call.pc \in {"Idle", "Load", "Transition", "Create"}
  /\ torn <= faults

\* A missed or suppressed trigger never has a run, and neither has one still
\* to be decided: whatever the scheduler, a catch-up request, an error or a
\* crash interleave, a run exists only for an accepted occurrence.
RunsOnlyForAccepted ==
  \A o \in Occurrences :
    runs[o].state # "Absent" => occ[o].state = "Accepted"

\* A schedule instant of a version executes normally or by an explicit
\* catch-up, never both: a catch-up occurrence exists only while the instant
\* it repeats is recorded as missed.
CatchUpOnlyMissed ==
  \A v \in Versions, t \in Instants, k \in Keys :
    occ[CatchUpId(v, t, k)].state # "Absent" =>
      occ[ScheduleId(v, t)].state = "MissedSkipped"

Capacity(v) == IF Mode[v].kind = "Parallel" THEN Mode[v].limit ELSE 1

OpenRunsOf(v) == {o \in OpenRuns : VersionOf(o) = v}

\* The run mode bounds the open runs of a version, up to one run for each
\* pass that was interrupted between an acceptance and its run: the run of
\* such an acceptance is created by a later pass that does not count it.
OverAdmissionIsTorn ==
  \A v \in Versions : Cardinality(OpenRunsOf(v)) <= Capacity(v) + torn

\* ADR-0027: a cancelled run leaves no durable timer able to resume it; a
\* finished one has none either.
NoTimerOutlivesItsRun ==
  \A o \in Occurrences :
    runs[o].timer \in {"Pending", "Ready"} => runs[o].state = "Waiting"

\* ADR-0026: the checkpoint passes an event only after the occurrence of the
\* version active for this pass is durable.
CheckpointAfterOccurrence ==
  [][cursor' # cursor =>
       /\ cursor' = cursor + 1
       /\ worker.active \in Subscribed =>
            occ[EventId(worker.active, cursor')].state # "Absent"]_vars

\* ADR-0027: a queue is served in durable order.  When a trigger of a queued
\* version is accepted, no earlier one of the page the pass loaded is left
\* waiting behind it.
QueueIsFirstInFirstOut ==
  [][\A o \in Occurrences, p \in worker.page :
       (/\ occ[o].state = "Scheduled"
        /\ occ'[o].state = "Accepted"
        /\ Mode[VersionOf(o)].kind = "Queued"
        /\ VersionOf(p) = VersionOf(o)
        /\ Before(p, o))
       => occ[p].state # "Scheduled" \/ occ[p].at > worker.now]_vars

\* A page of the recovery query leaves the occurrence out and holds only rows
\* that no pass takes away: acceptances stay recoverable after their run has
\* ended, and so do the triggers of a version that is not active.
Crowded(o) ==
  \E P \in OccurrencePages :
    /\ Cardinality(P) = Page
    /\ o \notin P
    /\ \A p \in P : occ[p].state = "Accepted" \/ VersionOf(p) # ActiveVersion

\* A queued trigger waits for a run that is over its budget: the interpreter
\* reports the error, leaves the run open, and every pass counts it.
HeldBack(o) ==
  /\ Mode[VersionOf(o)].kind = "Queued"
  /\ \E r \in OpenRunsOf(VersionOf(o)) : clock > runs[r].created + RunBudget

\* ADR-0018: "Every expected occurrence receives a durable status."  The code
\* keeps this up to two cases, and the property says that there are no more: a
\* scheduled occurrence of a version that stays active is decided, unless the
\* page is full of rows that never leave it or a run over its budget holds the
\* queue.
EveryOccurrenceDecided ==
  \A o \in Occurrences :
    (occ[o].state = "Scheduled" /\ ActiveVersion = VersionOf(o))
      ~> \/ occ[o].state # "Scheduled"
         \/ ActiveVersion # VersionOf(o)
         \/ Crowded(o)
         \/ HeldBack(o)

\* An acceptance survives errors and crashes: its run is created as long as
\* the version stays active, unless rows of earlier instants that arrived after
\* it fill the page first.
EveryAcceptanceRuns ==
  \A o \in Occurrences :
    (occ[o].state = "Accepted" /\ ActiveVersion = VersionOf(o))
      ~> \/ runs[o].state # "Absent"
         \/ ActiveVersion # VersionOf(o)
         \/ Crowded(o)
=============================================================================
