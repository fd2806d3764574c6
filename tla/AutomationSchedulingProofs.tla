--------------------- MODULE AutomationSchedulingProofs ---------------------
(***************************************************************************)
(* Theorems about AutomationScheduling, for any versions, schedules, page  *)
(* size and number of faults.                                              *)
(*                                                                         *)
(* TInv types every row and every private copy.  SInv is the inductive     *)
(* strengthening of the two safety properties: what the worker remembers   *)
(* as accepted is accepted in the table, and a catch-up request about to   *)
(* create its occurrence has seen the instant recorded as missed.  Both    *)
(* survive because a decided occurrence never changes again.               *)
(* EventInv says which events a pass still has to do and that the one it   *)
(* is about to pass has its occurrence; QueueInv says what the loop over   *)
(* the page has left behind it.  TimerInv says which timers a pass knows   *)
(* when it cancels runs, AdmissionInv how far its count of executions may  *)
(* be behind the tables; both need pages that hold every open row.         *)
(***************************************************************************)
EXTENDS AutomationScheduling, FiniteSetTheorems, TLAPS

PartialMaps(T) == UNION {[D -> T] : D \in SUBSET Occurrences}

Event == [at : Nat, cause : Versions \cup {None}]
Row == [state : OccurrenceStates, at : Nat]
Run == [state : RunStates, rev : Nat, created : Nat, timer : TimerStates,
        ready : Nat]

WorkerType ==
  [pc : WorkerStages, through : 0..MaxTime, active : Versions \cup {None},
   todo : SUBSET (Nat \cup Occurrences), now : Nat,
   due : SUBSET Occurrences, page : SUBSET Occurrences,
   work : PartialMaps(OccurrenceStates), open : PartialMaps(Nat),
   timers : SUBSET Occurrences, count : Nat, queued : Nat,
   cur : Occurrences \cup {None}]

\* What the loop variable ranges over depends on the stage.
TodoInv ==
  /\ worker.pc \in {"Events", "Checkpoint"} => worker.todo \subseteq 1..Len(events)
  /\ worker.pc = "Schedules" =>
       \A t \in worker.todo : t \in Nat /\ worker.active \in Versions
  /\ worker.pc \in {"Runs", "Step"} => worker.todo \subseteq Occurrences
  /\ worker.pc = "Step" => worker.cur \in Occurrences

CallType == [pc : {"Idle", "Load", "Transition", "Create"},
             v : Versions \cup {None}, t : Nat, k : Keys \cup {None}]

\* The types of everything but the worker.
DurableType ==
  /\ clock \in 0..MaxTime
  /\ identity \in [state : {"Inactive", "Active", "Disabled", "Retired"},
                   active : Versions \cup {None}]
  /\ events \in Seq(Event)
  /\ cursor \in 0..Len(events)
  /\ occ \in [Occurrences -> Row]
  /\ runs \in [Occurrences -> Run]
  /\ from \in 0..MaxTime
  /\ call \in CallType
  /\ faults \in Nat
  /\ torn \in Nat
  /\ torn <= faults

TInv == DurableType /\ worker \in WorkerType /\ TodoInv

\* What the worker and a catch-up request remember is true of the tables.
AcceptedCopies ==
  \A o \in DOMAIN worker.work :
    worker.work[o] = "Accepted" => occ[o].state = "Accepted"
KnownRuns ==
  /\ \A r \in DOMAIN worker.open : runs[r].state # "Absent"
  /\ worker.pc = "Step" => runs[worker.cur].state # "Absent"
CallInv ==
  /\ call.pc # "Idle" => call.v \in Versions /\ call.t \in Instants /\ call.k \in Keys
  /\ call.pc = "Create" => occ[ScheduleId(call.v, call.t)].state = "MissedSkipped"

SInv == RunsOnlyForAccepted /\ CatchUpOnlyMissed /\ AcceptedCopies /\ KnownRuns /\ CallInv

-----------------------------------------------------------------------------
(* Partial maps and private records *)

\* A map restricted to part of the rows, or built over part of them, is one.
LEMMA MapOver ==
  ASSUME NEW T, NEW D \in SUBSET Occurrences, NEW f \in [D -> T]
  PROVE  f \in PartialMaps(T)
BY DEF PartialMaps

\* What a partial map is defined on.
LEMMA MapDomain ==
  ASSUME NEW T, NEW m \in PartialMaps(T)
  PROVE  /\ DOMAIN m \in SUBSET Occurrences
         /\ m \in [DOMAIN m -> T]
BY DEF PartialMaps

\* Dropping a row from a partial map.
LEMMA WithoutType ==
  ASSUME NEW T, NEW m \in PartialMaps(T), NEW o
  PROVE  Without(m, o) \in PartialMaps(T)
<1>1. DOMAIN m \in SUBSET Occurrences /\ m \in [DOMAIN m -> T]
  BY MapDomain
<1>2. Without(m, o) \in [DOMAIN m \ {o} -> T]
  BY <1>1 DEF Without
<1> QED BY <1>1, <1>2, MapOver

\* The worker between two passes is typed.
LEMMA IdleWorkerType == IdleWorker \in WorkerType
<1>1. [o \in {} |-> "Absent"] \in PartialMaps(OccurrenceStates)
  <2>1. [o \in {} |-> "Absent"] \in [{} -> OccurrenceStates]
    OBVIOUS
  <2> QED BY <2>1, MapOver
<1>2. [o \in {} |-> 0] \in PartialMaps(Nat)
  <2>1. [o \in {} |-> 0] \in [{} -> Nat]
    OBVIOUS
  <2> QED BY <2>1, MapOver
<1>3. MaxTime \in Nat
  BY NumbersAssumption
<1> QED BY <1>1, <1>2, <1>3 DEF IdleWorker, WorkerType, WorkerStages


-----------------------------------------------------------------------------
(* Type correctness *)

\* The initial state is typed.
LEMMA TypeInit == Init => TInv
<1> SUFFICES ASSUME Init PROVE TInv
  OBVIOUS
<1> USE DEF Init
<1>1. worker \in WorkerType
  BY IdleWorkerType
<1>2. occ \in [Occurrences -> Row]
  BY DEF Row, OccurrenceStates
<1>3. runs \in [Occurrences -> Run]
  BY DEF Run, RunStates, TimerStates, NoRun
<1>4. TodoInv
  BY DEF TodoInv, IdleWorker
<1>5. call \in CallType
  BY DEF CallType, IdleCall
<1>6. clock \in 0..MaxTime /\ from \in 0..MaxTime
  BY NumbersAssumption
<1>7. events \in Seq(Event) /\ cursor \in 0..Len(events)
  OBVIOUS
<1> QED BY <1>1, <1>2, <1>3, <1>4, <1>5, <1>6, <1>7 DEF TInv, DurableType

\* Creating a row keeps the table's type.
LEMMA CreateType ==
  ASSUME occ \in [Occurrences -> Row], NEW o, NEW at \in Nat,
         NEW s \in OccurrenceStates, create_occurrence(o, at, s)
  PROVE  occ' \in [Occurrences -> Row]
<1>1. [state |-> s, at |-> at] \in Row
  BY DEF Row
<1> QED BY <1>1 DEF create_occurrence

\* So does deciding one.
LEMMA DecideType ==
  ASSUME occ \in [Occurrences -> Row], NEW o, NEW s \in OccurrenceStates,
         transition_occurrence(o, s)
  PROVE  occ' \in [Occurrences -> Row]
<1>1. \A r \in Row : [r EXCEPT !.state = s] \in Row
  BY DEF Row
<1>2. \A p \in Occurrences : occ'[p] = IF p = o THEN [occ[p] EXCEPT !.state = s] ELSE occ[p]
  BY DEF transition_occurrence
<1>3. occ' = [p \in Occurrences |-> occ'[p]]
  BY DEF transition_occurrence
<1> QED BY <1>1, <1>2, <1>3

\* A cancelled run is a run.
LEMMA CancelType ==
  ASSUME NEW r \in Run, NEW b
  PROVE  Cancelled(r, b) \in Run
<1>1. r.rev + 1 \in Nat
  BY DEF Run
<1>2. "Cancelled" \in RunStates /\ "Cancelled" \in TimerStates
  BY DEF RunStates, TimerStates
<1>3. \A m \in Nat, t \in TimerStates :
        [r EXCEPT !.state = "Cancelled", !.rev = m, !.timer = t] \in Run
  BY <1>2 DEF Run
<1>4. r.timer \in TimerStates
  BY DEF Run
<1> QED BY <1>1, <1>2, <1>3, <1>4 DEF Cancelled

\* The interpreter keeps the type of a run.
LEMMA StepType ==
  ASSUME NEW r \in Run, NEW outcome \in {"Completed", "Failed"}, clock \in Nat
  PROVE  Stepped(r, outcome) \in Run
<1> DEFINE n == IF clock + Delay > MaxTime THEN MaxTime ELSE clock + Delay
           m == r.rev + 1
<1>1. m \in Nat
  BY DEF Run
<1>2. n \in Nat
  BY NumbersAssumption
<1>3. "Running" \in RunStates /\ "Waiting" \in RunStates /\ outcome \in RunStates
  BY DEF RunStates
<1>4. "Pending" \in TimerStates /\ "Consumed" \in TimerStates
  BY DEF TimerStates
<1>5. Stepped(r, outcome) \in
        {r, [r EXCEPT !.state = "Running", !.rev = m],
         [r EXCEPT !.state = "Waiting", !.rev = m, !.timer = "Pending", !.ready = n],
         [r EXCEPT !.state = "Running", !.rev = m, !.timer = "Consumed"],
         [r EXCEPT !.state = outcome, !.rev = m]}
  BY Zenon DEF Stepped
<1> HIDE DEF n, m
<1>6. [r EXCEPT !.state = "Running", !.rev = m] \in Run
  BY <1>1, <1>3 DEF Run
<1>7. [r EXCEPT !.state = "Waiting", !.rev = m, !.timer = "Pending", !.ready = n] \in Run
  BY <1>1, <1>2, <1>3, <1>4 DEF Run
<1>8. [r EXCEPT !.state = "Running", !.rev = m, !.timer = "Consumed"] \in Run
  BY <1>1, <1>3, <1>4 DEF Run
<1>9. [r EXCEPT !.state = outcome, !.rev = m] \in Run
  BY <1>1, <1>3 DEF Run
<1> QED BY <1>5, <1>6, <1>7, <1>8, <1>9, Zenon

\* A pass that ends leaves a worker of the right type.
LEMMA EndsType ==
  ASSUME worker' = IdleWorker
  PROVE  worker' \in WorkerType /\ TodoInv'
<1>1. worker' \in WorkerType
  BY IdleWorkerType
<1>2. worker'.pc = "Idle"
  BY DEF IdleWorker
<1> QED BY <1>1, <1>2 DEF TodoInv

\* Dropping the occurrence the loop has reached.
LEMMA NextType ==
  ASSUME worker \in WorkerType, NEW o
  PROVE  NextOccurrence(o) \in WorkerType /\ NextOccurrence(o).pc = worker.pc
<1>1. worker.work \in PartialMaps(OccurrenceStates)
  BY DEF WorkerType
<1>2. Without(worker.work, o) \in PartialMaps(OccurrenceStates)
  BY <1>1, WithoutType
<1> QED BY <1>2 DEF NextOccurrence, WorkerType

\* The version the repository reports as active.
LEMMA ActiveType ==
  ASSUME DurableType
  PROVE  ActiveVersion \in Versions \cup {None}
BY DEF DurableType, ActiveVersion

\* A pass begins with the page of events after its checkpoint.
LEMMA BeginPassType == TInv /\ BeginPass => TInv'
<1> SUFFICES ASSUME TInv, BeginPass PROVE TInv'
  OBVIOUS
<1> DEFINE S == {c \in 1..Len(events) : c > cursor /\ c <= cursor + Page}
<1>1. worker' = [IdleWorker EXCEPT !.pc = "Events", !.through = clock,
                                   !.active = ActiveVersion, !.todo = S]
  BY DEF BeginPass
<1>2. DurableType'
  BY DEF TInv, DurableType, BeginPass, owner_vars
<1>3. S \subseteq 1..Len(events) /\ S \in SUBSET (Nat \cup Occurrences)
  BY DEF TInv, DurableType
<1>4. ActiveVersion \in Versions \cup {None} /\ clock \in 0..MaxTime
  BY ActiveType DEF TInv, DurableType
<1>5. "Events" \in WorkerStages
  BY DEF WorkerStages
<1> HIDE DEF S
<1>6. worker' \in WorkerType /\ worker'.pc = "Events" /\ worker'.todo = S
  BY <1>1, <1>3, <1>4, <1>5, IdleWorkerType DEF WorkerType
<1>7. events' = events
  BY DEF BeginPass
<1> QED BY <1>2, <1>3, <1>6, <1>7 DEF TInv, TodoInv

\* Materialising an event creates a typed row.
LEMMA MaterializeEventType == TInv /\ MaterializeEvent => TInv'
<1> SUFFICES ASSUME TInv, MaterializeEvent PROVE TInv'
  OBVIOUS
<1>1. PICK c \in Oldest(worker.todo) :
        IF worker.active \in Subscribed
        THEN create_occurrence(
               EventId(worker.active, c), events[c].at,
               IF self_suppressed(worker.active, events[c].cause)
               THEN "Suppressed" ELSE "Scheduled")
        ELSE UNCHANGED occ
  BY DEF MaterializeEvent
<1>2. worker.todo \subseteq 1..Len(events) /\ c \in worker.todo
  BY DEF TInv, TodoInv, MaterializeEvent, Oldest
<1>3. events[c].at \in Nat
  <2>1. events \in Seq(Event) /\ c \in 1..Len(events)
    BY <1>2 DEF TInv, DurableType
  <2>2. events[c] \in Event
    BY <2>1
  <2> QED BY <2>2 DEF Event
<1>4. "Suppressed" \in OccurrenceStates /\ "Scheduled" \in OccurrenceStates
  BY DEF OccurrenceStates
<1>5. occ \in [Occurrences -> Row]
  BY DEF TInv, DurableType
<1>6. occ' \in [Occurrences -> Row]
  BY <1>1, <1>3, <1>4, <1>5, CreateType
<1>7. DurableType'
  BY <1>6 DEF TInv, DurableType, MaterializeEvent, owner_vars
<1>8. "Checkpoint" \in WorkerStages
  BY DEF WorkerStages
<1>9. /\ worker' \in WorkerType
      /\ worker'.pc = "Checkpoint"
      /\ worker'.todo = worker.todo
  BY <1>8 DEF TInv, MaterializeEvent, WorkerType
<1>10. events' = events
  BY DEF MaterializeEvent
<1> QED BY <1>2, <1>7, <1>9, <1>10 DEF TInv, TodoInv

\* The checkpoint stays within the log.
LEMMA AdvanceCursorType == TInv /\ AdvanceCursor => TInv'
<1> SUFFICES ASSUME TInv, AdvanceCursor PROVE TInv'
  OBVIOUS
<1>1. PICK c \in Oldest(worker.todo) :
        /\ cursor' = c
        /\ worker' = [worker EXCEPT !.pc = "Events", !.todo = @ \ {c}]
  BY DEF AdvanceCursor
<1>2. worker.todo \subseteq 1..Len(events) /\ c \in 1..Len(events)
  BY DEF TInv, TodoInv, AdvanceCursor, Oldest
<1>3. events' = events
  BY DEF AdvanceCursor
<1>4. cursor' \in 0..Len(events)
  BY <1>1, <1>2 DEF TInv, DurableType
<1>5. DurableType'
  BY <1>3, <1>4 DEF TInv, DurableType, AdvanceCursor, owner_vars
<1>6. "Events" \in WorkerStages
  BY DEF WorkerStages
<1>7. /\ worker' \in WorkerType
      /\ worker'.pc = "Events"
      /\ worker'.todo = worker.todo \ {c}
  BY <1>1, <1>6 DEF TInv, WorkerType
<1> QED BY <1>2, <1>3, <1>5, <1>7 DEF TInv, TodoInv

\* The instants of a window are numbers of an existing version.
LEMMA LoadSchedulesType == TInv /\ LoadSchedules => TInv'
<1> SUFFICES ASSUME TInv, LoadSchedules PROVE TInv'
  OBVIOUS
<1> DEFINE v == ActiveVersion
           S == IF v = None THEN {}
                ELSE {t \in Schedule[v] : from < t /\ t <= worker.through}
<1>1. worker' = [worker EXCEPT !.pc = "Schedules", !.active = v, !.todo = S]
  BY DEF LoadSchedules
<1>2. v \in Versions \cup {None}
  BY ActiveType DEF TInv
<1>3. S \subseteq Nat /\ (S # {} => v \in Versions)
  BY <1>2, ScheduleAssumption
<1>4. "Schedules" \in WorkerStages
  BY DEF WorkerStages
<1>5. DurableType'
  BY DEF TInv, DurableType, LoadSchedules, owner_vars
<1> HIDE DEF v, S
<1>6. /\ worker' \in WorkerType
      /\ worker'.pc = "Schedules"
      /\ worker'.todo = S
      /\ worker'.active = v
  BY <1>1, <1>2, <1>3, <1>4 DEF TInv, WorkerType
<1> QED BY <1>3, <1>5, <1>6 DEF TInv, TodoInv

\* Materialising an instant creates a typed row.
LEMMA MaterializeScheduleType == TInv /\ MaterializeSchedule => TInv'
<1> SUFFICES ASSUME TInv, MaterializeSchedule PROVE TInv'
  OBVIOUS
<1>1. PICK t \in Oldest(worker.todo) :
        /\ create_occurrence(ScheduleId(worker.active, t), t, "Scheduled")
        /\ worker' = [worker EXCEPT !.todo = @ \ {t}]
  BY DEF MaterializeSchedule
<1>2. t \in Nat
  BY DEF TInv, TodoInv, MaterializeSchedule, Oldest
<1>3. "Scheduled" \in OccurrenceStates
  BY DEF OccurrenceStates
<1>4. occ \in [Occurrences -> Row]
  BY DEF TInv, DurableType
<1>5. occ' \in [Occurrences -> Row]
  BY <1>1, <1>2, <1>3, <1>4, CreateType
<1>6. DurableType'
  BY <1>5 DEF TInv, DurableType, MaterializeSchedule, owner_vars
<1>7. /\ worker' \in WorkerType
      /\ worker'.pc = worker.pc
      /\ worker'.active = worker.active
      /\ worker'.todo = worker.todo \ {t}
  BY <1>1 DEF TInv, WorkerType
<1>8. worker.pc = "Schedules"
  BY DEF MaterializeSchedule
<1> QED BY <1>6, <1>7, <1>8 DEF TInv, TodoInv

\* The pass takes its instant.
LEMMA ReadClockType == TInv /\ ReadClock => TInv'
<1> SUFFICES ASSUME TInv, ReadClock PROVE TInv'
  OBVIOUS
<1>1. DurableType'
  BY DEF TInv, DurableType, ReadClock, owner_vars
<1>2. clock \in Nat /\ "Load" \in WorkerStages
  BY NumbersAssumption DEF TInv, DurableType, WorkerStages
<1>3. worker' \in WorkerType /\ worker'.pc = "Load"
  BY <1>2 DEF TInv, ReadClock, WorkerType
<1> QED BY <1>1, <1>3 DEF TInv, TodoInv

\* A page is part of the rows it is taken from.
LEMMA PageType ==
  /\ \A P \in OccurrencePages : P \subseteq Occurrences
  /\ \A P \in RunPages : P \subseteq Occurrences
  /\ \A P \in TimerPages : P \subseteq Occurrences
<1>1. \A S : \A P \in Pages(S) : P \subseteq S
  BY DEF Pages
<1> QED BY <1>1 DEF OccurrencePages, RunPages, TimerPages,
                    RecoverableOccurrences, OpenRuns, OpenTimers

\* The loaded pages are partial copies of the tables.
LEMMA LoadRecoveryType == TInv /\ LoadRecovery => TInv'
<1> SUFFICES ASSUME TInv, LoadRecovery PROVE TInv'
  OBVIOUS
<1>1. PICK W \in OccurrencePages, R \in RunPages, T \in TimerPages :
        LET mine == {o \in R : VersionOf(o) = worker.active}
        IN  worker' =
              [worker EXCEPT
                 !.pc = "Recovery",
                 !.page = W,
                 !.work = [o \in W |-> occ[o].state],
                 !.open = [o \in mine |-> runs[o].rev],
                 !.count = Cardinality(mine),
                 !.timers = T,
                 !.due = {o \in T : /\ runs[o].timer = "Pending"
                                    /\ runs[o].ready <= worker.now}]
  BY DEF LoadRecovery
<1> DEFINE mine == {o \in R : VersionOf(o) = worker.active}
           work == [o \in W |-> occ[o].state]
           open == [o \in mine |-> runs[o].rev]
           n == Cardinality(mine)
           due == {o \in T : /\ runs[o].timer = "Pending"
                             /\ runs[o].ready <= worker.now}
<1>2. /\ W \in SUBSET Occurrences
      /\ mine \in SUBSET Occurrences
      /\ T \in SUBSET Occurrences
      /\ due \in SUBSET Occurrences
  BY PageType
<1>3. work \in PartialMaps(OccurrenceStates)
  <2>1. work \in [W -> OccurrenceStates]
    BY <1>2 DEF TInv, DurableType, Row
  <2> QED BY <1>2, <2>1, MapOver
<1>4. open \in PartialMaps(Nat)
  <2>1. open \in [mine -> Nat]
    BY <1>2 DEF TInv, DurableType, Run
  <2> QED BY <1>2, <2>1, MapOver
<1>5. n \in Nat
  BY <1>2, FiniteAssumption, FS_Subset, FS_CardinalityType
<1>6. "Recovery" \in WorkerStages
  BY DEF WorkerStages
<1>7. worker' = [worker EXCEPT !.pc = "Recovery", !.page = W, !.work = work,
                               !.open = open, !.count = n, !.timers = T,
                               !.due = due]
  BY <1>1
<1> HIDE DEF mine, work, open, n, due
<1>8. worker' \in WorkerType /\ worker'.pc = "Recovery"
  BY <1>2, <1>3, <1>4, <1>5, <1>6, <1>7 DEF TInv, WorkerType
<1>9. DurableType'
  BY DEF TInv, DurableType, LoadRecovery, owner_vars
<1> QED BY <1>8, <1>9 DEF TInv, TodoInv

\* An expired timer keeps its run typed.
LEMMA ReadyTimerType == TInv /\ ReadyTimer => TInv'
<1> SUFFICES ASSUME TInv, ReadyTimer PROVE TInv'
  OBVIOUS
<1>1. PICK o \in worker.due :
        IF runs[o].timer = "Pending"
        THEN /\ runs' = [runs EXCEPT ![o].timer = "Ready"]
             /\ worker' = [worker EXCEPT !.due = @ \ {o}]
        ELSE AbortPass /\ UNCHANGED runs
  BY DEF ReadyTimer
<1>2. worker.pc = "Recovery"
  BY DEF ReadyTimer
<1>3. worker' \in WorkerType /\ TodoInv'
  <2>1. CASE runs[o].timer = "Pending"
    <3>1. worker' \in WorkerType /\ worker'.pc = "Recovery"
      BY <1>1, <1>2, <2>1 DEF TInv, WorkerType
    <3> QED BY <3>1 DEF TodoInv
  <2>2. CASE runs[o].timer # "Pending"
    BY <1>1, <2>2, EndsType DEF AbortPass
  <2> QED BY <2>1, <2>2
<1>4. runs' \in [Occurrences -> Run]
  <2>1. o \in Occurrences
    BY DEF TInv, WorkerType
  <2>2. runs \in [Occurrences -> Run]
    BY DEF TInv, DurableType
  <2>3. "Ready" \in TimerStates
    BY DEF TimerStates
  <2>4. [runs[o] EXCEPT !.timer = "Ready"] \in Run
    BY <2>1, <2>2, <2>3 DEF Run
  <2> QED BY <1>1, <2>1, <2>2, <2>4
<1>5. DurableType'
  BY <1>4 DEF TInv, DurableType, ReadyTimer, owner_vars
<1> QED BY <1>3, <1>5 DEF TInv

\* The rows stay typed, so does the loop's private state: the seven cases of
\* an occurrence the loop has reached.
LEMMA DecideKeepsType ==
  ASSUME TInv, worker.pc = "Recovery", NEW o, NEW s \in OccurrenceStates, Decide(o, s)
  PROVE  occ' \in [Occurrences -> Row] /\ worker' \in WorkerType /\ TodoInv'
<1>1. occ \in [Occurrences -> Row]
  BY DEF TInv, DurableType
<1>2. CASE may_transition(o, s)
  <2>1. transition_occurrence(o, s) /\ worker' = NextOccurrence(o)
    BY <1>2 DEF Decide
  <2>2. worker' \in WorkerType /\ worker'.pc = "Recovery"
    BY <2>1, NextType DEF TInv
  <2>3. occ' \in [Occurrences -> Row]
    BY <1>1, <2>1, DecideType
  <2> QED BY <2>2, <2>3 DEF TodoInv
<1>3. CASE ~may_transition(o, s)
  BY <1>1, <1>3, EndsType DEF Decide, AbortPass
<1> QED BY <1>2, <1>3

\* One occurrence of the page, in each of its seven outcomes.
LEMMA ProcessType == TInv /\ ProcessOccurrence => TInv'
<1> SUFFICES ASSUME TInv, ProcessOccurrence PROVE TInv'
  OBVIOUS
<1>1. PICK o \in Occurrences :
        \/ SkipOccurrence(o)
        \/ MissOccurrence(o)
        \/ DeferOccurrence(o)
        \/ SuppressOccurrence(o)
        \/ CancelForRestart(o)
        \/ AcceptOccurrence(o)
        \/ CreateRun(o)
  BY DEF ProcessOccurrence
<1>2. worker.pc = "Recovery"
  BY <1>1 DEF SkipOccurrence, MissOccurrence, DeferOccurrence, SuppressOccurrence,
              CancelForRestart, AcceptOccurrence, CreateRun, Due, Undecided, AtOccurrence
<1>3. worker \in WorkerType /\ occ \in [Occurrences -> Row] /\ runs \in [Occurrences -> Run]
  BY DEF TInv, DurableType
<1>4. "MissedSkipped" \in OccurrenceStates /\ "Suppressed" \in OccurrenceStates
      /\ "Accepted" \in OccurrenceStates
  BY DEF OccurrenceStates
<1>5. CASE SkipOccurrence(o)
  <2>1. worker' \in WorkerType /\ worker'.pc = "Recovery"
    BY <1>2, <1>3, <1>5, NextType DEF SkipOccurrence
  <2>2. DurableType'
    BY <1>5 DEF TInv, DurableType, SkipOccurrence, owner_vars
  <2> QED BY <2>1, <2>2 DEF TInv, TodoInv
<1>6. CASE MissOccurrence(o)
  <2>1. Decide(o, "MissedSkipped")
    BY <1>6 DEF MissOccurrence
  <2>2. occ' \in [Occurrences -> Row] /\ worker' \in WorkerType /\ TodoInv'
    BY <1>2, <1>4, <2>1, DecideKeepsType
  <2>3. DurableType'
    BY <1>6, <2>2 DEF TInv, DurableType, MissOccurrence, owner_vars
  <2> QED BY <2>2, <2>3 DEF TInv
<1>7. CASE DeferOccurrence(o)
  <2>1. worker' = [NextOccurrence(o) EXCEPT !.queued = @ + 1]
    BY <1>7 DEF DeferOccurrence
  <2>2. NextOccurrence(o) \in WorkerType /\ NextOccurrence(o).pc = "Recovery"
    BY <1>2, <1>3, NextType
  <2>3. worker' \in WorkerType /\ worker'.pc = "Recovery"
    BY <2>1, <2>2 DEF WorkerType
  <2>4. DurableType'
    BY <1>7 DEF TInv, DurableType, DeferOccurrence, owner_vars
  <2> QED BY <2>3, <2>4 DEF TInv, TodoInv
<1>8. CASE SuppressOccurrence(o)
  <2>1. Decide(o, "Suppressed")
    BY <1>8 DEF SuppressOccurrence
  <2>2. occ' \in [Occurrences -> Row] /\ worker' \in WorkerType /\ TodoInv'
    BY <1>2, <1>4, <2>1, DecideKeepsType
  <2>3. DurableType'
    BY <1>8, <2>2 DEF TInv, DurableType, SuppressOccurrence, owner_vars
  <2> QED BY <2>2, <2>3 DEF TInv
<1>9. CASE CancelForRestart(o)
  <2>1. PICK r \in DOMAIN worker.open :
          IF runs[r].rev = worker.open[r]
          THEN /\ runs' = [runs EXCEPT ![r] = Cancelled(@, r \in worker.timers)]
               /\ worker' = [worker EXCEPT !.open = Without(@, r), !.cur = o]
          ELSE AbortPass /\ UNCHANGED runs
    BY <1>9 DEF CancelForRestart
  <2>2. worker.open \in PartialMaps(Nat)
    BY <1>3 DEF WorkerType
  <2>3. r \in Occurrences /\ Without(worker.open, r) \in PartialMaps(Nat)
    BY <2>2, MapDomain, WithoutType
  <2>4. runs' \in [Occurrences -> Run] /\ worker' \in WorkerType /\ TodoInv'
    <3>1. CASE runs[r].rev = worker.open[r]
      <4>1. Cancelled(runs[r], r \in worker.timers) \in Run
        BY <1>3, <2>3, CancelType
      <4>2. runs' \in [Occurrences -> Run]
        BY <1>3, <2>1, <2>3, <3>1, <4>1
      <4>3. worker' \in WorkerType /\ worker'.pc = "Recovery"
        <5> DEFINE left == Without(worker.open, r)
        <5>1. worker' = [worker EXCEPT !.open = left, !.cur = o] /\ left \in PartialMaps(Nat)
          BY <2>1, <2>3, <3>1
        <5> HIDE DEF left
        <5> QED BY <1>2, <1>3, <5>1 DEF WorkerType
      <4> QED BY <4>2, <4>3 DEF TodoInv
    <3>2. CASE runs[r].rev # worker.open[r]
      BY <1>3, <2>1, <3>2, EndsType DEF AbortPass
    <3> QED BY <3>1, <3>2
  <2>5. DurableType'
    BY <1>9, <2>4 DEF TInv, DurableType, CancelForRestart, owner_vars
  <2> QED BY <2>4, <2>5 DEF TInv
<1>10. CASE AcceptOccurrence(o)
  <2>1. occ' \in [Occurrences -> Row] /\ worker' \in WorkerType /\ TodoInv'
    <3>1. CASE may_transition(o, "Accepted")
      <4>1. /\ transition_occurrence(o, "Accepted")
            /\ worker' = [worker EXCEPT !.work[o] = "Accepted", !.cur = o,
                                        !.count = CountAfter(o)]
        BY <1>10, <3>1 DEF AcceptOccurrence
      <4>2. occ' \in [Occurrences -> Row]
        BY <1>3, <1>4, <4>1, DecideType
      <4>3. CountAfter(o) \in Nat
        BY <1>3 DEF CountAfter, WorkerType
      <4>4. worker.work \in PartialMaps(OccurrenceStates)
        BY <1>3 DEF WorkerType
      <4>5. [worker.work EXCEPT ![o] = "Accepted"] \in PartialMaps(OccurrenceStates)
        <5>1. DOMAIN worker.work \in SUBSET Occurrences
              /\ worker.work \in [DOMAIN worker.work -> OccurrenceStates]
          BY <4>4, MapDomain
        <5>2. [worker.work EXCEPT ![o] = "Accepted"]
                \in [DOMAIN worker.work -> OccurrenceStates]
          BY <1>4, <5>1
        <5> QED BY <5>1, <5>2, MapOver
      <4>6. worker' \in WorkerType /\ worker'.pc = "Recovery"
        BY <1>2, <1>3, <4>1, <4>3, <4>5 DEF WorkerType
      <4> QED BY <4>2, <4>6 DEF TodoInv
    <3>2. CASE ~may_transition(o, "Accepted")
      BY <1>3, <1>10, <3>2, EndsType DEF AcceptOccurrence, AbortPass
    <3> QED BY <3>1, <3>2
  <2>2. DurableType'
    BY <1>10, <2>1 DEF TInv, DurableType, AcceptOccurrence, owner_vars
  <2> QED BY <2>1, <2>2 DEF TInv
<1>11. CASE CreateRun(o)
  <2> DEFINE run == IF runs[o].state = "Absent"
                    THEN [NoRun EXCEPT !.state = "Pending", !.created = worker.now]
                    ELSE runs[o]
             known == worker.open
             open == IF run.state \in Open /\ o \notin DOMAIN known
                     THEN [r \in DOMAIN known \cup {o} |->
                             IF r = o THEN run.rev ELSE known[r]]
                     ELSE known
  <2>1. /\ runs' = [runs EXCEPT ![o] = run]
        /\ worker' = [NextOccurrence(o) EXCEPT !.open = open]
    BY <1>11 DEF CreateRun
  <2>2. run \in Run
    <3>1. worker.now \in Nat /\ "Pending" \in RunStates
      BY <1>3 DEF WorkerType, RunStates
    <3>2. NoRun \in Run
      BY DEF NoRun, Run, RunStates, TimerStates
    <3>3. [NoRun EXCEPT !.state = "Pending", !.created = worker.now] \in Run
      BY <3>1, <3>2 DEF Run
    <3> QED BY <1>3, <3>3
  <2>3. open \in PartialMaps(Nat)
    <3>1. DOMAIN known \in SUBSET Occurrences /\ known \in [DOMAIN known -> Nat]
          /\ known \in PartialMaps(Nat)
      BY <1>3, MapDomain DEF WorkerType
    <3>2. run.rev \in Nat
      BY <2>2 DEF Run
    <3> HIDE DEF known, run
    <3>3. [r \in DOMAIN known \cup {o} |-> IF r = o THEN run.rev ELSE known[r]]
            \in [DOMAIN known \cup {o} -> Nat]
      BY <3>1, <3>2
    <3>4. DOMAIN known \cup {o} \in SUBSET Occurrences
      BY <1>1, <3>1
    <3>5. [r \in DOMAIN known \cup {o} |-> IF r = o THEN run.rev ELSE known[r]]
            \in PartialMaps(Nat)
      BY <3>3, <3>4, MapOver
    <3> QED BY <3>1, <3>5
  <2> HIDE DEF run, known, open
  <2>4. NextOccurrence(o) \in WorkerType /\ NextOccurrence(o).pc = "Recovery"
    BY <1>2, <1>3, NextType
  <2>5. worker' \in WorkerType /\ worker'.pc = "Recovery"
    BY <2>1, <2>3, <2>4 DEF WorkerType
  <2>6. runs' \in [Occurrences -> Run]
    BY <1>3, <2>1, <2>2
  <2>7. DurableType'
    BY <1>11, <2>6 DEF TInv, DurableType, CreateRun, owner_vars
  <2> QED BY <2>5, <2>7 DEF TInv, TodoInv
<1> QED BY <1>1, <1>5, <1>6, <1>7, <1>8, <1>9, <1>10, <1>11

\* The runs to step are rows.
LEMMA ReloadRunsType == TInv /\ ReloadRuns => TInv'
<1> SUFFICES ASSUME TInv, ReloadRuns PROVE TInv'
  OBVIOUS
<1>1. PICK R \in RunPages :
        worker' = [IdleWorker EXCEPT !.pc = "Runs", !.todo = R,
                                     !.through = worker.through]
  BY DEF ReloadRuns
<1>2. R \in SUBSET Occurrences /\ R \in SUBSET (Nat \cup Occurrences)
  BY PageType
<1>3. "Runs" \in WorkerStages /\ worker.through \in 0..MaxTime
  BY DEF WorkerStages, TInv, WorkerType
<1>4. worker' \in WorkerType /\ worker'.pc = "Runs" /\ worker'.todo = R
  BY <1>1, <1>2, <1>3, IdleWorkerType DEF WorkerType
<1>5. DurableType'
  BY DEF TInv, DurableType, ReloadRuns, owner_vars
<1> QED BY <1>2, <1>4, <1>5 DEF TInv, TodoInv

\* The interpreter reads a row of the page.
LEMMA ReadRunType ==
  ASSUME TInv, NEW o \in Occurrences, ReadRun(o)
  PROVE  TInv'
<1>1. worker \in WorkerType /\ worker.pc = "Runs" /\ worker.todo \subseteq Occurrences
  BY DEF TInv, TodoInv, ReadRun
<1>2. runs[o].rev \in Nat
  BY DEF TInv, DurableType, Run
<1>3. "Step" \in WorkerStages
  BY DEF WorkerStages
<1>4. worker' \in WorkerType /\ TodoInv'
  <2>1. CASE worker' = [worker EXCEPT !.todo = @ \ {o}]
    <3>1. /\ worker' \in WorkerType
          /\ worker'.pc = "Runs"
          /\ worker'.todo = worker.todo \ {o}
      BY <1>1, <2>1 DEF WorkerType
    <3> QED BY <1>1, <3>1 DEF TodoInv
  <2>2. CASE worker' = [worker EXCEPT !.pc = "Step", !.cur = o, !.count = runs[o].rev]
    <3>1. worker' \in WorkerType /\ worker'.pc = "Step" /\ worker'.cur = o
      BY <1>1, <1>2, <1>3, <2>2 DEF WorkerType
    <3>2. worker'.todo = worker.todo
      BY <1>1, <2>2 DEF WorkerType
    <3> QED BY <1>1, <3>1, <3>2 DEF TodoInv
  <2> QED BY <2>1, <2>2 DEF ReadRun
<1>5. DurableType'
  BY DEF TInv, DurableType, ReadRun, owner_vars
<1> QED BY <1>4, <1>5 DEF TInv

\* One step of the interpreter keeps the table of runs typed.
LEMMA StepRunType == TInv /\ StepRun => TInv'
<1> SUFFICES ASSUME TInv, StepRun PROVE TInv'
  OBVIOUS
<1> DEFINE o == worker.cur
<1>1. PICK outcome \in {"Completed", "Failed"} :
        runs' = IF runs[o].rev = worker.count
                THEN [runs EXCEPT ![o] = Stepped(@, outcome)]
                ELSE runs
  BY DEF StepRun
<1>2. worker' = [worker EXCEPT !.pc = "Runs", !.todo = @ \ {o}, !.cur = None, !.count = 0]
  BY DEF StepRun
<1>3. o \in Occurrences /\ worker \in WorkerType /\ worker.todo \subseteq Occurrences
  BY DEF TInv, TodoInv, StepRun
<1>4. runs \in [Occurrences -> Run] /\ clock \in Nat
  BY NumbersAssumption DEF TInv, DurableType
<1>5. Stepped(runs[o], outcome) \in Run
  BY <1>3, <1>4, StepType
<1> HIDE DEF o
<1>6. runs' \in [Occurrences -> Run]
  BY <1>1, <1>3, <1>4, <1>5
<1>7. "Runs" \in WorkerStages
  BY DEF WorkerStages
<1>8. worker' \in WorkerType /\ worker'.pc = "Runs" /\ worker'.todo = worker.todo \ {o}
  BY <1>2, <1>3, <1>7 DEF WorkerType
<1>9. DurableType'
  BY <1>6 DEF TInv, DurableType, StepRun, owner_vars
<1> QED BY <1>3, <1>8, <1>9 DEF TInv, TodoInv

\* The schedule window ends where the pass began.
LEMMA EndPassType == TInv /\ EndPass => TInv'
<1> SUFFICES ASSUME TInv, EndPass PROVE TInv'
  OBVIOUS
<1>1. worker' \in WorkerType /\ TodoInv'
  BY EndsType DEF EndPass
<1>2. from' \in 0..MaxTime
  BY DEF EndPass, TInv, WorkerType
<1>3. DurableType'
  BY <1>2 DEF TInv, DurableType, EndPass, owner_vars
<1> QED BY <1>1, <1>3 DEF TInv

\* An error and a crash leave an idle worker, and at most every fault tears.
LEMMA InterruptedType ==
  ASSUME TInv, PassFails \/ Crash
  PROVE  TInv'
<1>1. worker' \in WorkerType /\ TodoInv'
  BY EndsType DEF PassFails, Crash, Interrupted
<1>2. faults' \in Nat /\ torn' \in Nat /\ torn' <= faults'
  BY DEF TInv, DurableType, PassFails, Crash, Interrupted
<1>3. from' \in 0..MaxTime /\ call' \in CallType
  BY DEF TInv, DurableType, PassFails, Crash, IdleCall, CallType
<1>4. DurableType'
  BY <1>2, <1>3 DEF TInv, DurableType, PassFails, Crash
<1> QED BY <1>1, <1>4 DEF TInv

\* A step that leaves the worker and the log alone keeps the worker's type.
LEMMA WorkerKept ==
  ASSUME TInv, worker' = worker, events' = events, DurableType'
  PROVE  TInv'
BY DEF TInv, TodoInv

\* Lifecycle calls and cancellation.
LEMMA OwnerType ==
  ASSUME TInv,
         \/ \E v \in Versions : Activate(v)
         \/ Disable
         \/ Retire
         \/ \E o \in Occurrences : CancelRun(o)
  PROVE  TInv'
<1> USE DEF engine_vars
<1>1. worker' = worker /\ events' = events
  BY DEF Activate, Disable, Retire, CancelRun
<1>2. CASE \E v \in Versions : Activate(v)
  BY <1>1, <1>2, WorkerKept DEF TInv, DurableType, Activate
<1>3. CASE Disable
  BY <1>1, <1>3, WorkerKept DEF TInv, DurableType, Disable
<1>4. CASE Retire
  BY <1>1, <1>4, WorkerKept DEF TInv, DurableType, Retire
<1>5. CASE \E o \in Occurrences : CancelRun(o)
  <2>1. PICK o \in Occurrences : CancelRun(o)
    BY <1>5
  <2>2. PICK T \in TimerPages : runs' = [runs EXCEPT ![o] = Cancelled(@, o \in T)]
    BY <2>1 DEF CancelRun
  <2>3. runs \in [Occurrences -> Run]
    BY DEF TInv, DurableType
  <2>4. Cancelled(runs[o], o \in T) \in Run
    BY <2>3, CancelType
  <2>5. runs' \in [Occurrences -> Run]
    BY <2>2, <2>3, <2>4
  <2>6. DurableType'
    BY <2>1, <2>5 DEF TInv, DurableType, CancelRun
  <2> QED BY <1>1, <2>6, WorkerKept
<1> QED BY <1>2, <1>3, <1>4, <1>5

\* The four steps of a catch-up request.
LEMMA CatchUpType ==
  ASSUME TInv,
         \/ \E t \in Instants, k \in Keys : PrepareCatchUp(t, k)
         \/ CatchUpStep
  PROVE  TInv'
<1> USE DEF engine_vars
<1>1. worker' = worker /\ events' = events
  BY DEF PrepareCatchUp, CatchUpStep, LoadMissed, RecordMissed, CreateCatchUp
<1>2. occ \in [Occurrences -> Row] /\ call \in CallType /\ clock \in Nat
  BY NumbersAssumption DEF TInv, DurableType
<1>3. "Scheduled" \in OccurrenceStates /\ "MissedSkipped" \in OccurrenceStates
  BY DEF OccurrenceStates
<1>4. IdleCall \in CallType
  BY DEF IdleCall, CallType
<1>5. \A p \in {"Idle", "Load", "Transition", "Create"} : [call EXCEPT !.pc = p] \in CallType
  BY <1>2 DEF CallType
<1>6. CASE \E t \in Instants, k \in Keys : PrepareCatchUp(t, k)
  <2>1. PICK t \in Instants, k \in Keys : PrepareCatchUp(t, k)
    BY <1>6
  <2>2. ActiveVersion \in Versions /\ t \in Nat
    BY <2>1, ActiveType, ScheduleAssumption DEF TInv, PrepareCatchUp
  <2>3. occ' \in [Occurrences -> Row]
    BY <1>2, <1>3, <2>1, <2>2, CreateType DEF PrepareCatchUp
  <2>4. call' \in CallType
    BY <2>1, <2>2 DEF PrepareCatchUp, CallType
  <2>5. DurableType'
    BY <2>1, <2>3, <2>4 DEF TInv, DurableType, PrepareCatchUp
  <2> QED BY <1>1, <2>5, WorkerKept
<1>7. CASE LoadMissed
  <2>1. call' \in {IdleCall, [call EXCEPT !.pc = "Transition"], [call EXCEPT !.pc = "Create"]}
    BY <1>7, Zenon DEF LoadMissed
  <2>2. call' \in CallType
    BY <1>4, <1>5, <2>1
  <2>3. DurableType'
    BY <1>7, <2>2 DEF TInv, DurableType, LoadMissed
  <2> QED BY <1>1, <2>3, WorkerKept
<1>8. CASE RecordMissed
  <2>1. call' \in CallType
    BY <1>4, <1>5, <1>8 DEF RecordMissed
  <2>2. occ' \in [Occurrences -> Row]
    BY <1>2, <1>3, <1>8, DecideType DEF RecordMissed
  <2>3. DurableType'
    BY <1>8, <2>1, <2>2 DEF TInv, DurableType, RecordMissed
  <2> QED BY <1>1, <2>3, WorkerKept
<1>9. CASE CreateCatchUp
  <2>1. call' \in CallType
    BY <1>4, <1>9 DEF CreateCatchUp
  <2>2. occ' \in [Occurrences -> Row]
    BY <1>2, <1>3, <1>9, CreateType DEF CreateCatchUp
  <2>3. DurableType'
    BY <1>9, <2>1, <2>2 DEF TInv, DurableType, CreateCatchUp
  <2> QED BY <1>1, <2>3, WorkerKept
<1> QED BY <1>6, <1>7, <1>8, <1>9 DEF CatchUpStep

\* The log grows at its end.
LEMMA EmitType == TInv /\ EmitEvent => TInv'
<1> SUFFICES ASSUME TInv, EmitEvent PROVE TInv'
  OBVIOUS
<1>1. PICK cause \in {None} \cup {VersionOf(o) : o \in StartedRuns} :
        events' = Append(events, [at |-> clock, cause |-> cause])
  BY DEF EmitEvent
<1>2. \A o \in Occurrences : VersionOf(o) \in Versions
  BY DEF Occurrences, VersionOf, ScheduleId, EventId, CatchUpId
<1>3. cause \in Versions \cup {None} /\ clock \in Nat
  BY <1>2, NumbersAssumption DEF StartedRuns, TInv, DurableType
<1>4. [at |-> clock, cause |-> cause] \in Event
  BY <1>3 DEF Event
<1>5. events \in Seq(Event) /\ Len(events) \in Nat
  BY DEF TInv, DurableType
<1>6. events' \in Seq(Event) /\ Len(events') = Len(events) + 1
  BY <1>1, <1>4, <1>5
<1>7. cursor' \in 0..Len(events')
  BY <1>5, <1>6 DEF TInv, DurableType, EmitEvent
<1>8. DurableType'
  BY <1>6, <1>7 DEF TInv, DurableType, EmitEvent, owner_vars
<1>9. worker' = worker
  BY DEF EmitEvent
<1>10. 1..Len(events) \subseteq 1..Len(events')
  BY <1>5, <1>6
<1> QED BY <1>8, <1>9, <1>10 DEF TInv, TodoInv

\* The clock stays within its bound.
LEMMA TickType == TInv /\ Tick => TInv'
<1> SUFFICES ASSUME TInv, Tick PROVE TInv'
  OBVIOUS
<1>1. clock' \in 0..MaxTime
  BY NumbersAssumption DEF TInv, DurableType, Tick
<1>2. DurableType'
  BY <1>1 DEF TInv, DurableType, Tick, owner_vars
<1> QED BY <1>2, WorkerKept DEF Tick

\* Every step keeps the types.
LEMMA TypeNext == TInv /\ [Next]_vars => TInv'
<1> SUFFICES ASSUME TInv, [Next]_vars PROVE TInv'
  OBVIOUS
<1>1. CASE WorkerStep
  BY <1>1, BeginPassType, MaterializeEventType, AdvanceCursorType, LoadSchedulesType,
     MaterializeScheduleType, ReadClockType, LoadRecoveryType, ReadyTimerType,
     ProcessType, ReloadRunsType, ReadRunType, StepRunType, EndPassType
  DEF WorkerStep
<1>2. CASE UNCHANGED vars
  <2>1. DurableType'
    BY <1>2 DEF TInv, DurableType, vars
  <2> QED BY <1>2, <2>1, WorkerKept DEF vars
<1> QED BY <1>1, <1>2, CatchUpType, InterruptedType, OwnerType, EmitType, TickType DEF Next

\* The tables, the cursor, the timers and the worker's private copies keep
\* their types, whatever the constants.
THEOREM TypeCorrect == Spec => []TypeOK
<1>1. Init => TInv
  BY TypeInit
<1>2. TInv /\ [Next]_vars => TInv'
  BY TypeNext
<1>3. TInv => TypeOK
  <2> SUFFICES ASSUME TInv PROVE TypeOK
    OBVIOUS
  <2>1. /\ DOMAIN worker.work \subseteq Occurrences
        /\ DOMAIN worker.open \subseteq Occurrences
    <3>1. /\ worker.work \in PartialMaps(OccurrenceStates)
          /\ worker.open \in PartialMaps(Nat)
      BY DEF TInv, WorkerType
    <3> QED BY <3>1, MapDomain
  <2>2. /\ worker.pc \in WorkerStages
        /\ worker.active \in Versions \cup {None}
        /\ worker.cur \in Occurrences \cup {None}
    BY DEF TInv, WorkerType
  <2>3. call.pc \in {"Idle", "Load", "Transition", "Create"}
    BY DEF TInv, DurableType, CallType
  <2> QED BY <2>1, <2>2, <2>3 DEF TInv, DurableType, TypeOK, Event, Row, Run
<1> QED BY <1>1, <1>2, <1>3, PTL DEF Spec

-----------------------------------------------------------------------------
(* Rows that never change back *)

\* A decided occurrence is final; no occurrence disappears or is moved in time.
RowsKept ==
  \A o \in Occurrences :
    /\ occ[o].state \notin {"Absent", "Scheduled"} => occ'[o] = occ[o]
    /\ occ[o].state # "Absent" => occ'[o].state # "Absent" /\ occ'[o].at = occ[o].at

\* No catch-up occurrence appears.
NoReplay ==
  \A o \in Occurrences :
    occ[o].state = "Absent" /\ SourceOf(o) = "catch_up" => occ'[o].state = "Absent"

\* Creating a row changes no other, and no existing one.
LEMMA CreateKeeps ==
  ASSUME occ \in [Occurrences -> Row], NEW p, NEW at, NEW s,
         s # "Absent", create_occurrence(p, at, s)
  PROVE  RowsKept /\ (SourceOf(p) # "catch_up" => NoReplay)
<1>1. \A o \in Occurrences :
        occ'[o] = IF o = p /\ occ[p].state = "Absent"
                  THEN [state |-> s, at |-> at] ELSE occ[o]
  BY DEF create_occurrence
<1> QED BY <1>1 DEF RowsKept, NoReplay

\* Deciding changes an undecided row only.
LEMMA DecideKeeps ==
  ASSUME occ \in [Occurrences -> Row], NEW p, NEW s,
         may_transition(p, s), transition_occurrence(p, s)
  PROVE  RowsKept /\ NoReplay
<1>1. \A o \in Occurrences :
        occ'[o] = IF o = p THEN [occ[o] EXCEPT !.state = s] ELSE occ[o]
  BY DEF transition_occurrence
<1>2. \A o \in Occurrences : /\ [occ[o] EXCEPT !.state = s].state = s
                              /\ [occ[o] EXCEPT !.state = s].at = occ[o].at
  BY DEF Row
<1> QED BY <1>1, <1>2 DEF RowsKept, NoReplay, may_transition

\* A step that leaves the table alone.
LEMMA UnchangedKeeps ==
  ASSUME occ' = occ
  PROVE  RowsKept /\ NoReplay
BY DEF RowsKept, NoReplay

\* The three kinds of source keys differ.
LEMMA SourceOfIds ==
  /\ \A v, t : SourceOf(ScheduleId(v, t)) = "schedule"
  /\ \A v, c : SourceOf(EventId(v, c)) = "event"
  /\ \A v, t, k : SourceOf(CatchUpId(v, t, k)) = "catch_up"
BY DEF SourceOf, ScheduleId, EventId, CatchUpId

\* The table of occurrences only grows and only decides.
LEMMA RowsStep ==
  ASSUME TInv, [Next]_vars
  PROVE  RowsKept /\ (NoReplay \/ CreateCatchUp)
<1>1. occ \in [Occurrences -> Row]
  BY DEF TInv, DurableType
<1>2. CASE MaterializeEvent
  <2>1. PICK c : \/ occ' = occ
                 \/ create_occurrence(EventId(worker.active, c), events[c].at, "Suppressed")
                 \/ create_occurrence(EventId(worker.active, c), events[c].at, "Scheduled")
    BY <1>2 DEF MaterializeEvent
  <2> QED BY <1>1, <2>1, CreateKeeps, UnchangedKeeps, SourceOfIds
<1>3. CASE MaterializeSchedule
  <2>1. PICK t : create_occurrence(ScheduleId(worker.active, t), t, "Scheduled")
    BY <1>3 DEF MaterializeSchedule
  <2> QED BY <1>1, <2>1, CreateKeeps, SourceOfIds
<1>4. CASE ProcessOccurrence
  <2>1. PICK o \in Occurrences :
          \/ occ' = occ
          \/ may_transition(o, "MissedSkipped") /\ transition_occurrence(o, "MissedSkipped")
          \/ may_transition(o, "Suppressed") /\ transition_occurrence(o, "Suppressed")
          \/ may_transition(o, "Accepted") /\ transition_occurrence(o, "Accepted")
    BY <1>4 DEF ProcessOccurrence, SkipOccurrence, MissOccurrence, DeferOccurrence,
                SuppressOccurrence, CancelForRestart, AcceptOccurrence, CreateRun, Decide
  <2> QED BY <1>1, <2>1, DecideKeeps, UnchangedKeeps
<1>5. CASE \E t \in Instants, k \in Keys : PrepareCatchUp(t, k)
  <2>1. PICK v, t : create_occurrence(ScheduleId(v, t), t, "MissedSkipped")
    BY <1>5 DEF PrepareCatchUp
  <2> QED BY <1>1, <2>1, CreateKeeps, SourceOfIds
<1>6. CASE RecordMissed
  BY <1>1, <1>6, DecideKeeps, UnchangedKeeps DEF RecordMissed
<1>7. CASE CreateCatchUp
  <2>1. create_occurrence(CatchUpId(call.v, call.t, call.k), clock, "Scheduled")
    BY <1>7 DEF CreateCatchUp
  <2> QED BY <1>1, <1>7, <2>1, CreateKeeps
<1>8. CASE \/ BeginPass \/ AdvanceCursor \/ LoadSchedules \/ ReadClock \/ LoadRecovery
           \/ ReadyTimer \/ ReloadRuns \/ (\E o \in Occurrences : ReadRun(o))
           \/ StepRun \/ EndPass \/ LoadMissed \/ PassFails \/ Crash
           \/ (\E v \in Versions : Activate(v)) \/ Disable \/ Retire
           \/ (\E o \in Occurrences : CancelRun(o)) \/ EmitEvent \/ Tick
           \/ UNCHANGED vars
  <2>1. occ' = occ
    BY <1>8 DEF BeginPass, AdvanceCursor, LoadSchedules, ReadClock, LoadRecovery,
                ReadyTimer, ReloadRuns, ReadRun, StepRun, EndPass, LoadMissed, PassFails,
                Crash, Activate, Disable, Retire, CancelRun, EmitEvent, Tick, vars
  <2> QED BY <2>1, UnchangedKeeps
<1> QED BY <1>2, <1>3, <1>4, <1>5, <1>6, <1>7, <1>8 DEF Next, WorkerStep, CatchUpStep

\* Runs are never removed, a finished one stays finished, and one is created
\* only for an acceptance.
RunsKept ==
  \A o \in Occurrences :
    /\ runs[o].state # "Absent" => runs'[o].state # "Absent"
    /\ runs[o].state = "Absent" /\ runs'[o].state # "Absent" => occ[o].state = "Accepted"
    /\ runs'[o].state \in Open => runs[o].state \in Open \cup {"Absent"}

\* Replacing one existing run by another.
LEMMA ReplaceKeeps ==
  ASSUME TInv, NEW p \in Occurrences, NEW run, runs' = [runs EXCEPT ![p] = run],
         run.state # "Absent", runs[p].state # "Absent" \/ occ[p].state = "Accepted",
         run.state \in Open => runs[p].state \in Open \cup {"Absent"}
  PROVE  RunsKept
<1>1. \A o \in Occurrences : runs'[o] = IF o = p THEN run ELSE runs[o]
  BY DEF TInv, DurableType
<1> QED BY <1>1 DEF RunsKept

\* The steps that write the table of runs.
LEMMA RunWriters ==
  ASSUME [Next]_vars
  PROVE  \/ runs' = runs \/ ReadyTimer \/ ProcessOccurrence \/ StepRun
         \/ \E o \in Occurrences : CancelRun(o)
<1>1. CASE \/ BeginPass \/ MaterializeEvent \/ AdvanceCursor \/ LoadSchedules
           \/ MaterializeSchedule \/ ReadClock \/ LoadRecovery \/ ReloadRuns
           \/ (\E o \in Occurrences : ReadRun(o)) \/ EndPass \/ CatchUpStep \/ PassFails
           \/ Crash \/ (\E v \in Versions : Activate(v)) \/ Disable \/ Retire
           \/ (\E t \in Instants, k \in Keys : PrepareCatchUp(t, k))
           \/ EmitEvent \/ Tick \/ UNCHANGED vars
  <2>1. runs' = runs
    BY <1>1 DEF BeginPass, MaterializeEvent, AdvanceCursor, LoadSchedules,
                MaterializeSchedule, ReadClock, LoadRecovery, ReloadRuns, ReadRun, EndPass,
                CatchUpStep, LoadMissed, RecordMissed, CreateCatchUp, PassFails, Crash,
                Activate, Disable, Retire, PrepareCatchUp, EmitEvent, Tick, vars
  <2> QED BY <2>1
<1> QED BY <1>1 DEF Next, WorkerStep

\* Every step keeps the runs.
LEMMA RunsStep ==
  ASSUME TInv, SInv, [Next]_vars
  PROVE  RunsKept
<1>1. runs \in [Occurrences -> Run] /\ worker \in WorkerType
  BY DEF TInv, DurableType
<1>2. \A r \in Run : \A b : Cancelled(r, b).state = "Cancelled"
  <2> SUFFICES ASSUME NEW r \in Run, NEW b PROVE Cancelled(r, b).state = "Cancelled"
    OBVIOUS
  <2> QED BY DEF Cancelled, Run
<1>3. CASE ReadyTimer
  <2>1. PICK o \in worker.due :
          runs' = [runs EXCEPT ![o].timer = "Ready"] \/ runs' = runs
    BY <1>3 DEF ReadyTimer
  <2>2. \A p \in Occurrences : runs'[p].state = runs[p].state
    BY <1>1, <2>1 DEF Run
  <2> QED BY <2>2 DEF RunsKept
<1>4. CASE ProcessOccurrence
  <2>1. PICK o \in Occurrences :
          runs' = runs \/ CancelForRestart(o) \/ CreateRun(o)
    BY <1>4 DEF ProcessOccurrence, SkipOccurrence, MissOccurrence, DeferOccurrence,
                SuppressOccurrence, AcceptOccurrence
  <2>2. CASE runs' = runs
    BY <2>2 DEF RunsKept
  <2>3. CASE CancelForRestart(o)
    <3>1. PICK r \in DOMAIN worker.open :
            runs' = runs \/ runs' = [runs EXCEPT ![r] = Cancelled(@, r \in worker.timers)]
      BY <2>3 DEF CancelForRestart
    <3>2. worker.open \in PartialMaps(Nat)
      BY <1>1 DEF WorkerType
    <3>3. r \in Occurrences /\ runs[r].state # "Absent"
      BY <3>2, MapDomain DEF SInv, KnownRuns
    <3>4. Cancelled(runs[r], r \in worker.timers).state = "Cancelled"
      BY <1>1, <1>2, <3>3
    <3>5. Cancelled(runs[r], r \in worker.timers).state \notin Open
      BY <3>4 DEF Open
    <3> QED BY <1>1, <3>1, <3>3, <3>4, <3>5, <2>2, ReplaceKeeps
  <2>4. CASE CreateRun(o)
    <3> DEFINE run == IF runs[o].state = "Absent"
                      THEN [NoRun EXCEPT !.state = "Pending", !.created = worker.now]
                      ELSE runs[o]
    <3>1. runs' = [runs EXCEPT ![o] = run]
      BY <2>4 DEF CreateRun
    <3>2. run.state # "Absent"
      BY DEF NoRun
    <3>3. occ[o].state = "Accepted"
      BY <2>4 DEF CreateRun, AtOccurrence, SInv, AcceptedCopies
    <3>4. run.state \in Open => runs[o].state \in Open \cup {"Absent"}
      OBVIOUS
    <3> HIDE DEF run
    <3> QED BY <3>1, <3>2, <3>3, <3>4, ReplaceKeeps
  <2> QED BY <2>1, <2>2, <2>3, <2>4
<1>5. CASE StepRun
  <2>1. PICK outcome \in {"Completed", "Failed"} :
          runs' = runs \/ runs' = [runs EXCEPT ![worker.cur] = Stepped(@, outcome)]
    BY <1>5 DEF StepRun
  <2>2. worker.cur \in Occurrences /\ runs[worker.cur].state # "Absent"
    BY <1>5 DEF TInv, TodoInv, SInv, KnownRuns, StepRun
  <2>3. \A r \in Run : r.state # "Absent" => Stepped(r, outcome).state # "Absent"
    BY DEF Stepped, Run
  <2>4. CASE runs' = runs
    BY <2>4 DEF RunsKept
  <2>5. CASE runs' = [runs EXCEPT ![worker.cur] = Stepped(@, outcome)]
    <3>1. \A r \in Run : Stepped(r, outcome).state \in Open => r.state \in Open
      BY DEF Stepped, Run, Open
    <3> QED BY <1>1, <2>2, <2>3, <2>5, <3>1, ReplaceKeeps
  <2> QED BY <2>1, <2>4, <2>5
<1>6. CASE \E o \in Occurrences : CancelRun(o)
  <2>1. PICK o \in Occurrences, T \in TimerPages :
          runs' = [runs EXCEPT ![o] = Cancelled(@, o \in T)] /\ runs[o].state \in Open
    BY <1>6 DEF CancelRun
  <2>2. Cancelled(runs[o], o \in T).state = "Cancelled" /\ runs[o].state # "Absent"
    BY <1>1, <1>2, <2>1 DEF Open
  <2>3. Cancelled(runs[o], o \in T).state \notin Open
    BY <2>2 DEF Open
  <2> QED BY <2>1, <2>2, <2>3, ReplaceKeeps
<1>7. CASE runs' = runs
  BY <1>7 DEF RunsKept
<1> QED BY <1>3, <1>4, <1>5, <1>6, <1>7, RunWriters

-----------------------------------------------------------------------------
(* The inductive invariant *)

\* The rows of a version's instants exist in the table.
LEMMA IdsAreRows ==
  ASSUME NEW v \in Versions, NEW t \in Instants
  PROVE  /\ ScheduleId(v, t) \in Occurrences
         /\ \A k \in Keys : CatchUpId(v, t, k) \in Occurrences
BY DEF Occurrences

\* A run of a decided occurrence, and a catch-up of a missed instant.
LEMMA TablesStep ==
  ASSUME TInv, SInv, [Next]_vars
  PROVE  RunsOnlyForAccepted' /\ CatchUpOnlyMissed'
<1>1. RowsKept /\ (NoReplay \/ CreateCatchUp) /\ RunsKept
  BY RowsStep, RunsStep
<1>2. RunsOnlyForAccepted'
  <2> SUFFICES ASSUME NEW o \in Occurrences, runs'[o].state # "Absent"
               PROVE  occ'[o].state = "Accepted"
    BY DEF RunsOnlyForAccepted
  <2>1. occ[o].state = "Accepted"
    BY <1>1 DEF RunsKept, SInv, RunsOnlyForAccepted
  <2> QED BY <1>1, <2>1 DEF RowsKept
<1>3. CatchUpOnlyMissed'
  <2> SUFFICES ASSUME NEW v \in Versions, NEW t \in Instants, NEW k \in Keys,
                      occ'[CatchUpId(v, t, k)].state # "Absent"
               PROVE  occ'[ScheduleId(v, t)].state = "MissedSkipped"
    BY DEF CatchUpOnlyMissed
  <2> DEFINE o == CatchUpId(v, t, k)
  <2>1. o \in Occurrences /\ ScheduleId(v, t) \in Occurrences /\ SourceOf(o) = "catch_up"
    BY IdsAreRows, SourceOfIds
  <2>2. occ[ScheduleId(v, t)].state = "MissedSkipped"
    <3>1. CASE occ[o].state # "Absent"
      BY <3>1 DEF SInv, CatchUpOnlyMissed
    <3>2. CASE occ[o].state = "Absent"
      <4>1. CreateCatchUp
        BY <1>1, <2>1, <3>2 DEF NoReplay
      <4>2. create_occurrence(CatchUpId(call.v, call.t, call.k), clock, "Scheduled")
        BY <4>1 DEF CreateCatchUp
      <4>3. o = CatchUpId(call.v, call.t, call.k)
        BY <2>1, <3>2, <4>2 DEF create_occurrence, TInv, DurableType
      <4>4. v = call.v /\ t = call.t
        BY <4>3 DEF CatchUpId
      <4> QED BY <4>1, <4>4 DEF SInv, CallInv, CreateCatchUp
    <3> QED BY <3>1, <3>2
  <2> QED BY <1>1, <2>1, <2>2 DEF RowsKept
<1> QED BY <1>2, <1>3

\* A request about to create its occurrence has seen the instant missed.
LEMMA CallStep ==
  ASSUME TInv, SInv, [Next]_vars
  PROVE  CallInv'
<1>1. RowsKept
  BY RowsStep
<1>2. occ \in [Occurrences -> Row] /\ call \in CallType
  BY DEF TInv, DurableType
<1>3. CASE call' = call
  <2>1. CASE call.pc = "Create"
    <3>1. ScheduleId(call.v, call.t) \in Occurrences
      BY <2>1, IdsAreRows DEF SInv, CallInv
    <3> QED BY <1>1, <1>3, <2>1, <3>1 DEF SInv, CallInv, RowsKept
  <2> QED BY <1>3, <2>1 DEF SInv, CallInv
<1>4. CASE call' = IdleCall
  BY <1>4 DEF CallInv, IdleCall
<1>5. CASE \E t \in Instants, k \in Keys : PrepareCatchUp(t, k)
  <2>1. PICK t \in Instants, k \in Keys : PrepareCatchUp(t, k)
    BY <1>5
  <2>2. ActiveVersion \in Versions
    BY <2>1, ActiveType DEF TInv, PrepareCatchUp
  <2>3. call' = [pc |-> "Load", v |-> ActiveVersion, t |-> t, k |-> k]
    BY <2>1 DEF PrepareCatchUp
  <2> QED BY <2>2, <2>3 DEF CallInv
<1>6. CASE LoadMissed
  <2>1. CASE call' = [call EXCEPT !.pc = "Transition"]
    BY <1>2, <1>6, <2>1 DEF LoadMissed, SInv, CallInv, CallType
  <2>2. CASE call' = [call EXCEPT !.pc = "Create"]
            /\ occ[ScheduleId(call.v, call.t)].state = "MissedSkipped"
    BY <1>2, <1>6, <2>2 DEF LoadMissed, SInv, CallInv, CallType
  <2>3. \/ call' = [call EXCEPT !.pc = "Transition"]
        \/ call' = [call EXCEPT !.pc = "Create"]
           /\ occ[ScheduleId(call.v, call.t)].state = "MissedSkipped"
        \/ call' = IdleCall
    BY <1>6, Zenon DEF LoadMissed
  <2> QED BY <1>4, <2>1, <2>2, <2>3
<1>7. CASE RecordMissed
  <2> DEFINE o == ScheduleId(call.v, call.t)
  <2>1. o \in Occurrences
    BY <1>7, IdsAreRows DEF RecordMissed, SInv, CallInv
  <2>2. CASE may_transition(o, "MissedSkipped")
    <3>1. transition_occurrence(o, "MissedSkipped") /\ call' = [call EXCEPT !.pc = "Create"]
      BY <1>7, <2>2 DEF RecordMissed
    <3>2. occ'[o].state = "MissedSkipped"
      BY <1>2, <2>1, <3>1 DEF transition_occurrence, Row
    <3>3. call'.v = call.v /\ call'.t = call.t /\ call'.k = call.k
      BY <1>2, <3>1 DEF CallType
    <3> QED BY <1>7, <3>2, <3>3 DEF RecordMissed, SInv, CallInv
  <2> QED BY <1>4, <1>7, <2>2 DEF RecordMissed
<1>8. \/ call' = call
      \/ call' = IdleCall
      \/ (\E t \in Instants, k \in Keys : PrepareCatchUp(t, k))
      \/ LoadMissed
      \/ RecordMissed
  BY DEF Next, WorkerStep, CatchUpStep, ProcessOccurrence, BeginPass, MaterializeEvent,
         AdvanceCursor, LoadSchedules, MaterializeSchedule, ReadClock, LoadRecovery,
         ReadyTimer, SkipOccurrence, MissOccurrence, DeferOccurrence, SuppressOccurrence,
         CancelForRestart, AcceptOccurrence, CreateRun, ReloadRuns, ReadRun, StepRun,
         EndPass, CreateCatchUp, PassFails, Crash, Activate, Disable, Retire, CancelRun,
         EmitEvent, Tick, owner_vars, vars
<1> QED BY <1>3, <1>4, <1>5, <1>6, <1>7, <1>8

\* The copies stay true when the worker keeps them, or drops some of them.
LEMMA CopiesKept ==
  ASSUME TInv, SInv, RowsKept, RunsKept,
         NEW o, worker'.work = worker.work \/ worker'.work = Without(worker.work, o),
         NEW r, worker'.open = worker.open \/ worker'.open = Without(worker.open, r),
         worker'.pc = "Step" => worker.pc = "Step" /\ worker'.cur = worker.cur
  PROVE  AcceptedCopies' /\ KnownRuns'
<1>1. /\ DOMAIN worker.work \subseteq Occurrences
      /\ DOMAIN worker.open \subseteq Occurrences
  <2>1. worker.work \in PartialMaps(OccurrenceStates) /\ worker.open \in PartialMaps(Nat)
    BY DEF TInv, WorkerType
  <2> QED BY <2>1, MapDomain
<1>2. \A p \in DOMAIN worker'.work :
        p \in DOMAIN worker.work /\ worker'.work[p] = worker.work[p]
  BY DEF Without
<1>3. \A p \in DOMAIN worker'.open : p \in DOMAIN worker.open
  BY DEF Without
<1>4. AcceptedCopies'
  BY <1>1, <1>2 DEF SInv, AcceptedCopies, RowsKept
<1>5. worker'.pc = "Step" => worker'.cur \in Occurrences /\ runs[worker'.cur].state # "Absent"
  BY DEF TInv, TodoInv, SInv, KnownRuns
<1>6. KnownRuns'
  BY <1>1, <1>3, <1>5 DEF SInv, KnownRuns, RunsKept
<1> QED BY <1>4, <1>6

\* A worker that starts or ends a pass holds no copies.
LEMMA NoCopies ==
  ASSUME worker'.work = IdleWorker.work, worker'.open = IdleWorker.open,
         worker'.pc # "Step"
  PROVE  AcceptedCopies' /\ KnownRuns'
BY DEF AcceptedCopies, KnownRuns, IdleWorker

\* The page is a copy of the rows it was loaded from.
LEMMA LoadedCopies ==
  ASSUME TInv, LoadRecovery
  PROVE  AcceptedCopies' /\ KnownRuns'
<1>1. PICK W \in OccurrencePages, R \in RunPages, T \in TimerPages :
        LET mine == {o \in R : VersionOf(o) = worker.active}
        IN  worker' =
              [worker EXCEPT
                 !.pc = "Recovery",
                 !.page = W,
                 !.work = [o \in W |-> occ[o].state],
                 !.open = [o \in mine |-> runs[o].rev],
                 !.count = Cardinality(mine),
                 !.timers = T,
                 !.due = {o \in T : /\ runs[o].timer = "Pending"
                                    /\ runs[o].ready <= worker.now}]
  BY DEF LoadRecovery
<1> DEFINE mine == {o \in R : VersionOf(o) = worker.active}
           work == [o \in W |-> occ[o].state]
           open == [o \in mine |-> runs[o].rev]
           n == Cardinality(mine)
           due == {o \in T : /\ runs[o].timer = "Pending"
                             /\ runs[o].ready <= worker.now}
<1>2. worker' = [worker EXCEPT !.pc = "Recovery", !.page = W, !.work = work,
                               !.open = open, !.count = n, !.timers = T,
                               !.due = due]
  BY <1>1
<1>3. \A o \in mine : runs[o].state # "Absent"
  BY DEF RunPages, Pages, OpenRuns, Open
<1>4. occ' = occ /\ runs' = runs
  BY DEF LoadRecovery
<1>5. worker'.work = work /\ worker'.open = open /\ worker'.pc = "Recovery"
  <2> HIDE DEF work, open, n, due
  <2> QED BY <1>2 DEF TInv, WorkerType
<1> QED BY <1>3, <1>4, <1>5 DEF AcceptedCopies, KnownRuns

\* The loop over the page.
LEMMA ProcessCopies ==
  ASSUME TInv, SInv, RowsKept, RunsKept, ProcessOccurrence
  PROVE  AcceptedCopies' /\ KnownRuns'
<1>1. PICK o \in Occurrences :
        \/ SkipOccurrence(o)
        \/ MissOccurrence(o)
        \/ DeferOccurrence(o)
        \/ SuppressOccurrence(o)
        \/ CancelForRestart(o)
        \/ AcceptOccurrence(o)
        \/ CreateRun(o)
  BY DEF ProcessOccurrence
<1>2. worker.pc = "Recovery"
  BY <1>1 DEF SkipOccurrence, MissOccurrence, DeferOccurrence, SuppressOccurrence,
              CancelForRestart, AcceptOccurrence, CreateRun, Due, Undecided, AtOccurrence
<1>3. worker \in WorkerType /\ occ \in [Occurrences -> Row] /\ runs \in [Occurrences -> Run]
  BY DEF TInv, DurableType
<1>4. /\ NextOccurrence(o).work = Without(worker.work, o)
      /\ NextOccurrence(o).open = worker.open
      /\ NextOccurrence(o).pc = "Recovery"
      /\ NextOccurrence(o) \in WorkerType
  BY <1>2, <1>3, NextType DEF NextOccurrence, WorkerType
<1>5. CASE worker' = IdleWorker
  BY <1>5, NoCopies DEF IdleWorker
<1>6. CASE worker' = NextOccurrence(o)
  BY <1>4, <1>6, CopiesKept
<1>7. CASE DeferOccurrence(o)
  <2>1. worker' = [NextOccurrence(o) EXCEPT !.queued = @ + 1]
    BY <1>7 DEF DeferOccurrence
  <2>2. /\ worker'.work = Without(worker.work, o)
        /\ worker'.open = worker.open
        /\ worker'.pc = "Recovery"
    BY <1>4, <2>1 DEF WorkerType
  <2> QED BY <2>2, CopiesKept
<1>8. CASE CancelForRestart(o)
  <2>1. PICK r : worker' = IdleWorker
                 \/ worker' = [worker EXCEPT !.open = Without(@, r), !.cur = o]
    BY <1>8 DEF CancelForRestart, AbortPass
  <2>2. CASE worker' = [worker EXCEPT !.open = Without(@, r), !.cur = o]
    <3>1. /\ worker'.work = worker.work
          /\ worker'.open = Without(worker.open, r)
          /\ worker'.pc = "Recovery"
      BY <1>2, <1>3, <2>2 DEF WorkerType
    <3> QED BY <3>1, CopiesKept
  <2> QED BY <1>5, <2>1, <2>2
<1>9. CASE AcceptOccurrence(o)
  <2>1. CASE may_transition(o, "Accepted")
    <3>1. /\ transition_occurrence(o, "Accepted")
          /\ worker' = [worker EXCEPT !.work[o] = "Accepted", !.cur = o,
                                      !.count = CountAfter(o)]
      BY <1>9, <2>1 DEF AcceptOccurrence
    <3>2. /\ worker'.work = [worker.work EXCEPT ![o] = "Accepted"]
          /\ worker'.open = worker.open
          /\ worker'.pc = "Recovery"
      BY <1>2, <1>3, <3>1 DEF WorkerType
    <3>3. occ'[o].state = "Accepted"
      BY <1>3, <3>1 DEF transition_occurrence, Row
    <3>4. DOMAIN worker.work \subseteq Occurrences /\ DOMAIN worker.open \subseteq Occurrences
      BY <1>3, MapDomain DEF WorkerType
    <3>5. AcceptedCopies'
      BY <3>2, <3>3, <3>4 DEF AcceptedCopies, SInv, RowsKept
    <3>6. KnownRuns'
      BY <3>2, <3>4 DEF KnownRuns, SInv, RunsKept
    <3> QED BY <3>5, <3>6
  <2> QED BY <1>5, <1>9, <2>1 DEF AcceptOccurrence, AbortPass
<1>10. CASE CreateRun(o)
  <2> DEFINE run == IF runs[o].state = "Absent"
                    THEN [NoRun EXCEPT !.state = "Pending", !.created = worker.now]
                    ELSE runs[o]
             known == worker.open
             open == IF run.state \in Open /\ o \notin DOMAIN known
                     THEN [r \in DOMAIN known \cup {o} |->
                             IF r = o THEN run.rev ELSE known[r]]
                     ELSE known
  <2>1. /\ runs' = [runs EXCEPT ![o] = run]
        /\ worker' = [NextOccurrence(o) EXCEPT !.open = open]
        /\ occ' = occ
    BY <1>10 DEF CreateRun
  <2>2. run.state # "Absent"
    BY DEF NoRun
  <2>3. DOMAIN open \subseteq DOMAIN known \cup {o}
    OBVIOUS
  <2>4. DOMAIN known \subseteq Occurrences
    BY <1>3, MapDomain DEF WorkerType
  <2>5. \A r \in DOMAIN known : runs'[r].state # "Absent"
    BY <2>4 DEF SInv, KnownRuns, RunsKept
  <2> HIDE DEF run, open
  <2>6. /\ worker'.work = Without(worker.work, o)
        /\ worker'.open = open
        /\ worker'.pc = "Recovery"
    BY <1>4, <2>1 DEF WorkerType
  <2>7. runs'[o].state # "Absent"
    BY <1>3, <2>1, <2>2
  <2>8. KnownRuns'
    BY <2>3, <2>5, <2>6, <2>7 DEF KnownRuns
  <2>9. AcceptedCopies'
    BY <2>1, <2>6 DEF SInv, AcceptedCopies, Without
  <2> QED BY <2>8, <2>9
<1> QED BY <1>1, <1>5, <1>6, <1>7, <1>8, <1>9, <1>10
     DEF SkipOccurrence, MissOccurrence, SuppressOccurrence, Decide, AbortPass

\* Every step keeps the copies true.
LEMMA CopiesStep ==
  ASSUME TInv, SInv, [Next]_vars
  PROVE  AcceptedCopies' /\ KnownRuns'
<1>1. RowsKept /\ RunsKept
  BY RowsStep, RunsStep
<1>2. worker \in WorkerType
  BY DEF TInv
<1>3. CASE BeginPass \/ ReloadRuns \/ EndPass \/ PassFails \/ Crash
  <2>1. CASE BeginPass
    BY <2>1, IdleWorkerType, NoCopies DEF BeginPass, WorkerType
  <2>2. CASE ReloadRuns
    BY <2>2, IdleWorkerType, NoCopies DEF ReloadRuns, WorkerType
  <2>3. CASE worker' = IdleWorker
    BY <2>3, NoCopies DEF IdleWorker
  <2> QED BY <1>3, <2>1, <2>2, <2>3 DEF EndPass, PassFails, Crash, Interrupted
<1>4. CASE ReadyTimer
  <2>1. worker.pc = "Recovery"
    BY <1>4 DEF ReadyTimer
  <2>2. PICK o : worker' = IdleWorker \/ worker' = [worker EXCEPT !.due = @ \ {o}]
    BY <1>4 DEF ReadyTimer, AbortPass
  <2>3. CASE worker' = IdleWorker
    BY <2>3, NoCopies DEF IdleWorker
  <2>4. CASE worker' = [worker EXCEPT !.due = @ \ {o}]
    <3>1. worker'.work = worker.work /\ worker'.open = worker.open /\ worker'.pc = worker.pc
      BY <1>2, <2>4 DEF WorkerType
    <3> QED BY <1>1, <2>1, <3>1, CopiesKept
  <2> QED BY <2>2, <2>3, <2>4
<1>5. CASE \E o \in Occurrences : ReadRun(o)
  <2>1. PICK o \in Occurrences : ReadRun(o)
    BY <1>5
  <2>2. worker.pc = "Runs" /\ runs' = runs
    BY <2>1 DEF ReadRun
  <2>3. CASE worker' = [worker EXCEPT !.todo = @ \ {o}]
    <3>1. worker'.work = worker.work /\ worker'.open = worker.open /\ worker'.pc = worker.pc
      BY <1>2, <2>3 DEF WorkerType
    <3> QED BY <1>1, <2>2, <3>1, CopiesKept
  <2>4. CASE worker' # [worker EXCEPT !.todo = @ \ {o}]
    <3>1. /\ runs[o].state \in Open
          /\ worker' = [worker EXCEPT !.pc = "Step", !.cur = o, !.count = runs[o].rev]
      BY <2>1, <2>4 DEF ReadRun
    <3>2. worker'.work = worker.work /\ worker'.open = worker.open /\ worker'.cur = o
      BY <1>2, <3>1 DEF WorkerType
    <3>3. occ' = occ
      BY <2>1 DEF ReadRun
    <3> QED BY <2>2, <3>1, <3>2, <3>3 DEF SInv, AcceptedCopies, KnownRuns, Open
  <2> QED BY <2>3, <2>4
<1>6. CASE \/ MaterializeEvent \/ AdvanceCursor \/ LoadSchedules \/ MaterializeSchedule
           \/ ReadClock \/ StepRun
  <2>1. worker'.work = worker.work /\ worker'.open = worker.open /\ worker'.pc # "Step"
    BY <1>2, <1>6 DEF MaterializeEvent, AdvanceCursor, LoadSchedules, MaterializeSchedule,
                      ReadClock, StepRun, WorkerType
  <2> QED BY <1>1, <2>1, CopiesKept
<1>7. CASE worker' = worker
  BY <1>1, <1>7, CopiesKept
<1>8. \/ WorkerStep
      \/ PassFails
      \/ Crash
      \/ worker' = worker
  BY DEF Next, CatchUpStep, LoadMissed, RecordMissed, CreateCatchUp, PrepareCatchUp,
         Activate, Disable, Retire, CancelRun, EmitEvent, Tick, engine_vars, vars
<1> QED BY <1>1, <1>3, <1>4, <1>5, <1>6, <1>7, <1>8, LoadedCopies, ProcessCopies
     DEF WorkerStep

\* The initial state has no rows and no copies.
LEMMA SafetyInit == Init => SInv
<1> SUFFICES ASSUME Init PROVE SInv
  OBVIOUS
<1>1. RunsOnlyForAccepted
  BY DEF Init, RunsOnlyForAccepted, NoRun
<1>2. CatchUpOnlyMissed
  BY IdsAreRows DEF Init, CatchUpOnlyMissed
<1>3. AcceptedCopies /\ KnownRuns
  BY DEF Init, AcceptedCopies, KnownRuns, IdleWorker
<1>4. CallInv
  BY DEF Init, CallInv, IdleCall
<1> QED BY <1>1, <1>2, <1>3, <1>4 DEF SInv

\* The invariant is inductive, given the types.
LEMMA SafetyNext == TInv /\ SInv /\ [Next]_vars => SInv'
BY TablesStep, CallStep, CopiesStep DEF SInv

\* Whatever the scheduler, a catch-up request, an owner's cancellation, a
\* failed pass or a crash interleave, only an accepted occurrence has a run:
\* a missed, suppressed or undecided trigger never executes.
THEOREM OnlyAcceptedRun == Spec => []RunsOnlyForAccepted
<1>1. Init => TInv /\ SInv
  BY TypeInit, SafetyInit
<1>2. TInv /\ SInv /\ [Next]_vars => (TInv /\ SInv)'
  BY TypeNext, SafetyNext
<1>3. TInv /\ SInv => RunsOnlyForAccepted
  BY DEF SInv
<1> QED BY <1>1, <1>2, <1>3, PTL DEF Spec

\* A schedule instant is executed by its own occurrence or by an explicit
\* catch-up, never by both.
THEOREM NoDoubleExecution == Spec => []CatchUpOnlyMissed
<1>1. Init => TInv /\ SInv
  BY TypeInit, SafetyInit
<1>2. TInv /\ SInv /\ [Next]_vars => (TInv /\ SInv)'
  BY TypeNext, SafetyNext
<1>3. TInv /\ SInv => CatchUpOnlyMissed
  BY DEF SInv
<1> QED BY <1>1, <1>2, <1>3, PTL DEF Spec

-----------------------------------------------------------------------------
(* The checkpoint of the event consumer.                                    *)

\* The page of events is the gap-free run of cursors behind the checkpoint, and
\* between an event's occurrence and its checkpoint the occurrence is durable.
EventInv ==
  /\ Len(events) <= MaxEvents
  /\ worker.pc \in {"Events", "Checkpoint"} =>
       /\ \A c \in worker.todo : cursor < c
       /\ \A c \in worker.todo, b \in 1..Len(events) :
            cursor < b /\ b <= c => b \in worker.todo
  /\ worker.pc = "Checkpoint" =>
       /\ worker.todo # {}
       /\ worker.active \in Subscribed =>
            occ[EventId(worker.active, cursor + 1)].state # "Absent"

\* The oldest event of the page is the one behind the checkpoint.
LEMMA OldestIsNext ==
  ASSUME TInv, EventInv, worker.pc \in {"Events", "Checkpoint"}, NEW c \in Oldest(worker.todo)
  PROVE  /\ c = cursor + 1 /\ c \in 1..Len(events) /\ c \in worker.todo
         /\ \A v \in Versions : EventId(v, c) \in Occurrences
<1>1. c \in worker.todo /\ \A y \in worker.todo : c <= y
  BY DEF Oldest
<1>2. worker.todo \subseteq 1..Len(events) /\ cursor \in 0..Len(events) /\ Len(events) \in Nat
  BY DEF TInv, TodoInv, DurableType
<1>3. c \in 1..Len(events) /\ cursor < c /\ c \in Nat /\ cursor \in Nat
  BY <1>1, <1>2 DEF EventInv
<1>4. cursor + 1 \in 1..Len(events) /\ cursor < cursor + 1 /\ cursor + 1 <= c
  BY <1>2, <1>3
<1>5. cursor + 1 \in worker.todo
  BY <1>1, <1>4 DEF EventInv
<1>6. c = cursor + 1
  BY <1>1, <1>3, <1>4, <1>5
<1>7. c \in 1..MaxEvents
  BY <1>2, <1>3, NumbersAssumption DEF EventInv
<1> QED BY <1>1, <1>3, <1>6, <1>7 DEF Occurrences

\* Every step keeps the page behind the checkpoint.
LEMMA EventStep ==
  ASSUME TInv, EventInv, [Next]_vars
  PROVE  EventInv'
<1>1. worker \in WorkerType /\ occ \in [Occurrences -> Row] /\ events \in Seq(Event)
      /\ cursor \in 0..Len(events) /\ Len(events) \in Nat /\ cursor \in Nat
  BY DEF TInv, DurableType
<1>2. RowsKept
  BY RowsStep
<1>3. CASE BeginPass
  <2> DEFINE todo == {c \in 1..Len(events) : c > cursor /\ c <= cursor + Page}
  <2>1. worker'.pc = "Events" /\ worker'.todo = todo /\ UNCHANGED <<events, cursor>>
    BY <1>3, IdleWorkerType DEF BeginPass, WorkerType
  <2>2. \A c \in todo : cursor < c
    BY <1>1
  <2>3. Page \in Nat
    BY NumbersAssumption
  <2>4. \A c \in todo, b \in 1..Len(events) : cursor < b /\ b <= c => b \in todo
    BY <1>1, <2>3
  <2> HIDE DEF todo
  <2> QED BY <2>1, <2>2, <2>4 DEF EventInv
<1>4. CASE MaterializeEvent
  <2>1. PICK c \in Oldest(worker.todo) :
          IF worker.active \in Subscribed
          THEN \E s \in {"Suppressed", "Scheduled"} :
                 create_occurrence(EventId(worker.active, c), events[c].at, s)
          ELSE UNCHANGED occ
    BY <1>4 DEF MaterializeEvent
  <2>2. /\ worker.pc = "Events" /\ worker'.pc = "Checkpoint" /\ worker'.todo = worker.todo
        /\ worker'.active = worker.active /\ UNCHANGED <<events, cursor>>
    BY <1>1, <1>4 DEF MaterializeEvent, WorkerType
  <2>3. /\ c = cursor + 1 /\ c \in worker.todo
        /\ \A v \in Versions : EventId(v, c) \in Occurrences
    BY <2>2, OldestIsNext
  <2>4. worker.active \in Subscribed => occ'[EventId(worker.active, c)].state # "Absent"
    <3> SUFFICES ASSUME worker.active \in Subscribed
                 PROVE  occ'[EventId(worker.active, c)].state # "Absent"
      OBVIOUS
    <3> DEFINE o == EventId(worker.active, c)
    <3>1. o \in Occurrences
      BY <2>3, SelfTriggerAssumption
    <3>2. PICK s \in {"Suppressed", "Scheduled"} : create_occurrence(o, events[c].at, s)
      BY <2>1
    <3> HIDE DEF o
    <3>3. CASE occ[o].state = "Absent"
      <4>1. occ'[o] = [state |-> s, at |-> events[c].at]
        BY <1>1, <3>1, <3>2, <3>3 DEF create_occurrence
      <4> QED BY <4>1 DEF o
    <3>4. CASE occ[o].state # "Absent"
      BY <3>2, <3>4 DEF create_occurrence, o
    <3> QED BY <3>3, <3>4
  <2> QED BY <2>2, <2>3, <2>4 DEF EventInv
<1>5. CASE AdvanceCursor
  <2>1. PICK c \in Oldest(worker.todo) :
          cursor' = c /\ worker' = [worker EXCEPT !.pc = "Events", !.todo = @ \ {c}]
    BY <1>5 DEF AdvanceCursor
  <2>2. worker.pc = "Checkpoint" /\ UNCHANGED events
    BY <1>5 DEF AdvanceCursor
  <2>3. worker'.pc = "Events" /\ worker'.todo = worker.todo \ {c}
    BY <1>1, <2>1 DEF WorkerType
  <2>4. c = cursor + 1
    BY <2>2, OldestIsNext
  <2>5. worker.todo \subseteq 1..Len(events)
    BY <2>2 DEF TInv, TodoInv
  <2>6. /\ \A b \in worker.todo : cursor < b
        /\ \A d \in worker.todo, b \in 1..Len(events) :
             cursor < b /\ b <= d => b \in worker.todo
    BY <2>2 DEF EventInv
  <2>7. \A b \in worker.todo \ {c} : c < b
    BY <1>1, <2>4, <2>5, <2>6
  <2>8. \A d \in worker.todo \ {c}, b \in 1..Len(events) :
          c < b /\ b <= d => b \in worker.todo \ {c}
    BY <1>1, <2>4, <2>6
  <2> QED BY <2>1, <2>2, <2>3, <2>7, <2>8 DEF EventInv
<1>6. CASE EmitEvent
  <2>1. UNCHANGED <<worker, cursor, occ>> /\ Len(events) < MaxEvents
    BY <1>6 DEF EmitEvent
  <2>2. PICK e : events' = Append(events, e)
    BY <1>6 DEF EmitEvent
  <2>3. Len(events') = Len(events) + 1
    BY <1>1, <2>2
  <2>4. Len(events') <= MaxEvents
    BY <1>1, <2>1, <2>3, NumbersAssumption
  <2>5. ASSUME worker.pc \in {"Events", "Checkpoint"}, NEW c \in worker.todo,
               NEW b \in 1..Len(events'), cursor < b, b <= c
        PROVE  b \in worker.todo
    <3>1. c \in 1..Len(events)
      BY <2>5 DEF TInv, TodoInv
    <3>2. b \in 1..Len(events)
      BY <1>1, <2>3, <2>5, <3>1
    <3> QED BY <2>5, <3>2 DEF EventInv
  <2> QED BY <2>1, <2>4, <2>5 DEF EventInv
<1>7. CASE worker'.pc \notin {"Events", "Checkpoint"} /\ UNCHANGED events
  BY <1>7 DEF EventInv
<1>8. CASE UNCHANGED <<worker, events, cursor>>
  <2>1. ASSUME worker.pc = "Checkpoint", worker.active \in Subscribed
        PROVE  occ'[EventId(worker.active, cursor + 1)].state # "Absent"
    <3>1. PICK c \in worker.todo : TRUE
      BY <2>1 DEF EventInv
    <3>2. c \in 1..Len(events) /\ cursor < c
      BY <2>1 DEF TInv, TodoInv, EventInv
    <3>3. cursor + 1 \in 1..MaxEvents
      BY <1>1, <3>2, NumbersAssumption DEF EventInv
    <3>4. EventId(worker.active, cursor + 1) \in Occurrences
      BY <2>1, <3>3, SelfTriggerAssumption DEF Occurrences
    <3> QED BY <1>2, <2>1, <3>4 DEF EventInv, RowsKept
  <2> QED BY <1>8, <2>1 DEF EventInv
<1>9. CASE \/ LoadSchedules \/ MaterializeSchedule \/ ReadClock \/ LoadRecovery \/ ReadyTimer
           \/ ProcessOccurrence \/ ReloadRuns \/ (\E o \in Occurrences : ReadRun(o))
           \/ StepRun \/ EndPass \/ PassFails \/ Crash
  <2>1. UNCHANGED events
    BY <1>9 DEF LoadSchedules, MaterializeSchedule, ReadClock, LoadRecovery, ReadyTimer,
                ProcessOccurrence, SkipOccurrence, MissOccurrence, DeferOccurrence,
                SuppressOccurrence, CancelForRestart, AcceptOccurrence, CreateRun, ReloadRuns,
                ReadRun, StepRun, EndPass, PassFails, Crash
  <2>2. IdleWorker.pc = "Idle"
    BY DEF IdleWorker
  <2>3. CASE LoadSchedules \/ MaterializeSchedule \/ ReadClock \/ LoadRecovery
    <3>1. worker'.pc \notin {"Events", "Checkpoint"}
      BY <1>1, <2>3 DEF LoadSchedules, MaterializeSchedule, ReadClock, LoadRecovery, WorkerType
    <3> QED BY <1>7, <2>1, <3>1
  <2>4. CASE ReadyTimer \/ ProcessOccurrence
    <3>1. worker.pc = "Recovery"
      BY <2>4 DEF ReadyTimer, ProcessOccurrence, SkipOccurrence, MissOccurrence,
                  DeferOccurrence, SuppressOccurrence, CancelForRestart, AcceptOccurrence,
                  CreateRun, Due, Undecided, AtOccurrence
    <3>2. \A o : NextOccurrence(o) \in [pc : {"Recovery"}, through : {worker.through},
                   active : {worker.active}, todo : {worker.todo}, now : {worker.now},
                   due : {worker.due}, page : {worker.page}, work : {Without(worker.work, o)},
                   open : {worker.open}, timers : {worker.timers}, count : {worker.count},
                   queued : {worker.queued}, cur : {None}]
      BY <1>1, <3>1 DEF NextOccurrence, WorkerType
    <3>3. worker'.pc \in {"Recovery", "Idle"}
      <4>1. CASE ReadyTimer
        BY <1>1, <2>2, <3>1, <4>1 DEF ReadyTimer, AbortPass, WorkerType
      <4>2. ASSUME NEW o \in Occurrences,
                   SkipOccurrence(o) \/ MissOccurrence(o) \/ SuppressOccurrence(o)
            PROVE  worker'.pc \in {"Recovery", "Idle"}
        BY <2>2, <3>2, <4>2 DEF SkipOccurrence, MissOccurrence, SuppressOccurrence, Decide,
                                AbortPass
      <4>3. ASSUME NEW o \in Occurrences,
                   DeferOccurrence(o) \/ CreateRun(o)
            PROVE  worker'.pc \in {"Recovery", "Idle"}
        <5>1. \E q, w : \/ worker' = [NextOccurrence(o) EXCEPT !.queued = q]
                        \/ worker' = [NextOccurrence(o) EXCEPT !.open = w]
          BY <4>3 DEF DeferOccurrence, CreateRun
        <5> QED BY <3>2, <5>1
      <4>4. ASSUME NEW o \in Occurrences, CancelForRestart(o) \/ AcceptOccurrence(o)
            PROVE  worker'.pc \in {"Recovery", "Idle"}
        BY <1>1, <2>2, <3>1, <4>4 DEF CancelForRestart, AcceptOccurrence, AbortPass, WorkerType
      <4> QED BY <2>4, <4>1, <4>2, <4>3, <4>4 DEF ProcessOccurrence
    <3> QED BY <1>7, <2>1, <3>3
  <2>5. CASE ReloadRuns \/ (\E o \in Occurrences : ReadRun(o)) \/ StepRun
    <3>1. CASE ReloadRuns
      <4>1. PICK R : worker' = [IdleWorker EXCEPT !.pc = "Runs", !.todo = R,
                                                  !.through = worker.through]
        BY <3>1 DEF ReloadRuns
      <4>2. worker'.pc = "Runs"
        BY <4>1, IdleWorkerType DEF WorkerType
      <4> QED BY <1>7, <2>1, <4>2
    <3>2. ASSUME NEW o \in Occurrences, ReadRun(o)
          PROVE  worker'.pc \in {"Runs", "Step"}
      BY <1>1, <3>2 DEF ReadRun, WorkerType
    <3>3. ASSUME StepRun
          PROVE  worker'.pc \in {"Runs", "Step"}
      BY <1>1, <3>3 DEF StepRun, WorkerType
    <3> QED BY <1>7, <2>1, <2>5, <3>1, <3>2, <3>3
  <2>6. CASE EndPass \/ PassFails \/ Crash
    <3>1. worker' = IdleWorker
      BY <2>6 DEF EndPass, PassFails, Crash, Interrupted
    <3>2. worker'.pc = "Idle"
      BY <2>2, <3>1
    <3> QED BY <1>7, <2>1, <3>2
  <2> QED BY <1>9, <2>3, <2>4, <2>5, <2>6
<1>10. CASE \/ CatchUpStep \/ (\E v \in Versions : Activate(v)) \/ Disable \/ Retire
            \/ (\E o \in Occurrences : CancelRun(o))
            \/ (\E t \in Instants, k \in Keys : PrepareCatchUp(t, k)) \/ Tick
            \/ UNCHANGED vars
  BY <1>8, <1>10 DEF CatchUpStep, LoadMissed, RecordMissed, CreateCatchUp, Activate, Disable,
     Retire, CancelRun, PrepareCatchUp, Tick, engine_vars, owner_vars, vars
<1> QED BY <1>3, <1>4, <1>5, <1>6, <1>9, <1>10 DEF Next, WorkerStep

\* Only AdvanceCursor moves the checkpoint.
LEMMA CursorMoves ==
  ASSUME [Next]_vars, cursor' # cursor
  PROVE  AdvanceCursor
BY DEF Next, WorkerStep, BeginPass, MaterializeEvent, LoadSchedules, MaterializeSchedule,
       ReadClock, LoadRecovery, ReadyTimer, ProcessOccurrence, SkipOccurrence, MissOccurrence,
       DeferOccurrence, SuppressOccurrence, CancelForRestart, AcceptOccurrence, CreateRun,
       ReloadRuns, ReadRun, StepRun, EndPass, CatchUpStep, LoadMissed, RecordMissed,
       CreateCatchUp, PassFails, Crash, Activate, Disable, Retire, CancelRun, PrepareCatchUp,
       EmitEvent, Tick, engine_vars, vars

\* For any page size and any interleaving of crashes and failed passes, the
\* checkpoint passes one event at a time and none whose occurrence, for the
\* version the pass works for, is not durable
\* (advance_automation_event_cursor).
THEOREM CheckpointFollowsOccurrence == Spec => CheckpointAfterOccurrence
<1>1. Init => TInv /\ EventInv
  BY TypeInit, NumbersAssumption DEF Init, EventInv, IdleWorker
<1>2. TInv /\ EventInv /\ [Next]_vars => (TInv /\ EventInv)'
  BY TypeNext, EventStep
<1>3. ASSUME TInv, EventInv, [Next]_vars, cursor' # cursor
      PROVE  /\ cursor' = cursor + 1
             /\ worker.active \in Subscribed =>
                  occ[EventId(worker.active, cursor')].state # "Absent"
  <2>1. AdvanceCursor
    BY <1>3, CursorMoves
  <2>2. PICK c \in Oldest(worker.todo) : cursor' = c
    BY <2>1 DEF AdvanceCursor
  <2>3. worker.pc = "Checkpoint"
    BY <2>1 DEF AdvanceCursor
  <2>4. c = cursor + 1
    BY <1>3, <2>3, OldestIsNext
  <2> QED BY <1>3, <2>2, <2>3, <2>4 DEF EventInv
<1>4. TInv /\ EventInv /\ [Next]_vars =>
        [cursor' # cursor =>
           /\ cursor' = cursor + 1
           /\ worker.active \in Subscribed =>
                occ[EventId(worker.active, cursor')].state # "Absent"]_vars
  BY <1>3
<1> QED BY <1>1, <1>2, <1>4, PTL DEF Spec, CheckpointAfterOccurrence

-----------------------------------------------------------------------------
(* The order of the queue.                                                  *)

\* An occurrence the loop over the page has left behind is not waiting for its
\* turn: it is decided, not of this pass's version or not due, or a run counts
\* against it.
LeftBehind(p) ==
  \/ occ[p].state # "Scheduled"
  \/ VersionOf(p) # worker.active
  \/ occ[p].at > worker.now
  \/ worker.count # 0

\* The page holds stored rows, each still ahead of the loop or left behind; the
\* loop stays at an occurrence only to cancel runs for it or to create its run.
QueueInv ==
  /\ worker.pc \in {"Events", "Checkpoint", "Schedules", "Load"} => worker.cur = None
  /\ worker.pc = "Recovery" =>
       /\ \A p \in worker.page :
            /\ occ[p].state # "Absent"
            /\ p \in DOMAIN worker.work \/ LeftBehind(p)
       /\ worker.cur # None => worker.work[worker.cur] = "Accepted" \/ Restarts(worker.cur)

\* The loop moves on from one occurrence at most, and never forgets a run.
LEMMA QueueKept ==
  ASSUME TInv, QueueInv, RowsKept, worker.pc = "Recovery", worker'.pc = "Recovery",
         worker'.page = worker.page, worker'.active = worker.active,
         worker'.now = worker.now, worker'.count = worker.count \/ worker'.count # 0,
         NEW o, DOMAIN worker.work \ {o} \subseteq DOMAIN worker'.work,
         o \in DOMAIN worker'.work \/ LeftBehind(o)',
         worker'.cur # None => worker'.work[worker'.cur] = "Accepted" \/ Restarts(worker'.cur)
  PROVE  QueueInv'
<1>1. worker.page \subseteq Occurrences
  BY DEF TInv, WorkerType
<1>2. ASSUME NEW p \in worker.page
      PROVE  occ'[p].state # "Absent" /\ (p \in DOMAIN worker'.work \/ LeftBehind(p)')
  <2>1. p \in Occurrences /\ occ[p].state # "Absent"
        /\ (p \in DOMAIN worker.work \/ LeftBehind(p))
    BY <1>1, <1>2 DEF QueueInv
  <2>2. occ'[p].state # "Absent" /\ occ'[p].at = occ[p].at
    BY <2>1 DEF RowsKept
  <2>3. occ[p].state # "Scheduled" => occ'[p].state # "Scheduled"
    BY <2>1 DEF RowsKept
  <2>4. CASE p \in DOMAIN worker.work
    BY <2>2, <2>4
  <2>5. CASE LeftBehind(p)
    BY <2>2, <2>3, <2>5 DEF LeftBehind
  <2> QED BY <2>1, <2>2, <2>4, <2>5
<1> QED BY <1>2 DEF QueueInv

\* The loop over the page.
LEMMA QueueProcess ==
  ASSUME TInv, SInv, QueueInv, RowsKept, ProcessOccurrence
  PROVE  QueueInv'
<1>1. PICK o \in Occurrences :
        \/ SkipOccurrence(o)
        \/ MissOccurrence(o)
        \/ DeferOccurrence(o)
        \/ SuppressOccurrence(o)
        \/ CancelForRestart(o)
        \/ AcceptOccurrence(o)
        \/ CreateRun(o)
  BY DEF ProcessOccurrence
<1>2. worker.pc = "Recovery" /\ o \in DOMAIN worker.work
  <2>1. AtOccurrence(o)
    BY <1>1 DEF SkipOccurrence, MissOccurrence, DeferOccurrence, SuppressOccurrence,
                CancelForRestart, AcceptOccurrence, CreateRun, Due, Undecided
  <2> QED BY <2>1 DEF AtOccurrence
<1>3. worker \in WorkerType /\ occ \in [Occurrences -> Row] /\ worker.count \in Nat
  BY DEF TInv, DurableType, WorkerType
<1>4. /\ NextOccurrence(o).pc = "Recovery"
      /\ NextOccurrence(o).page = worker.page
      /\ NextOccurrence(o).active = worker.active
      /\ NextOccurrence(o).now = worker.now
      /\ NextOccurrence(o).count = worker.count
      /\ NextOccurrence(o).work = Without(worker.work, o)
      /\ NextOccurrence(o).cur = None
  BY <1>2, <1>3 DEF NextOccurrence, WorkerType
<1>5. DOMAIN Without(worker.work, o) = DOMAIN worker.work \ {o}
  BY DEF Without
<1> NextOccurrence(o) \in WorkerType
  BY <1>3, NextType
<1>6. CASE worker' = IdleWorker
  BY <1>6 DEF QueueInv, IdleWorker
<1>7. ASSUME \/ worker' = NextOccurrence(o)
             \/ \E q : worker' = [NextOccurrence(o) EXCEPT !.queued = q]
             \/ \E w : worker' = [NextOccurrence(o) EXCEPT !.open = w],
             LeftBehind(o)'
      PROVE  QueueInv'
  <2>1. /\ worker'.pc = "Recovery"
        /\ worker'.page = worker.page
        /\ worker'.active = worker.active
        /\ worker'.now = worker.now
        /\ worker'.count = worker.count
        /\ worker'.work = Without(worker.work, o)
        /\ worker'.cur = None
    BY <1>4, <1>7 DEF WorkerType
  <2> QED BY <1>2, <1>5, <1>7, <2>1, QueueKept
<1>8. CASE SkipOccurrence(o)
  <2>1. worker' = NextOccurrence(o) /\ occ' = occ
    BY <1>8 DEF SkipOccurrence
  <2>2. LeftBehind(o)'
    BY <1>4, <1>8, <2>1 DEF SkipOccurrence, LeftBehind
  <2> QED BY <1>7, <2>1, <2>2
<1>9. CASE MissOccurrence(o) \/ SuppressOccurrence(o)
  <2>1. PICK s \in {"MissedSkipped", "Suppressed"} : Decide(o, s)
    BY <1>9 DEF MissOccurrence, SuppressOccurrence
  <2>2. CASE may_transition(o, s)
    <3>1. transition_occurrence(o, s) /\ worker' = NextOccurrence(o)
      BY <2>1, <2>2 DEF Decide
    <3>2. occ'[o].state = s
      BY <1>3, <3>1 DEF transition_occurrence, Row
    <3>3. LeftBehind(o)'
      BY <3>2 DEF LeftBehind
    <3> QED BY <1>7, <3>1, <3>3
  <2>3. CASE ~may_transition(o, s)
    BY <1>6, <2>1, <2>3 DEF Decide, AbortPass
  <2> QED BY <2>2, <2>3
<1>10. CASE DeferOccurrence(o)
  <2>1. worker' = [NextOccurrence(o) EXCEPT !.queued = NextOccurrence(o).queued + 1]
        /\ Decision(o) = "Defer"
    BY <1>10 DEF DeferOccurrence
  <2>2. worker.count # 0
    BY <2>1 DEF Decision, admission
  <2>3. worker'.count = worker.count
    BY <1>4, <2>1 DEF WorkerType
  <2>4. LeftBehind(o)'
    BY <2>2, <2>3 DEF LeftBehind
  <2> QED BY <1>7, <2>1, <2>4
<1>11. CASE CancelForRestart(o)
  <2>1. PICK r : worker' = IdleWorker
                 \/ worker' = [worker EXCEPT !.open = Without(@, r), !.cur = o]
    BY <1>11 DEF CancelForRestart, AbortPass
  <2>2. CASE worker' = [worker EXCEPT !.open = Without(@, r), !.cur = o]
    <3>1. /\ worker'.pc = "Recovery"
          /\ worker'.page = worker.page
          /\ worker'.active = worker.active
          /\ worker'.now = worker.now
          /\ worker'.count = worker.count
          /\ worker'.work = worker.work
          /\ worker'.cur = o
      BY <1>2, <1>3, <2>2 DEF WorkerType
    <3>2. Restarts(o)
      BY <1>11 DEF CancelForRestart
    <3> QED BY <1>2, <3>1, <3>2, QueueKept
  <2> QED BY <1>6, <2>1, <2>2
<1>12. CASE AcceptOccurrence(o)
  <2>1. CASE may_transition(o, "Accepted")
    <3>1. worker' = [worker EXCEPT !.work[o] = "Accepted", !.cur = o,
                                   !.count = CountAfter(o)]
      BY <1>12, <2>1 DEF AcceptOccurrence
    <3>2. worker.work \in [DOMAIN worker.work -> OccurrenceStates]
      BY <1>3, MapDomain DEF WorkerType
    <3>3. /\ worker'.pc = "Recovery"
          /\ worker'.page = worker.page
          /\ worker'.active = worker.active
          /\ worker'.now = worker.now
          /\ worker'.count = CountAfter(o)
          /\ worker'.work = [worker.work EXCEPT ![o] = "Accepted"]
          /\ worker'.cur = o
      BY <1>2, <1>3, <3>1 DEF WorkerType
    <3>4. CountAfter(o) # 0
      BY <1>3 DEF CountAfter
    <3>5. worker'.work[o] = "Accepted" /\ DOMAIN worker'.work = DOMAIN worker.work
      BY <1>2, <3>2, <3>3
    <3> QED BY <1>2, <3>3, <3>4, <3>5, QueueKept
  <2> QED BY <1>6, <1>12, <2>1 DEF AcceptOccurrence, AbortPass
<1>13. CASE CreateRun(o)
  <2>1. (\E w : worker' = [NextOccurrence(o) EXCEPT !.open = w]) /\ occ' = occ
        /\ worker.work[o] = "Accepted"
    BY <1>13 DEF CreateRun
  <2>2. occ'[o].state = "Accepted"
    BY <1>2, <2>1 DEF SInv, AcceptedCopies
  <2>3. LeftBehind(o)'
    BY <2>2 DEF LeftBehind
  <2> QED BY <1>7, <2>1, <2>3
<1> QED BY <1>1, <1>8, <1>9, <1>10, <1>11, <1>12, <1>13

\* The page the pass loads is ahead of its loop.
LEMMA QueueLoad ==
  ASSUME TInv, QueueInv, LoadRecovery
  PROVE  QueueInv'
<1>1. PICK W \in OccurrencePages, R \in RunPages, T \in TimerPages :
        LET mine == {o \in R : VersionOf(o) = worker.active}
        IN  worker' =
              [worker EXCEPT
                 !.pc = "Recovery",
                 !.page = W,
                 !.work = [o \in W |-> occ[o].state],
                 !.open = [o \in mine |-> runs[o].rev],
                 !.count = Cardinality(mine),
                 !.timers = T,
                 !.due = {o \in T : /\ runs[o].timer = "Pending"
                                    /\ runs[o].ready <= worker.now}]
  BY DEF LoadRecovery
<1> DEFINE mine == {o \in R : VersionOf(o) = worker.active}
           work == [o \in W |-> occ[o].state]
           open == [o \in mine |-> runs[o].rev]
           n == Cardinality(mine)
           due == {o \in T : /\ runs[o].timer = "Pending"
                             /\ runs[o].ready <= worker.now}
<1>2. worker' = [worker EXCEPT !.pc = "Recovery", !.page = W, !.work = work,
                               !.open = open, !.count = n, !.timers = T,
                               !.due = due]
  BY <1>1
<1>3. \A p \in W : occ[p].state # "Absent"
  BY DEF OccurrencePages, Pages, RecoverableOccurrences
<1>4. occ' = occ /\ worker.cur = None
  BY DEF LoadRecovery, QueueInv
<1>5. /\ worker'.pc = "Recovery" /\ worker'.page = W /\ worker'.work = work
      /\ worker'.cur = worker.cur
  <2> HIDE DEF work, open, n, due
  <2> QED BY <1>2 DEF TInv, WorkerType
<1>6. DOMAIN worker'.work = W
  BY <1>5
<1> QED BY <1>3, <1>4, <1>5, <1>6 DEF QueueInv

\* A step that leaves the loop where it is.
LEMMA QueueSame ==
  ASSUME TInv, QueueInv, RowsKept, worker.pc = "Recovery", worker'.pc = "Recovery",
         worker'.page = worker.page, worker'.active = worker.active,
         worker'.now = worker.now, worker'.count = worker.count,
         worker'.work = worker.work, worker'.cur = worker.cur
  PROVE  QueueInv'
<1>1. worker'.cur # None => worker'.work[worker'.cur] = "Accepted" \/ Restarts(worker'.cur)
  BY DEF QueueInv
<1>2. CASE \E p : p \in DOMAIN worker.work
  <2>1. PICK p : p \in DOMAIN worker.work
    BY <1>2
  <2> QED BY <1>1, <2>1, QueueKept
<1>3. CASE ~\E p : p \in DOMAIN worker.work
  <2>1. worker.page \subseteq Occurrences
    BY DEF TInv, WorkerType
  <2>2. \A p \in worker.page : occ[p].state # "Absent" /\ LeftBehind(p)
    BY <1>3 DEF QueueInv
  <2> QED BY <1>1, <2>1, <2>2 DEF QueueInv, LeftBehind, RowsKept
<1> QED BY <1>2, <1>3

\* Every step keeps the order of the loop.
LEMMA QueueStep ==
  ASSUME TInv, SInv, QueueInv, [Next]_vars
  PROVE  QueueInv'
<1>1. worker \in WorkerType
  BY DEF TInv
<1>2. RowsKept
  BY RowsStep
<1>3. CASE worker' = IdleWorker
  BY <1>3 DEF QueueInv, IdleWorker
<1>4. CASE BeginPass
  <2>1. worker'.pc = "Events" /\ worker'.cur = IdleWorker.cur
    BY <1>4, IdleWorkerType DEF BeginPass, WorkerType
  <2> QED BY <2>1 DEF QueueInv, IdleWorker
<1>5. CASE MaterializeEvent \/ AdvanceCursor \/ LoadSchedules \/ MaterializeSchedule \/ ReadClock
  <2>1. /\ worker.pc \in {"Events", "Checkpoint", "Schedules"}
        /\ worker'.pc \in {"Events", "Checkpoint", "Schedules", "Load"}
        /\ worker'.cur = worker.cur
    BY <1>1, <1>5 DEF MaterializeEvent, AdvanceCursor, LoadSchedules, MaterializeSchedule,
                      ReadClock, WorkerType
  <2> QED BY <2>1 DEF QueueInv
<1>6. CASE ReadyTimer
  <2>1. worker.pc = "Recovery"
    BY <1>6 DEF ReadyTimer
  <2>2. PICK o : worker' = IdleWorker \/ worker' = [worker EXCEPT !.due = @ \ {o}]
    BY <1>6 DEF ReadyTimer, AbortPass
  <2>3. CASE worker' = [worker EXCEPT !.due = @ \ {o}]
    <3>1. /\ worker'.pc = "Recovery" /\ worker'.page = worker.page
          /\ worker'.active = worker.active /\ worker'.now = worker.now
          /\ worker'.count = worker.count /\ worker'.work = worker.work
          /\ worker'.cur = worker.cur
      BY <1>1, <2>1, <2>3 DEF WorkerType
    <3>2. worker'.cur # None =>
            worker'.work[worker'.cur] = "Accepted" \/ Restarts(worker'.cur)
      BY <2>1, <3>1 DEF QueueInv
    <3> QED BY <1>2, <2>1, <3>1, <3>2, QueueSame
  <2> QED BY <1>3, <2>2, <2>3
<1>7. CASE ReloadRuns \/ (\E o \in Occurrences : ReadRun(o)) \/ StepRun
  <2>1. worker'.pc \in {"Runs", "Step"}
    BY <1>1, <1>7, IdleWorkerType DEF ReloadRuns, ReadRun, StepRun, WorkerType
  <2> QED BY <2>1 DEF QueueInv
<1>8. CASE EndPass \/ PassFails \/ Crash
  BY <1>3, <1>8 DEF EndPass, PassFails, Crash, Interrupted
<1>9. CASE worker' = worker
  <2>1. CASE worker.pc = "Recovery"
    BY <1>2, <1>9, <2>1, QueueSame DEF QueueInv
  <2>2. CASE worker.pc # "Recovery"
    BY <1>9, <2>2 DEF QueueInv
  <2> QED BY <2>1, <2>2
<1>10. \/ WorkerStep
       \/ PassFails
       \/ Crash
       \/ worker' = worker
  BY DEF Next, CatchUpStep, LoadMissed, RecordMissed, CreateCatchUp, PrepareCatchUp,
         Activate, Disable, Retire, CancelRun, EmitEvent, Tick, engine_vars, vars
<1> QED BY <1>2, <1>4, <1>5, <1>6, <1>7, <1>8, <1>9, <1>10, QueueLoad, QueueProcess
     DEF WorkerStep

\* Only AcceptOccurrence accepts an occurrence.
LEMMA AcceptsOnly ==
  ASSUME TInv, [Next]_vars, NEW o \in Occurrences,
         occ[o].state # "Accepted", occ'[o].state = "Accepted"
  PROVE  AcceptOccurrence(o)
<1>1. occ \in [Occurrences -> Row]
  BY DEF TInv, DurableType
<1>2. ASSUME NEW p, NEW at, NEW s, s # "Accepted", create_occurrence(p, at, s)
      PROVE  FALSE
  <2>1. occ'[o] = IF o = p /\ occ[p].state = "Absent"
                  THEN [state |-> s, at |-> at] ELSE occ[o]
    BY <1>1, <1>2 DEF create_occurrence
  <2> QED BY <1>2, <2>1
<1>3. ASSUME NEW p, NEW s, transition_occurrence(p, s)
      PROVE  p = o /\ s = "Accepted"
  <2>1. occ'[o] = IF o = p THEN [occ[o] EXCEPT !.state = s] ELSE occ[o]
    BY <1>1, <1>3 DEF transition_occurrence
  <2>2. [occ[o] EXCEPT !.state = s].state = s
    BY <1>1 DEF Row
  <2> QED BY <2>1, <2>2
<1>4. occ' # occ
  OBVIOUS
<1>5. ~MaterializeEvent /\ ~MaterializeSchedule /\ ~CreateCatchUp
      /\ ~(\E t \in Instants, k \in Keys : PrepareCatchUp(t, k))
  BY <1>2, <1>4 DEF MaterializeEvent, MaterializeSchedule, CreateCatchUp, PrepareCatchUp
<1>6. ~RecordMissed
  BY <1>3, <1>4 DEF RecordMissed
<1>7. ASSUME ProcessOccurrence PROVE AcceptOccurrence(o)
  <2>1. PICK p \in Occurrences :
          MissOccurrence(p) \/ SuppressOccurrence(p) \/ AcceptOccurrence(p)
    BY <1>4, <1>7 DEF ProcessOccurrence, SkipOccurrence, DeferOccurrence, CancelForRestart,
                      CreateRun
  <2>2. ~MissOccurrence(p) /\ ~SuppressOccurrence(p)
    BY <1>3, <1>4 DEF MissOccurrence, SuppressOccurrence, Decide
  <2>3. AcceptOccurrence(p)
    BY <2>1, <2>2
  <2>4. transition_occurrence(p, "Accepted")
    BY <1>4, <2>3 DEF AcceptOccurrence
  <2> QED BY <1>3, <2>3, <2>4
<1> QED BY <1>4, <1>5, <1>6, <1>7
     DEF Next, WorkerStep, BeginPass, AdvanceCursor, LoadSchedules, ReadClock, LoadRecovery,
         ReadyTimer, ReloadRuns, ReadRun, StepRun, EndPass, CatchUpStep, LoadMissed, PassFails,
         Crash, Activate, Disable, Retire, CancelRun, EmitEvent, Tick, vars

\* For any page size and any interleaving, a queued version's trigger is
\* accepted only when no earlier one of the page the pass loaded is due and
\* still waiting (admission, process_recovery).
THEOREM QueueIsOrdered == Spec => QueueIsFirstInFirstOut
<1>1. Init => TInv /\ SInv /\ QueueInv
  BY TypeInit, SafetyInit DEF Init, QueueInv, IdleWorker
<1>2. TInv /\ SInv /\ QueueInv /\ [Next]_vars => (TInv /\ SInv /\ QueueInv)'
  BY TypeNext, SafetyNext, QueueStep
<1>3. ASSUME TInv, QueueInv, [Next]_vars, NEW o \in Occurrences, NEW p \in worker.page,
             occ[o].state = "Scheduled", occ'[o].state = "Accepted",
             Mode[VersionOf(o)].kind = "Queued", VersionOf(p) = VersionOf(o), Before(p, o)
      PROVE  occ[p].state # "Scheduled" \/ occ[p].at > worker.now
  <2>1. AcceptOccurrence(o)
    BY <1>3, AcceptsOnly
  <2>2. Due(o) /\ Decision(o) = "Accept"
    BY <2>1 DEF AcceptOccurrence
  <2>3. AtOccurrence(o) /\ VersionOf(o) = worker.active /\ worker.work[o] = "Scheduled"
    BY <2>2 DEF Due, Undecided
  <2>4. worker.count = 0
    BY <1>3, <2>2 DEF Decision, admission
  <2>5. worker.pc = "Recovery" /\ ~Restarts(o)
    BY <1>3, <2>3 DEF AtOccurrence, Restarts
  <2>6. worker.cur = None
    BY <1>3, <2>3, <2>5 DEF QueueInv, AtOccurrence
  <2>7. p \notin DOMAIN worker.work
    BY <1>3, <2>3, <2>6 DEF AtOccurrence
  <2>8. LeftBehind(p)
    BY <1>3, <2>5, <2>7 DEF QueueInv
  <2> QED BY <1>3, <2>3, <2>4, <2>8 DEF LeftBehind
<1>4. TInv /\ QueueInv /\ [Next]_vars =>
        [\A o \in Occurrences, p \in worker.page :
           (/\ occ[o].state = "Scheduled"
            /\ occ'[o].state = "Accepted"
            /\ Mode[VersionOf(o)].kind = "Queued"
            /\ VersionOf(p) = VersionOf(o)
            /\ Before(p, o))
           => occ[p].state # "Scheduled" \/ occ[p].at > worker.now]_vars
  BY <1>3
<1> QED BY <1>1, <1>2, <1>4, PTL DEF Spec, QueueIsFirstInFirstOut
-----------------------------------------------------------------------------
(* Timers and the runs they resume.                                         *)

\* A timer that can still resume its run.
Resumes(run) == run.timer \in {"Pending", "Ready"}

\* The page of open timers, and with it the timers that cancel_run and
\* cancel_for_restart know of, is complete.
TimersFitPage == Cardinality(OpenTimers) <= Page

\* While the pass may cancel runs, it knows the timer of each of them.
TimerInv ==
  /\ NoTimerOutlivesItsRun
  /\ worker.pc = "Recovery" => OpenTimers \subseteq worker.timers

\* A page that is not full holds every row of its query.
LEMMA PageIsAll ==
  ASSUME NEW S, Cardinality(S) <= Page, NEW P \in Pages(S)
  PROVE  P = S
BY DEF Pages

LEMMA TimersLoaded ==
  ASSUME TimersFitPage, NEW T \in TimerPages
  PROVE  T = OpenTimers
<1>1. T \in Pages(OpenTimers)
  BY DEF TimerPages
<1> QED BY <1>1, PageIsAll DEF TimersFitPage

\* Cancelling a run cancels the timer the caller knows of.
LEMMA CancelledTimer ==
  ASSUME NEW run \in Run, NEW o, NEW T
  PROVE  /\ Cancelled(run, o \in T).state = "Cancelled"
         /\ Resumes(Cancelled(run, o \in T)) => Resumes(run) /\ o \notin T
BY DEF Cancelled, Run, Resumes

\* The interpreter leaves a timer open only while the run waits for it.
LEMMA SteppedTimer ==
  ASSUME NEW run \in Run, NEW outcome \in {"Completed", "Failed"},
         Resumes(run) => run.state = "Waiting", Resumes(Stepped(run, outcome))
  PROVE  Stepped(run, outcome).state = "Waiting"
BY DEF Stepped, Run, Resumes

\* A table of runs in which one row was replaced.
LEMMA RunReplaced ==
  ASSUME TInv, NEW p \in Occurrences, NEW run, runs' = [runs EXCEPT ![p] = run],
         NEW o \in Occurrences
  PROVE  runs'[o] = IF o = p THEN run ELSE runs[o]
BY DEF TInv, DurableType

\* What a step may do to the timer of a run: only the interpreter opens one,
\* and none stays open without its run waiting.
TimersKept ==
  \A o \in Occurrences : Resumes(runs'[o]) =>
    /\ runs'[o].state = "Waiting"
    /\ Resumes(runs[o]) \/ worker.pc = "Step"

LEMMA TimersStep ==
  ASSUME TInv, SInv, TimerInv, TimersFitPage, [Next]_vars
  PROVE  TimersKept
<1>1. runs \in [Occurrences -> Run] /\ worker \in WorkerType
  BY DEF TInv, DurableType
<1>2. \A o \in Occurrences : runs[o] \in Run /\ (Resumes(runs[o]) => runs[o].state = "Waiting")
  BY <1>1 DEF TimerInv, NoTimerOutlivesItsRun, Resumes
<1>3. CASE runs' = runs
  BY <1>2, <1>3 DEF TimersKept
<1>4. ASSUME NEW r \in Occurrences, NEW T, OpenTimers \subseteq T,
             runs' = [runs EXCEPT ![r] = Cancelled(@, r \in T)]
      PROVE  TimersKept
  <2>1. runs' = [runs EXCEPT ![r] = Cancelled(runs[r], r \in T)]
    BY <1>4
  <2>2. ~Resumes(Cancelled(runs[r], r \in T))
    <3>1. Resumes(runs[r]) => r \in T
      BY <1>4 DEF OpenTimers, Resumes
    <3> QED BY <1>2, <3>1, CancelledTimer
  <2> QED BY <1>2, <2>1, <2>2, RunReplaced DEF TimersKept
<1>5. CASE ReadyTimer
  <2>1. PICK p \in worker.due :
          \/ runs' = runs
          \/ /\ runs' = [runs EXCEPT ![p].timer = "Ready"]
             /\ runs[p].timer = "Pending"
    BY <1>5 DEF ReadyTimer
  <2>2. CASE runs' = [runs EXCEPT ![p].timer = "Ready"] /\ runs[p].timer = "Pending"
    <3>1. p \in Occurrences
      BY <1>1 DEF WorkerType
    <3>2. [runs[p] EXCEPT !.timer = "Ready"].state = "Waiting" /\ Resumes(runs[p])
      BY <1>2, <2>2, <3>1 DEF Run, Resumes
    <3>3. runs' = [runs EXCEPT ![p] = [runs[p] EXCEPT !.timer = "Ready"]]
      BY <2>2
    <3> QED BY <1>2, <3>1, <3>2, <3>3, RunReplaced DEF TimersKept
  <2> QED BY <1>3, <2>1, <2>2
<1>6. CASE ProcessOccurrence
  <2>1. PICK o \in Occurrences :
          runs' = runs \/ CancelForRestart(o) \/ CreateRun(o)
    BY <1>6 DEF ProcessOccurrence, SkipOccurrence, MissOccurrence, DeferOccurrence,
                SuppressOccurrence, AcceptOccurrence
  <2>2. CASE CancelForRestart(o)
    <3>1. PICK r \in DOMAIN worker.open :
            runs' = runs \/ runs' = [runs EXCEPT ![r] = Cancelled(@, r \in worker.timers)]
      BY <2>2 DEF CancelForRestart
    <3>2. worker.open \in PartialMaps(Nat)
      BY <1>1 DEF WorkerType
    <3>3. r \in Occurrences
      BY <3>2, MapDomain
    <3>4. OpenTimers \subseteq worker.timers
      BY <2>2 DEF CancelForRestart, Due, Undecided, AtOccurrence, TimerInv
    <3> QED BY <1>3, <1>4, <3>1, <3>3, <3>4
  <2>3. CASE CreateRun(o)
    <3> DEFINE new == [NoRun EXCEPT !.state = "Pending", !.created = worker.now]
               run == IF runs[o].state = "Absent" THEN new ELSE runs[o]
    <3>1. runs' = [runs EXCEPT ![o] = run]
      BY <2>3 DEF CreateRun
    <3>2. ~Resumes(new)
      BY DEF NoRun, Resumes
    <3> HIDE DEF new
    <3>3. run = new \/ run = runs[o]
      OBVIOUS
    <3> HIDE DEF run
    <3> QED BY <1>2, <3>1, <3>2, <3>3, RunReplaced DEF TimersKept
  <2> QED BY <1>3, <2>1, <2>2, <2>3
<1>7. CASE StepRun
  <2>1. PICK outcome \in {"Completed", "Failed"} :
          runs' = runs \/ runs' = [runs EXCEPT ![worker.cur] = Stepped(@, outcome)]
    BY <1>7 DEF StepRun
  <2>2. worker.cur \in Occurrences /\ worker.pc = "Step"
    BY <1>7 DEF TInv, TodoInv, StepRun
  <2>3. CASE runs' = [runs EXCEPT ![worker.cur] = Stepped(runs[worker.cur], outcome)]
    <3>1. Resumes(Stepped(runs[worker.cur], outcome)) =>
            Stepped(runs[worker.cur], outcome).state = "Waiting"
      BY <1>2, <2>2, SteppedTimer
    <3> QED BY <1>2, <2>2, <2>3, <3>1, RunReplaced DEF TimersKept
  <2> QED BY <1>3, <2>1, <2>3
<1>8. CASE \E o \in Occurrences : CancelRun(o)
  <2>1. PICK o \in Occurrences, T \in TimerPages :
          runs' = [runs EXCEPT ![o] = Cancelled(@, o \in T)]
    BY <1>8 DEF CancelRun
  <2> QED BY <1>4, <2>1, TimersLoaded
<1> QED BY <1>3, <1>5, <1>6, <1>7, <1>8, RunWriters

\* One occurrence of the loop: the pass is given up, or it keeps the version and
\* the timers it loaded.
LEMMA LoopKeeps ==
  ASSUME TInv, ProcessOccurrence
  PROVE  /\ worker.pc = "Recovery"
         /\ \/ worker' = IdleWorker
            \/ /\ worker'.pc = "Recovery"
               /\ worker'.timers = worker.timers
               /\ worker'.active = worker.active
<1>1. worker \in WorkerType
  BY DEF TInv
<1>2. PICK o \in Occurrences :
        \/ SkipOccurrence(o)
        \/ MissOccurrence(o)
        \/ DeferOccurrence(o)
        \/ SuppressOccurrence(o)
        \/ CancelForRestart(o)
        \/ AcceptOccurrence(o)
        \/ CreateRun(o)
  BY DEF ProcessOccurrence
<1>3. worker.pc = "Recovery"
  <2>1. AtOccurrence(o)
    BY <1>2 DEF SkipOccurrence, MissOccurrence, DeferOccurrence, SuppressOccurrence,
                CancelForRestart, AcceptOccurrence, CreateRun, Due, Undecided
  <2> QED BY <2>1 DEF AtOccurrence
<1>4. NextOccurrence(o) \in WorkerType
  BY <1>1, NextType
<1>5. /\ NextOccurrence(o).pc = "Recovery"
      /\ NextOccurrence(o).timers = worker.timers
      /\ NextOccurrence(o).active = worker.active
  BY <1>1, <1>3 DEF NextOccurrence, WorkerType
<1>6. CASE \/ worker' = NextOccurrence(o)
           \/ \E q : worker' = [NextOccurrence(o) EXCEPT !.queued = q]
           \/ \E w : worker' = [NextOccurrence(o) EXCEPT !.open = w]
  BY <1>3, <1>4, <1>5, <1>6 DEF WorkerType
<1>7. CASE \/ \E w : worker' = [worker EXCEPT !.open = w, !.cur = o]
           \/ \E w, n : worker' = [worker EXCEPT !.work = w, !.cur = o, !.count = n]
  BY <1>1, <1>3, <1>7 DEF WorkerType
<1>8. CASE SkipOccurrence(o) \/ DeferOccurrence(o) \/ CreateRun(o)
  BY <1>6, <1>8 DEF SkipOccurrence, DeferOccurrence, CreateRun
<1>9. CASE MissOccurrence(o) \/ SuppressOccurrence(o)
  BY <1>3, <1>6, <1>9 DEF MissOccurrence, SuppressOccurrence, Decide, AbortPass
<1>10. CASE CancelForRestart(o)
  <2>1. PICK r : worker' = IdleWorker
                 \/ worker' = [worker EXCEPT !.open = Without(worker.open, r), !.cur = o]
    BY <1>10 DEF CancelForRestart, AbortPass
  <2> QED BY <1>3, <1>7, <2>1
<1>11. CASE AcceptOccurrence(o)
  <2> DEFINE work == [worker.work EXCEPT ![o] = "Accepted"]
  <2>1. \/ worker' = IdleWorker
        \/ worker' = [worker EXCEPT !.work = work, !.cur = o, !.count = CountAfter(o)]
    BY <1>11 DEF AcceptOccurrence, AbortPass
  <2> QED BY <1>3, <1>7, <2>1
<1> QED BY <1>2, <1>8, <1>9, <1>10, <1>11

\* A pass enters its recovery by loading its pages, and keeps their timers
\* until it leaves it.
LEMMA TimersOfPass ==
  ASSUME TInv, [Next]_vars, worker'.pc = "Recovery"
  PROVE  LoadRecovery \/ (worker.pc = "Recovery" /\ worker'.timers = worker.timers)
<1>1. worker \in WorkerType
  BY DEF TInv
<1>2. worker' # IdleWorker
  BY DEF IdleWorker
<1>3. CASE ProcessOccurrence
  BY <1>2, <1>3, LoopKeeps
<1>4. CASE ReadyTimer
  BY <1>1, <1>2, <1>4 DEF ReadyTimer, AbortPass, WorkerType
<1>5. CASE BeginPass
  <2>1. worker'.pc = "Events"
    BY <1>5, IdleWorkerType DEF BeginPass, WorkerType
  <2> QED BY <2>1
<1>6. CASE ReloadRuns \/ (\E o \in Occurrences : ReadRun(o)) \/ StepRun
  <2>1. worker'.pc \in {"Runs", "Step"}
    BY <1>1, <1>6, IdleWorkerType DEF ReloadRuns, ReadRun, StepRun, WorkerType
  <2> QED BY <2>1
<1>7. CASE MaterializeEvent \/ AdvanceCursor \/ LoadSchedules \/ MaterializeSchedule \/ ReadClock
  <2>1. worker'.pc \in {"Events", "Checkpoint", "Schedules", "Load"}
    BY <1>1, <1>7 DEF MaterializeEvent, AdvanceCursor, LoadSchedules, MaterializeSchedule,
                      ReadClock, WorkerType
  <2> QED BY <2>1
<1>8. ~EndPass /\ ~PassFails /\ ~Crash
  BY <1>2 DEF EndPass, PassFails, Crash, Interrupted
<1>9. WorkerStep \/ PassFails \/ Crash \/ worker' = worker
  BY DEF Next, CatchUpStep, LoadMissed, RecordMissed, CreateCatchUp, PrepareCatchUp,
         Activate, Disable, Retire, CancelRun, EmitEvent, Tick, engine_vars, vars
<1> QED BY <1>3, <1>4, <1>5, <1>6, <1>7, <1>8, <1>9 DEF WorkerStep

\* What the pass keeps of the three pages it loaded.
Loaded(W, R, T) ==
  LET mine == {o \in R : VersionOf(o) = worker.active}
  IN  /\ worker'.pc = "Recovery"
      /\ worker'.active = worker.active
      /\ worker'.cur = worker.cur
      /\ worker'.work = [o \in W |-> occ[o].state]
      /\ worker'.open = [o \in mine |-> runs[o].rev]
      /\ worker'.count = Cardinality(mine)
      /\ worker'.timers = T

LEMMA LoadedPages ==
  ASSUME TInv, LoadRecovery
  PROVE  \E W \in OccurrencePages, R \in RunPages, T \in TimerPages : Loaded(W, R, T)
<1>1. PICK W \in OccurrencePages, R \in RunPages, T \in TimerPages :
        LET mine == {o \in R : VersionOf(o) = worker.active}
        IN  worker' =
              [worker EXCEPT
                 !.pc = "Recovery",
                 !.page = W,
                 !.work = [o \in W |-> occ[o].state],
                 !.open = [o \in mine |-> runs[o].rev],
                 !.count = Cardinality(mine),
                 !.timers = T,
                 !.due = {o \in T : /\ runs[o].timer = "Pending"
                                    /\ runs[o].ready <= worker.now}]
  BY DEF LoadRecovery
<1> DEFINE mine == {o \in R : VersionOf(o) = worker.active}
           work == [o \in W |-> occ[o].state]
           open == [o \in mine |-> runs[o].rev]
           n == Cardinality(mine)
           due == {o \in T : /\ runs[o].timer = "Pending"
                             /\ runs[o].ready <= worker.now}
<1>2. worker' = [worker EXCEPT !.pc = "Recovery", !.page = W, !.work = work,
                               !.open = open, !.count = n, !.timers = T,
                               !.due = due]
  BY <1>1
<1>3. /\ worker'.pc = "Recovery" /\ worker'.active = worker.active
      /\ worker'.cur = worker.cur /\ worker'.work = work /\ worker'.open = open
      /\ worker'.count = n /\ worker'.timers = T
  <2> HIDE DEF work, open, n, due
  <2> QED BY <1>2 DEF TInv, WorkerType
<1>4. Loaded(W, R, T)
  BY <1>3 DEF Loaded
<1> QED BY <1>4

LEMMA TimerNext ==
  ASSUME TInv, SInv, TimerInv, TimersFitPage, [Next]_vars
  PROVE  TimerInv'
<1>1. TimersKept
  BY TimersStep
<1>2. NoTimerOutlivesItsRun'
  BY <1>1 DEF TimersKept, NoTimerOutlivesItsRun, Resumes
<1>3. CASE LoadRecovery
  <2>1. PICK W \in OccurrencePages, R \in RunPages, T \in TimerPages :
          Loaded(W, R, T)
    BY <1>3, LoadedPages
  <2>2. worker'.timers = OpenTimers
    BY <2>1, TimersLoaded DEF Loaded
  <2>3. OpenTimers' = OpenTimers
    BY <1>3 DEF LoadRecovery, OpenTimers
  <2> QED BY <1>2, <2>2, <2>3 DEF TimerInv
<1>4. CASE worker.pc = "Recovery" /\ worker'.timers = worker.timers
  <2>1. OpenTimers' \subseteq OpenTimers
    BY <1>1, <1>4 DEF TimersKept, OpenTimers, Resumes
  <2> QED BY <1>2, <1>4, <2>1 DEF TimerInv
<1> QED BY <1>2, <1>3, <1>4, TimersOfPass DEF TimerInv

\* ADR-0027, for any modes and interleaving: a run that was cancelled by its
\* owner or for a restart, or that finished, leaves no timer able to resume it,
\* as long as the open timers fit the page that cancel_run and process_recovery
\* load (LIMIT 1000).
THEOREM TimersEndWithRuns == Spec /\ []TimersFitPage => []NoTimerOutlivesItsRun
<1>1. Init => TInv /\ SInv /\ TimerInv
  BY TypeInit, SafetyInit DEF Init, TimerInv, NoTimerOutlivesItsRun, IdleWorker, NoRun
<1>2. TInv /\ SInv /\ TimerInv /\ TimersFitPage /\ [Next]_vars => (TInv /\ SInv /\ TimerInv)'
  BY TypeNext, SafetyNext, TimerNext
<1>3. TInv /\ SInv /\ TimerInv => NoTimerOutlivesItsRun
  BY DEF TimerInv
<1> QED BY <1>1, <1>2, <1>3, PTL DEF Spec

-----------------------------------------------------------------------------
(* Run modes.                                                               *)

\* The pages of open runs are complete.
RunsFitPage == Cardinality(OpenRuns) <= Page

\* Acceptances of a version whose run is still to be created.
Owed(v) == {o \in Occurrences : /\ VersionOf(o) = v
                                /\ occ[o].state = "Accepted"
                                /\ runs[o].state = "Absent"}

\* What the run mode of a version has to bound.
Live(v) == OpenRunsOf(v) \cup Owed(v)

\* The acceptance the pass itself is about to create the run of.
Unfinished == IF BetweenAcceptanceAndRun THEN {worker.cur} ELSE {}

\* What the pass knows of its version: its counter, or for a restart the runs
\* it can cancel, misses at most the acceptances of interrupted passes.
PassBound(v) ==
  IF Mode[v].kind = "Restart"
  THEN OpenRunsOf(v) \subseteq DOMAIN worker.open
  ELSE Cardinality(Live(v)) <= worker.count + torn

AdmissionInv ==
  /\ \A v \in Versions : /\ Cardinality(Live(v)) <= Capacity(v) + torn
                         /\ Cardinality(Owed(v) \ Unfinished) <= torn
  /\ worker.pc = "Recovery" =>
       /\ worker.cur # None => worker.due = {} /\ VersionOf(worker.cur) = worker.active
       /\ \A v \in Versions : v = worker.active => PassBound(v)

\* Sets of rows are finite, and this is how they are counted.
LEMMA RowSets ==
  ASSUME NEW S \in SUBSET Occurrences
  PROVE  /\ Cardinality(S) \in Nat
         /\ \A T \in SUBSET S : Cardinality(T) \in Nat /\ Cardinality(T) <= Cardinality(S)
         /\ \A x : Cardinality(S \cup {x}) <= Cardinality(S) + 1
<1>1. IsFiniteSet(S)
  BY FiniteAssumption, FS_Subset
<1>2. Cardinality(S) \in Nat
  BY <1>1, FS_CardinalityType
<1>3. ASSUME NEW T \in SUBSET S
      PROVE  Cardinality(T) \in Nat /\ Cardinality(T) <= Cardinality(S)
  <2>1. IsFiniteSet(T) /\ Cardinality(T) <= Cardinality(S)
    BY <1>1, FS_Subset
  <2> QED BY <2>1, FS_CardinalityType
<1>4. ASSUME NEW x
      PROVE  Cardinality(S \cup {x}) <= Cardinality(S) + 1
  BY <1>1, <1>2, FS_AddElement
<1> QED BY <1>2, <1>3, <1>4

LEMMA RowUnions ==
  ASSUME NEW S \in SUBSET Occurrences, NEW T \in SUBSET Occurrences
  PROVE  Cardinality(S \cup T) <= Cardinality(S) + Cardinality(T)
<1>1. IsFiniteSet(S) /\ IsFiniteSet(T)
  BY FiniteAssumption, FS_Subset
<1>2. Cardinality(S \cup T) = Cardinality(S) + Cardinality(T) - Cardinality(S \cap T)
  BY <1>1, FS_Union
<1>3. /\ Cardinality(S) \in Nat /\ Cardinality(T) \in Nat
      /\ Cardinality(S \cap T) \in Nat
  BY RowSets
<1> QED BY <1>2, <1>3

LEMMA LiveRows ==
  ASSUME NEW v
  PROVE  /\ OpenRunsOf(v) \in SUBSET Occurrences /\ OpenRunsOf(v)' \in SUBSET Occurrences
         /\ Owed(v) \in SUBSET Occurrences /\ Owed(v)' \in SUBSET Occurrences
         /\ Live(v) \in SUBSET Occurrences /\ Live(v)' \in SUBSET Occurrences
BY DEF OpenRunsOf, OpenRuns, Owed, Live

\* Only acceptances add to what is live or owed.
LEMMA LiveStep ==
  ASSUME RunsKept, NEW v, NEW X,
         \A p \in Occurrences \ X : occ'[p].state = "Accepted" => occ[p].state = "Accepted"
  PROVE  /\ Live(v)' \subseteq Live(v) \cup {p \in X : VersionOf(p) = v}
         /\ Owed(v)' \subseteq Owed(v) \cup X
         /\ OpenRunsOf(v)' \subseteq OpenRunsOf(v) \cup Owed(v)
<1>1. Owed(v)' \subseteq Owed(v) \cup {p \in X : VersionOf(p) = v}
  BY DEF Owed, RunsKept
<1>2. OpenRunsOf(v)' \subseteq OpenRunsOf(v) \cup Owed(v)
  BY DEF Owed, OpenRunsOf, OpenRuns, RunsKept, Open
<1> QED BY <1>1, <1>2 DEF Live

\* A step that accepts nothing and does not end between an acceptance and its
\* run leaves the invariant to what the pass keeps.
LEMMA AdmissionKept ==
  ASSUME TInv, AdmissionInv, RunsKept,
         \A p \in Occurrences : occ'[p].state = "Accepted" => occ[p].state = "Accepted",
         torn' \in Nat, torn <= torn',
         \A v \in Versions : Cardinality((Owed(v) \ Unfinished)') <= torn',
         worker'.pc = "Recovery" =>
           /\ worker.pc = "Recovery" /\ worker'.active = worker.active
           /\ worker'.count = worker.count
           /\ worker'.cur # None => worker'.due = {} /\ VersionOf(worker'.cur) = worker.active
           /\ \A v \in Versions :
                v = worker.active /\ OpenRunsOf(v) \subseteq DOMAIN worker.open
                  => OpenRunsOf(v)' \subseteq DOMAIN worker'.open
  PROVE  AdmissionInv'
<1>1. torn \in Nat /\ worker.count \in Nat
  BY DEF TInv, DurableType, WorkerType
<1>2. ASSUME NEW v \in Versions
      PROVE  Cardinality(Live(v)') \in Nat /\ Cardinality(Live(v)) \in Nat
             /\ Cardinality(Live(v)') <= Cardinality(Live(v))
  <2>1. Live(v)' \subseteq Live(v)
    <3>1. Live(v)' \subseteq Live(v) \cup {p \in {} : VersionOf(p) = v}
      BY LiveStep
    <3> QED BY <3>1
  <2> QED BY <2>1, LiveRows, RowSets
<1>3. ASSUME NEW v \in Versions
      PROVE  Cardinality(Live(v))' <= Capacity(v) + torn'
  <2>1. Cardinality(Live(v)) <= Capacity(v) + torn
    BY DEF AdmissionInv
  <2>2. Capacity(v) \in Nat
    BY ModeAssumption DEF Capacity
  <2> QED BY <1>1, <1>2, <2>1, <2>2
<1>4. ASSUME worker'.pc = "Recovery", NEW v \in Versions, v = worker'.active
      PROVE  PassBound(v)'
  <2>1. PassBound(v) /\ worker'.count = worker.count /\ v = worker.active
    BY <1>4 DEF AdmissionInv
  <2>2. CASE Mode[v].kind = "Restart"
    BY <1>4, <2>1, <2>2 DEF PassBound
  <2>3. CASE Mode[v].kind # "Restart"
    <3>1. Cardinality(Live(v)) <= worker.count + torn
      BY <2>1, <2>3 DEF PassBound
    <3>2. Cardinality(Live(v)') <= worker'.count + torn'
      BY <1>1, <1>2, <2>1, <3>1
    <3> QED BY <2>3, <3>2 DEF PassBound
  <2> QED BY <2>2, <2>3
<1> QED BY <1>3, <1>4 DEF AdmissionInv, Capacity

\* What is owed apart from the pass's own acceptance does not grow while that
\* acceptance stays the same, or there is none.
LEMMA OwedKept ==
  ASSUME TInv, AdmissionInv, RunsKept, torn' = torn,
         \A p \in Occurrences : occ'[p].state = "Accepted" => occ[p].state = "Accepted",
         Unfinished = {} \/ Unfinished' = Unfinished
           \/ (\E o \in Occurrences : Unfinished = {o} /\ runs'[o].state # "Absent")
  PROVE  \A v \in Versions : Cardinality((Owed(v) \ Unfinished)') <= torn'
<1> SUFFICES ASSUME NEW v \in Versions
             PROVE  Cardinality((Owed(v) \ Unfinished)') <= torn'
  OBVIOUS
<1>1. Owed(v)' \subseteq Owed(v)
  <2>1. Owed(v)' \subseteq Owed(v) \cup {}
    BY LiveStep
  <2> QED BY <2>1
<1>2. \A o \in Occurrences : runs'[o].state # "Absent" => o \notin Owed(v)'
  BY DEF Owed
<1>3. (Owed(v) \ Unfinished)' \subseteq Owed(v) \ Unfinished
  BY <1>1, <1>2
<1>4. Cardinality((Owed(v) \ Unfinished)') <= Cardinality(Owed(v) \ Unfinished)
      /\ Cardinality((Owed(v) \ Unfinished)') \in Nat
      /\ Cardinality(Owed(v) \ Unfinished) \in Nat
  <2>1. Owed(v) \ Unfinished \in SUBSET Occurrences
    BY LiveRows
  <2> QED BY <1>3, <2>1, RowSets
<1>5. Cardinality(Owed(v) \ Unfinished) <= torn /\ torn \in Nat
  BY DEF AdmissionInv, TInv, DurableType
<1> QED BY <1>4, <1>5

\* Accepting an occurrence adds it to what is live, and the counter or the
\* cancellations before it leave room for it.
LEMMA AdmissionAccept ==
  ASSUME TInv, SInv, AdmissionInv, RunsKept, NEW o \in Occurrences, AcceptOccurrence(o),
         may_transition(o, "Accepted")
  PROVE  AdmissionInv'
<1>1. worker \in WorkerType /\ occ \in [Occurrences -> Row] /\ torn \in Nat /\ worker.count \in Nat
  BY DEF TInv, DurableType, WorkerType
<1>2. /\ Due(o) /\ Decision(o) = "Accept" /\ (Restarts(o) => DOMAIN worker.open = {})
      /\ transition_occurrence(o, "Accepted") /\ runs' = runs /\ torn' = torn
      /\ worker' = [worker EXCEPT !.work[o] = "Accepted", !.cur = o, !.count = CountAfter(o)]
  BY DEF AcceptOccurrence
<1>3. /\ worker.pc = "Recovery" /\ worker.due = {} /\ o \in DOMAIN worker.work
      /\ worker.cur # None => o = worker.cur
      /\ VersionOf(o) = worker.active /\ worker.work[o] = "Scheduled"
  BY <1>2 DEF Due, Undecided, AtOccurrence
<1>4. worker.work \in [DOMAIN worker.work -> OccurrenceStates]
  BY <1>1, MapDomain DEF WorkerType
<1>5. /\ worker'.pc = "Recovery" /\ worker'.due = {} /\ worker'.active = worker.active
      /\ worker'.open = worker.open /\ worker'.count = CountAfter(o) /\ worker'.cur = o
      /\ worker'.work = [worker.work EXCEPT ![o] = "Accepted"]
  BY <1>1, <1>2, <1>3 DEF WorkerType
<1>6. Unfinished = {} /\ Unfinished' = {o}
  <2>1. ~BetweenAcceptanceAndRun
    BY <1>3 DEF BetweenAcceptanceAndRun
  <2>2. o # None
    BY NoneAssumption
  <2>3. worker'.work[o] = "Accepted" /\ o \in DOMAIN worker'.work
    BY <1>3, <1>4, <1>5
  <2>4. BetweenAcceptanceAndRun'
    BY <1>5, <2>2, <2>3 DEF BetweenAcceptanceAndRun
  <2> QED BY <1>5, <2>1, <2>4 DEF Unfinished
<1>7. \A p \in Occurrences \ {o} : occ'[p].state = "Accepted" => occ[p].state = "Accepted"
  BY <1>1, <1>2 DEF transition_occurrence
<1>8. \A v : /\ Live(v)' \subseteq Live(v) \cup {p \in {o} : VersionOf(p) = v}
             /\ Owed(v)' \subseteq Owed(v) \cup {o}
             /\ OpenRunsOf(v)' = OpenRunsOf(v)
  <2>1. \A v : OpenRunsOf(v)' = OpenRunsOf(v)
    BY <1>2 DEF OpenRunsOf, OpenRuns
  <2> QED BY <1>7, <2>1, LiveStep
<1>9. ASSUME NEW v \in Versions
      PROVE  Cardinality((Owed(v) \ Unfinished)') <= torn'
  <2>1. Owed(v)' \ Unfinished' \subseteq Owed(v) \ Unfinished
    BY <1>6, <1>8
  <2>2. Owed(v) \ Unfinished \in SUBSET Occurrences
    BY LiveRows
  <2>3. Cardinality(Owed(v) \ Unfinished) <= torn
    BY DEF AdmissionInv
  <2>4. /\ Cardinality(Owed(v)' \ Unfinished') <= Cardinality(Owed(v) \ Unfinished)
        /\ Cardinality(Owed(v)' \ Unfinished') \in Nat
        /\ Cardinality(Owed(v) \ Unfinished) \in Nat
    BY <2>1, <2>2, RowSets
  <2> QED BY <1>1, <1>2, <2>3, <2>4
<1> DEFINE a == worker.active
<1>10. ASSUME NEW v \in Versions, v # a
       PROVE  Cardinality(Live(v)') <= Capacity(v) + torn'
  <2>1. Live(v)' \subseteq Live(v)
    BY <1>3, <1>8, <1>10
  <2>2. /\ Cardinality(Live(v)') <= Cardinality(Live(v))
        /\ Cardinality(Live(v)') \in Nat /\ Cardinality(Live(v)) \in Nat
    BY <2>1, LiveRows, RowSets
  <2>3. Cardinality(Live(v)) <= Capacity(v) + torn /\ Capacity(v) \in Nat
    BY ModeAssumption DEF AdmissionInv, Capacity
  <2> QED BY <1>1, <1>2, <2>2, <2>3
<1>11. ASSUME NEW v \in Versions, v = a
       PROVE  Cardinality(Live(v)') <= Capacity(v) + torn' /\ PassBound(v)'
  <2>1. Mode[v] \in [kind : RunModes, limit : Nat] /\ Mode[v] = Mode[VersionOf(o)]
    BY <1>3, <1>11, ModeAssumption
  <2>2. Live(v)' \subseteq Live(v) \cup {o}
    BY <1>8
  <2>3. Live(v) \in SUBSET Occurrences /\ Live(v) \cup {o} \in SUBSET Occurrences
    BY LiveRows
  <2>4. /\ Cardinality(Live(v)') \in Nat /\ Cardinality(Live(v)) \in Nat
        /\ Cardinality(Live(v)') <= Cardinality(Live(v)) + 1
    <3>1. /\ Cardinality(Live(v)) \in Nat
          /\ Cardinality(Live(v) \cup {o}) <= Cardinality(Live(v)) + 1
      BY <2>3, RowSets
    <3>2. /\ Cardinality(Live(v)') \in Nat /\ Cardinality(Live(v) \cup {o}) \in Nat
          /\ Cardinality(Live(v)') <= Cardinality(Live(v) \cup {o})
      BY <2>2, <2>3, RowSets
    <3> QED BY <3>1, <3>2
  <2>5. PassBound(v)
    BY <1>3, <1>11 DEF AdmissionInv
  <2>6. CASE Mode[v].kind = "Restart"
    <3>1. DOMAIN worker.open = {} /\ OpenRunsOf(v) = {}
      BY <1>2, <2>1, <2>5, <2>6 DEF Restarts, PassBound
    <3>2. Live(v) = Owed(v) \ Unfinished
      BY <1>6, <3>1 DEF Live
    <3>3. Cardinality(Live(v)) <= torn
      BY <3>2 DEF AdmissionInv
    <3>4. Capacity(v) = 1
      BY <2>6 DEF Capacity
    <3>5. PassBound(v)'
      BY <1>8, <2>6, <3>1 DEF PassBound
    <3> QED BY <1>1, <1>2, <2>4, <3>3, <3>4, <3>5
  <2>7. CASE Mode[v].kind # "Restart"
    <3>1. Cardinality(Live(v)) <= worker.count + torn
      BY <2>5, <2>7 DEF PassBound
    <3>2. worker'.count = worker.count + 1
      BY <1>5, <2>1, <2>7 DEF CountAfter, Restarts
    <3>3. worker.count + 1 <= Capacity(v) /\ Capacity(v) \in Nat
      BY <1>1, <1>2, <2>1, <2>7 DEF Decision, admission, Capacity
    <3>4. Cardinality(Live(v)') <= worker'.count + torn'
      BY <1>1, <1>2, <2>4, <3>1, <3>2
    <3>5. PassBound(v)'
      BY <2>7, <3>4 DEF PassBound
    <3> QED BY <1>1, <1>2, <2>4, <3>1, <3>3, <3>5
  <2> QED BY <2>6, <2>7
<1>12. \A v \in Versions : Cardinality(Live(v)') <= Capacity(v) + torn'
  BY <1>10, <1>11
<1> QED BY <1>3, <1>5, <1>9, <1>11, <1>12 DEF AdmissionInv, Capacity

\* The loop over the page.
LEMMA AdmissionProcess ==
  ASSUME TInv, SInv, AdmissionInv, RunsKept, ProcessOccurrence
  PROVE  AdmissionInv'
<1>1. PICK o \in Occurrences :
        \/ SkipOccurrence(o)
        \/ MissOccurrence(o)
        \/ DeferOccurrence(o)
        \/ SuppressOccurrence(o)
        \/ CancelForRestart(o)
        \/ AcceptOccurrence(o)
        \/ CreateRun(o)
  BY DEF ProcessOccurrence
<1>2. AtOccurrence(o)
  BY <1>1 DEF SkipOccurrence, MissOccurrence, DeferOccurrence, SuppressOccurrence,
              CancelForRestart, AcceptOccurrence, CreateRun, Due, Undecided
<1>3. /\ worker.pc = "Recovery" /\ worker.due = {} /\ o \in DOMAIN worker.work
      /\ worker.cur # None => o = worker.cur
  BY <1>2 DEF AtOccurrence
<1>4. worker \in WorkerType /\ occ \in [Occurrences -> Row] /\ torn \in Nat
      /\ runs \in [Occurrences -> Run]
  BY DEF TInv, DurableType
<1>5. Unfinished = {} \/ (Unfinished = {o} /\ worker.work[o] = "Accepted" /\ worker.cur = o)
  BY <1>3 DEF Unfinished, BetweenAcceptanceAndRun
<1>6. NextOccurrence(o) \in WorkerType
  BY <1>4, NextType
<1>7. /\ NextOccurrence(o).pc = "Recovery" /\ NextOccurrence(o).due = {}
      /\ NextOccurrence(o).active = worker.active /\ NextOccurrence(o).count = worker.count
      /\ NextOccurrence(o).open = worker.open /\ NextOccurrence(o).cur = None
  BY <1>3, <1>4 DEF NextOccurrence, WorkerType
<1>8. ASSUME \A p \in Occurrences : occ'[p].state = "Accepted" => occ[p].state = "Accepted",
             torn' = torn,
             Unfinished = {} \/ (Unfinished = {o} /\ runs'[o].state # "Absent"),
             worker' # IdleWorker =>
               /\ worker'.active = worker.active /\ worker'.count = worker.count
               /\ worker'.cur # None => worker'.due = {} /\ VersionOf(worker'.cur) = worker.active
               /\ \A v \in Versions :
                    v = worker.active /\ OpenRunsOf(v) \subseteq DOMAIN worker.open
                      => OpenRunsOf(v)' \subseteq DOMAIN worker'.open
      PROVE  AdmissionInv'
  <2>1. \A v \in Versions : Cardinality((Owed(v) \ Unfinished)') <= torn'
    BY <1>8, OwedKept
  <2>2. worker'.pc = "Recovery" => worker' # IdleWorker
    BY DEF IdleWorker
  <2> QED BY <1>3, <1>4, <1>8, <2>1, <2>2, AdmissionKept
<1>9. CASE SkipOccurrence(o) \/ DeferOccurrence(o)
  <2>1. occ' = occ /\ runs' = runs /\ torn' = torn
    BY <1>9 DEF SkipOccurrence, DeferOccurrence
  <2>2. \/ worker' = NextOccurrence(o)
        \/ \E q : worker' = [NextOccurrence(o) EXCEPT !.queued = q]
    BY <1>9 DEF SkipOccurrence, DeferOccurrence
  <2>3. /\ worker'.active = worker.active /\ worker'.count = worker.count
        /\ worker'.open = worker.open /\ worker'.cur = None
    BY <1>6, <1>7, <2>2 DEF WorkerType
  <2>4. Unfinished = {}
    <3>1. worker.cur # None => VersionOf(worker.cur) = worker.active
      BY <1>3 DEF AdmissionInv
    <3>2. VersionOf(o) # worker.active \/ worker.work[o] = "Scheduled"
      BY <1>9 DEF SkipOccurrence, DeferOccurrence, Due, Undecided
    <3>3. o # None
      BY NoneAssumption
    <3> QED BY <1>5, <3>1, <3>2, <3>3
  <2>5. \A v : OpenRunsOf(v)' = OpenRunsOf(v)
    BY <2>1 DEF OpenRunsOf, OpenRuns
  <2> QED BY <1>8, <2>1, <2>3, <2>4, <2>5
<1>10. CASE MissOccurrence(o) \/ SuppressOccurrence(o)
  <2>1. PICK s \in {"MissedSkipped", "Suppressed"} : Decide(o, s)
    BY <1>10 DEF MissOccurrence, SuppressOccurrence
  <2>2. runs' = runs /\ torn' = torn /\ worker.work[o] = "Scheduled"
    BY <1>10 DEF MissOccurrence, SuppressOccurrence, Due, Undecided
  <2>3. \/ occ' = occ /\ worker' = IdleWorker
        \/ transition_occurrence(o, s) /\ worker' = NextOccurrence(o)
    BY <2>1 DEF Decide, AbortPass
  <2>4. \A p \in Occurrences : occ'[p].state = "Accepted" => occ[p].state = "Accepted"
    <3>1. CASE transition_occurrence(o, s)
      <4>1. \A p \in Occurrences :
              occ'[p] = IF p = o THEN [occ[p] EXCEPT !.state = s] ELSE occ[p]
        BY <1>4, <3>1 DEF transition_occurrence
      <4>2. [occ[o] EXCEPT !.state = s].state = s
        BY <1>4 DEF Row
      <4> QED BY <4>1, <4>2
    <3> QED BY <2>3, <3>1
  <2>5. Unfinished = {}
    BY <1>5, <2>2
  <2>6. \A v : OpenRunsOf(v)' = OpenRunsOf(v)
    BY <2>2 DEF OpenRunsOf, OpenRuns
  <2> QED BY <1>7, <1>8, <2>2, <2>3, <2>4, <2>5, <2>6
<1>11. CASE CancelForRestart(o)
  <2>1. PICK r \in DOMAIN worker.open :
          \/ worker' = IdleWorker
          \/ /\ worker' = [worker EXCEPT !.open = Without(worker.open, r), !.cur = o]
             /\ runs' = [runs EXCEPT ![r] = Cancelled(runs[r], r \in worker.timers)]
    BY <1>11 DEF CancelForRestart, AbortPass
  <2>2. /\ occ' = occ /\ torn' = torn /\ worker.work[o] = "Scheduled"
        /\ VersionOf(o) = worker.active
    BY <1>11 DEF CancelForRestart, Due, Undecided
  <2>3. Unfinished = {}
    BY <1>5, <2>2
  <2>4. CASE worker' = IdleWorker
    BY <1>8, <2>2, <2>3, <2>4
  <2>5. CASE /\ worker' = [worker EXCEPT !.open = Without(worker.open, r), !.cur = o]
             /\ runs' = [runs EXCEPT ![r] = Cancelled(runs[r], r \in worker.timers)]
    <3>1. /\ worker'.active = worker.active /\ worker'.count = worker.count
          /\ worker'.open = Without(worker.open, r) /\ worker'.cur = o
          /\ worker'.due = {}
      BY <1>3, <1>4, <2>5 DEF WorkerType
    <3>2. r \in Occurrences
      BY <1>4, MapDomain DEF WorkerType
    <3>3. runs[r] \in Run
      BY <1>4, <3>2
    <3>4. Cancelled(runs[r], r \in worker.timers).state = "Cancelled"
      BY <3>3, CancelledTimer
    <3>5. \A p \in Occurrences :
            runs'[p] = IF p = r THEN Cancelled(runs[r], r \in worker.timers) ELSE runs[p]
      BY <2>5, <3>2, RunReplaced
    <3>6. \A v : OpenRunsOf(v)' \subseteq OpenRunsOf(v) \ {r}
      BY <3>4, <3>5 DEF OpenRunsOf, OpenRuns, Open
    <3>7. DOMAIN worker'.open = DOMAIN worker.open \ {r}
      BY <3>1 DEF Without
    <3> QED BY <1>8, <2>2, <2>3, <3>1, <3>6, <3>7
  <2> QED BY <2>1, <2>4, <2>5
<1>12. CASE AcceptOccurrence(o)
  <2>1. CASE ~may_transition(o, "Accepted")
    <3>1. /\ occ' = occ /\ torn' = torn /\ worker' = IdleWorker /\ worker.work[o] = "Scheduled"
      BY <1>12, <2>1 DEF AcceptOccurrence, AbortPass, Due, Undecided
    <3>2. Unfinished = {}
      BY <1>5, <3>1
    <3> QED BY <1>8, <3>1, <3>2
  <2> QED BY <1>12, <2>1, AdmissionAccept
<1>13. CASE CreateRun(o)
  <2> DEFINE run == IF runs[o].state = "Absent"
                    THEN [NoRun EXCEPT !.state = "Pending", !.created = worker.now]
                    ELSE runs[o]
             known == worker.open
             open == IF run.state \in Open /\ o \notin DOMAIN known
                     THEN [r \in DOMAIN known \cup {o} |->
                             IF r = o THEN run.rev ELSE known[r]]
                     ELSE known
  <2>1. /\ occ' = occ /\ torn' = torn
        /\ runs' = [runs EXCEPT ![o] = run]
        /\ worker' = [NextOccurrence(o) EXCEPT !.open = open]
    BY <1>13 DEF CreateRun
  <2>2. run.state # "Absent"
    BY DEF NoRun
  <2>3. DOMAIN known \subseteq DOMAIN open /\ (run.state \in Open => o \in DOMAIN open)
    OBVIOUS
  <2> HIDE DEF run, open
  <2>4. \A p \in Occurrences : runs'[p] = IF p = o THEN run ELSE runs[p]
    BY <2>1, RunReplaced
  <2>5. /\ worker'.active = worker.active /\ worker'.count = worker.count
        /\ worker'.open = open /\ worker'.cur = None
    BY <1>6, <1>7, <2>1 DEF WorkerType
  <2>6. \A v : OpenRunsOf(v)' \subseteq OpenRunsOf(v) \cup {p \in {o} : run.state \in Open}
    BY <2>4 DEF OpenRunsOf, OpenRuns
  <2>7. Unfinished = {} \/ (Unfinished = {o} /\ runs'[o].state # "Absent")
    BY <1>5, <2>2, <2>4
  <2> QED BY <1>8, <2>1, <2>3, <2>5, <2>6, <2>7
<1> QED BY <1>1, <1>9, <1>10, <1>11, <1>12, <1>13

\* A pass that loads its pages knows every open run of its version.
LEMMA AdmissionLoad ==
  ASSUME TInv, QueueInv, AdmissionInv, RunsFitPage, LoadRecovery
  PROVE  AdmissionInv'
<1>1. PICK W \in OccurrencePages, R \in RunPages, T \in TimerPages : Loaded(W, R, T)
  BY LoadedPages
<1>2. occ' = occ /\ runs' = runs /\ torn' = torn /\ worker.pc = "Load"
  BY DEF LoadRecovery
<1>3. R = OpenRuns
  <2>1. R \in Pages(OpenRuns)
    BY DEF RunPages
  <2> QED BY <2>1, PageIsAll DEF RunsFitPage
<1>4. worker'.cur = None /\ Unfinished = {} /\ Unfinished' = {}
  <2>1. worker.cur = None /\ worker'.cur = None
    BY <1>1, <1>2 DEF QueueInv, Loaded
  <2> QED BY <2>1 DEF Unfinished, BetweenAcceptanceAndRun
<1>5. \A v : Live(v)' = Live(v) /\ Owed(v)' = Owed(v) /\ OpenRunsOf(v)' = OpenRunsOf(v)
  BY <1>2 DEF Live, Owed, OpenRunsOf, OpenRuns
<1>6. ASSUME NEW v \in Versions
      PROVE  /\ Cardinality(Live(v)') <= Capacity(v) + torn'
             /\ Cardinality(Owed(v)' \ Unfinished') <= torn'
  BY <1>2, <1>4, <1>5 DEF AdmissionInv
<1>7. ASSUME NEW v \in Versions, v = worker'.active
      PROVE  PassBound(v)'
  <2>1. v = worker.active
    BY <1>1, <1>7 DEF Loaded
  <2>2. {o \in R : VersionOf(o) = worker.active} = OpenRunsOf(v)
    BY <1>3, <2>1 DEF OpenRunsOf
  <2>3. worker'.count = Cardinality(OpenRunsOf(v)) /\ DOMAIN worker'.open = OpenRunsOf(v)
    BY <1>1, <2>2 DEF Loaded
  <2>4. Cardinality(Owed(v)) <= torn
    <3>1. Owed(v) \ Unfinished = Owed(v)
      BY <1>4
    <3> QED BY <3>1 DEF AdmissionInv
  <2>5. Cardinality(Live(v)) <= Cardinality(OpenRunsOf(v)) + Cardinality(Owed(v))
    BY LiveRows, RowUnions DEF Live
  <2>6. /\ Cardinality(Live(v)) \in Nat /\ Cardinality(OpenRunsOf(v)) \in Nat
        /\ Cardinality(Owed(v)) \in Nat /\ torn \in Nat
    BY LiveRows, RowSets DEF TInv, DurableType
  <2>7. Cardinality(Live(v)) <= Cardinality(OpenRunsOf(v)) + torn
    BY <2>4, <2>5, <2>6
  <2> QED BY <1>2, <1>5, <2>3, <2>7 DEF PassBound
<1> QED BY <1>4, <1>6, <1>7 DEF AdmissionInv, Capacity

\* An interrupted pass owes at most the run it was about to create.
LEMMA AdmissionInterrupted ==
  ASSUME TInv, AdmissionInv, RunsKept, Interrupted, occ' = occ
  PROVE  AdmissionInv'
<1>1. torn \in Nat /\ torn' = (IF BetweenAcceptanceAndRun THEN torn + 1 ELSE torn)
      /\ worker' = IdleWorker
  BY DEF TInv, DurableType, Interrupted
<1>2. Unfinished' = {} /\ worker'.pc # "Recovery"
  BY <1>1 DEF Unfinished, BetweenAcceptanceAndRun, IdleWorker
<1>3. ASSUME NEW v \in Versions
      PROVE  Cardinality((Owed(v) \ Unfinished)') <= torn'
  <2>1. Owed(v)' \subseteq Owed(v)
    <3>1. Owed(v)' \subseteq Owed(v) \cup {}
      BY LiveStep
    <3> QED BY <3>1
  <2>2. (Owed(v) \ Unfinished)' \subseteq Owed(v)
    BY <2>1
  <2>3. Owed(v) \in SUBSET Occurrences /\ Owed(v) \ Unfinished \in SUBSET Occurrences
    BY LiveRows
  <2>4. /\ Cardinality((Owed(v) \ Unfinished)') <= Cardinality(Owed(v))
        /\ Cardinality((Owed(v) \ Unfinished)') \in Nat /\ Cardinality(Owed(v)) \in Nat
    BY <2>2, <2>3, RowSets
  <2>5. Cardinality(Owed(v) \ Unfinished) <= torn /\ Cardinality(Owed(v) \ Unfinished) \in Nat
    BY <2>3, RowSets DEF AdmissionInv
  <2>6. CASE BetweenAcceptanceAndRun
    <3>1. Unfinished = {worker.cur}
      BY <2>6 DEF Unfinished
    <3>2. Cardinality((Owed(v) \ Unfinished) \cup {worker.cur}) <= torn + 1
      <4>1. Cardinality((Owed(v) \ Unfinished) \cup {worker.cur})
              <= Cardinality(Owed(v) \ Unfinished) + 1
        BY <2>3, RowSets
      <4>2. (Owed(v) \ Unfinished) \cup {worker.cur} \in SUBSET Occurrences
        BY <2>3, <2>6 DEF TInv, WorkerType, BetweenAcceptanceAndRun
      <4>3. Cardinality((Owed(v) \ Unfinished) \cup {worker.cur}) \in Nat
        BY <4>2, RowSets
      <4> QED BY <1>1, <2>5, <4>1, <4>3
    <3>3. (Owed(v) \ Unfinished)' \in SUBSET ((Owed(v) \ Unfinished) \cup {worker.cur})
      BY <2>2, <3>1
    <3>4. (Owed(v) \ Unfinished) \cup {worker.cur} \in SUBSET Occurrences
      BY <2>3, <2>6 DEF TInv, WorkerType, BetweenAcceptanceAndRun
    <3>5. /\ Cardinality((Owed(v) \ Unfinished)')
               <= Cardinality((Owed(v) \ Unfinished) \cup {worker.cur})
          /\ Cardinality((Owed(v) \ Unfinished) \cup {worker.cur}) \in Nat
      BY <3>3, <3>4, RowSets
    <3> QED BY <1>1, <2>4, <2>6, <3>2, <3>5
  <2>7. CASE ~BetweenAcceptanceAndRun
    <3>1. Owed(v) \ Unfinished = Owed(v)
      BY <2>7 DEF Unfinished
    <3> QED BY <1>1, <2>4, <2>5, <2>7, <3>1
  <2> QED BY <2>6, <2>7
<1>4. torn' \in Nat /\ torn <= torn'
  BY <1>1
<1> QED BY <1>2, <1>3, <1>4, AdmissionKept

\* Every step keeps the run modes.
LEMMA AdmissionNext ==
  ASSUME TInv, SInv, QueueInv, AdmissionInv, RunsFitPage, [Next]_vars
  PROVE  AdmissionInv'
<1>1. worker \in WorkerType /\ torn \in Nat
  BY DEF TInv, DurableType
<1>2. RunsKept
  BY RunsStep
<1>3. ASSUME ~ProcessOccurrence
      PROVE  \A p \in Occurrences : occ'[p].state = "Accepted" => occ[p].state = "Accepted"
  BY <1>3, AcceptsOnly DEF ProcessOccurrence
<1>4. ASSUME ~ProcessOccurrence, torn' = torn, Unfinished = {} \/ Unfinished' = Unfinished,
             worker'.pc = "Recovery" =>
               /\ worker.pc = "Recovery" /\ worker'.active = worker.active
               /\ worker'.count = worker.count /\ worker'.open = worker.open
               /\ worker'.cur # None =>
                    worker'.due = {} /\ VersionOf(worker'.cur) = worker.active,
             worker'.pc = "Recovery" => \A v : OpenRunsOf(v)' \subseteq OpenRunsOf(v)
      PROVE  AdmissionInv'
  <2>1. \A p \in Occurrences : occ'[p].state = "Accepted" => occ[p].state = "Accepted"
    BY <1>3, <1>4
  <2>2. \A v \in Versions : Cardinality((Owed(v) \ Unfinished)') <= torn'
    BY <1>2, <1>4, <2>1, OwedKept
  <2>3. torn' \in Nat /\ torn <= torn'
    BY <1>1, <1>4
  <2>4. worker'.pc = "Recovery" =>
          \A v \in Versions : v = worker.active /\ OpenRunsOf(v) \subseteq DOMAIN worker.open
                                => OpenRunsOf(v)' \subseteq DOMAIN worker'.open
    BY <1>4
  <2> QED BY <1>2, <1>4, <2>1, <2>2, <2>3, <2>4, AdmissionKept
<1>5. ASSUME worker'.pc # "Recovery", worker.pc # "Recovery", torn' = torn, ~ProcessOccurrence
      PROVE  AdmissionInv'
  <2>1. Unfinished = {}
    BY <1>5 DEF Unfinished, BetweenAcceptanceAndRun
  <2> QED BY <1>4, <1>5, <2>1
<1>6. CASE ProcessOccurrence
  BY <1>2, <1>6, AdmissionProcess
<1>7. CASE LoadRecovery
  BY <1>7, AdmissionLoad
<1>8. CASE PassFails \/ Crash
  BY <1>2, <1>8, AdmissionInterrupted DEF PassFails, Crash
<1>9. CASE BeginPass
  <2>1. worker.pc = "Idle" /\ worker'.pc = "Events" /\ torn' = torn
    BY <1>9, IdleWorkerType DEF BeginPass, WorkerType
  <2>2. ~ProcessOccurrence
    BY <2>1, LoopKeeps
  <2> QED BY <1>5, <2>1, <2>2
<1>10. CASE MaterializeEvent \/ AdvanceCursor \/ LoadSchedules \/ MaterializeSchedule \/ ReadClock
  <2>1. /\ worker.pc \in {"Events", "Checkpoint", "Schedules"}
        /\ worker'.pc \in {"Events", "Checkpoint", "Schedules", "Load"}
        /\ torn' = torn
    BY <1>1, <1>10 DEF MaterializeEvent, AdvanceCursor, LoadSchedules, MaterializeSchedule,
                       ReadClock, WorkerType
  <2>2. ~ProcessOccurrence
    BY <2>1, LoopKeeps
  <2> QED BY <1>5, <2>1, <2>2
<1>11. CASE (\E o \in Occurrences : ReadRun(o)) \/ StepRun \/ EndPass
  <2>1. /\ worker.pc \in {"Runs", "Step"}
        /\ worker'.pc \in {"Runs", "Step", "Idle"}
        /\ torn' = torn
    <3>1. CASE (\E o \in Occurrences : ReadRun(o)) \/ StepRun
      BY <1>1, <3>1 DEF ReadRun, StepRun, WorkerType
    <3>2. CASE EndPass
      BY <3>2 DEF EndPass, IdleWorker
    <3> QED BY <1>11, <3>1, <3>2
  <2>2. ~ProcessOccurrence
    BY <2>1, LoopKeeps
  <2> QED BY <1>5, <2>1, <2>2
<1>12. CASE ReloadRuns /\ ~ProcessOccurrence
  <2>1. worker'.pc = "Runs" /\ torn' = torn /\ DOMAIN worker.work = {}
    BY <1>12, IdleWorkerType DEF ReloadRuns, WorkerType
  <2>2. Unfinished = {}
    BY <2>1 DEF Unfinished, BetweenAcceptanceAndRun
  <2> QED BY <1>4, <1>12, <2>1, <2>2
<1>13. CASE ReadyTimer /\ ~ProcessOccurrence
  <2>1. worker.pc = "Recovery" /\ worker.due # {} /\ torn' = torn
    BY <1>13 DEF ReadyTimer
  <2>2. worker.cur = None
    BY <2>1 DEF AdmissionInv
  <2>3. Unfinished = {}
    BY <2>2 DEF Unfinished, BetweenAcceptanceAndRun
  <2>4. PICK o \in worker.due :
          \/ worker' = IdleWorker
          \/ /\ worker' = [worker EXCEPT !.due = @ \ {o}]
             /\ runs' = [runs EXCEPT ![o].timer = "Ready"]
    BY <1>13 DEF ReadyTimer, AbortPass
  <2>5. CASE worker' = IdleWorker
    BY <1>4, <1>13, <2>1, <2>3, <2>5 DEF IdleWorker
  <2>6. CASE /\ worker' = [worker EXCEPT !.due = @ \ {o}]
             /\ runs' = [runs EXCEPT ![o].timer = "Ready"]
    <3>1. /\ worker'.active = worker.active /\ worker'.count = worker.count
          /\ worker'.open = worker.open /\ worker'.cur = None
      BY <1>1, <2>2, <2>6 DEF WorkerType
    <3>2. runs \in [Occurrences -> Run]
      BY DEF TInv, DurableType
    <3>3. \A p \in Occurrences : runs'[p].state = runs[p].state
      BY <2>6, <3>2 DEF Run
    <3>4. \A v : OpenRunsOf(v)' \subseteq OpenRunsOf(v)
      BY <3>3 DEF OpenRunsOf, OpenRuns
    <3> QED BY <1>4, <1>13, <2>1, <2>3, <3>1, <3>4
  <2> QED BY <2>4, <2>5, <2>6
<1>14. CASE worker' = worker /\ torn' = torn /\ ~ProcessOccurrence /\ ~LoadRecovery
  <2>1. Unfinished' = Unfinished
    BY <1>14 DEF Unfinished, BetweenAcceptanceAndRun
  <2>2. \/ runs' = runs \/ StepRun \/ ReadyTimer
        \/ \E o \in Occurrences : CancelRun(o)
    BY <1>14, RunWriters
  <2>3. CASE runs' = runs \/ \E o \in Occurrences : CancelRun(o)
    <3>1. \A v : OpenRunsOf(v)' \subseteq OpenRunsOf(v)
      <4>1. CASE runs' = runs
        BY <4>1 DEF OpenRunsOf, OpenRuns
      <4>2. CASE \E o \in Occurrences : CancelRun(o)
        <5>1. PICK o \in Occurrences, T \in TimerPages :
                runs' = [runs EXCEPT ![o] = Cancelled(runs[o], o \in T)]
          BY <4>2 DEF CancelRun
        <5>2. Cancelled(runs[o], o \in T).state = "Cancelled"
          BY CancelledTimer DEF TInv, DurableType
        <5>3. \A p \in Occurrences : runs'[p] = IF p = o THEN Cancelled(runs[o], o \in T)
                                                ELSE runs[p]
          BY <5>1, RunReplaced
        <5> QED BY <5>2, <5>3 DEF OpenRunsOf, OpenRuns, Open
      <4> QED BY <2>3, <4>1, <4>2
    <3>2. worker.pc = "Recovery" /\ worker.cur # None =>
            worker.due = {} /\ VersionOf(worker.cur) = worker.active
      BY DEF AdmissionInv
    <3> QED BY <1>4, <1>14, <2>1, <3>1, <3>2
  <2>4. ~StepRun /\ ~ReadyTimer
    <3>1. ASSUME StepRun PROVE FALSE
      <4>1. worker'.pc = "Runs" /\ worker.pc = "Step"
        BY <1>1, <3>1 DEF StepRun, WorkerType
      <4> QED BY <1>14, <4>1
    <3>2. ASSUME ReadyTimer PROVE FALSE
      <4>1. PICK o \in worker.due : worker' = IdleWorker \/ worker'.due = worker.due \ {o}
        BY <1>1, <3>2 DEF ReadyTimer, AbortPass, WorkerType
      <4>2. worker.pc = "Recovery"
        BY <3>2 DEF ReadyTimer
      <4> QED BY <1>14, <4>1, <4>2 DEF IdleWorker
    <3> QED BY <3>1, <3>2
  <2> QED BY <2>2, <2>3, <2>4
<1>15. WorkerStep \/ PassFails \/ Crash \/ (worker' = worker /\ torn' = torn)
  BY DEF Next, CatchUpStep, LoadMissed, RecordMissed, CreateCatchUp, PrepareCatchUp,
         Activate, Disable, Retire, CancelRun, EmitEvent, Tick, engine_vars, vars
<1> QED BY <1>6, <1>7, <1>8, <1>9, <1>10, <1>11, <1>12, <1>13, <1>14, <1>15 DEF WorkerStep

\* For any modes, schedules and interleaving, the open runs of a version exceed
\* its run mode by at most one for each pass that was interrupted between an
\* acceptance and its run (admission, process_recovery), as long as the open
\* runs fit the page the pass counts them from (LIMIT 1000).
THEOREM OnlyTornPassesOverAdmit == Spec /\ []RunsFitPage => []OverAdmissionIsTorn
<1>1. Init => TInv /\ SInv /\ QueueInv /\ AdmissionInv
  <2> SUFFICES ASSUME Init PROVE TInv /\ SInv /\ QueueInv /\ AdmissionInv
    OBVIOUS
  <2>1. TInv /\ SInv /\ QueueInv
    BY TypeInit, SafetyInit DEF Init, QueueInv, IdleWorker
  <2>2. \A v : Live(v) = {} /\ Owed(v) = {}
    BY DEF Init, Live, Owed, OpenRunsOf, OpenRuns, NoRun, Open
  <2>3. \A v : Owed(v) \ Unfinished = {}
    BY <2>2
  <2>4. \A v : Cardinality(Live(v)) = 0 /\ Cardinality(Owed(v) \ Unfinished) = 0
    BY <2>2, <2>3, FS_EmptySet
  <2>5. torn = 0 /\ worker.pc # "Recovery"
    BY DEF Init, IdleWorker
  <2>6. \A v \in Versions : Capacity(v) \in Nat
    BY ModeAssumption DEF Capacity
  <2> QED BY <2>1, <2>4, <2>5, <2>6 DEF AdmissionInv
<1>2. TInv /\ SInv /\ QueueInv /\ AdmissionInv /\ RunsFitPage /\ [Next]_vars
        => (TInv /\ SInv /\ QueueInv /\ AdmissionInv)'
  BY TypeNext, SafetyNext, QueueStep, AdmissionNext
<1>3. TInv /\ SInv /\ QueueInv /\ AdmissionInv => OverAdmissionIsTorn
  <2> SUFFICES ASSUME TInv, AdmissionInv, NEW v \in Versions
               PROVE  Cardinality(OpenRunsOf(v)) <= Capacity(v) + torn
    BY DEF OverAdmissionIsTorn
  <2>1. OpenRunsOf(v) \in SUBSET Live(v)
    BY DEF Live
  <2>2. /\ Cardinality(OpenRunsOf(v)) <= Cardinality(Live(v))
        /\ Cardinality(OpenRunsOf(v)) \in Nat /\ Cardinality(Live(v)) \in Nat
    BY <2>1, LiveRows, RowSets
  <2>3. Cardinality(Live(v)) <= Capacity(v) + torn /\ Capacity(v) \in Nat /\ torn \in Nat
    BY ModeAssumption DEF AdmissionInv, Capacity, TInv, DurableType
  <2> QED BY <2>2, <2>3
<1> QED BY <1>1, <1>2, <1>3, PTL DEF Spec

=============================================================================
