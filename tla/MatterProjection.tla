--------------------------- MODULE MatterProjection ---------------------------
(***************************************************************************)
(* The projection of one commissioned Matter node into common state: the   *)
(* rule that selects the capability, the ordering of attribute reports,    *)
(* desired and reported state with their convergence, the command adapter  *)
(* that invokes the controller and confirms by a bounded read, and the     *)
(* repair of a lost subscription (gap read, resubscription under a budget  *)
(* with persisted retry deadlines).                                        *)
(*                                                                         *)
(* Command flows and the worker that runs repairs share the projection row *)
(* and hold copies of it across controller calls; its revision orders      *)
(* their writes.  The steps of a command before its dispatch are those of  *)
(* Commands, here one transaction each.  No code of the daemon consumes    *)
(* the controller's report events: a projection moves only by reads.       *)
(***************************************************************************)
EXTENDS Naturals, Sequences, FiniteSets

CONSTANTS
    Descriptors,    \* node descriptors: device types, attributes, commands
    Cmds,           \* commands to the node's capability
    Loads,          \* bounds of a behaviour: commands, repairs, faults, ticks
    MaxAttempts,    \* maximum_subscribe_attempts
    BaseDelay,      \* base_delay_millis
    MaxDelay,       \* maximum_delay_millis
    JitterRange,    \* jitter_millis
    VersionModulus  \* 2^32, the width of a data version

ASSUME RecoveryPolicy ==
    /\ {MaxAttempts, BaseDelay, MaxDelay, JitterRange} \subseteq Nat
    /\ MaxAttempts > 0 /\ BaseDelay > 0
    /\ MaxDelay >= BaseDelay /\ JitterRange <= MaxDelay
    /\ VersionModulus \in Nat /\ VersionModulus > 1
    /\ Loads \subseteq [commands : Nat, repairs : Nat, faults : Nat, ticks : Nat]

VARIABLES
    node,       \* the descriptor of the node
    dev,        \* the device behind the controller: raw value, version, sequence
    attached,   \* whether the controller holds the subscription
    proj,       \* matter_projections: the node's row
    slot,       \* matter_desired_slots: the row of the projection
    sub,        \* matter_subscriptions: the node's row
    ops,        \* repair operations, in order of admission
    records,    \* repair operations with an open repair record
    flow,       \* command -> where its execution stands
    wk,         \* the worker that runs repairs
    epoch,      \* history: gaps begun
    calls,      \* history: subscribe calls since the last gap began
    now,        \* the clock
    load        \* what the environment may still do

store == <<proj, slot, sub, ops, records>>
vars == <<node, dev, attached, store, flow, wk, epoch, calls, now, load>>

None == "none"

----------------------------------------------------------------------------
(* Rules: from a descriptor to a capability.                               *)

Light == {"on_off_light", "dimmable_light"}
Lock == {"door_lock"}

has_device_type(d, eligible) == d.types \cap eligible # {}

eligible_server_cluster(d, cluster, attributes, commands) ==
    /\ d.cluster = cluster
    /\ attributes \subseteq d.attributes /\ commands \subseteq d.commands

project_on_off(d) ==
    /\ has_device_type(d, Light)
    /\ eligible_server_cluster(d, "on_off", {"on_off"}, {"off", "on"})

project_access_control(d) ==
    /\ has_device_type(d, Lock)
    /\ eligible_server_cluster(d, "door_lock", {"lock_state"}, {"lock", "unlock"})

\* The capabilities of a node; level and position rules stay disabled.
project_matter_node(d) ==
    {s \in {"on_off.v1", "access_control.v1"} :
        \/ s = "on_off.v1" /\ project_on_off(d)
        \/ s = "access_control.v1" /\ project_access_control(d)}

Rule == CHOOSE s \in project_matter_node(node) : TRUE

\* Common values a command of each capability asks for.
expected_state(rule) == IF rule = "on_off.v1" THEN {"on", "off"} ELSE {"locked", "unlocked"}

\* mutate_for_invoke: the attribute the simulator writes for a value.
mutate_for_invoke(value) ==
    CASE value = "on" -> 1 [] value = "off" -> 0
      [] value = "locked" -> 1 [] value = "unlocked" -> 2

\* map_report_value: the common value an attribute is projected to.
map_report_value(rule, raw) ==
    IF rule = "on_off.v1" THEN (IF raw = 1 THEN "on" ELSE "off")
    ELSE CASE raw = 1 -> "not_fully_locked" [] raw = 2 -> "unlocked"
           [] raw = 3 -> "locked" [] OTHER -> "unknown"

----------------------------------------------------------------------------
(* Reports and projected state.                                            *)

\* MatterProjectedState::new: what a stored state must satisfy.
ValidState(s) ==
    /\ s.confirmed <= s.desired.revision
    /\ s.convergence = "confirmed" => s.confirmed = s.desired.revision
    /\ s.convergence = "no_desired" => s.desired.revision = 0

NoDesired == [revision |-> 0, value |-> None]
NoRow == [revision |-> 0]
NoReport == [value |-> None, version |-> 0, seq |-> 0, at |-> 0, epoch |-> 0]

\* Mutant: the distance is taken from the report to what is stored.
data_version_swapped(current, version, value) ==
    IF version = current.version THEN value = current.value
    ELSE (current.version + VersionModulus - version) % VersionModulus
            < VersionModulus \div 2

\* data_version_advances: an equal version keeps the value, a later one is
\* less than half the range ahead.
data_version_advances(current, version, value) ==
    IF version = current.version THEN value = current.value
    ELSE (version + VersionModulus - current.version) % VersionModulus
            < VersionModulus \div 2

\* normalize_matter_report against the reported state a caller holds.  The
\* simulator's reports always carry a data version.
normalize_matter_report(current, report, at) ==
    CASE report.at > at -> "rejected"
      [] report.at <= at /\ current.value = None -> "applied"
      [] OTHER ->
           IF report.seq < current.seq THEN "rejected"
           ELSE IF report.seq = current.seq
                  THEN IF report.value = current.value /\ report.version = current.version
                         THEN "duplicate" ELSE "rejected"
                  ELSE IF data_version_advances(current, report.version, report.value)
                         THEN "applied" ELSE "rejected"

\* Mutant: only what was confirmed becomes stale.
mark_stale_unconfirmed_kept(state, why) ==
    IF state.convergence = "confirmed"
      THEN [state EXCEPT !.freshness = "stale", !.uncertainty = why, !.convergence = "pending"]
      ELSE state

\* mark_matter_projection_stale: what was confirmed is pending again.
mark_matter_projection_stale(state, why) ==
    [state EXCEPT !.freshness = "stale", !.uncertainty = why,
                  !.convergence = IF @ = "confirmed" /\ state.desired.revision > 0
                                    THEN "pending" ELSE @]

\* advance_matter_projected_state: an accepted report makes the state fresh;
\* it confirms only the desired revision it is causally bound to.
advance_matter_projected_state(state, reported, cause) ==
    LET matches == state.desired.value = reported.value
        bound == matches /\ cause = state.desired.revision
    IN  [state EXCEPT
           !.reported = reported, !.freshness = "fresh", !.uncertainty = None,
           !.confirmed = CASE state.desired.revision = 0 -> 0
                           [] state.desired.revision > 0 /\ bound -> state.desired.revision
                           [] OTHER -> @,
           !.convergence = CASE state.desired.revision = 0 -> "no_desired"
                             [] state.desired.revision > 0 /\ bound -> "confirmed"
                             [] state.desired.revision > 0 /\ matches /\ ~bound -> "pending"
                             [] OTHER -> "diverged"]

\* advance_matter_desired_state: a new desired revision is pending.
advance_matter_desired_state(state, revision, value) ==
    [state EXCEPT !.desired = [revision |-> revision, value |-> value],
                  !.convergence = "pending"]

\* The state after a report, by the decision about it.  A duplicate confirms
\* what is stored; a rejected report changes nothing.
Applied(state, report, cause, at) ==
    CASE normalize_matter_report(state.reported, report, at) = "applied" ->
           advance_matter_projected_state(state, report, cause)
      [] normalize_matter_report(state.reported, report, at) = "duplicate" ->
           advance_matter_projected_state(state, [state.reported EXCEPT !.epoch = report.epoch],
                                          cause)
      [] OTHER -> state

\* The simulator's read: the attribute under the current sequence.
read ==
    [value |-> map_report_value(Rule, dev.raw), version |-> dev.version, seq |-> dev.seq,
     at |-> now, epoch |-> epoch]

\* Mutant: the row is written over whatever was stored since it was read.
store_unchecked(copy) == TRUE

\* store_projection: the revision the writer read must still be stored.
store_projection(copy) == proj.revision = copy.revision

Stored(state, copy) == [state |-> state, revision |-> copy.revision + 1]

----------------------------------------------------------------------------
(* Commands.                                                               *)

Fault == load.faults > 0 /\ load' = [load EXCEPT !.faults = @ - 1]

IdleFlow == [pc |-> "idle", value |-> None, received |-> 0, copy |-> NoRow,
             report |-> NoReport, wrote |-> 0]

FlowOnly == UNCHANGED <<node, attached, sub, ops, records, wk, epoch, calls, now>>

\* register_desired: a new revision in slot and projection, one transaction
\* that is retried when it conflicts.  A prior command that cannot be cancelled
\* makes it fail (Commands); here every registration succeeds.
register_desired(c, value) ==
    /\ flow[c].pc = "idle" /\ load.commands > 0
    /\ value \in expected_state(Rule)
    /\ slot' = [revision |-> slot.revision + 1, cmd |-> c, dispatched |-> FALSE]
    /\ proj' = Stored(advance_matter_desired_state(proj.state, slot.revision + 1, value), proj)
    /\ flow' = [flow EXCEPT ![c] = [IdleFlow EXCEPT !.pc = "registered", !.value = value,
                                                    !.received = now]]
    /\ load' = [load EXCEPT !.commands = @ - 1]
    /\ FlowOnly /\ UNCHANGED dev

\* commit_dispatch: only the latest desired command is dispatched.
commit_dispatch(c) ==
    /\ flow[c].pc = "registered"
    /\ IF slot.cmd = c
         THEN /\ slot' = [slot EXCEPT !.dispatched = TRUE]
              /\ flow' = [flow EXCEPT ![c].pc = "dispatching"]
         ELSE flow' = [flow EXCEPT ![c].pc = "failed"] /\ UNCHANGED slot
    /\ FlowOnly /\ UNCHANGED <<dev, proj, load>>

\* MatterCommandAdapter::dispatch: the slot is read again before the call.
dispatch(c) ==
    /\ flow[c].pc = "dispatching"
    /\ flow' = [flow EXCEPT ![c].pc = IF slot.cmd = c /\ slot.dispatched
                                        THEN "invoking" ELSE "failed"]
    /\ FlowOnly /\ UNCHANGED <<dev, proj, slot, load>>

\* invoke changes the attribute under the next sequence and data version, by
\* now perhaps for a superseded command; a version that would overflow is an
\* error, it never wraps.
invoke(c) ==
    /\ flow[c].pc = "invoking"
    /\ IF dev.version < VersionModulus - 1
         THEN /\ dev' = [raw |-> mutate_for_invoke(flow[c].value),
                         version |-> dev.version + 1, seq |-> dev.seq + 1]
              /\ flow' = [flow EXCEPT ![c].pc = "acknowledged", ![c].wrote = dev.seq + 1]
         ELSE flow' = [flow EXCEPT ![c].pc = "failed"] /\ UNCHANGED dev
    /\ FlowOnly /\ UNCHANGED <<proj, slot, load>>

dispatch_fails(c) ==
    /\ flow[c].pc \in {"dispatching", "invoking"}
    /\ Fault
    /\ flow' = [flow EXCEPT ![c].pc = "failed"]
    /\ FlowOnly /\ UNCHANGED <<dev, proj, slot>>

\* confirm: a fresh report since the command was received is enough.
confirm(c) ==
    LET r == proj.state.reported IN
    /\ flow[c].pc = "acknowledged"
    /\ flow' = IF /\ proj.state.freshness = "fresh"
                  /\ r.at >= flow[c].received /\ r.value = flow[c].value
                 THEN [flow EXCEPT ![c].pc = "confirmed"]
                 ELSE [flow EXCEPT ![c].pc = "reading", ![c].copy = proj]
    /\ FlowOnly /\ UNCHANGED <<dev, proj, slot, load>>

\* The read fallback of confirm, outside any transaction.
confirm_read(c) ==
    /\ flow[c].pc = "reading"
    /\ flow' = [flow EXCEPT ![c].pc = "storing", ![c].report = read]
    /\ FlowOnly /\ UNCHANGED <<dev, proj, slot, load>>

confirm_read_fails(c) ==
    /\ flow[c].pc = "reading"
    /\ Fault
    /\ flow' = [flow EXCEPT ![c] = [@ EXCEPT !.pc = "failed", !.copy = NoRow]]
    /\ FlowOnly /\ UNCHANGED <<dev, proj, slot>>

\* The report is normalised against the copy and stored under its revision; a
\* conflict is the repository's error, and confirm may be asked again.
confirm_store(c) ==
    LET f == flow[c]
        cause == IF slot.cmd = c THEN slot.revision ELSE 0
        next == Applied(f.copy.state, f.report, cause, now)
        Ends(pc) == flow' = [flow EXCEPT ![c] = [@ EXCEPT !.pc = pc, !.copy = NoRow,
                                                          !.report = NoReport]]
    IN
    /\ f.pc = "storing"
    /\ IF normalize_matter_report(f.copy.state.reported, f.report, now) = "rejected"
         THEN Ends("mismatch") /\ UNCHANGED proj
         ELSE IF ~store_projection(f.copy)
                THEN Ends("acknowledged") /\ UNCHANGED proj
                ELSE /\ proj' = Stored(next, f.copy)
                     /\ Ends(IF next.reported.at >= f.received /\ next.reported.value = f.value
                               THEN "confirmed"
                               ELSE "mismatch")
    /\ FlowOnly /\ UNCHANGED <<dev, slot, load>>

----------------------------------------------------------------------------
(* Subscription repair.                                                    *)

is_terminal(p) == p \in {"completed", "repair_required"}

valid_subscription_transition(from, to) ==
    \/ <<from, to>> \in {<<"requested", "reading_gap">>, <<"reading_gap", "subscribing">>,
                         <<"subscribing", "completed">>}
    \/ to = "repair_required" /\ ~is_terminal(from)

Free == [pc |-> "idle", op |-> 0, copy |-> NoRow, report |-> NoReport]

WorkerOnly == UNCHANGED <<node, dev, slot, flow, now>>

\* start: the node has a durable subscription, so the operation is admitted.
start ==
    /\ load.repairs > 0 /\ load' = [load EXCEPT !.repairs = @ - 1]
    /\ ops' = Append(ops, "requested")
    /\ UNCHANGED <<node, dev, attached, proj, slot, sub, records, flow, wk, epoch, calls, now>>

\* Mutant: a reserved attempt found after a restart is dispatched again.
run_again(i) ==
    /\ wk.pc = "idle"
    /\ ~is_terminal(ops[i])
    /\ wk' = [Free EXCEPT !.op = i,
                          !.pc = CASE ops[i] = "requested" -> "begin"
                                   [] ops[i] = "reading_gap" -> "ambiguous"
                                   [] OTHER -> IF sub.retryAt > 0 THEN "retry" ELSE "call"]
    /\ WorkerOnly /\ UNCHANGED <<attached, proj, sub, ops, records, epoch, calls, load>>

\* run: where the durable phase lets the work go on.  What may have been
\* dispatched without a durable outcome is ambiguous.
run(i) ==
    /\ wk.pc = "idle"
    /\ ~is_terminal(ops[i])
    /\ wk' = [Free EXCEPT !.op = i,
                          !.pc = CASE ops[i] = "requested" -> "begin"
                                   [] ops[i] = "reading_gap" -> "ambiguous"
                                   [] OTHER -> IF sub.retryAt > 0 THEN "retry"
                                               ELSE "ambiguous"]
    /\ WorkerOnly /\ UNCHANGED <<attached, proj, sub, ops, records, epoch, calls, load>>

\* inventory: the row as begin_gap and read_gap find it.
inventory ==
    /\ wk.pc \in {"begin", "gap"} /\ wk.copy = NoRow
    /\ wk' = [wk EXCEPT !.copy = proj]
    /\ WorkerOnly /\ UNCHANGED <<attached, proj, sub, ops, records, epoch, calls, load>>

\* commit_matter_subscription_repair: projection, subscription and operation
\* under the revisions read, or nothing.
commit(state, phase, subscription, pc) ==
    IF store_projection(wk.copy)
      THEN /\ proj' = Stored(state, wk.copy)
           /\ sub' = subscription
           /\ ops' = [ops EXCEPT ![wk.op] = phase]
           /\ wk' = [wk EXCEPT !.pc = pc, !.copy = NoRow, !.report = NoReport]
      ELSE wk' = Free /\ UNCHANGED <<proj, sub, ops>>

\* begin_gap: a fresh recovery budget, and what is projected is stale.
begin_gap ==
    /\ wk.pc = "begin" /\ wk.copy # NoRow
    /\ commit(mark_matter_projection_stale(wk.copy.state, "report_gap"), "reading_gap",
              [sub EXCEPT !.state = "repair_required", !.gapReads = 1, !.attempts = 0,
                          !.retryAt = 0], "gap")
    /\ IF wk'.pc = "gap" THEN epoch' = epoch + 1 /\ calls' = 0 ELSE UNCHANGED <<epoch, calls>>
    /\ WorkerOnly /\ UNCHANGED <<attached, records, load>>

\* read_gap: one bounded read, or none when the controller fails.
read_gap(ok) ==
    /\ wk.pc = "gap" /\ wk.copy # NoRow
    /\ wk' = [wk EXCEPT !.pc = "gap_commit", !.report = IF ok THEN read ELSE NoReport]
    /\ IF ok THEN UNCHANGED load ELSE Fault
    /\ WorkerOnly /\ UNCHANGED <<attached, proj, sub, ops, records, epoch, calls>>

\* The first subscribe attempt is reserved with the result of the read.
commit_gap ==
    /\ wk.pc = "gap_commit"
    /\ commit(IF wk.report = NoReport
                THEN mark_matter_projection_stale(wk.copy.state, "read_failed")
                ELSE Applied(wk.copy.state, wk.report, 0, now),
              "subscribing", [sub EXCEPT !.attempts = 1, !.retryAt = 0], "call")
    /\ WorkerOnly /\ UNCHANGED <<attached, records, epoch, calls, load>>

\* subscribe of a waiting operation: before its deadline it keeps waiting,
\* after it one more attempt is reserved.
reserve ==
    /\ wk.pc = "retry"
    /\ IF now < sub.retryAt
         THEN wk' = Free /\ UNCHANGED sub
         ELSE /\ sub' = [sub EXCEPT !.attempts = @ + 1, !.retryAt = 0]
              /\ wk' = [wk EXCEPT !.pc = "call"]
    /\ WorkerOnly /\ UNCHANGED <<attached, proj, ops, records, epoch, calls, load>>

subscribe(ok) ==
    /\ wk.pc = "call"
    /\ calls' = calls + 1
    /\ IF ok THEN attached' = TRUE /\ UNCHANGED load ELSE UNCHANGED attached /\ Fault
    /\ wk' = [wk EXCEPT !.pc = IF ok THEN "established" ELSE "lost"]
    /\ WorkerOnly /\ UNCHANGED <<proj, sub, ops, records, epoch>>

Close(phase, subscription) ==
    /\ valid_subscription_transition(ops[wk.op], phase)
    /\ ops' = [ops EXCEPT ![wk.op] = phase]
    /\ records' = IF phase = "repair_required" THEN records \cup {wk.op} ELSE records
    /\ sub' = subscription
    /\ wk' = Free

record_established ==
    /\ wk.pc = "established"
    /\ Close("completed", [sub EXCEPT !.state = "established", !.gapReads = 0, !.attempts = 0,
                                      !.retryAt = 0])
    /\ WorkerOnly /\ UNCHANGED <<attached, proj, epoch, calls, load>>

deterministic_jitter(attempt) == attempt % (JitterRange + 1)

\* matter_subscription_retry_at: exponential backoff with a ceiling.
matter_subscription_retry_at(attempt) ==
    LET delay == BaseDelay * 2^(attempt - 1) + deterministic_jitter(attempt)
    IN  now + (IF delay < MaxDelay THEN delay ELSE MaxDelay)

\* record_subscribe_failure: the deadline counts from the clock, which is not
\* before the instant run captured; the budget decides between waiting and repair.
record_subscribe_failure ==
    /\ wk.pc = "lost"
    /\ IF sub.attempts >= MaxAttempts
         THEN Close("repair_required", [sub EXCEPT !.state = "repair_required", !.retryAt = 0])
         ELSE /\ sub' = [sub EXCEPT !.retryAt = matter_subscription_retry_at(sub.attempts)]
              /\ wk' = Free /\ UNCHANGED <<ops, records>>
    /\ WorkerOnly /\ UNCHANGED <<attached, proj, epoch, calls, load>>

record_ambiguous_dispatch ==
    /\ wk.pc = "ambiguous"
    /\ Close("repair_required", [sub EXCEPT !.state = "repair_required", !.retryAt = 0])
    /\ WorkerOnly /\ UNCHANGED <<attached, proj, epoch, calls, load>>

----------------------------------------------------------------------------
(* Diagnostics and the environment.                                        *)

\* matter_subscription_status: what diagnostics report of the subscription.
matter_subscription_status ==
    CASE sub.state = "repair_required" -> "repair_required"
      [] sub.state = "established" -> "established"
      [] OTHER -> "stale"

Tick ==
    /\ load.ticks > 0 /\ load' = [load EXCEPT !.ticks = @ - 1]
    /\ now' = now + 1
    /\ UNCHANGED <<node, dev, attached, store, flow, wk, epoch, calls>>

\* The process dies.  A command whose dispatch may have happened is confirmed
\* by recovery without another invocation; an earlier one fails.
Crash ==
    /\ Fault
    /\ wk # Free \/ \E c \in Cmds : flow[c].pc \in {"registered", "dispatching", "invoking",
                                                  "reading", "storing"}
    /\ wk' = Free
    /\ flow' = [c \in Cmds |->
                  [flow[c] EXCEPT !.copy = NoRow, !.report = NoReport,
                                  !.pc = CASE @ = "registered" -> "failed"
                                           [] @ \in {"dispatching", "invoking", "reading",
                                                    "storing"} -> "acknowledged"
                                           [] OTHER -> @]]
    /\ UNCHANGED <<node, dev, attached, store, epoch, calls, now>>

\* lose_subscriptions: the controller forgets the subscription.
lose_subscriptions ==
    /\ attached /\ Fault
    /\ attached' = FALSE
    /\ UNCHANGED <<node, dev, store, flow, wk, epoch, calls, now>>

\* The node as commissioning left it: projected, read and subscribed.
Init ==
    /\ node \in {d \in Descriptors : project_matter_node(d) # {}}
    /\ dev = [raw |-> mutate_for_invoke(CHOOSE v \in expected_state(Rule) : v \in {"off", "unlocked"}),
              version |-> 0, seq |-> 0]
    /\ attached = TRUE
    /\ now = 1 /\ epoch = 0 /\ calls = 0 /\ load \in Loads
    /\ proj = [state |-> advance_matter_projected_state(
                            [desired |-> NoDesired, reported |-> NoReport, confirmed |-> 0,
                             freshness |-> "unknown", convergence |-> "no_desired",
                             uncertainty |-> None], read, 0),
               revision |-> 1]
    /\ slot = [revision |-> 0, cmd |-> None, dispatched |-> FALSE]
    /\ sub = [state |-> "established", gapReads |-> 0, attempts |-> 0, retryAt |-> 0]
    /\ ops = <<>> /\ records = {}
    /\ flow = [c \in Cmds |-> IdleFlow] /\ wk = Free

CommandStep ==
    \E c \in Cmds :
        \/ \E value \in expected_state(Rule) : register_desired(c, value)
        \/ commit_dispatch(c) \/ dispatch(c) \/ invoke(c) \/ dispatch_fails(c)
        \/ confirm(c) \/ confirm_read(c) \/ confirm_read_fails(c) \/ confirm_store(c)

RepairStep ==
    \/ \E i \in DOMAIN ops : run(i)
    \/ inventory \/ begin_gap \/ commit_gap \/ reserve
    \/ \E ok \in BOOLEAN : read_gap(ok) \/ subscribe(ok)
    \/ record_established \/ record_subscribe_failure \/ record_ambiguous_dispatch

Next == CommandStep \/ start \/ RepairStep \/ Tick \/ Crash \/ lose_subscriptions

Spec == Init /\ [][Next]_vars

----------------------------------------------------------------------------
(* Properties.                                                             *)

\* Whatever commands and repairs interleave, stored reports only move forward
\* in the order the device produced them: an older report never replaces a
\* newer one, and the same sequence never changes its value.
ReportsAdvance ==
    [][LET old == proj.state.reported
           new == proj'.state.reported
       IN  new.seq >= old.seq /\ (new.seq = old.seq => new.value = old.value)]_proj

\* State cached before a report gap never passes for fresh: a fresh projection
\* was read from the controller after the last gap began, although a command
\* may have read the projection before the gap and stored it after.  What is
\* confirmed is fresh and reports what was desired.
NoCachedFresh ==
    /\ proj.state.freshness = "fresh" => proj.state.reported.epoch = epoch
    /\ proj.state.convergence = "confirmed" =>
         /\ proj.state.freshness = "fresh"
         /\ proj.state.reported.value = proj.state.desired.value

\* Crashes, retries and several repairs of one subscription together never
\* ask the controller more often than the budget of one recovery cycle.
AttemptsWithinBudget == calls <= MaxAttempts

\* A command whose invocation took effect fails as a mismatch only if the
\* device was invoked again since: commands control what is projected.  The
\* lock is left out: the simulator numbers its states as the projection does
\* not, so that a lock command that took effect is always taken for a mismatch.
MismatchIsReal ==
  node.cluster = "on_off" =>
    \A c \in Cmds : flow[c].pc = "mismatch" /\ flow[c].wrote > 0 => dev.seq > flow[c].wrote
=============================================================================
