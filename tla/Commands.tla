------------------------------ MODULE Commands ------------------------------
(***************************************************************************)
(* The governed command path: CommandService over the durable command      *)
(* store, the Matter desired-state slot and the unlock authorizations.     *)
(*                                                                         *)
(* Durable state is what SQLite holds; every repository call is one        *)
(* transaction behind one connection mutex, hence one atomic step.  A call *)
(* of the service is a thread with a program counter and private copies of *)
(* what it read: the aggregate it loaded, the instant it captured as       *)
(* `now`, the slot it saw.  Between two of its steps any other call, the   *)
(* clock, a grant change, a projection report or a crash may intervene.    *)
(*                                                                         *)
(* Abstractions: a payload is its kind; one endpoint per device, so a      *)
(* device is a projection; facts the policy and the validation read that   *)
(* this module does not own (descriptors, calibration, freshness of the    *)
(* device, rate and concurrency capacity) are a nondeterministic verdict.  *)
(* The limiter itself is module CommandLimits.                             *)
(***************************************************************************)
EXTENDS Naturals, FiniteSets, Sequences

CONSTANTS
  CommandIds,             \* identities CommandId::new() may hand out
  Requests,               \* CommandRequest values with their actor
  Devices,
  Managed,                \* devices with a replaceable Matter projection
  Actors,
  Users,                  \* actors of kind User
  Calls,                  \* concurrent service calls
  Recovery,               \* the thread that runs recover at startup
  AuthIds,                \* identities of unlock authorizations
  GrantSets,              \* sets of actions replace_actor_grants may store
  RegistrationAttempts,   \* DESIRED_REGISTRATION_ATTEMPTS, 4 in the code
  RecoveryPage,           \* RECOVERY_PAGE, 256 in the code
  AuthorizationLifetime,  \* 60 seconds in the code
  MaxTime,                \* bound of the clock
  MaxCrashes,             \* bound on process crashes
  MaxFaults,              \* bound on infrastructure errors
  MaxProjectionRevision,  \* bound on projection reports
  None

Payloads == {"Toggle", "Level", "Set", "Lock", "Unlock"}

States == {"Received", "Validated", "Rejected", "Dispatched", "Acknowledged",
           "Confirmed", "Failed", "TimedOut", "Cancelled"}

Failures == {"None", "InvalidTarget", "PolicyDenied", "DeadlineExceeded",
             "SupersededBeforeDispatch", "AdapterFailure"}

Actions == {"Execute", "ApproveUnlock"}

Request == [actor : Actors, key : Nat, device : Devices, payload : Payloads,
            deadline : Nat, dryRun : BOOLEAN]

Aggregate == [id : CommandIds, req : Requests, payload : Payloads,
              state : States, version : Nat,
              policy : {"None", "Allowed", "Denied"},
              failure : Failures, updated : Nat]

Slot == [revision : Nat, command : CommandIds, dispatched : BOOLEAN]

Authorization == [command : CommandIds, device : Devices, revision : Nat,
                  approver : Actors, expires : Nat,
                  status : {"Open", "Consumed", "Deleted"}]

Threads == Calls \cup {Recovery}

ASSUME RequestsAssumption == Requests \subseteq Request
ASSUME ThreadsAssumption == Recovery \notin Calls
ASSUME SetsAssumption == Managed \subseteq Devices /\ Users \subseteq Actors
ASSUME GrantSetsAssumption == GrantSets \subseteq SUBSET Actions
ASSUME AttemptsAssumption == RegistrationAttempts \in Nat \ {0}
ASSUME BoundsAssumption ==
  /\ RecoveryPage \in Nat
  /\ AuthorizationLifetime \in Nat \ {0}
  /\ MaxTime \in Nat
  /\ MaxCrashes \in Nat
  /\ MaxFaults \in Nat
  /\ MaxProjectionRevision \in Nat
ASSUME NoneAssumption ==
  /\ None \notin Aggregate
  /\ None \notin Slot
  /\ None \notin Authorization
  /\ None \notin Actors

VARIABLES
  commands,        \* table commands: CommandId -> aggregate or None
  audit,           \* table command_audit: CommandId -> sequence of transitions
  slots,           \* table matter_desired_command_slots
  projections,     \* table matter_projections: revision and freshness
  authorizations,  \* table matter_unlock_authorizations
  supersessions,   \* table matter_command_supersessions
  grants,          \* table actor_grants: the actions each actor holds
  sent,            \* how often the adapter was invoked for each command
  call,            \* the private state of every thread
  mode,            \* "down", "recovering" or "serving"
  page,            \* aggregates recover loaded and has not visited yet
  startedAt,       \* the `now` of the latest recover
  clock,
  crashes, faults  \* used bounds

durable == <<commands, audit, slots, projections, authorizations, supersessions>>
process == <<mode, page, startedAt>>
world == <<grants, clock, crashes, faults>>
vars == <<commands, audit, slots, projections, authorizations, supersessions,
          grants, sent, call, mode, page, startedAt, clock, crashes, faults>>

-----------------------------------------------------------------------------
(* The aggregate and its lifecycle.                                        *)

TerminalStates == {"Rejected", "Confirmed", "Failed", "TimedOut", "Cancelled"}

allows_transition_to(from, to) ==
  CASE from = "Received" -> to \in {"Validated", "Rejected", "TimedOut", "Cancelled"}
    [] from = "Validated" -> to \in {"Dispatched", "Rejected", "TimedOut", "Cancelled"}
    [] from = "Dispatched" -> to \in {"Acknowledged", "Confirmed", "Failed", "TimedOut"}
    [] from = "Acknowledged" -> to \in {"Confirmed", "Failed", "TimedOut"}
    [] OTHER -> FALSE

\* Mutant: a validated dry run is not complete.
is_terminal_ignoring_dry_run(c) == c.state \in TerminalStates

is_terminal(c) == c.state \in TerminalStates \/ (c.req.dryRun /\ c.state = "Validated")

received(id, r, payload, now) ==
  [id |-> id, req |-> r, payload |-> payload, state |-> "Received", version |-> 0,
   policy |-> "None", failure |-> "None", updated |-> now]

\* CommandAggregate::transition, with the failure code the caller attaches.
transitioned(c, to, failure, now) ==
  [c EXCEPT !.state = to, !.version = @ + 1, !.failure = failure, !.updated = now]

\* The stored commands.
Stored == {c \in CommandIds : commands[c] # None}

-----------------------------------------------------------------------------
(* Repository transactions.                                                *)

\* Mutant: the lookup compares the canonical request as well.
SameKey_and_request(r, s) == r = s

\* The (actor, idempotency key) lookup of create_command.
SameKey(r, s) == r.actor = s.actor /\ r.key = s.key

\* Mutant: neither the version nor the stored state is checked.
transition_allowed_blindly(next, expected) ==
  /\ commands[next.id] # None
  /\ next.req = commands[next.id].req

\* What transition_command and validate_transition require of the stored row.
transition_allowed(next, expected) ==
  /\ commands[next.id] # None
  /\ commands[next.id].version = expected
  /\ next.req = commands[next.id].req
  /\ allows_transition_to(commands[next.id].state, next.state)
  /\ next.state \in {"Dispatched", "Acknowledged", "Confirmed"}
       => next.policy = "Allowed"

\* Mutant: the audit record is built after the aggregate moved on.
command_audit_afterwards(from, to) == [from |-> to, to |-> to]

command_audit(from, to) == [from |-> from, to |-> to]

\* The row update and the audit insert of transition_command.
transition_command(next) ==
  /\ commands' = [commands EXCEPT ![next.id] = next]
  /\ audit' = [audit EXCEPT ![next.id] =
                 Append(@, command_audit(commands[next.id].state, next.state))]

is_replaceable(payload) == payload \in {"Set", "Lock", "Unlock"}

\* projection_for: the command's target is a replaceable Matter projection.
projection_for(c) == is_replaceable(c.payload) /\ c.req.device \in Managed

current_slot_matches(d, id, revision) ==
  /\ slots[d] # None
  /\ slots[d].command = id
  /\ slots[d].revision = revision
  /\ ~slots[d].dispatched

actor_has_exact_unlock_grant(a) == a \in Users /\ "ApproveUnlock" \in grants[a]

\* record_dispatch: the slot is the command's own and still undispatched.
dispatch_recordable(next, expected) ==
  LET slot == slots[next.req.device] IN
  /\ slot # None
  /\ ~slot.dispatched
  /\ slot.command = next.id
  /\ transition_allowed(next, expected)

\* Mutant: the slot does not get its dispatch marker.
record_dispatch_unmarked(next) == transition_command(next) /\ UNCHANGED slots

record_dispatch(next) ==
  /\ transition_command(next)
  /\ slots' = [slots EXCEPT ![next.req.device].dispatched = TRUE]

-----------------------------------------------------------------------------
(* Threads.                                                                *)

NoView == [revision |-> 0, prior |-> None, projection |-> 0,
           approver |-> None, auth |-> None]

Idle == [pc |-> "idle", own |-> None, now |-> 0, goal |-> "None",
         failure |-> "None", view |-> NoView, tries |-> 0]

Goto(k, next) == call' = [call EXCEPT ![k] = next]

Return(k) == Goto(k, Idle) /\ UNCHANGED process

\* An error return.  An error of recover makes serve return: the process exits.
Fail(k) ==
  IF k = Recovery
  THEN /\ mode' = "down"
       /\ page' = {}
       /\ call' = [t \in Threads |-> Idle]
       /\ UNCHANGED startedAt
  ELSE Return(k)

\* The thread is about to store its aggregate in state goal.
Writing(k, goal, failure, now) ==
  [call[k] EXCEPT !.pc = "write", !.goal = goal, !.failure = failure, !.now = now]

\* CommandService::dispatch up to its first repository call.
Dispatching(k, c) ==
  IF c.req.deadline <= call[k].now
  THEN [call[k] EXCEPT !.pc = "write", !.own = c, !.goal = "TimedOut",
                       !.failure = "DeadlineExceeded"]
  ELSE [call[k] EXCEPT !.pc = "register", !.own = c, !.goal = "None", !.tries = 0]

-----------------------------------------------------------------------------
(* execute and continue_received.                                          *)

\* effective_payload: a toggle becomes a set when the device is fresh.
effective_payloads(payload) ==
  IF payload = "Toggle" THEN {"Toggle", "Set"} ELSE {payload}

\* CommandService::execute up to create_command.  When the actor already used
\* the key the call returns the stored command or a conflict and changes nothing.
execute(k, r, id, payload) ==
  /\ mode = "serving"
  /\ call[k] = Idle
  /\ \A e \in Stored : ~SameKey(commands[e].req, r)
  /\ commands[id] = None
  /\ LET c == received(id, r, payload, clock) IN
     /\ commands' = [commands EXCEPT ![id] = c]
     /\ audit' = [audit EXCEPT ![id] = <<command_audit("None", "Received")>>]
     /\ Goto(k, [Idle EXCEPT !.pc = "received", !.own = c, !.now = clock])
  /\ UNCHANGED <<slots, projections, authorizations, supersessions, sent, world, process>>

\* validate_target: the deadline, an unresolved toggle, and facts of the device.
validate_target(c, now, fits) ==
  /\ c.req.deadline > now
  /\ c.payload # "Toggle"
  /\ fits

\* PolicyEvaluator::evaluate: an actor grant, and the other facts it weighs.
evaluate(a, action, permits) == action \in grants[a] /\ permits

\* continue_received: validation, actor security, limits and policy.
continue_received(k) ==
  /\ call[k].pc = "received"
  /\ \E fits \in BOOLEAN, permits \in BOOLEAN :
       LET c == call[k].own
           now == call[k].now
           allowed == evaluate(c.req.actor, "Execute", permits)
       IN IF ~validate_target(c, now, fits)
          THEN Goto(k, Writing(k, "Rejected", "InvalidTarget", now))
          ELSE IF ~allowed
          THEN Goto(k, [Writing(k, "Rejected", "PolicyDenied", now)
                          EXCEPT !.own = [c EXCEPT !.policy = "Denied"]])
          ELSE Goto(k, [Writing(k, "Validated", "None", now)
                          EXCEPT !.own = [c EXCEPT !.policy = "Allowed"]])
  /\ UNCHANGED <<durable, sent, world, process>>

\* What the call does once its transition to goal is durable.
AfterTransition(k, next) ==
  CASE next.state = "Validated" /\ ~next.req.dryRun -> Dispatching(k, next)
    [] next.state = "Dispatched" ->
         [call[k] EXCEPT !.pc = "adapter", !.own = next, !.goal = "None"]
    [] next.state = "Acknowledged" ->
         [call[k] EXCEPT !.pc = "confirm", !.own = next, !.goal = "None", !.now = clock]
    [] OTHER -> Idle

\* CommandService::transition: every plain lifecycle write of the service.
transition(k) ==
  /\ call[k].pc = "write"
  /\ LET c == call[k].own
         next == transitioned(c, call[k].goal, call[k].failure, call[k].now)
     IN \/ /\ allows_transition_to(c.state, next.state)
           /\ transition_allowed(next, c.version)
           /\ transition_command(next)
           /\ Goto(k, AfterTransition(k, next))
           /\ UNCHANGED process
        \/ /\ ~(allows_transition_to(c.state, next.state)
                  /\ transition_allowed(next, c.version))
           /\ Fail(k)
           /\ UNCHANGED <<commands, audit>>
  /\ UNCHANGED <<slots, projections, authorizations, supersessions, sent, world>>

-----------------------------------------------------------------------------
(* Desired-state registration and the durable dispatch boundary.           *)

\* Mutant: registration is retried without a bound.
AttemptFailed_forever(k) ==
  /\ Goto(k, [call[k] EXCEPT !.pc = "register", !.view = NoView])
  /\ UNCHANGED process

\* One more attempt of register_desired, or its last error.
AttemptFailed(k) ==
  IF call[k].tries + 1 < RegistrationAttempts
  THEN /\ Goto(k, [call[k] EXCEPT !.pc = "register", !.tries = @ + 1, !.view = NoView])
       /\ UNCHANGED process
  ELSE Fail(k)

\* register_once up to its transaction: projection, slot and prior command are
\* read one after the other; the transaction compares the versions of all three.
register_once(k) ==
  /\ call[k].pc = "register"
  /\ LET c == call[k].own
         slot == slots[c.req.device]
         unmanaged == ~projection_for(c)
         registered == slot # None /\ slot.command = c.id
         superseding == slot # None /\ ~slot.dispatched
         prior == IF superseding THEN commands[slot.command] ELSE None
         stuck == superseding /\ ~allows_transition_to(prior.state, "Cancelled")
         revision == IF slot = None THEN 1 ELSE slot.revision + 1
     IN \/ /\ unmanaged
           /\ Goto(k, Writing(k, "Dispatched", "None", call[k].now))
           /\ UNCHANGED process
        \/ /\ ~unmanaged /\ registered
           /\ Goto(k, [call[k] EXCEPT !.pc = "commit"])
           /\ UNCHANGED process
        \/ /\ ~unmanaged /\ ~registered /\ stuck
           /\ AttemptFailed(k)
        \/ /\ ~unmanaged /\ ~registered /\ ~stuck
           /\ Goto(k, [call[k] EXCEPT !.pc = "replace",
                         !.view = [NoView EXCEPT
                            !.revision = revision, !.prior = prior,
                            !.projection = projections[c.req.device].revision]])
           /\ UNCHANGED process
  /\ UNCHANGED <<durable, sent, world>>

\* Mutant: the replaced command is cancelled without its reason.
superseded_silently(prior, now) == transitioned(prior, "Cancelled", "None", now)

\* The aggregate register_once prepared for the command it replaces.
superseded(prior, now) ==
  transitioned(prior, "Cancelled", "SupersededBeforeDispatch", now)

\* What replace_desired_slot and store_projection require.
replace_allowed(c, view, now) ==
  LET slot == slots[c.req.device] IN
  /\ commands[c.id].state \in {"Received", "Validated"}
  /\ slot = None => view.prior = None
  /\ slot # None =>
       /\ view.revision > slot.revision
       /\ slot.command = c.id => view.prior = None
       /\ slot.command # c.id /\ slot.dispatched => view.prior = None
       /\ slot.command # c.id /\ ~slot.dispatched =>
            /\ view.prior # None
            /\ view.prior.id = slot.command
            /\ transition_allowed(superseded(view.prior, now), view.prior.version)
  /\ projections[c.req.device].revision = view.projection

\* Mutant: the rows are marked with a status the table does not know.
without_open_marked(id) ==
  [x \in AuthIds |->
     IF authorizations[x] # None /\ authorizations[x].command = id
          /\ authorizations[x].status = "Open"
     THEN [authorizations[x] EXCEPT !.status = "Revoked"]
     ELSE authorizations[x]]

\* DELETE FROM matter_unlock_authorizations of a replaced command.
without_open(id) ==
  [x \in AuthIds |->
     IF authorizations[x] # None /\ authorizations[x].command = id
          /\ authorizations[x].status = "Open"
     THEN [authorizations[x] EXCEPT !.status = "Deleted"]
     ELSE authorizations[x]]

replace_matter_desired_state(k) ==
  /\ call[k].pc = "replace"
  /\ LET c == call[k].own
         d == c.req.device
         view == call[k].view
         slot == slots[d]
         old == superseded(view.prior, call[k].now)
     IN \/ /\ replace_allowed(c, view, call[k].now)
           /\ IF view.prior = None
              THEN UNCHANGED <<commands, audit, supersessions>>
              ELSE /\ transition_command(old)
                   /\ supersessions' = supersessions \cup {<<old.id, c.id>>}
           /\ authorizations' = IF slot = None \/ slot.command = c.id
                                THEN authorizations
                                ELSE without_open(slot.command)
           /\ slots' = [slots EXCEPT ![d] = [revision |-> view.revision,
                                             command |-> c.id, dispatched |-> FALSE]]
           /\ projections' = [projections EXCEPT ![d].revision = @ + 1]
           /\ Goto(k, [call[k] EXCEPT !.pc = "commit", !.view = NoView])
           /\ UNCHANGED process
        \/ /\ ~replace_allowed(c, view, call[k].now)
           /\ AttemptFailed(k)
           /\ UNCHANGED durable
  /\ UNCHANGED <<sent, world>>

\* Mutant: an unlock is dispatched like any other command.
commit_dispatch_unlock(k) ==
  /\ call[k].pc = "commit"
  /\ IF slots[call[k].own.req.device].command # call[k].own.id
     THEN Return(k)
     ELSE /\ Goto(k, [call[k] EXCEPT !.pc = "record"])
          /\ UNCHANGED process
  /\ UNCHANGED <<durable, sent, world>>

\* commit_dispatch up to its transaction: superseded, awaiting, or own slot.
commit_dispatch(k) ==
  /\ call[k].pc = "commit"
  /\ LET c == call[k].own
         current == slots[c.req.device].command = c.id
     IN IF ~current \/ c.payload = "Unlock"
        THEN Return(k)
        ELSE /\ Goto(k, [call[k] EXCEPT !.pc = "record"])
             /\ UNCHANGED process
  /\ UNCHANGED <<durable, sent, world>>

record_matter_dispatch(k) ==
  /\ call[k].pc = "record"
  /\ LET c == call[k].own
         next == transitioned(c, "Dispatched", "None", call[k].now)
         ok == allows_transition_to(c.state, "Dispatched")
                 /\ dispatch_recordable(next, c.version)
     IN \/ /\ ok
           /\ record_dispatch(next)
           /\ Goto(k, [call[k] EXCEPT !.pc = "adapter", !.own = next])
           /\ UNCHANGED process
        \/ /\ ~ok
           /\ Fail(k)
           /\ UNCHANGED <<commands, audit, slots>>
  /\ UNCHANGED <<projections, authorizations, supersessions, sent, world>>

-----------------------------------------------------------------------------
(* Adapter dispatch and confirmation.                                      *)

\* CommandDispatcher::dispatch reaches the device, or fails before it does.
adapter_dispatch(k) ==
  /\ call[k].pc = "adapter"
  /\ \/ /\ sent' = [sent EXCEPT ![call[k].own.id] = @ + 1]
        /\ Goto(k, [call[k] EXCEPT !.pc = "reply"])
     \/ /\ Goto(k, Writing(k, "Failed", "AdapterFailure", clock))
        /\ UNCHANGED sent
  /\ UNCHANGED <<durable, world, process>>

\* dispatch_committed after the adapter answered.
dispatch_committed(k) ==
  /\ call[k].pc = "reply"
  /\ \/ Goto(k, IF call[k].own.req.deadline <= clock
                THEN Writing(k, "TimedOut", "DeadlineExceeded", clock)
                ELSE Writing(k, "Acknowledged", "None", clock))
     \/ Goto(k, Writing(k, "Failed", "AdapterFailure", clock))
  /\ UNCHANGED <<durable, sent, world, process>>

\* Mutant: a pending confirmation past the deadline stays pending.
confirm_pending(k) ==
  /\ call[k].pc = "confirm"
  /\ \/ Goto(k, Writing(k, "Confirmed", "None", call[k].now))
     \/ Goto(k, Writing(k, "Failed", "AdapterFailure", call[k].now))
     \/ Goto(k, Idle)
  /\ UNCHANGED <<durable, sent, world, process>>

\* CommandService::confirm with each outcome of the confirmation adapter.
confirm(k) ==
  /\ call[k].pc = "confirm"
  /\ LET now == call[k].now
         late == call[k].own.req.deadline <= now
     IN \/ Goto(k, Writing(k, "Confirmed", "None", now))
        \/ Goto(k, Writing(k, "Failed", "AdapterFailure", now))
        \/ Goto(k, IF late THEN Writing(k, "TimedOut", "DeadlineExceeded", now)
                   ELSE Idle)
  /\ UNCHANGED <<durable, sent, world, process>>

-----------------------------------------------------------------------------
(* cancel and approve_unlock.                                              *)

cancel(k, id) ==
  /\ mode = "serving"
  /\ call[k] = Idle
  /\ commands[id] # None
  /\ ~is_terminal(commands[id])
  /\ commands[id].state \in {"Received", "Validated"}
  /\ Goto(k, [Idle EXCEPT !.pc = "write", !.own = commands[id], !.goal = "Cancelled",
                          !.now = clock])
  /\ UNCHANGED <<durable, sent, world, process>>

\* A bound: every approval under way can still be given an authorization id.
ApprovalBudget ==
  Cardinality({k \in Calls : call[k].pc \in {"approve", "authorize"}})
    < Cardinality({x \in AuthIds : authorizations[x] = None})

\* approve_unlock up to the actor security it reads next.
approve_unlock(k, id, a) ==
  /\ mode = "serving"
  /\ call[k] = Idle
  /\ commands[id] # None
  /\ commands[id].state = "Validated"
  /\ commands[id].req.deadline > clock
  /\ commands[id].payload = "Unlock"
  /\ ApprovalBudget
  /\ Goto(k, [Idle EXCEPT !.pc = "approve", !.own = commands[id], !.now = clock,
                          !.view = [NoView EXCEPT !.approver = a]])
  /\ UNCHANGED <<durable, sent, world, process>>

\* The approval policy and authorize_unlock up to the authorization it stores.
authorize_unlock(k) ==
  /\ call[k].pc = "approve"
  /\ LET c == call[k].own
         slot == slots[c.req.device]
         approved == call[k].view.approver \in Users
                       /\ evaluate(call[k].view.approver, "ApproveUnlock", TRUE)
         pending == projection_for(c) /\ slot # None /\ slot.command = c.id
     IN IF approved /\ pending
        THEN /\ Goto(k, [call[k] EXCEPT !.pc = "authorize",
                           !.view = [@ EXCEPT !.revision = slot.revision]])
             /\ UNCHANGED process
        ELSE Return(k)
  /\ UNCHANGED <<durable, sent, world>>

\* The bindings create_authorization and the dispatch transaction both check.
unlock_bound(c, revision, approver) ==
  /\ commands[c.id].state = "Validated"
  /\ commands[c.id].policy = "Allowed"
  /\ projections[c.req.device].fresh
  /\ current_slot_matches(c.req.device, c.id, revision)
  /\ actor_has_exact_unlock_grant(approver)

create_unlock_authorization(k, x) ==
  /\ call[k].pc = "authorize"
  /\ authorizations[x] = None
  /\ LET c == call[k].own
         view == call[k].view
         limit == call[k].now + AuthorizationLifetime
         expires == IF limit < c.req.deadline THEN limit ELSE c.req.deadline
     IN \/ /\ unlock_bound(c, view.revision, view.approver)
           /\ authorizations' = [authorizations EXCEPT ![x] =
                [command |-> c.id, device |-> c.req.device, revision |-> view.revision,
                 approver |-> view.approver, expires |-> expires, status |-> "Open"]]
           /\ Goto(k, [call[k] EXCEPT !.pc = "unlock", !.view = [@ EXCEPT !.auth = x]])
           /\ UNCHANGED process
        \/ /\ ~unlock_bound(c, view.revision, view.approver)
           /\ Fail(k)
           /\ UNCHANGED authorizations
  /\ UNCHANGED <<commands, audit, slots, projections, supersessions, sent, world>>

authorize_and_record_unlock_dispatch(k) ==
  /\ call[k].pc = "unlock"
  /\ LET c == call[k].own
         x == call[k].view.auth
         a == authorizations[x]
         next == transitioned(c, "Dispatched", "None", call[k].now)
         ok == /\ a.status = "Open"
               /\ call[k].now < a.expires
               /\ a.command = c.id
               /\ commands[c.id].version = c.version
               /\ unlock_bound(c, a.revision, a.approver)
               /\ dispatch_recordable(next, c.version)
     IN \/ /\ ok
           /\ authorizations' = [authorizations EXCEPT ![x].status = "Consumed"]
           /\ record_dispatch(next)
           /\ Goto(k, [call[k] EXCEPT !.pc = "adapter", !.own = next, !.view = NoView])
           /\ UNCHANGED process
        \/ /\ ~ok
           /\ Fail(k)
           /\ UNCHANGED <<authorizations, commands, audit, slots>>
  /\ UNCHANGED <<projections, supersessions, sent, world>>

-----------------------------------------------------------------------------
(* Startup recovery, crashes and the environment.                          *)

\* recoverable_commands: the RecoveryPage oldest non-terminal aggregates.
recoverable_commands ==
  LET open == {commands[c] : c \in {i \in Stored : ~is_terminal(commands[i])}} IN
  {S \in SUBSET open :
     /\ Cardinality(S) <= RecoveryPage
     /\ Cardinality(S) < RecoveryPage => S = open
     /\ \A c \in S, e \in open \ S : c.updated <= e.updated}

\* serve: the process starts and recover loads its page.
recover ==
  /\ mode = "down"
  /\ mode' = "recovering"
  /\ startedAt' = clock
  /\ page' \in recoverable_commands
  /\ UNCHANGED <<durable, sent, world, call>>

\* Mutant: validated work is resumed whatever its deadline.
recover_one_undated(c) ==
  /\ mode = "recovering"
  /\ call[Recovery] = Idle
  /\ page' = page \ {c}
  /\ LET start == [Idle EXCEPT !.own = c, !.now = startedAt] IN
     \/ /\ c.state = "Received"
        /\ Goto(Recovery, [start EXCEPT !.pc = "received"])
     \/ /\ c.state = "Validated"
        /\ Goto(Recovery, [start EXCEPT !.pc = "register"])
     \/ /\ c.state \in {"Dispatched", "Acknowledged"}
        /\ Goto(Recovery, [start EXCEPT !.pc = "confirm"])
  /\ UNCHANGED <<durable, sent, world, mode, startedAt>>

\* recover_one on the oldest aggregate of the page, as it was when loaded.
recover_one(c) ==
  /\ mode = "recovering"
  /\ call[Recovery] = Idle
  /\ \A e \in page : c.updated <= e.updated
  /\ page' = page \ {c}
  /\ LET start == [Idle EXCEPT !.own = c, !.now = startedAt]
         late == c.req.deadline <= startedAt
         timeout == [start EXCEPT !.pc = "write", !.goal = "TimedOut",
                                  !.failure = "DeadlineExceeded"]
     IN \/ /\ c.state = "Received"
           /\ Goto(Recovery, IF late THEN timeout ELSE [start EXCEPT !.pc = "received"])
        \/ /\ c.state = "Validated"
           /\ \E permits \in BOOLEAN :
                Goto(Recovery,
                     IF late THEN timeout
                     ELSE IF evaluate(c.req.actor, "Execute", permits)
                     THEN [start EXCEPT !.pc = "register"]
                     ELSE [start EXCEPT !.pc = "write", !.goal = "Rejected",
                             !.failure = "PolicyDenied",
                             !.own = [c EXCEPT !.policy = "Denied"]])
        \/ /\ c.state \in {"Dispatched", "Acknowledged"}
           /\ Goto(Recovery, [start EXCEPT !.pc = "confirm"])
  /\ UNCHANGED <<durable, sent, world, mode, startedAt>>

\* serve after recover returned: the API listens and the workers run.
serve ==
  /\ mode = "recovering"
  /\ page = {}
  /\ call[Recovery] = Idle
  /\ mode' = "serving"
  /\ UNCHANGED <<durable, sent, world, call, page, startedAt>>

Crash ==
  /\ mode # "down"
  /\ crashes < MaxCrashes
  /\ crashes' = crashes + 1
  /\ mode' = "down"
  /\ page' = {}
  /\ call' = [t \in Threads |-> Idle]
  /\ UNCHANGED <<durable, sent, startedAt, grants, clock, faults>>

\* A repository, audit publication or confirmation error ends the call.  One
\* after the last transition of a recovered command ends the process: Crash.
Fault(k) ==
  /\ call[k] # Idle
  /\ faults < MaxFaults
  /\ faults' = faults + 1
  /\ Fail(k)
  /\ UNCHANGED <<durable, sent, grants, clock, crashes>>

replace_actor_grants(a, g) ==
  /\ mode = "serving"
  /\ grants' = [grants EXCEPT ![a] = g]
  /\ UNCHANGED <<durable, sent, call, process, clock, crashes, faults>>

\* A report or a freshness expiry stores the projection under a new revision.
store_matter_projection(d, fresh) ==
  /\ mode = "serving"
  /\ projections[d].revision < MaxProjectionRevision
  /\ projections' = [projections EXCEPT ![d] =
                       [revision |-> @.revision + 1, fresh |-> fresh]]
  /\ UNCHANGED <<commands, audit, slots, authorizations, supersessions,
                 sent, world, call, process>>

Tick ==
  /\ clock < MaxTime
  /\ clock' = clock + 1
  /\ UNCHANGED <<durable, sent, call, process, grants, crashes, faults>>

-----------------------------------------------------------------------------
Init ==
  /\ commands = [c \in CommandIds |-> None]
  /\ audit = [c \in CommandIds |-> <<>>]
  /\ slots = [d \in Devices |-> None]
  /\ projections = [d \in Devices |-> [revision |-> 1, fresh |-> TRUE]]
  /\ authorizations = [x \in AuthIds |-> None]
  /\ supersessions = {}
  /\ grants \in [Actors -> GrantSets]
  /\ sent = [c \in CommandIds |-> 0]
  /\ call = [t \in Threads |-> Idle]
  /\ mode = "down"
  /\ page = {}
  /\ startedAt = 0
  /\ clock = 0
  /\ crashes = 0
  /\ faults = 0

\* One step of a call that is already running.
Step(k) ==
  \/ continue_received(k)
  \/ transition(k)
  \/ register_once(k)
  \/ replace_matter_desired_state(k)
  \/ commit_dispatch(k)
  \/ record_matter_dispatch(k)
  \/ adapter_dispatch(k)
  \/ dispatch_committed(k)
  \/ confirm(k)
  \/ authorize_unlock(k)
  \/ \E x \in AuthIds : create_unlock_authorization(k, x)
  \/ authorize_and_record_unlock_dispatch(k)

\* A new call.
Begin(k) ==
  \/ \E r \in Requests, id \in CommandIds :
       \E payload \in effective_payloads(r.payload) : execute(k, r, id, payload)
  \/ \E id \in CommandIds : cancel(k, id)
  \/ \E id \in CommandIds, a \in Actors : approve_unlock(k, id, a)

Startup ==
  \/ recover
  \/ \E c \in page : recover_one(c)
  \/ serve

Environment ==
  \/ Crash
  \/ \E k \in Threads : Fault(k)
  \/ \E a \in Actors, g \in GrantSets : replace_actor_grants(a, g)
  \/ \E d \in Managed, fresh \in BOOLEAN : store_matter_projection(d, fresh)
  \/ Tick

Next ==
  \/ \E k \in Calls : Begin(k)
  \/ \E k \in Threads : Step(k)
  \/ Startup
  \/ Environment

Spec == Init /\ [][Next]_vars

\* The runtime keeps polling a running call, whose adapter and database calls
\* all return; the supervisor restarts the process; time passes.
FairSpec ==
  /\ Spec
  /\ \A k \in Threads : WF_vars(Step(k))
  /\ WF_vars(Startup)
  /\ WF_vars(Tick)

-----------------------------------------------------------------------------
(* Properties.                                                             *)

View == [revision : Nat, prior : Aggregate \cup {None}, projection : Nat,
         approver : Actors \cup {None}, auth : AuthIds \cup {None}]

Call == [pc : {"idle", "received", "write", "register", "replace", "commit",
               "record", "adapter", "reply", "confirm", "approve", "authorize",
               "unlock"},
         own : Aggregate \cup {None}, now : Nat, goal : States \cup {"None"},
         failure : Failures, view : View, tries : Nat]

\* Every variable keeps its type: rows are well formed and a running call has
\* an aggregate (command_service.rs, command_repository.rs).
TypeOK ==
  /\ commands \in [CommandIds -> Aggregate \cup {None}]
  /\ audit \in [CommandIds -> Seq([from : States \cup {"None"}, to : States])]
  /\ slots \in [Devices -> Slot \cup {None}]
  /\ projections \in [Devices -> [revision : Nat, fresh : BOOLEAN]]
  /\ authorizations \in [AuthIds -> Authorization \cup {None}]
  /\ supersessions \subseteq CommandIds \X CommandIds
  /\ grants \in [Actors -> SUBSET Actions]
  /\ sent \in [CommandIds -> Nat]
  /\ call \in [Threads -> Call]
  /\ \A k \in Threads : call[k].pc # "idle" => call[k].own # None
  /\ mode \in {"down", "recovering", "serving"}
  /\ page \subseteq Aggregate
  /\ startedAt \in Nat
  /\ clock \in Nat
  /\ crashes \in Nat
  /\ faults \in Nat

\* One idempotency key of one actor never causes more than one adapter
\* invocation, whatever retries, concurrent calls, approvals, crashes and
\* recoveries happen (create_command, transition_command, recover_one).
OneInvocationPerKey ==
  \A c, e \in Stored :
    commands[c].req.actor = commands[e].req.actor /\ commands[c].req.key = commands[e].req.key
      => sent[c] <= 1 /\ (c # e => sent[c] + sent[e] <= 1)

WasDispatched(c) == \E i \in DOMAIN audit[c] : audit[c][i].to = "Dispatched"

\* The adapter is only ever invoked for a command whose dispatch is durable and
\* whose policy decision was an allow; a dry run, a rejected and a cancelled or
\* superseded command never reach it (dispatch, dispatch_committed).
InvocationIsGoverned ==
  \A c \in CommandIds :
    sent[c] > 0 =>
      /\ c \in Stored
      /\ WasDispatched(c)
      /\ commands[c].policy = "Allowed"
      /\ ~commands[c].req.dryRun
      /\ commands[c].state \notin {"Received", "Validated", "Rejected", "Cancelled"}

\* The audit log of a command is a gap-free walk of the lifecycle from its
\* receipt to its stored state, one record per version (transition_command,
\* insert_audit).
AuditExplainsState ==
  \A c \in Stored :
    LET log == audit[c] IN
    /\ Len(log) = commands[c].version + 1
    /\ log[1] = command_audit("None", "Received")
    /\ log[Len(log)].to = commands[c].state
    /\ \A i \in 2..Len(log) : /\ log[i].from = log[i - 1].to
                              /\ allows_transition_to(log[i].from, log[i].to)

\* A desired slot carries the dispatch marker exactly when its command crossed
\* the durable dispatch boundary, and it names a live command of that device
\* that was not a dry run (replace_desired_slot, record_dispatch).
SlotTracksDispatch ==
  \A d \in Devices : slots[d] # None =>
    LET c == slots[d].command IN
    /\ c \in Stored
    /\ commands[c].req.device = d
    /\ ~commands[c].req.dryRun
    /\ slots[d].dispatched <=> WasDispatched(c)

\* A command is cancelled as superseded exactly when one newer command of the
\* same device is linked to it, and then nothing was sent for it
\* (replace_desired_slot).
SupersessionIsLinked ==
  \A c \in Stored :
    LET replacing == {e \in CommandIds : <<c, e>> \in supersessions} IN
    /\ commands[c].failure = "SupersededBeforeDispatch" <=> replacing # {}
    /\ Cardinality(replacing) <= 1
    /\ replacing # {} => commands[c].state = "Cancelled" /\ sent[c] = 0
    /\ \A e \in replacing : e \in Stored /\ commands[e].req.device = commands[c].req.device

\* A Matter unlock reaches the adapter only through exactly one consumed
\* authorization of a user, and no unused authorization of a command survives
\* the command losing its slot (authorize_and_record_unlock_dispatch,
\* replace_desired_slot).
UnlockIsAuthorized ==
  LET Of(c, status) == {x \in AuthIds : /\ authorizations[x] # None
                                        /\ authorizations[x].command = c
                                        /\ authorizations[x].status = status}
  IN \A c \in Stored :
       /\ Cardinality(Of(c, "Consumed")) <= 1
       /\ Of(c, "Consumed") # {} => WasDispatched(c)
       /\ WasDispatched(c) /\ commands[c].payload = "Unlock"
            /\ commands[c].req.device \in Managed
            => \E x \in Of(c, "Consumed") : authorizations[x].approver \in Users
       /\ Of(c, "Open") # {} => slots[commands[c].req.device].command = c

\* After a startup whose recovery finished, no command that existed before it
\* is still open past its deadline: each was confirmed, failed or timed out
\* (recover_one, confirm).  RecoveryPage must cover the open commands.
RecoverySettles ==
  mode = "serving" =>
    \A c \in Stored :
      ~is_terminal(commands[c]) /\ commands[c].updated < startedAt
        => commands[c].req.deadline > startedAt

Lifecycle == INSTANCE CommandLifecycle WITH
  status <- [c \in CommandIds |-> IF commands[c] = None THEN "Absent"
                                  ELSE commands[c].state],
  invoked <- sent

\* The command path implements the abstract lifecycle: no step outside the
\* documented state machine, no second invocation, none before the dispatch
\* record (command.rs, command_service.rs).
ImplementsLifecycle == Lifecycle!Spec

\* Every call returns: registration retries are bounded and no step of the
\* path waits for another call (register_desired, dispatch, approve_unlock).
CallsReturn == \A k \in Calls : call[k].pc # "idle" ~> call[k].pc = "idle"

\* A process that went down serves again.  A startup may abort on a command it
\* cannot recover, but not for ever: past its deadline every command is timed
\* out or confirmed before anything else is tried (serve, recover_one).
DaemonServesAgain == mode = "down" ~> mode = "serving"

-----------------------------------------------------------------------------
(* Statements of the documentation that the code does not keep.            *)

\* ADR-0036 lets a new request supersede a still-undispatched one; the command
\* of an undispatched slot must then still be cancellable (register_once).
SlotIsSupersedable ==
  \A d \in Devices :
    slots[d] # None /\ ~slots[d].dispatched
      => allows_transition_to(commands[slots[d].command].state, "Cancelled")
=============================================================================
