--------------------------- MODULE MatterOperations ---------------------------
(***************************************************************************)
(* The durable Matter administration operations of one installation: the   *)
(* callers that admit them (MatterAdministrationService and the start_*    *)
(* halves of the fabric and node workflows), the bounded queue and the     *)
(* single daemon worker that executes them (MatterExecutionWorker and the  *)
(* run_* halves), the SQLite repository whose optimistic revisions order   *)
(* their writes, and the deterministic simulator behind the controller     *)
(* port.  The repair of a subscription is in MatterProjection.             *)
(*                                                                         *)
(* Between two awaits a workflow holds a stale copy of its operation, so   *)
(* every stretch up to one repository transaction or one controller call   *)
(* is an action of its own.  A crash loses the callers, the queue and the  *)
(* worker and keeps the database, the secrets and the controller.          *)
(*                                                                         *)
(* An installation has one fabric (its id is derived from the              *)
(* installation), so the fabric id is left out, and with it the checks     *)
(* that compare fabric and installation ids.  Time is left out: every      *)
(* transition passes a clock reading later than the last one.              *)
(***************************************************************************)
EXTENDS Naturals, Sequences, FiniteSets

CONSTANTS
    Actors,         \* the authenticated actors
    Keys,           \* idempotency keys an actor may use
    Nodes,          \* the simulator fixtures, each with its node id
    Callers,        \* concurrent RPC handlers
    Workloads,      \* what clients and the environment may do in a behaviour:
                    \*   offered      the kinds of operation clients ask for, and
                    \*                how many of each are ever admitted
                    \*   provisioned  whether the fabric is already active
                    \*   handlers     RPC handlers at work at a time
                    \*   disruptions  which of "crash", "fault", "replace" and
                    \*                "revoke" occur
    Refs,           \* secret references of a fabric, in the order of the puts
    MaxOps,         \* bound: operations ever admitted
    QueueCapacity,  \* capacity of the execution channel
    EventPage,      \* CONTROLLER_EVENT_PAGE, the events one page holds
    MaxDisruptions  \* bound: disruptions in a behaviour

ASSUME OperationBounds ==
    /\ {MaxOps, QueueCapacity, EventPage, MaxDisruptions, Refs} \subseteq Nat
    /\ QueueCapacity > 0
    /\ \A l \in Workloads : DOMAIN l.offered # {} /\ l.provisioned \in BOOLEAN

VARIABLES
    load,       \* the workload of this behaviour
    granted,    \* <<actor, action>> pairs an enabled installation grant permits
    stage,      \* matter_fabric_stages: "none" or the stage's state
    stageRev,   \* the stage's revision
    secrets,    \* secret store: the references of the fabric that have a value
    fabric,     \* matter_fabrics: "none", "unavailable" or "active"
    ops,        \* matter_operations with their bindings, in order of admission
    repairs,    \* operations with an open matter_repairs record
    results,    \* matter_operation_node_results: <<operation, node>>
    device,     \* node -> "absent", "enrolled" or "removed" (the tombstone)
    linked,     \* nodes with stored projections and subscription
    ctl,        \* the controller (simulator) state
    exported,   \* node sets of the envelopes delivered by exports
    caller,     \* caller -> its request and where it stands
    queue,      \* requests waiting for the worker
    wk,         \* the worker: where it stands and its copy of the operation
    calls,      \* operation -> controller mutations dispatched for it
    budget      \* disruptions left

durable == <<stage, stageRev, secrets, fabric, ops, repairs, results, device, linked>>
vars == <<load, granted, durable, ctl, exported, caller, queue, wk, calls, budget>>

Kinds == {"create", "commission", "cancel", "remove", "export", "restore"}

\* Operations whose run needs input that only the caller of the sensitive
\* method holds: admission does not wake the worker for them.
Sensitive == {"commission", "export", "restore"}

Phases == {"requested", "creating_fabric", "validating_setup", "discovering",
           "establishing_session", "commissioning", "projecting", "subscribing",
           "cancelling", "removing_node", "cleaning_secrets", "exporting",
           "restoring", "loading_fabric", "completed", "cancelled", "failed",
           "repair_required"}

is_terminal(p) == p \in {"completed", "cancelled", "failed", "repair_required"}

\* The declared order of phases of each kind (valid_*_transition); the first
\* is "requested" and the last "completed".
Track ==
  [create     |-> <<"requested", "creating_fabric", "completed">>,
   commission |-> <<"requested", "validating_setup", "discovering",
                    "establishing_session", "commissioning", "projecting",
                    "subscribing", "completed">>,
   cancel     |-> <<"requested", "cancelling", "completed">>,
   remove     |-> <<"requested", "removing_node", "cleaning_secrets", "completed">>,
   export     |-> <<"requested", "exporting", "completed">>,
   restore    |-> <<"requested", "restoring", "loading_fabric", "completed">>]

phase_allowed(kind, p) ==
    is_terminal(p) \/ \E i \in DOMAIN Track[kind] : Track[kind][i] = p

valid_transition(kind, from, to) ==
    \/ to \in {"failed", "repair_required"}
    \/ to = "cancelled" /\ kind \in {"commission", "cancel"}
    \/ \E i \in 1 .. Len(Track[kind]) - 1 :
          Track[kind][i] = from /\ Track[kind][i + 1] = to

\* MatterOperation::transition: what may follow the stored phase.
transition(op, next) == ~is_terminal(op.phase) /\ valid_transition(op.kind, op.phase, next)

NextPhase(op) ==
    LET t == Track[op.kind]
    IN  t[1 + CHOOSE i \in DOMAIN t : t[i] = op.phase]

COMMISSIONING_PHASES == {Track["commission"][i] : i \in 2 .. 7}

----------------------------------------------------------------------------
(* Administration: authority and admission.                                *)

\* CommandAction of a kind; each is granted on its own.
action_for_kind(kind) == kind

\* authorize: an enabled actor with an exact enabled installation grant.
authorize(a, action) == <<a, action>> \in granted

\* validate_target: the family of resource a kind acts on.
validate_target(kind, target) ==
    CASE kind = "cancel" -> target \in 1 .. Len(ops)
      [] kind = "remove" -> target \in Nodes
      [] OTHER           -> target = "fabric"

\* owned_operation_for_action: only the admitting actor, with the action
\* granted now, sees the operation.
owned_operation_for_action(a, i, kind) ==
    /\ i \in DOMAIN ops
    /\ authorize(a, action_for_kind(kind))
    /\ ops[i].actor = a /\ ops[i].kind = kind

owned_commissioning_for_cancellation(a, i) ==
    /\ i \in DOMAIN ops
    /\ authorize(a, "cancel")
    /\ ops[i].actor = a /\ ops[i].kind = "commission"

NewOperation(a, k, kind, target) ==
    [kind |-> kind, target |-> target, phase |-> "requested", revision |-> 1,
     actor |-> a, key |-> k]

\* transition_operation: the revision the writer read must still be stored;
\* a repair-required transition carries its repair record in the same
\* transaction, and no other transition carries one.
Current(i, rev) == ops[i].revision = rev

Moved(op, next) == [op EXCEPT !.phase = next, !.revision = @ + 1]

WithRepair(i, next) ==
    repairs' = IF next = "repair_required" THEN repairs \cup {i} ELSE repairs

transition_operation(i, next) ==
    /\ ops' = [ops EXCEPT ![i] = Moved(@, next)]
    /\ WithRepair(i, next)

\* The answer of create_administration_operation to an actor's key: nothing
\* stored for it, the equivalent operation, or a conflicting one.
Bound(a, k) == {i \in DOMAIN ops : ops[i].actor = a /\ ops[i].key = k}

Equivalent(i, kind, target) == ops[i].kind = kind /\ ops[i].target = target

----------------------------------------------------------------------------
(* The execution queue.                                                    *)

Room == Len(queue) < QueueCapacity

\* Sensitive input: a setup payload (its fixture's node), an export's
\* envelope (its nodes), or bytes the controller rejects.
Payload(ns) == [valid |-> TRUE, nodes |-> ns]
NoInput == [valid |-> FALSE, nodes |-> {}]

\* try_send: a full channel drops the wake; the operation stays durable.
wake(a, i) ==
    queue' = IF Room THEN Append(queue, [actor |-> a, op |-> i, input |-> NoInput])
             ELSE queue

----------------------------------------------------------------------------
(* RPC handlers.                                                           *)

Disrupt(kind) == kind \in load.disruptions /\ budget > 0 /\ budget' = budget - 1

Idle == [pc |-> "idle", actor |-> "none", key |-> "none", kind |-> "none",
         target |-> "none", rev |-> 0, put |-> 0]

Return(c) == caller' = [caller EXCEPT ![c] = Idle]
Goto(c, pc) == caller' = [caller EXCEPT ![c].pc = pc]

Request(c, a, k, kind, target, pc) ==
    caller' = [caller EXCEPT ![c] = [pc |-> pc, actor |-> a, key |-> k, kind |-> kind,
                                     target |-> target, rev |-> 0, put |-> 0]]

CallerOnly == UNCHANGED <<granted, ctl, exported, wk, calls>>

\* Requests worth a step: a key used for another request is only answered
\* with a conflict, and the workload bounds the fresh ones and the handlers.
Offered(kind) ==
    /\ kind \in DOMAIN load.offered /\ Len(ops) < MaxOps
    /\ Cardinality({i \in DOMAIN ops : ops[i].kind = kind}) < load.offered[kind]

Worthwhile(a, k, kind, target) ==
    /\ Cardinality({c \in Callers : caller[c].pc # "idle"}) < load.handlers
    /\ IF Bound(a, k) = {} THEN Offered(kind)
       ELSE \E i \in Bound(a, k) : Equivalent(i, kind, target)

\* start_create: with no durable fabric it is provisioned first, otherwise
\* only a leftover stage is removed.
start_create(c, a, k) ==
    /\ caller[c].pc = "idle"
    /\ authorize(a, "create") /\ Worthwhile(a, k, "create", "fabric")
    /\ Request(c, a, k, "create", "fabric", IF fabric = "none" THEN "stage" ELSE "detach")
    /\ CallerOnly /\ UNCHANGED <<durable, queue, budget>>

\* Mutant: any stage left by an earlier attempt counts as ready.
LoadStageReady(c) ==
    /\ caller[c].pc = "stage"
    /\ IF stage = "none"
         THEN stage' = "pending_secrets" /\ stageRev' = 1
         ELSE UNCHANGED <<stage, stageRev>>
    /\ caller' = [caller EXCEPT ![c].rev = stageRev',
                                ![c].pc = IF stage # "none" THEN "attach" ELSE "put"]
    /\ CallerOnly
    /\ UNCHANGED <<secrets, fabric, ops, repairs, results, device, linked, queue, budget>>

\* provision_durable_fabric up to the secrets: load the stage or create it.  Two
\* callers that both find none: the slower one gets a conflict and may ask again.
LoadStage(c) ==
    /\ caller[c].pc = "stage"
    /\ IF stage = "none"
         THEN stage' = "pending_secrets" /\ stageRev' = 1
         ELSE UNCHANGED <<stage, stageRev>>
    /\ caller' = [caller EXCEPT ![c].rev = stageRev',
                                ![c].pc = IF stage = "secrets_ready" THEN "attach" ELSE "put"]
    /\ CallerOnly
    /\ UNCHANGED <<secrets, fabric, ops, repairs, results, device, linked, queue, budget>>

\* One SecretStore::put of a fresh random value under the stage's reference.
PutSecret(c) ==
    /\ caller[c].pc = "put" /\ caller[c].put < Refs
    /\ secrets' = secrets \cup {caller[c].put + 1}
    /\ caller' = [caller EXCEPT ![c].put = @ + 1]
    /\ CallerOnly
    /\ UNCHANGED <<stage, stageRev, fabric, ops, repairs, results, device, linked,
                   queue, budget>>

\* store_fabric_stage replaces the stage only at the revision last read.
store_fabric_stage(rev) == IF stage = "none" THEN rev = 0 ELSE stageRev = rev

\* transition_stage under the revision the caller read; a lost race returns
\* the repository's conflict to the caller.
transition_stage(c, next, pc) ==
    IF caller[c].rev > 0 /\ store_fabric_stage(caller[c].rev)
      THEN /\ stage' = next /\ stageRev' = stageRev + 1
           /\ IF pc = "idle" THEN Return(c) ELSE Goto(c, pc)
      ELSE UNCHANGED <<stage, stageRev>> /\ Return(c)

PutFails(c) ==
    /\ caller[c].pc = "put" /\ caller[c].put < Refs
    /\ Disrupt("fault")
    /\ transition_stage(c, "cleanup_required", "idle")
    /\ CallerOnly
    /\ UNCHANGED <<secrets, fabric, ops, repairs, results, device, linked, queue>>

SecretsReady(c) ==
    /\ caller[c].pc = "put" /\ caller[c].put = Refs
    /\ transition_stage(c, "secrets_ready", "attach")
    /\ CallerOnly
    /\ UNCHANGED <<secrets, fabric, ops, repairs, results, device, linked, queue, budget>>

\* store_fabric with no expected revision: the row must not exist yet.
store_fabric(expected) == (fabric = "none") = (expected = "none")

AttachFabric(c) ==
    /\ caller[c].pc = "attach"
    /\ IF store_fabric("none") THEN fabric' = "unavailable" /\ Goto(c, "detach")
                          ELSE fabric' = fabric /\ Return(c)
    /\ CallerOnly
    /\ UNCHANGED <<stage, stageRev, secrets, ops, repairs, results, device, linked,
                   queue, budget>>

delete_attached_matter_fabric_stage(c) ==
    /\ caller[c].pc = "detach"
    /\ stage' = "none" /\ stageRev' = 0
    /\ Goto(c, "admit")
    /\ CallerOnly
    /\ UNCHANGED <<secrets, fabric, ops, repairs, results, device, linked, queue, budget>>

\* start_export and start_restore: the fabric must be there when the handler
\* looks.
start_existing_fabric_operation(c, a, k, kind) ==
    /\ caller[c].pc = "idle"
    /\ authorize(a, action_for_kind(kind)) /\ Worthwhile(a, k, kind, "fabric")
    /\ fabric # "none"
    /\ Request(c, a, k, kind, "fabric", "admit")
    /\ CallerOnly /\ UNCHANGED <<durable, queue, budget>>

start_commission(c, a, k) ==
    /\ caller[c].pc = "idle"
    /\ authorize(a, "commission") /\ Worthwhile(a, k, "commission", "fabric")
    /\ fabric = "active"
    /\ Request(c, a, k, "commission", "fabric", "admit")
    /\ CallerOnly /\ UNCHANGED <<durable, queue, budget>>

start_remove_node(c, a, k, n) ==
    /\ caller[c].pc = "idle"
    /\ authorize(a, "remove") /\ Worthwhile(a, k, "remove", n)
    /\ device[n] = "enrolled"
    /\ Request(c, a, k, "remove", n, "admit")
    /\ CallerOnly /\ UNCHANGED <<durable, queue, budget>>

\* start_cancel_commissioning: what is still requested is withdrawn without
\* the controller, what is running gets an operation of its own.
start_cancel_commissioning(c, a, k, i) ==
    /\ caller[c].pc = "idle"
    /\ owned_commissioning_for_cancellation(a, i) /\ Worthwhile(a, k, "cancel", i)
    /\ ~is_terminal(ops[i].phase)
    /\ Request(c, a, k, "cancel", i,
               IF ops[i].phase = "requested" THEN "withdraw" ELSE "admit")
    /\ CallerOnly /\ UNCHANGED <<durable, queue, budget>>

\* cancel_requested reads the operation again; one that was started in the
\* meantime is not cancellable here.
cancel_requested(c) ==
    LET i == caller[c].target IN
    /\ caller[c].pc = "withdraw"
    /\ IF authorize(caller[c].actor, "cancel") /\ ops[i].phase = "requested"
         THEN transition_operation(i, "cancelled")
         ELSE UNCHANGED <<ops, repairs>>
    /\ Return(c)
    /\ CallerOnly
    /\ UNCHANGED <<stage, stageRev, secrets, fabric, results, device, linked, queue, budget>>

\* create_administration_operation answers an actor's key in one
\* transaction: a new operation, the equivalent one, or a conflict (0).
create_administration_operation(a, k, kind, target) ==
    LET bound == Bound(a, k)
    IN  IF bound = {} THEN Len(ops) + 1
        ELSE LET i == CHOOSE j \in bound : TRUE
             IN  IF Equivalent(i, kind, target) THEN i ELSE 0

\* matter_admitted wakes the worker, also for a retry of an admitted request;
\* an operation that needs sensitive input waits for it.
matter_admitted(a, i, kind) ==
    IF i = 0 \/ kind \in Sensitive THEN UNCHANGED queue ELSE wake(a, i)

\* admit: authority and target are read again before the transaction.
admit(c) ==
    LET q == caller[c]
        i == create_administration_operation(q.actor, q.key, q.kind, q.target)
    IN
    /\ q.pc = "admit"
    /\ IF /\ authorize(q.actor, action_for_kind(q.kind)) /\ fabric # "none"
          /\ validate_target(q.kind, q.target)
         THEN /\ i > Len(ops) => Offered(q.kind)
              /\ ops' = IF i > Len(ops)
                          THEN Append(ops, NewOperation(q.actor, q.key, q.kind, q.target))
                          ELSE ops
              /\ matter_admitted(q.actor, i, q.kind)
         ELSE UNCHANGED <<ops, queue>>
    /\ Return(c)
    /\ CallerOnly
    /\ UNCHANGED <<stage, stageRev, secrets, fabric, repairs, results, device, linked, budget>>

\* commission, export and restore of MatterExecutionHandle: the input travels
\* with the request, and send waits for room.  A request for a terminal
\* operation changes nothing and is left out.
submit(a, i, input) ==
    /\ i \in DOMAIN ops /\ ops[i].kind \in Sensitive
    /\ Room /\ ~is_terminal(ops[i].phase)
    /\ \/ ops[i].kind = "commission" /\ input \in {Payload({n}) : n \in Nodes}
       \/ ops[i].kind = "restore" /\ input \in {Payload(e) : e \in exported}
       \/ input = NoInput
    /\ queue' = Append(queue, [actor |-> a, op |-> i, input |-> input])
    /\ UNCHANGED <<granted, durable, ctl, exported, caller, wk, calls, budget>>

----------------------------------------------------------------------------
(* The controller port as the deterministic simulator answers it: each     *)
(* operator is the controller after the call and whether it succeeded.     *)

\* origin and replaced are history: the commissioning that brought a node in,
\* which neither the controller nor the store keeps, and whether the controller
\* is another than the nodes were commissioned into.
EmptyController == [fabric |-> FALSE, nodes |-> {}, completed |-> {}, subscribed |-> {},
                    emitted |-> 0, traced |-> {}, origin |-> [n \in Nodes |-> 0],
                    replaced |-> FALSE]

\* emit_event: the log grows by the phases a call reports; what lies beyond
\* the first page is not counted.
emit_event(n) == [ctl EXCEPT !.emitted = IF @ + n <= EventPage THEN @ + n ELSE EventPage]

Answer(c, ok) == [ctl |-> c, ok |-> ok]

create_fabric == Answer([emit_event(1) EXCEPT !.fabric = TRUE], ~ctl.fabric)

\* fixture_from_setup: the node a setup payload stands for.
fixture_from_setup(input) == CHOOSE n \in input.nodes : TRUE

\* The six phases of a commissioning are reported before its outcome is
\* known; they are on the first page while they fit it.
commission(i, input) ==
    LET n == fixture_from_setup(input) IN
    CASE ~input.valid -> Answer(ctl, FALSE)
      [] input.valid /\ (~ctl.fabric \/ n \in ctl.nodes) -> Answer(emit_event(6), FALSE)
      [] OTHER -> Answer([emit_event(6) EXCEPT
                            !.nodes = @ \cup {n}, !.completed = @ \cup {i},
                            !.origin[n] = i,
                            !.traced = @ \cup {j \in {i} : ctl.emitted + 6 <= EventPage}],
                         TRUE)

\* events_after(0, page): the operation's phases, if the page holds them.
events_after(i) == i \in ctl.traced

\* read and node need the node in the controller's inventory.
Readable(n) == ctl.fabric /\ n \in ctl.nodes

subscribe(n) == Answer(IF Readable(n) THEN [ctl EXCEPT !.subscribed = @ \cup {n}] ELSE ctl,
                       Readable(n))

\* An absent node is removed too: the outcome says it was absent already.
remove_node(n) == [emit_event(IF n \in ctl.nodes THEN 2 ELSE 1) EXCEPT !.nodes = @ \ {n}]

export_fabric == Answer(emit_event(1), ctl.fabric)

\* An envelope an export delivered is restored into a controller without the
\* fabric; a foreign one is rejected first.  A corrupt one is an internal error
\* of the port, which controller_error stands for.
restore_fabric(input) ==
    CASE ~input.valid                -> Answer(ctl, FALSE)
      [] input.valid /\ ctl.fabric   -> Answer(emit_event(2), FALSE)
      [] OTHER -> Answer([emit_event(2) EXCEPT !.fabric = TRUE, !.nodes = input.nodes], TRUE)

\* A commissioning that took effect cannot be cancelled any more; without
\* the fabric the call fails, which says nothing about the commissioning.
cancel_commissioning(i) ==
    IF ~ctl.fabric THEN "unknown"
    ELSE IF i \in ctl.completed THEN "already_completed" ELSE "cancelled"

----------------------------------------------------------------------------
(* The worker.  wk.op and wk.rev are its copy of the operation, wk.trev    *)
(* the revision of the commissioning a cancellation read, pc the stretch   *)
(* it runs next.                                                           *)

Free == [pc |-> "idle", op |-> 0, rev |-> 0, trev |-> 0, actor |-> "none",
         input |-> NoInput, fresh |-> FALSE, outcome |-> "none"]

Done == wk' = Free
Then(pc) == wk' = [wk EXCEPT !.pc = pc]
Fails(class) == wk' = [wk EXCEPT !.pc = "fail", !.outcome = class]

Op == ops[wk.op]
Me == wk.op

WorkerOnly == UNCHANGED <<granted, stage, stageRev, secrets, caller>>
NoController == UNCHANGED <<ctl, exported, calls>>
NoStore == UNCHANGED <<fabric, ops, repairs, results, device, linked>>

\* Mutant: an interrupted commissioning is dispatched again.
ResumeDispatch(i) ==
    IF ops[i].phase \in {"requested", "cleaning_secrets"} THEN "begin"
    ELSE IF is_terminal(ops[i].phase) THEN "done" ELSE "call"

\* Where run_* resumes from the stored phase: "done" ends the run without a
\* change (completed, terminal, or not resumable from there).
Resume(i) ==
    LET p == ops[i].phase
        k == ops[i].kind
    IN  CASE p = "requested"                           -> "begin"
          [] k = "create" /\ p = "creating_fabric"     -> "status"
          [] k = "restore" /\ p \in {"restoring", "loading_fabric"} -> "status"
          [] k = "export" /\ p = "exporting"           -> "fail"
          [] k = "remove" /\ p = "removing_node"       -> "inspect"
          [] k = "remove" /\ p = "cleaning_secrets"    -> "removal"
          [] k = "cancel" /\ p = "cancelling"          -> "call"
          [] OTHER                                     -> "done"

\* run_next takes a request and its workflow loads the operation; a
\* cancellation also needs its commissioning still open.
run_next ==
    /\ wk.pc = "idle" /\ queue # <<>>
    /\ LET r == Head(queue)
           o == ops[r.op]
           runs == /\ owned_operation_for_action(r.actor, r.op, o.kind)
                   /\ o.kind = "cancel" =>
                        /\ owned_commissioning_for_cancellation(r.actor, o.target)
                        /\ ~is_terminal(ops[o.target].phase)
                   /\ Resume(r.op) # "done"
       IN  wk' = IF runs THEN [pc |-> Resume(r.op), op |-> r.op, rev |-> o.revision,
                               trev |-> IF o.kind = "cancel" THEN ops[o.target].revision
                                        ELSE 0,
                               actor |-> r.actor, input |-> r.input,
                               fresh |-> o.phase = "requested", outcome |-> "repair_required"]
                 ELSE Free
    /\ queue' = Tail(queue)
    /\ WorkerOnly /\ NoController /\ NoStore /\ UNCHANGED budget

\* The workflows' transition helper: to the next declared phase, or back to
\* the daemon with the repository's conflict.
Advance(pc) ==
    IF Current(Me, wk.rev) /\ transition(Op, NextPhase(Op))
      THEN /\ transition_operation(Me, NextPhase(Op))
           /\ wk' = [wk EXCEPT !.rev = @ + 1, !.pc = pc]
      ELSE Done /\ UNCHANGED <<ops, repairs>>

\* The first transition is durable before any controller work.
begin ==
    /\ wk.pc = "begin"
    /\ Advance(IF Op.kind \in {"create", "restore"} THEN "status" ELSE "call")
    /\ WorkerOnly /\ NoController
    /\ UNCHANGED <<fabric, results, device, linked, queue, budget>>

\* run_create and run_simulator_restore decide by the controller's status:
\* a fabric found by a resumed run proves the earlier dispatch took effect.
fabric_status ==
    /\ wk.pc = "status"
    /\ CASE ctl.fabric /\ ~wk.fresh  -> Then("load")
         [] ctl.fabric /\ wk.fresh   -> Fails("failed")
         [] ~ctl.fabric /\ wk.fresh  -> Then("call")
         [] OTHER                    -> Fails("repair_required")
    /\ WorkerOnly /\ NoController /\ NoStore /\ UNCHANGED <<queue, budget>>

\* Mutations dispatched to the controller, counted up to two.
Dispatch == calls' = [calls EXCEPT ![Me] = IF @ < 2 THEN @ + 1 ELSE @]

\* A fault of the controller port before it has any effect: a scripted
\* error of either class, or a simulated restart in one of its phases.
Faulty(pcs) ==
    /\ wk.pc \in pcs
    /\ Disrupt("fault")
    /\ WorkerOnly /\ NoStore /\ UNCHANGED <<ctl, exported, queue>>

\* Any error of the port but those of remove_node, cancel_commissioning and
\* node goes to terminal_controller_error.
controller_error ==
    /\ Faulty({"status", "call", "trace", "prepare", "subscribe"})
    /\ Op.kind \notin {"remove", "cancel"}
    /\ IF wk.pc = "call" THEN Dispatch ELSE UNCHANGED calls
    /\ \E class \in {"failed", "repair_required"} : Fails(class)

Fixture == fixture_from_setup(wk.input)

\* The controller call of a fresh run: what it answers decides how the
\* workflow goes on.
Call(kind, answer, pc) ==
    /\ wk.pc = "call" /\ Op.kind = kind
    /\ Dispatch
    /\ ctl' = answer.ctl
    /\ IF answer.ok THEN Then(pc) ELSE Fails("failed")
    /\ WorkerOnly /\ NoStore /\ UNCHANGED <<queue, budget>>

run_create == Call("create", create_fabric, "load") /\ UNCHANGED exported

run_commission == Call("commission", commission(Me, wk.input), "trace") /\ UNCHANGED exported

run_export ==
    /\ Call("export", export_fabric, "finish")
    /\ exported' = IF export_fabric.ok THEN exported \cup {ctl.nodes} ELSE exported

run_simulator_restore ==
    Call("restore", restore_fabric(wk.input), "load") /\ UNCHANGED exported

\* commissioning_progress: the page must hold the declared phases exactly.
commissioning_progress ==
    /\ wk.pc = "trace"
    /\ IF events_after(Me) THEN Then("advance") ELSE Fails("repair_required")
    /\ WorkerOnly /\ NoController /\ NoStore /\ UNCHANGED <<queue, budget>>

\* The observed phases become durable one by one, up to projecting.
advance ==
    /\ wk.pc = "advance"
    /\ Advance(IF NextPhase(Op) = "projecting" THEN "prepare" ELSE "advance")
    /\ WorkerOnly /\ NoController
    /\ UNCHANGED <<fabric, results, device, linked, queue, budget>>

\* prepare_commissioning_projection reads every selected path of the node.
prepare_commissioning_projection ==
    /\ wk.pc = "prepare"
    /\ IF Readable(Fixture)
         THEN Advance("subscribe")
         ELSE Fails("failed") /\ UNCHANGED <<ops, repairs>>
    /\ WorkerOnly /\ NoController
    /\ UNCHANGED <<fabric, results, device, linked, queue, budget>>

SubscribeNode ==
    /\ wk.pc = "subscribe"
    /\ ctl' = subscribe(Fixture).ctl
    /\ IF subscribe(Fixture).ok THEN Then("commit") ELSE Fails("failed")
    /\ WorkerOnly /\ NoStore /\ UNCHANGED <<exported, calls, queue, budget>>

\* store_node inserts the node with no expected revision: the tombstone of an
\* earlier removal conflicts.
store_node(n) == device[n] = "absent"

\* commit_commissioning: device, node, projections, subscription, result and
\* the completed operation in one transaction.
commit_commissioning(i, n) ==
    /\ transition_operation(i, "completed")
    /\ device' = [device EXCEPT ![n] = "enrolled"]
    /\ linked' = linked \cup {n}
    /\ results' = results \cup {<<i, n>>}

complete_commissioning ==
    /\ wk.pc = "commit"
    /\ IF store_node(Fixture) /\ Current(Me, wk.rev) /\ transition(Op, "completed")
         THEN commit_commissioning(Me, Fixture)
         ELSE UNCHANGED <<ops, repairs, device, linked, results>>
    /\ Done
    /\ WorkerOnly /\ NoController /\ UNCHANGED <<fabric, queue, budget>>

run_remove_node ==
    /\ Call("remove", Answer(remove_node(Op.target), TRUE), "clean")
    /\ UNCHANGED exported

\* A fault of remove_node: partial removal, an error before the removal, or
\* one after it (a restart in cleaning_secrets).
remove_node_fault ==
    /\ wk.pc = "call" /\ Op.kind = "remove"
    /\ Disrupt("fault")
    /\ Dispatch
    /\ \/ Fails("repair_required") /\ UNCHANGED ctl
       \/ Then("inspect") /\ UNCHANGED ctl
       \/ /\ Then("inspect")
          /\ ctl' = remove_node(Op.target)
    /\ WorkerOnly /\ NoStore /\ UNCHANGED <<exported, queue>>

\* Mutant: the controller's inventory is not asked, the removal just failed.
inspect_skipped(lookup) ==
    /\ wk.pc = "inspect" /\ lookup = "answers"
    /\ Fails("failed")
    /\ WorkerOnly /\ NoController /\ NoStore /\ UNCHANGED <<queue, budget>>

\* After an error, or a restart in removing_node, only the controller's own
\* inventory may prove the node gone.
inspect_removal(lookup) ==
    /\ wk.pc = "inspect"
    /\ IF lookup = "answers" /\ ctl.fabric /\ Op.target \notin ctl.nodes
         THEN Advance("removal")
         ELSE Fails("repair_required") /\ UNCHANGED <<ops, repairs>>
    /\ IF lookup = "errors" THEN Disrupt("fault") ELSE UNCHANGED budget
    /\ WorkerOnly /\ NoController
    /\ UNCHANGED <<fabric, results, device, linked, queue>>

clean_secrets ==
    /\ wk.pc = "clean"
    /\ Advance("removal")
    /\ WorkerOnly /\ NoController
    /\ UNCHANGED <<fabric, results, device, linked, queue, budget>>

\* commit_matter_node_removal: the tombstone, the deleted projections and
\* subscription and the completed operation in one transaction.
commit_matter_node_removal(i, n) ==
    /\ transition_operation(i, "completed")
    /\ device' = [device EXCEPT ![n] = "removed"]
    /\ linked' = linked \ {n}

\* complete_node_removal reads the actor's authority once more.
complete_node_removal ==
    /\ wk.pc = "removal"
    /\ IF /\ authorize(wk.actor, "remove")
          /\ Current(Me, wk.rev) /\ transition(Op, "completed")
         THEN commit_matter_node_removal(Me, Op.target)
         ELSE UNCHANGED <<ops, repairs, device, linked>>
    /\ Done
    /\ WorkerOnly /\ NoController /\ UNCHANGED <<fabric, results, queue, budget>>

\* A restore records loading_fabric first; then activate_fabric makes the
\* durable fabric as live as the controller reports it.
load_fabric ==
    /\ wk.pc = "load" /\ Op.kind = "restore" /\ Op.phase = "restoring"
    /\ Advance("load")
    /\ WorkerOnly /\ NoController
    /\ UNCHANGED <<fabric, results, device, linked, queue, budget>>

activate_fabric ==
    /\ wk.pc = "load" /\ ~(Op.kind = "restore" /\ Op.phase = "restoring")
    /\ fabric' = "active"
    /\ Then("finish")
    /\ WorkerOnly /\ NoController
    /\ UNCHANGED <<ops, repairs, results, device, linked, queue, budget>>

finish ==
    /\ wk.pc = "finish"
    /\ IF Current(Me, wk.rev) /\ transition(Op, "completed")
         THEN transition_operation(Me, "completed") ELSE UNCHANGED <<ops, repairs>>
    /\ Done
    /\ WorkerOnly /\ NoController
    /\ UNCHANGED <<fabric, results, device, linked, queue, budget>>

\* run_cancel_commissioning asks the controller; an error of the call, before
\* or after its phase is reported, is an unknown outcome.
run_cancel_commissioning(answer) ==
    /\ wk.pc = "call" /\ Op.kind = "cancel"
    /\ wk' = [wk EXCEPT !.pc = "settle",
                        !.outcome = IF answer = "error" THEN "unknown"
                                    ELSE cancel_commissioning(Op.target)]
    /\ IF answer = "error" THEN Disrupt("fault") ELSE UNCHANGED budget
    /\ Dispatch
    /\ \/ ctl' = IF ctl.fabric THEN emit_event(1) ELSE ctl
       \/ answer = "error" /\ UNCHANGED ctl
    /\ WorkerOnly /\ NoStore /\ UNCHANGED <<exported, queue>>

\* Mutant: a commissioning that had already completed is cancelled too.
CancelledAnyway(outcome) ==
    IF outcome = "unknown"
      THEN [commissioning |-> "repair_required", cancellation |-> "repair_required"]
    ELSE [commissioning |-> "cancelled", cancellation |-> "completed"]

\* Both operations' next phases by the outcome.
CancellationPhases(outcome) ==
    CASE outcome = "cancelled"         -> [commissioning |-> "cancelled", cancellation |-> "completed"]
      [] outcome = "already_completed" -> [commissioning |-> "repair_required", cancellation |-> "completed"]
      [] OTHER                         -> [commissioning |-> "repair_required", cancellation |-> "repair_required"]

\* Mutant: the two transitions are written one without the other.
commit_halves ==
    LET next == CancellationPhases(wk.outcome) IN
    /\ wk.pc = "settle"
    /\ IF Current(Me, wk.rev) /\ transition(Op, next.cancellation)
         THEN transition_operation(Me, next.cancellation) ELSE UNCHANGED <<ops, repairs>>
    /\ Done
    /\ WorkerOnly /\ NoController
    /\ UNCHANGED <<fabric, results, device, linked, queue, budget>>

\* commit_matter_cancellation: both transitions under the revisions read
\* before the controller was asked, or neither.
commit_matter_cancellation ==
    LET t == Op.target
        next == CancellationPhases(wk.outcome)
    IN
    /\ wk.pc = "settle"
    /\ IF /\ Current(Me, wk.rev) /\ transition(Op, next.cancellation)
          /\ Current(t, wk.trev) /\ transition(ops[t], next.commissioning)
         THEN /\ ops' = [ops EXCEPT ![t] = Moved(@, next.commissioning),
                                    ![Me] = Moved(@, next.cancellation)]
              /\ repairs' = repairs
                   \cup {i \in {t} : next.commissioning = "repair_required"}
                   \cup {i \in {Me} : next.cancellation = "repair_required"}
         ELSE UNCHANGED <<ops, repairs>>
    /\ Done
    /\ WorkerOnly /\ NoController
    /\ UNCHANGED <<fabric, results, device, linked, queue, budget>>

\* record_controller_failure reloads the operation under the actor's present
\* authority: without it, or once the operation is terminal, nothing is
\* recorded.
record_controller_failure(a, i, class) ==
    IF /\ ops[i].actor = a /\ authorize(a, action_for_kind(ops[i].kind))
       /\ transition(ops[i], class)
      THEN transition_operation(i, class)
      ELSE UNCHANGED <<ops, repairs>>

terminal_controller_error ==
    /\ wk.pc = "fail"
    /\ record_controller_failure(wk.actor, Me, wk.outcome)
    /\ Done
    /\ WorkerOnly /\ NoController
    /\ UNCHANGED <<fabric, results, device, linked, queue, budget>>

\* recover_commissioning: what is interrupted between the first phase and the
\* commit is closed as repair-required, whatever the controller shows.
recover_commissioning(a, i) ==
    /\ owned_operation_for_action(a, i, "commission")
    /\ ops[i].phase \in COMMISSIONING_PHASES
    /\ record_controller_failure(a, i, "repair_required")
    /\ UNCHANGED <<granted, stage, stageRev, secrets, fabric, results, device, linked,
                   ctl, exported, caller, queue, wk, calls, budget>>

----------------------------------------------------------------------------
(* The environment.                                                        *)

\* The process dies and starts again.
Crash ==
    /\ Disrupt("crash")
    /\ queue # <<>> \/ wk # Free \/ \E c \in Callers : caller[c] # Idle
    /\ caller' = [c \in Callers |-> Idle] /\ queue' = <<>> /\ Done
    /\ UNCHANGED <<granted, durable, ctl, exported, calls>>

\* The daemon starts again with an empty controller (what restore is for).
ReplaceController ==
    /\ Disrupt("replace")
    /\ ctl.fabric
    /\ ctl' = [EmptyController EXCEPT !.replaced = TRUE]
    /\ caller' = [c \in Callers |-> Idle] /\ queue' = <<>> /\ Done
    /\ UNCHANGED <<granted, durable, exported, calls>>

\* The operator replaces an actor's grants.
Revoke(a, action) ==
    /\ Disrupt("revoke")
    /\ <<a, action>> \in granted
    /\ granted' = granted \ {<<a, action>>}
    /\ UNCHANGED <<durable, ctl, exported, caller, queue, wk, calls>>

Init ==
    /\ load \in Workloads
    /\ granted = Actors \X Kinds
    /\ stage = "none" /\ stageRev = 0
    /\ fabric = IF load.provisioned THEN "active" ELSE "none"
    /\ secrets = {r \in 1 .. Refs : load.provisioned}
    /\ ops = <<>> /\ repairs = {} /\ results = {}
    /\ device = [n \in Nodes |-> "absent"] /\ linked = {}
    /\ ctl = [EmptyController EXCEPT !.fabric = load.provisioned] /\ exported = {}
    /\ caller = [c \in Callers |-> Idle]
    /\ queue = <<>> /\ wk = Free
    /\ calls = [i \in 1 .. MaxOps |-> 0]
    /\ budget = MaxDisruptions

CallerStep ==
    \E c \in Callers :
        \/ \E a \in Actors, k \in Keys :
              \/ start_create(c, a, k)
              \/ start_commission(c, a, k)
              \/ \E kind \in {"export", "restore"} : start_existing_fabric_operation(c, a, k, kind)
              \/ \E n \in Nodes : start_remove_node(c, a, k, n)
              \/ \E i \in DOMAIN ops : start_cancel_commissioning(c, a, k, i)
        \/ LoadStage(c) \/ PutSecret(c) \/ PutFails(c) \/ SecretsReady(c)
        \/ AttachFabric(c) \/ delete_attached_matter_fabric_stage(c)
        \/ cancel_requested(c) \/ admit(c)

Submission ==
    \E a \in Actors, i \in DOMAIN ops :
        \E input \in {Payload(ns) : ns \in SUBSET Nodes} \cup {NoInput} : submit(a, i, input)

WorkerStep ==
    \/ run_next \/ begin \/ fabric_status \/ controller_error
    \/ run_create \/ run_export \/ run_simulator_restore
    \/ load_fabric \/ activate_fabric \/ finish
    \/ run_commission \/ commissioning_progress \/ advance
    \/ prepare_commissioning_projection \/ SubscribeNode \/ complete_commissioning
    \/ run_remove_node \/ remove_node_fault \/ clean_secrets \/ complete_node_removal
    \/ \E l \in {"answers", "errors"} : inspect_removal(l)
    \/ \E answer \in {"known", "error"} : run_cancel_commissioning(answer)
    \/ commit_matter_cancellation \/ terminal_controller_error

Environment ==
    \/ Crash \/ ReplaceController
    \/ \E a \in Actors, action \in DOMAIN load.offered : Revoke(a, action)

Recovery == \E a \in Actors, i \in DOMAIN ops : recover_commissioning(a, i)

Next ==
    /\ CallerStep \/ Submission \/ WorkerStep \/ Recovery \/ Environment
    /\ UNCHANGED load

Spec == Init /\ [][Next]_vars

----------------------------------------------------------------------------
(* Properties.                                                             *)

\* Whatever crashes, retries and repeated wakes do, at most one controller
\* mutation is dispatched for an operation (only the best-effort
\* cancellation may be asked again): run_* starts controller work only from
\* the requested phase it has itself moved on.
DispatchedOnce ==
    \A i \in DOMAIN ops : ops[i].kind # "cancel" => calls[i] <= 1

\* A cancellation that completed has settled its commissioning in the same
\* transaction, and a commissioning is cancelled only by a withdrawal before
\* its first phase or by such a cancellation.
CancellationSettlesBoth ==
    \A i \in DOMAIN ops :
        /\ ops[i].kind = "cancel" /\ ops[i].phase = "completed" =>
              ops[ops[i].target].phase \in {"cancelled", "repair_required"}
        /\ ops[i].kind = "commission" /\ ops[i].phase = "cancelled" =>
              \/ ops[i].revision = 2
              \/ \E j \in DOMAIN ops : ops[j].kind = "cancel" /\ ops[j].target = i
                                       /\ ops[j].phase = "completed"

\* Removals of a node that may have taken it out of the controller.
Removing(n) ==
    \E i \in DOMAIN ops : ops[i].kind = "remove" /\ ops[i].target = n /\ calls[i] > 0
                          /\ ops[i].phase \notin {"completed", "failed"}

\* While the controller is the one the nodes were commissioned into, an
\* enrolled device is a node the controller has, with its projections and
\* subscription stored, unless a removal of it is open or needs repair.
EnrolledIsBacked ==
    \A n \in Nodes :
        device[n] = "enrolled" =>
            /\ n \in linked
            /\ \E r \in results : r[2] = n /\ ops[r[1]].phase = "completed"
            /\ ~ctl.replaced => n \in ctl.nodes \/ Removing(n)

\* A node in the controller that no enrolled device stands for was brought in
\* by a commissioning that is recorded as neither completed nor cancelled: a
\* partial commissioning never looks finished.  It may be recorded as failed,
\* with no repair, and nothing in the code leads from the operation to the node.
StrayNodeIsUnfinished ==
    \A n \in ctl.nodes :
        (device[n] # "enrolled" /\ ~ctl.replaced) =>
            /\ ctl.origin[n] \in DOMAIN ops
            /\ ops[ctl.origin[n]].kind = "commission"
            /\ ops[ctl.origin[n]].phase \notin {"completed", "cancelled"}

\* The durable fabric exists only with all of its secrets written: two
\* handlers provisioning at once, a failed put or a crash between two puts
\* never attach a fabric that lacks a secret.
AttachedFabricHasSecrets ==
    fabric # "none" => secrets = 1 .. Refs
=============================================================================
