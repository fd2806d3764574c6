------------------------ MODULE MatterOperationsProofs ------------------------
(***************************************************************************)
(* Theorems about MatterOperations, for any actors, keys, nodes, handlers, *)
(* workloads and bounds.                                                   *)
(*                                                                         *)
(* The worker holds a copy of its operation across awaits while callers,   *)
(* cancellations and recovery move the stored one.  The invariant says     *)
(* what the stored revision then guarantees: an operation is at revision 1 *)
(* exactly while it is requested, a moved operation has a new revision,    *)
(* and a terminal one never moves (Evolved); and for every place the       *)
(* worker can stand, which kinds of operation it runs there, and what the  *)
(* stored phase and the dispatch count are (Carried).                      *)
(***************************************************************************)
EXTENDS MatterOperations, TLAPS, SequenceTheorems

----------------------------------------------------------------------------
(* Types.                                                                  *)

Terminal == {"completed", "cancelled", "failed", "repair_required"}
Targets == {"fabric", "none"} \cup Nodes \cup Nat
Operation == [kind : Kinds, target : Targets, phase : Phases, revision : Nat \ {0},
              actor : Actors \cup {"none"}, key : Keys \cup {"none"}]
Handler == [pc : {"idle", "stage", "put", "attach", "detach", "withdraw", "admit"},
            actor : Actors \cup {"none"}, key : Keys \cup {"none"},
            kind : Kinds \cup {"none"}, target : Targets, rev : Nat, put : Nat]

\* The kinds of operation the worker runs at each place.
Runs == [idle |-> {}, begin |-> Kinds, status |-> {"create", "restore"}, call |-> Kinds,
         load |-> {"create", "restore"}, finish |-> {"create", "export", "restore"},
         trace |-> {"commission"}, advance |-> {"commission"}, prepare |-> {"commission"},
         subscribe |-> {"commission"}, commit |-> {"commission"}, inspect |-> {"remove"},
         clean |-> {"remove"}, removal |-> {"remove"}, settle |-> {"cancel"},
         fail |-> Kinds \ {"cancel"}]
Places == {"idle", "begin", "status", "call", "load", "finish", "trace", "advance", "prepare",
           "subscribe", "commit", "inspect", "clean", "removal", "settle", "fail"}
Outcomes == {"none", "failed", "repair_required", "unknown", "already_completed", "cancelled"}

\* The actor and the input the worker copied from its request matter to no
\* theorem here, so they are of the type they have.
Worker(w) == [pc : Places, op : Nat, rev : Nat, trev : Nat, actor : {w.actor},
              input : {w.input}, fresh : BOOLEAN, outcome : Outcomes]
Controller(c) == [fabric : BOOLEAN, nodes : {c.nodes}, completed : {c.completed},
                  subscribed : {c.subscribed}, emitted : {c.emitted}, traced : {c.traced},
                  origin : {c.origin}, replaced : BOOLEAN]

Shape ==
    /\ ops \in Seq(Operation) /\ Len(ops) <= MaxOps
    /\ caller \in [Callers -> Handler]
    /\ wk \in Worker(wk)
    /\ ctl \in Controller(ctl)
    /\ calls \in [1 .. MaxOps -> Nat]
    /\ stageRev \in Nat
    /\ device \in [Nodes -> {"absent", "enrolled", "removed"}]

----------------------------------------------------------------------------
(* The inductive invariant.                                                *)

\* What a handler holds: the kind it asks for, and for a cancellation a
\* commissioning of its own.
Asked(q, os) ==
    /\ q.kind \in Kinds
    /\ q.kind = "cancel" => q.target \in DOMAIN os /\ os[q.target].kind = "commission"
    /\ q.pc = "withdraw" => q.kind = "cancel"

\* An operation is at revision 1 exactly while it is requested, and until
\* then nothing was dispatched for it.
Recorded(o, n, os) ==
    /\ o.phase = "requested" <=> o.revision = 1
    /\ o.kind = "cancel" => o.target \in DOMAIN os /\ os[o.target].kind = "commission"
    /\ o.kind # "cancel" => n <= 1 /\ (o.revision = 1 => n = 0)

\* What the worker w knows of its operation o, dispatched n times so far.
Carried(w, o, n) ==
    /\ o.kind \in Runs[w.pc] /\ w.rev > 0 /\ w.rev <= o.revision
    /\ w.pc = "begin" => w.rev = 1
    /\ w.pc = "call" \/ (w.pc = "status" /\ w.fresh) =>
         w.rev > 1 /\ (o.kind # "cancel" => n = 0)
    /\ w.pc = "fail" => /\ w.outcome \in {"failed", "repair_required"}
                        /\ o.kind = "remove" => w.outcome = "repair_required"
    /\ o.kind = "remove" =>
         /\ w.pc \in {"call", "inspect", "clean"} => o.phase = "removing_node"
         /\ w.pc = "removal" => o.phase = "cleaning_secrets"
    /\ w.rev = o.revision =>
         /\ o.kind = "commission" /\ w.pc \in {"call", "trace"} => o.phase = "validating_setup"
         /\ w.pc = "advance" => o.phase \in {"validating_setup", "discovering",
                                             "establishing_session", "commissioning"}
         /\ w.pc = "prepare" => o.phase = "projecting"

Standing ==
    /\ \A c \in Callers : caller[c].pc # "idle" => Asked(caller[c], ops)
    /\ \A i \in DOMAIN ops : Recorded(ops[i], calls[i], ops)
    /\ \A i \in 1 .. MaxOps : i > Len(ops) => calls[i] = 0
    /\ wk.pc # "idle" => wk.op \in DOMAIN ops /\ Carried(wk, ops[wk.op], calls[wk.op])

OperationInv == Shape /\ Standing

----------------------------------------------------------------------------
(* Operations and their phases.                                            *)

\* What one step may do to an operation: nothing, or one transition to a
\* phase other than requested, unless it is terminal.
Evolved(o, p) ==
    /\ p.kind = o.kind /\ p.target = o.target
    /\ \/ p = o
       \/ o.phase \notin Terminal /\ p.phase # "requested" /\ p.revision = o.revision + 1

Grown(old, new) ==
    /\ DOMAIN old \subseteq DOMAIN new
    /\ \A i \in DOMAIN old : Evolved(old[i], new[i])

\* Every declared transition leads to a declared phase other than requested.
LEMMA ValidPhase ==
  ASSUME NEW k \in Kinds, NEW from, NEW to, valid_transition(k, from, to)
  PROVE  to \in Phases \ {"requested"}
  <1>1. CASE to \in {"failed", "repair_required", "cancelled"}
    BY <1>1 DEF Phases
  <1>2. CASE to \notin {"failed", "repair_required", "cancelled"}
    <2>1. PICK i \in 1 .. Len(Track[k]) - 1 : Track[k][i + 1] = to
      BY <1>2 DEF valid_transition
    <2>2. CASE k = "create"
      BY <2>1, <2>2 DEF Track, Phases
    <2>3. CASE k = "commission"
      BY <2>1, <2>3 DEF Track, Phases
    <2>4. CASE k = "cancel"
      BY <2>1, <2>4 DEF Track, Phases
    <2>5. CASE k = "remove"
      BY <2>1, <2>5 DEF Track, Phases
    <2>6. CASE k = "export"
      BY <2>1, <2>6 DEF Track, Phases
    <2>7. CASE k = "restore"
      BY <2>1, <2>7 DEF Track, Phases
    <2> QED
      BY <2>2, <2>3, <2>4, <2>5, <2>6, <2>7 DEF Kinds
  <1> QED
    BY <1>1, <1>2

\* The phases of a kind are distinct, so the next one is well defined.
LEMMA NextPhaseIs ==
  ASSUME NEW k \in Kinds, NEW i \in DOMAIN Track[k], NEW op,
         op.kind = k, op.phase = Track[k][i]
  PROVE  NextPhase(op) = Track[k][i + 1]
  <1> DEFINE t == Track[k]
             j == CHOOSE m \in DOMAIN t : t[m] = op.phase
  <1>1. j \in DOMAIN t /\ t[j] = op.phase
    BY Zenon
  <1>2. NextPhase(op) = t[1 + j]
    BY DEF NextPhase
  <1> HIDE DEF j
  <1>3. CASE k = "create"
    BY <1>1, <1>2, <1>3 DEF Track
  <1>4. CASE k = "commission"
    BY <1>1, <1>2, <1>4 DEF Track
  <1>5. CASE k = "cancel"
    BY <1>1, <1>2, <1>5 DEF Track
  <1>6. CASE k = "remove"
    BY <1>1, <1>2, <1>6 DEF Track
  <1>7. CASE k = "export"
    BY <1>1, <1>2, <1>7 DEF Track
  <1>8. CASE k = "restore"
    BY <1>1, <1>2, <1>8 DEF Track
  <1> QED
    BY <1>3, <1>4, <1>5, <1>6, <1>7, <1>8 DEF Kinds

\* The first transition of an operation, and the later ones the worker makes
\* by the declared order.
LEMMA FirstPhase ==
  ASSUME NEW o \in Operation, o.phase = "requested"
  PROVE  /\ NextPhase(o) \in Phases \ (Terminal \cup {"requested"})
         /\ o.kind = "commission" => NextPhase(o) = "validating_setup"
         /\ o.kind = "remove" => NextPhase(o) = "removing_node"
  <1>1. 1 \in DOMAIN Track[o.kind] /\ Track[o.kind][1] = "requested"
    BY DEF Track, Operation, Kinds
  <1>2. NextPhase(o) = Track[o.kind][2]
    BY <1>1, NextPhaseIs DEF Operation
  <1> QED
    BY <1>2 DEF Track, Operation, Kinds, Phases, Terminal

LEMMA CommissioningPhase ==
  ASSUME NEW o \in Operation, o.kind = "commission", NEW i \in 2 .. 6,
         o.phase = Track["commission"][i]
  PROVE  NextPhase(o) = Track["commission"][i + 1]
  <1>1. i \in DOMAIN Track["commission"] /\ "commission" \in Kinds
    BY DEF Track, Kinds
  <1> QED
    BY <1>1, NextPhaseIs

LEMMA RemovalPhase ==
  ASSUME NEW o \in Operation, o.kind = "remove", o.phase = "removing_node"
  PROVE  NextPhase(o) = "cleaning_secrets"
  <1>1. 2 \in DOMAIN Track["remove"] /\ "remove" \in Kinds /\ Track["remove"][2] = "removing_node"
    BY DEF Track, Kinds
  <1>2. Track["remove"][3] = "cleaning_secrets"
    BY DEF Track
  <1> QED
    BY <1>1, <1>2, NextPhaseIs

LEMMA LoadingPhase ==
  ASSUME NEW o \in Operation, o.kind = "restore", o.phase = "restoring"
  PROVE  NextPhase(o) = "loading_fabric"
  <1>1. 2 \in DOMAIN Track["restore"] /\ "restore" \in Kinds /\ Track["restore"][2] = "restoring"
    BY DEF Track, Kinds
  <1>2. Track["restore"][3] = "loading_fabric"
    BY DEF Track
  <1> QED
    BY <1>1, <1>2, NextPhaseIs

\* Moved changes the phase and the revision.
LEMMA MovedIs ==
  ASSUME NEW o \in Operation, NEW p \in Phases
  PROVE  /\ Moved(o, p) \in Operation
         /\ Moved(o, p).phase = p /\ Moved(o, p).revision = o.revision + 1
         /\ Moved(o, p).kind = o.kind /\ Moved(o, p).target = o.target
  <1> DEFINE n == o.revision + 1
             m == Moved(o, p)
  <1>1. n \in Nat \ {0}
    BY DEF Operation
  <1>2. m = [o EXCEPT !.phase = p, !.revision = n]
    BY DEF Moved
  <1> HIDE DEF n, m
  <1>3. m \in Operation /\ m.phase = p /\ m.revision = n /\ m.kind = o.kind /\ m.target = o.target
    BY <1>1, <1>2 DEF Operation
  <1> QED
    BY <1>3 DEF m, n

\* One transition of a stored operation.
MovedAt(os, i, p) == [os EXCEPT ![i] = Moved(@, p)]

LEMMA OneMoves ==
  ASSUME NEW os \in Seq(Operation), NEW i \in DOMAIN os, os[i].phase \notin Terminal,
         NEW p \in Phases \ {"requested"}, NEW ns, ns = MovedAt(os, i, p)
  PROVE  /\ ns \in Seq(Operation) /\ Len(ns) = Len(os) /\ DOMAIN ns = DOMAIN os
         /\ Grown(os, ns)
         /\ ns[i] \in Operation /\ ns[i].phase = p /\ ns[i].revision = os[i].revision + 1
         /\ ns[i].kind = os[i].kind /\ ns[i].target = os[i].target
         /\ \A j \in DOMAIN os : j # i => ns[j] = os[j]
  <1> DEFINE o == os[i]
             m == Moved(o, p)
  <1>1. o \in Operation
    OBVIOUS
  <1>2. /\ m \in Operation /\ m.phase = p /\ m.revision = o.revision + 1
        /\ m.kind = o.kind /\ m.target = o.target
    BY <1>1, MovedIs
  <1>3. ns = [os EXCEPT ![i] = m]
    BY DEF MovedAt
  <1> HIDE DEF m, o
  <1>4. ns \in Seq(Operation) /\ Len(ns) = Len(os) /\ DOMAIN ns = DOMAIN os
    BY <1>2, <1>3, ExceptSeq
  <1>5. ns[i] = m /\ \A j \in DOMAIN os : j # i => ns[j] = os[j]
    BY <1>3
  <1>6. Grown(os, ns)
    BY <1>2, <1>4, <1>5 DEF Grown, Evolved, o
  <1> QED
    BY <1>2, <1>4, <1>5, <1>6 DEF o

\* The guard of a transition, as the sets it stands for.
LEMMA TransitionGuard ==
  ASSUME NEW o \in Operation, NEW p, transition(o, p)
  PROVE  o.phase \notin Terminal /\ p \in Phases \ {"requested"}
  BY ValidPhase DEF transition, is_terminal, Terminal, Operation

----------------------------------------------------------------------------
(* What a step of another actor leaves true.                               *)

LEMMA AskedStays ==
  ASSUME NEW q, NEW os, NEW ns, Grown(os, ns), Asked(q, os)
  PROVE  Asked(q, ns)
  BY DEF Grown, Evolved, Asked

LEMMA RecordedStays ==
  ASSUME NEW os, NEW ns, Grown(os, ns), NEW o \in Operation, NEW p, Evolved(o, p), NEW n,
         Recorded(o, n, os)
  PROVE  Recorded(p, n, ns)
  BY DEF Grown, Evolved, Recorded, Operation

LEMMA CarriedStays ==
  ASSUME NEW w, w.rev \in Nat, NEW o \in Operation, NEW p, Evolved(o, p), NEW n,
         o.kind = "remove" => p = o, Carried(w, o, n)
  PROVE  Carried(w, p, n)
  BY DEF Evolved, Carried, Operation

LEMMA Unmoved ==
  ASSUME NEW os
  PROVE  Grown(os, os)
  BY DEF Grown, Evolved

\* A step that moves stored operations and dispatches nothing keeps what is
\* recorded of them, what handlers hold, and an idle worker.
LEMMA RecordsStay ==
  ASSUME OperationInv, Shape', Grown(ops, ops'), Len(ops') = Len(ops), calls' = calls,
         \A c \in Callers : \/ caller'[c] = caller[c]
                            \/ caller'[c].pc = "idle"
                            \/ Asked(caller'[c], ops),
         wk'.pc # "idle" => /\ wk'.op \in DOMAIN ops
                            /\ Carried(wk', ops'[wk'.op], calls[wk'.op])
  PROVE  Standing'
  <1> USE DEF OperationInv
  <1>1. ops \in Seq(Operation) /\ ops' \in Seq(Operation)
    BY DEF Shape
  <1>2. DOMAIN ops' = DOMAIN ops
    BY <1>1
  <1>3. \A c \in Callers : caller'[c].pc # "idle" => Asked(caller'[c], ops')
    BY AskedStays DEF Standing
  <1>4. \A i \in DOMAIN ops : Recorded(ops'[i], calls[i], ops')
    BY <1>1, RecordedStays DEF Standing, Grown
  <1> QED
    BY <1>1, <1>2, <1>3, <1>4 DEF Standing

----------------------------------------------------------------------------
(* Handlers.                                                               *)

\* Everything the invariant is about but the handlers.
others == <<ops, wk, ctl, calls, device>>

LEMMA HandlerMoves ==
  ASSUME OperationInv, stageRev' \in Nat, NEW c \in Callers, NEW q \in Handler,
         q.pc # "idle" => Asked(q, ops),
         caller' = [caller EXCEPT ![c] = q], UNCHANGED others
  PROVE  OperationInv'
  <1>1. caller' \in [Callers -> Handler] /\ caller'[c] = q
        /\ \A d \in Callers : d # c => caller'[d] = caller[d]
    BY DEF OperationInv, Shape
  <1>2. Shape'
    BY <1>1 DEF OperationInv, Shape, others
  <1>3. Standing'
    <2>1. Grown(ops, ops') /\ Len(ops') = Len(ops) /\ calls' = calls
      BY Unmoved DEF others
    <2>2. wk'.pc # "idle" => /\ wk'.op \in DOMAIN ops
                             /\ Carried(wk', ops'[wk'.op], calls[wk'.op])
      BY DEF OperationInv, Standing, others
    <2> QED
      BY <1>1, <1>2, <2>1, <2>2, RecordsStay
  <1> QED
    BY <1>2, <1>3 DEF OperationInv

\* A handler that returns, or goes on with the request it holds.
LEMMA HandlerReturns ==
  ASSUME OperationInv, stageRev' \in Nat, NEW c \in Callers, Return(c), UNCHANGED others
  PROVE  OperationInv'
  <1>1. Idle \in Handler /\ Idle.pc = "idle"
    BY DEF Idle, Handler, Targets
  <1> QED
    BY <1>1, HandlerMoves DEF Return

LEMMA HandlerGoesOn ==
  ASSUME OperationInv, stageRev' \in Nat, NEW c \in Callers,
         caller[c].pc \notin {"idle", "withdraw"},
         NEW pc \in {"put", "attach", "detach", "admit"}, NEW rev \in Nat, NEW put \in Nat,
         caller' = [caller EXCEPT ![c] = [caller[c] EXCEPT !.pc = pc, !.rev = rev, !.put = put]],
         UNCHANGED others
  PROVE  OperationInv'
  <1> DEFINE h == caller[c]
             q == [h EXCEPT !.pc = pc, !.rev = rev, !.put = put]
  <1>1. h \in Handler /\ Asked(h, ops)
    BY DEF OperationInv, Shape, Standing
  <1>2. caller' = [caller EXCEPT ![c] = q]
    OBVIOUS
  <1>3. q \in Handler /\ q.kind = h.kind /\ q.target = h.target /\ q.pc = pc
    <2> HIDE DEF h
    <2> QED
      BY <1>1 DEF Handler
  <1> HIDE DEF h, q
  <1>4. Asked(q, ops)
    BY <1>1, <1>3 DEF Asked
  <1> QED
    BY <1>2, <1>3, <1>4, HandlerMoves

LEMMA HandlerStarts ==
  ASSUME OperationInv, NEW c \in Callers, NEW a \in Actors, NEW k \in Keys
  PROVE  /\ start_create(c, a, k) => OperationInv'
         /\ start_commission(c, a, k) => OperationInv'
         /\ \A kind \in {"export", "restore"} :
              start_existing_fabric_operation(c, a, k, kind) => OperationInv'
         /\ \A n \in Nodes : start_remove_node(c, a, k, n) => OperationInv'
         /\ \A i \in DOMAIN ops : start_cancel_commissioning(c, a, k, i) => OperationInv'
  <1>1. ASSUME NEW kind \in Kinds, NEW target \in Targets, NEW pc \in {"stage", "detach", "admit", "withdraw"},
               Request(c, a, k, kind, target, pc), CallerOnly, UNCHANGED durable,
               kind = "cancel" => target \in DOMAIN ops /\ ops[target].kind = "commission",
               pc = "withdraw" => kind = "cancel"
        PROVE  OperationInv'
    <2> DEFINE q == [pc |-> pc, actor |-> a, key |-> k, kind |-> kind, target |-> target,
                     rev |-> 0, put |-> 0]
    <2>1. q \in Handler /\ Asked(q, ops)
      BY <1>1 DEF Handler, Asked
    <2>2. caller' = [caller EXCEPT ![c] = q]
      BY <1>1 DEF Request
    <2>3. UNCHANGED others /\ stageRev' \in Nat
      BY <1>1 DEF CallerOnly, durable, others, OperationInv, Shape
    <2> QED
      BY <2>1, <2>2, <2>3, HandlerMoves
  <1>2. ops \in Seq(Operation)
    BY DEF OperationInv, Shape
  <1>3. "fabric" \in Targets /\ Nodes \subseteq Targets /\ DOMAIN ops \subseteq Targets
    BY <1>2 DEF Targets
  <1>4. ASSUME start_create(c, a, k) PROVE OperationInv'
    BY <1>1, <1>3, <1>4 DEF start_create, Kinds
  <1>5. ASSUME start_commission(c, a, k) PROVE OperationInv'
    BY <1>1, <1>3, <1>5 DEF start_commission, Kinds
  <1>6. ASSUME NEW kind \in {"export", "restore"},
               start_existing_fabric_operation(c, a, k, kind)
        PROVE  OperationInv'
    BY <1>1, <1>3, <1>6 DEF start_existing_fabric_operation, Kinds
  <1>7. ASSUME NEW n \in Nodes, start_remove_node(c, a, k, n) PROVE OperationInv'
    BY <1>1, <1>3, <1>7 DEF start_remove_node, Kinds
  <1>8. ASSUME NEW i \in DOMAIN ops, start_cancel_commissioning(c, a, k, i)
        PROVE  OperationInv'
    <2>1. PICK pc \in {"admit", "withdraw"} : Request(c, a, k, "cancel", i, pc)
      BY <1>8 DEF start_cancel_commissioning
    <2> QED
      BY <1>1, <1>3, <1>8, <2>1
         DEF start_cancel_commissioning, owned_commissioning_for_cancellation, Kinds
  <1> QED
    BY <1>4, <1>5, <1>6, <1>7, <1>8

LEMMA HandlerProvisions ==
  ASSUME OperationInv, NEW c \in Callers
  PROVE  /\ LoadStage(c) => OperationInv'
         /\ PutSecret(c) => OperationInv'
         /\ PutFails(c) => OperationInv'
         /\ SecretsReady(c) => OperationInv'
         /\ AttachFabric(c) => OperationInv'
         /\ delete_attached_matter_fabric_stage(c) => OperationInv'
  <1>1. /\ caller \in [Callers -> Handler] /\ stageRev \in Nat
        /\ caller[c].rev \in Nat /\ caller[c].put \in Nat
    BY DEF OperationInv, Shape, Handler
  <1>2. ASSUME NEW pc \in {"put", "attach", "detach", "admit"}, Goto(c, pc),
               caller[c].pc \notin {"idle", "withdraw"}, UNCHANGED others, stageRev' \in Nat
        PROVE  OperationInv'
    <2> DEFINE h == caller[c]
    <2>1. h \in Handler
      BY <1>1
    <2>2. [h EXCEPT !.pc = pc] = [h EXCEPT !.pc = pc, !.rev = h.rev, !.put = h.put]
      <3> HIDE DEF h
      <3> QED
        BY <2>1 DEF Handler
    <2>3. caller' = [caller EXCEPT ![c] = [caller[c] EXCEPT !.pc = pc, !.rev = caller[c].rev,
                                                            !.put = caller[c].put]]
      BY <1>2, <2>2 DEF Goto
    <2> QED
      BY <1>1, <1>2, <2>3, HandlerGoesOn
  <1>3. ASSUME LoadStage(c) PROVE OperationInv'
    <2> DEFINE h == caller[c]
    <2>1. h \in Handler
      BY <1>1
    <2>2. stageRev' \in Nat /\ h.pc = "stage" /\ UNCHANGED others
      BY <1>1, <1>3 DEF LoadStage, CallerOnly, others
    <2>3. PICK pc \in {"put", "attach"} :
            caller' = [caller EXCEPT ![c].rev = stageRev', ![c].pc = pc]
      BY <1>3 DEF LoadStage
    <2>4. caller' = [caller EXCEPT ![c] = [h EXCEPT !.rev = stageRev', !.pc = pc]]
      BY <1>1, <2>3
    <2>5. [h EXCEPT !.rev = stageRev', !.pc = pc]
            = [h EXCEPT !.pc = pc, !.rev = stageRev', !.put = h.put]
      <3> HIDE DEF h
      <3> QED
        BY <2>1 DEF Handler
    <2> QED
      BY <1>1, <2>2, <2>4, <2>5, HandlerGoesOn
  <1>4. ASSUME PutSecret(c) PROVE OperationInv'
    <2> DEFINE h == caller[c]
               n == h.put + 1
    <2>1. h \in Handler /\ h.pc = "put" /\ n \in Nat
      BY <1>1, <1>4 DEF PutSecret
    <2>2. caller' = [caller EXCEPT ![c] = [h EXCEPT !.put = n]]
      BY <1>1, <1>4 DEF PutSecret
    <2>3. [h EXCEPT !.put = n] = [h EXCEPT !.pc = "put", !.rev = h.rev, !.put = n]
      <3> HIDE DEF h, n
      <3> QED
        BY <2>1 DEF Handler
    <2>4. UNCHANGED others /\ stageRev' \in Nat
      BY <1>1, <1>4 DEF PutSecret, CallerOnly, others
    <2> QED
      BY <1>1, <2>1, <2>2, <2>3, <2>4, HandlerGoesOn
  <1>5. ASSUME PutFails(c) PROVE OperationInv'
    <2>1. UNCHANGED others /\ stageRev' \in Nat /\ Return(c)
      BY <1>1, <1>5 DEF PutFails, transition_stage, CallerOnly, others
    <2> QED
      BY <2>1, HandlerReturns
  <1>6. ASSUME SecretsReady(c) PROVE OperationInv'
    <2>1. UNCHANGED others /\ stageRev' \in Nat /\ caller[c].pc = "put"
      BY <1>1, <1>6 DEF SecretsReady, transition_stage, CallerOnly, others
    <2>2. Return(c) \/ Goto(c, "attach")
      BY <1>6 DEF SecretsReady, transition_stage
    <2> QED
      BY <1>2, <2>1, <2>2, HandlerReturns
  <1>7. ASSUME AttachFabric(c) PROVE OperationInv'
    <2>1. UNCHANGED others /\ stageRev' \in Nat /\ caller[c].pc = "attach"
      BY <1>1, <1>7 DEF AttachFabric, CallerOnly, others
    <2>2. Return(c) \/ Goto(c, "detach")
      BY <1>7 DEF AttachFabric
    <2> QED
      BY <1>2, <2>1, <2>2, HandlerReturns
  <1>8. ASSUME delete_attached_matter_fabric_stage(c) PROVE OperationInv'
    <2>1. UNCHANGED others /\ stageRev' \in Nat /\ caller[c].pc = "detach" /\ Goto(c, "admit")
      BY <1>1, <1>8 DEF delete_attached_matter_fabric_stage, CallerOnly, others
    <2> QED
      BY <1>2, <2>1
  <1> QED
    BY <1>3, <1>4, <1>5, <1>6, <1>7, <1>8

\* Stored operations move while a handler returns, dispatching nothing and
\* leaving removals alone: the worker's copy stays as good as it was.
LEMMA MovedUnderWorker ==
  ASSUME OperationInv, Shape', Grown(ops, ops'), Len(ops') = Len(ops),
         \A i \in DOMAIN ops : ops[i].kind = "remove" => ops'[i] = ops[i],
         \A c \in Callers : caller'[c] = caller[c] \/ caller'[c].pc = "idle",
         UNCHANGED <<wk, calls>>
  PROVE  OperationInv'
  <1>1. ops \in Seq(Operation) /\ wk.rev \in Nat
    BY DEF OperationInv, Shape, Worker
  <1>2. wk.pc # "idle" => wk.op \in DOMAIN ops /\ Carried(wk, ops'[wk.op], calls[wk.op])
    <2> SUFFICES ASSUME wk.pc # "idle"
                 PROVE  wk.op \in DOMAIN ops /\ Carried(wk, ops'[wk.op], calls[wk.op])
      OBVIOUS
    <2> DEFINE j == wk.op
    <2>1. j \in DOMAIN ops /\ Carried(wk, ops[j], calls[j])
      BY DEF OperationInv, Standing
    <2>2. Evolved(ops[j], ops'[j]) /\ ops[j] \in Operation
      BY <1>1, <2>1 DEF Grown
    <2> HIDE DEF j
    <2>3. Carried(wk, ops'[j], calls[j])
      BY <1>1, <2>1, <2>2, CarriedStays
    <2> QED
      BY <2>1, <2>3 DEF j
  <1>3. Standing'
    BY <1>2, RecordsStay
  <1> QED
    BY <1>3 DEF OperationInv

LEMMA HandlerWithdraws ==
  ASSUME OperationInv, NEW c \in Callers, cancel_requested(c)
  PROVE  OperationInv'
  <1>1. /\ ops \in Seq(Operation) /\ caller \in [Callers -> Handler] /\ stageRev \in Nat
        /\ Asked(caller[c], ops) /\ caller[c].pc = "withdraw"
    BY DEF OperationInv, Shape, Standing, cancel_requested
  <1>2. PICK i \in DOMAIN ops : i = caller[c].target /\ ops[i].kind = "commission"
    BY <1>1 DEF Asked
  <1>3. CASE UNCHANGED ops
    <2>1. UNCHANGED others /\ stageRev' \in Nat /\ Return(c)
      BY <1>1, <1>3 DEF cancel_requested, CallerOnly, others
    <2> QED
      BY <2>1, HandlerReturns
  <1>4. CASE ops[i].phase = "requested" /\ transition_operation(i, "cancelled")
    <2>1. ops' = MovedAt(ops, i, "cancelled")
      BY <1>4 DEF transition_operation, MovedAt
    <2>2. "cancelled" \in Phases \ {"requested"} /\ ops[i].phase \notin Terminal
      BY <1>4 DEF Phases, Terminal
    <2>3. /\ ops' \in Seq(Operation) /\ Len(ops') = Len(ops) /\ Grown(ops, ops')
          /\ \A j \in DOMAIN ops : j # i => ops'[j] = ops[j]
      BY <1>1, <1>2, <2>1, <2>2, OneMoves
    <2>4. Idle \in Handler /\ Idle.pc = "idle"
      BY DEF Idle, Handler, Targets
    <2>5. /\ caller' \in [Callers -> Handler]
          /\ \A d \in Callers : caller'[d] = caller[d] \/ caller'[d].pc = "idle"
      BY <1>1, <2>4 DEF cancel_requested, Return
    <2>6. UNCHANGED <<wk, ctl, calls, device, stageRev>>
      BY DEF cancel_requested, CallerOnly
    <2>7. Shape'
      BY <2>3, <2>5, <2>6 DEF OperationInv, Shape
    <2> QED
      BY <1>2, <2>3, <2>5, <2>6, <2>7, MovedUnderWorker
  <1> QED
    BY <1>2, <1>3, <1>4 DEF cancel_requested

LEMMA HandlerAdmits ==
  ASSUME OperationInv, NEW c \in Callers, admit(c)
  PROVE  OperationInv'
  <1> DEFINE q == caller[c]
             o == NewOperation(q.actor, q.key, q.kind, q.target)
  <1>1. /\ ops \in Seq(Operation) /\ caller \in [Callers -> Handler] /\ stageRev \in Nat
        /\ q \in Handler /\ Asked(q, ops) /\ MaxOps \in Nat
    BY OperationBounds DEF OperationInv, Shape, Standing, admit
  <1>2. UNCHANGED <<wk, ctl, calls, device, stageRev>> /\ Return(c)
    BY DEF admit, CallerOnly
  <1>3. CASE UNCHANGED ops
    BY <1>1, <1>2, <1>3, HandlerReturns DEF others
  <1>4. CASE ops' = Append(ops, o) /\ Len(ops) < MaxOps
    <2>1. /\ o \in Operation /\ o.kind = q.kind /\ o.target = q.target
          /\ o.phase = "requested" /\ o.revision = 1
      BY <1>1 DEF NewOperation, Operation, Handler, Asked, Phases
    <2> HIDE DEF o
    <2>2. /\ ops' \in Seq(Operation) /\ Len(ops') = Len(ops) + 1 /\ ops'[Len(ops) + 1] = o
          /\ \A i \in DOMAIN ops : ops'[i] = ops[i]
      BY <1>1, <1>4, <2>1, AppendProperties
    <2>3. /\ DOMAIN ops = 1 .. Len(ops) /\ DOMAIN ops' = 1 .. Len(ops) + 1 /\ Len(ops) \in Nat
      BY <1>1, <2>2
    <2>4. Grown(ops, ops')
      BY <2>2, <2>3 DEF Grown, Evolved
    <2>5. Idle \in Handler /\ Idle.pc = "idle"
      BY DEF Idle, Handler, Targets
    <2>6. /\ caller' \in [Callers -> Handler]
          /\ \A d \in Callers : caller'[d] = caller[d] \/ caller'[d].pc = "idle"
      BY <1>1, <1>2, <2>5 DEF Return
    <2>7. Shape'
      BY <1>1, <1>2, <1>4, <2>2, <2>3, <2>6 DEF OperationInv, Shape
    <2>8. \A d \in Callers : caller'[d].pc # "idle" => Asked(caller'[d], ops')
      BY <2>4, <2>6, AskedStays DEF OperationInv, Standing
    <2>9. \A i \in DOMAIN ops' : Recorded(ops'[i], calls[i], ops')
      <3>1. \A i \in DOMAIN ops : Recorded(ops'[i], calls[i], ops')
        BY <1>1, <2>4, RecordedStays DEF OperationInv, Standing, Grown
      <3>2. calls[Len(ops) + 1] = 0
        BY <1>1, <1>4, <2>3 DEF OperationInv, Standing
      <3>3. Asked(q, ops')
        BY <1>1, <2>4, AskedStays
      <3>4. Recorded(o, 0, ops')
        BY <2>1, <3>3 DEF Recorded, Asked
      <3> QED
        BY <2>2, <2>3, <3>1, <3>2, <3>4
    <2>10. \A i \in 1 .. MaxOps : i > Len(ops') => calls[i] = 0
      BY <2>2, <2>3 DEF OperationInv, Standing
    <2>11. wk.pc # "idle" => wk.op \in DOMAIN ops' /\ Carried(wk, ops'[wk.op], calls[wk.op])
      BY <2>2, <2>3 DEF OperationInv, Standing
    <2> QED
      BY <1>2, <2>7, <2>8, <2>9, <2>10, <2>11 DEF OperationInv, Standing
  <1> QED
    BY <1>3, <1>4 DEF admit, Offered

----------------------------------------------------------------------------
(* The worker's steps.                                                     *)

LEMMA DoneIs ==
  ASSUME Done
  PROVE  wk' \in Worker(wk') /\ wk'.pc = "idle"
  BY DEF Done, Free, Worker, Places, Outcomes

LEMMA ThenIs ==
  ASSUME wk \in Worker(wk), NEW p \in Places, Then(p)
  PROVE  /\ wk' \in Worker(wk') /\ wk'.pc = p /\ wk'.op = wk.op /\ wk'.rev = wk.rev
         /\ wk'.input = wk.input
  BY DEF Then, Worker

LEMMA FailsIs ==
  ASSUME wk \in Worker(wk), NEW class \in Outcomes, Fails(class)
  PROVE  /\ wk' \in Worker(wk') /\ wk'.pc = "fail" /\ wk'.op = wk.op /\ wk'.rev = wk.rev
         /\ wk'.outcome = class
  BY DEF Fails, Worker, Places

\* The worker moves on and no operation does.
LEMMA WorkerMoves ==
  ASSUME OperationInv, wk' \in Worker(wk'), ctl' \in Controller(ctl'),
         wk'.pc # "idle" => /\ wk'.op \in DOMAIN ops
                            /\ Carried(wk', ops[wk'.op], calls[wk'.op]),
         UNCHANGED <<ops, caller, calls, stageRev>>,
         device' \in [Nodes -> {"absent", "enrolled", "removed"}]
  PROVE  OperationInv'
  <1>1. Shape'
    BY DEF OperationInv, Shape
  <1>2. Standing'
    BY <1>1, RecordsStay, Unmoved
  <1> QED
    BY <1>1, <1>2 DEF OperationInv

\* The worker moves on after it moved operations and dispatched nothing.
LEMMA WorkerWrites ==
  ASSUME OperationInv, ops' \in Seq(Operation), Len(ops') = Len(ops), Grown(ops, ops'),
         wk' \in Worker(wk'),
         wk'.pc # "idle" => /\ wk'.op \in DOMAIN ops
                            /\ Carried(wk', ops'[wk'.op], calls[wk'.op]),
         UNCHANGED <<ctl, caller, calls, stageRev>>,
         device' \in [Nodes -> {"absent", "enrolled", "removed"}]
  PROVE  OperationInv'
  <1>1. Shape'
    BY DEF OperationInv, Shape
  <1>2. Standing'
    BY <1>1, RecordsStay
  <1> QED
    BY <1>1, <1>2 DEF OperationInv

\* The worker has dispatched a controller call.
LEMMA WorkerDispatches ==
  ASSUME OperationInv, wk.pc = "call", Dispatch,
         wk' \in Worker(wk'), ctl' \in Controller(ctl'), wk'.op = wk.op,
         Carried(wk', ops[wk.op], calls'[wk.op]),
         UNCHANGED <<ops, caller, stageRev, device>>
  PROVE  OperationInv'
  <1> DEFINE me == wk.op
             n == IF calls[me] < 2 THEN calls[me] + 1 ELSE calls[me]
  <1>1. /\ ops \in Seq(Operation) /\ Len(ops) <= MaxOps /\ MaxOps \in Nat
        /\ calls \in [1 .. MaxOps -> Nat] /\ me \in DOMAIN ops
        /\ wk.rev \in Nat /\ ops[me].revision \in Nat
        /\ Recorded(ops[me], calls[me], ops) /\ Carried(wk, ops[me], calls[me])
    <2>1. ops \in Seq(Operation) /\ me \in DOMAIN ops /\ wk \in Worker(wk)
      BY DEF OperationInv, Shape, Standing
    <2>2. wk.rev \in Nat
      BY <2>1 DEF Worker
    <2>3. ops[me] \in Operation
      BY <2>1
    <2>4. ops[me].revision \in Nat
      BY <2>3 DEF Operation
    <2> QED
      BY <2>1, <2>2, <2>4, OperationBounds DEF OperationInv, Shape, Standing
  <1>2. /\ me \in 1 .. MaxOps /\ me <= Len(ops) /\ Len(ops) \in Nat
        /\ DOMAIN ops \subseteq 1 .. MaxOps
    BY <1>1
  <1>3. n \in Nat /\ calls' = [calls EXCEPT ![me] = n]
    BY <1>1, <1>2 DEF Dispatch, Me
  <1>4. ops[me].kind # "cancel" => n = 1 /\ ops[me].revision # 1
    BY <1>1 DEF Carried
  <1> HIDE DEF me, n
  <1>5. /\ calls' \in [1 .. MaxOps -> Nat] /\ calls'[me] = n
        /\ \A i \in 1 .. MaxOps : i # me => calls'[i] = calls[i]
    BY <1>1, <1>2, <1>3
  <1>6. Recorded(ops[me], n, ops)
    BY <1>1, <1>4 DEF Recorded
  <1>7. Shape'
    BY <1>5 DEF OperationInv, Shape
  <1>8. \A i \in DOMAIN ops : Recorded(ops[i], calls'[i], ops)
    BY <1>1, <1>2, <1>5, <1>6 DEF OperationInv, Standing
  <1>9. \A i \in 1 .. MaxOps : i > Len(ops) => calls'[i] = 0
    BY <1>1, <1>2, <1>5 DEF OperationInv, Standing
  <1>10. Standing'
    BY <1>1, <1>8, <1>9 DEF OperationInv, Standing, me
  <1> QED
    BY <1>7, <1>10 DEF OperationInv

\* Advance stores the next declared phase of the operation the worker read,
\* or gives up because it is no longer the stored one.
LEMMA AdvanceIs ==
  ASSUME OperationInv, wk.pc # "idle", NEW pc \in Places, Advance(pc)
  PROVE  \/ UNCHANGED ops /\ Done
         \/ /\ wk.rev = ops[wk.op].revision /\ ops[wk.op].phase \notin Terminal
            /\ ops' = MovedAt(ops, wk.op, NextPhase(ops[wk.op]))
            /\ NextPhase(ops[wk.op]) \in Phases \ {"requested"}
            /\ ops' \in Seq(Operation) /\ Len(ops') = Len(ops) /\ Grown(ops, ops')
            /\ ops'[wk.op].phase = NextPhase(ops[wk.op])
            /\ ops'[wk.op].revision = wk.rev + 1 /\ ops'[wk.op].kind = ops[wk.op].kind
            /\ wk' \in Worker(wk') /\ wk'.pc = pc /\ wk'.op = wk.op
            /\ wk'.rev = wk.rev + 1 /\ wk'.input = wk.input
  <1> DEFINE me == wk.op
             o == ops[me]
  <1>1. /\ ops \in Seq(Operation) /\ me \in DOMAIN ops /\ wk \in Worker(wk)
    BY DEF OperationInv, Shape, Standing
  <1>2. CASE ~(Current(Me, wk.rev) /\ transition(Op, NextPhase(Op)))
    BY <1>2 DEF Advance
  <1>3. CASE Current(Me, wk.rev) /\ transition(Op, NextPhase(Op))
    <2>1. o.revision = wk.rev /\ transition(o, NextPhase(o))
      BY <1>3 DEF Current, Me, Op
    <2>2. o.phase \notin Terminal /\ NextPhase(o) \in Phases \ {"requested"}
      BY <1>1, <2>1, TransitionGuard
    <2>3. ops' = MovedAt(ops, me, NextPhase(o))
      BY <1>3 DEF Advance, transition_operation, MovedAt, Me, Op
    <2>4. wk' = [wk EXCEPT !.rev = wk.rev + 1, !.pc = pc]
      BY <1>3 DEF Advance
    <2>5. /\ wk' \in Worker(wk') /\ wk'.pc = pc /\ wk'.op = wk.op
          /\ wk'.rev = wk.rev + 1 /\ wk'.input = wk.input
      <3> DEFINE r == wk.rev + 1
      <3>1. r \in Nat /\ wk' = [wk EXCEPT !.rev = r, !.pc = pc]
        BY <1>1, <2>4 DEF Worker
      <3> HIDE DEF r
      <3>2. /\ wk' \in Worker(wk') /\ wk'.pc = pc /\ wk'.op = wk.op
            /\ wk'.rev = r /\ wk'.input = wk.input
        BY <1>1, <3>1 DEF Worker
      <3> QED
        BY <3>2 DEF r
    <2> DEFINE p == NextPhase(o)
    <2>6. /\ ops' \in Seq(Operation) /\ Len(ops') = Len(ops) /\ Grown(ops, ops')
          /\ ops'[me].phase = p /\ ops'[me].revision = o.revision + 1
          /\ ops'[me].kind = o.kind
      <3> HIDE DEF p
      <3> QED
        BY <1>1, <2>2, <2>3, OneMoves DEF p
    <2> QED
      BY <2>1, <2>2, <2>3, <2>5, <2>6
  <1> QED
    BY <1>2, <1>3

\* What holds of a worker with an operation.
LEMMA AtWork ==
  ASSUME OperationInv, wk.pc # "idle"
  PROVE  /\ ops \in Seq(Operation) /\ wk.op \in DOMAIN ops /\ ops[wk.op] \in Operation
         /\ ops[wk.op].kind \in Kinds /\ ops[wk.op].revision \in Nat
         /\ wk \in Worker(wk) /\ wk.rev \in Nat /\ wk.outcome \in Outcomes
         /\ Recorded(ops[wk.op], calls[wk.op], ops)
         /\ Carried(wk, ops[wk.op], calls[wk.op])
         /\ Op = ops[wk.op] /\ Me = wk.op
         /\ ctl \in Controller(ctl)
         /\ device \in [Nodes -> {"absent", "enrolled", "removed"}]
  <1>1. /\ ops \in Seq(Operation) /\ wk.op \in DOMAIN ops /\ wk \in Worker(wk)
        /\ Recorded(ops[wk.op], calls[wk.op], ops)
        /\ Carried(wk, ops[wk.op], calls[wk.op])
        /\ ctl \in Controller(ctl)
        /\ device \in [Nodes -> {"absent", "enrolled", "removed"}]
    BY DEF OperationInv, Shape, Standing
  <1>2. ops[wk.op] \in Operation
    BY <1>1
  <1>3. ops[wk.op].kind \in Kinds /\ ops[wk.op].revision \in Nat
    BY <1>2 DEF Operation
  <1>4. wk.rev \in Nat /\ wk.outcome \in Outcomes
    BY <1>1 DEF Worker
  <1> QED
    BY <1>1, <1>2, <1>3, <1>4 DEF Op, Me

LEMMA RunNext ==
  ASSUME OperationInv, run_next
  PROVE  OperationInv'
  <1> DEFINE r == Head(queue)
             i == r.op
             o == ops[i]
             runs == /\ owned_operation_for_action(r.actor, r.op, o.kind)
                     /\ o.kind = "cancel" =>
                          /\ owned_commissioning_for_cancellation(r.actor, o.target)
                          /\ ~is_terminal(ops[o.target].phase)
                     /\ Resume(r.op) # "done"
             trev == IF o.kind = "cancel" THEN ops[o.target].revision ELSE 0
             w == [pc |-> Resume(i), op |-> i, rev |-> o.revision, trev |-> trev,
                   actor |-> r.actor, input |-> r.input, fresh |-> o.phase = "requested",
                   outcome |-> "repair_required"]
  <1>1. /\ UNCHANGED <<ops, caller, calls, stageRev, ctl, device>>
        /\ wk' = IF runs THEN w ELSE Free
    BY DEF run_next, WorkerOnly, NoController, NoStore
  <1>2. /\ ctl' \in Controller(ctl')
        /\ device' \in [Nodes -> {"absent", "enrolled", "removed"}]
    BY <1>1 DEF OperationInv, Shape
  <1>3. CASE ~runs
    <2>1. Done
      BY <1>1, <1>3 DEF Done
    <2> QED
      BY <1>1, <1>2, <2>1, DoneIs, WorkerMoves
  <1>4. CASE runs
    <2>1. ops \in Seq(Operation) /\ i \in DOMAIN ops /\ Resume(i) # "done"
      BY <1>4 DEF OperationInv, Shape, owned_operation_for_action
    <2>2. o \in Operation /\ i \in Nat
      BY <2>1
    <2>3. o.kind \in Kinds /\ o.revision \in Nat \ {0}
      BY <2>2 DEF Operation
    <2>4. Recorded(o, calls[i], ops)
      BY <2>1 DEF OperationInv, Standing
    <2>5. trev \in Nat
      <3>1. CASE o.kind # "cancel"
        BY <3>1
      <3>2. CASE o.kind = "cancel"
        <4>1. o.target \in DOMAIN ops
          BY <2>4, <3>2 DEF Recorded
        <4>2. ops[o.target] \in Operation
          BY <2>1, <4>1
        <4> QED
          BY <3>2, <4>2 DEF Operation
      <3> QED
        BY <3>1, <3>2
    <2>6. /\ Resume(i) \in {"begin", "status", "fail", "inspect", "removal", "call"}
          /\ Resume(i) = "begin" <=> o.phase = "requested"
          /\ Resume(i) = "status" => o.kind \in {"create", "restore"}
          /\ Resume(i) = "fail" => o.kind = "export"
          /\ Resume(i) = "inspect" => o.kind = "remove" /\ o.phase = "removing_node"
          /\ Resume(i) = "removal" => o.kind = "remove" /\ o.phase = "cleaning_secrets"
          /\ Resume(i) = "call" => o.kind = "cancel"
      BY <2>1 DEF Resume
    <2>7. wk' = w
      BY <1>1, <1>4
    <2>8. /\ wk'.pc = Resume(i) /\ wk'.op = i /\ wk'.rev = o.revision
          /\ wk'.fresh = (o.phase = "requested") /\ wk'.outcome = "repair_required"
      BY <2>7
    <2>9. wk' \in Worker(wk')
      BY <2>2, <2>3, <2>5, <2>6, <2>7 DEF Worker, Places, Outcomes
    <2>10. Carried(wk', o, calls[i])
      <3> HIDE DEF w, i, trev
      <3>1. o.kind \in Runs[Resume(i)]
        <4> DEFINE x == Resume(i)
        <4>1. x \in {"begin", "status", "fail", "inspect", "removal", "call"}
          BY <2>6
        <4> HIDE DEF x
        <4>2. /\ x = "status" => o.kind \in {"create", "restore"}
              /\ x = "fail" => o.kind = "export"
              /\ x \in {"inspect", "removal"} => o.kind = "remove"
          BY <2>6 DEF x
        <4>3. o.kind \in Runs[x]
          BY <2>3, <4>1, <4>2 DEF Runs, Kinds
        <4> QED
          BY <4>3 DEF x
      <3>2. wk'.pc = "status" => ~wk'.fresh
        BY <2>6, <2>8
      <3>3. o.revision = 1 <=> o.phase = "requested"
        BY <2>4 DEF Recorded
      <3>4. /\ wk'.pc = "begin" => o.revision = 1
            /\ wk'.pc = "call" => o.kind = "cancel" /\ o.revision > 1
        BY <2>3, <2>6, <2>8, <3>3
      <3>5. wk'.pc \notin {"advance", "prepare", "clean"}
        BY <2>6, <2>8
      <3> QED
        BY <2>3, <2>6, <2>8, <3>1, <3>2, <3>4, <3>5 DEF Carried
    <2> QED
      BY <1>1, <1>2, <2>1, <2>8, <2>9, <2>10, WorkerMoves
  <1> QED
    BY <1>3, <1>4

\* The first transition.
LEMMA Begin ==
  ASSUME OperationInv, begin
  PROVE  OperationInv'
  <1> DEFINE o == ops[wk.op]
             pc == IF o.kind \in {"create", "restore"} THEN "status" ELSE "call"
  <1>1. wk.pc = "begin"
    BY DEF begin
  <1>2. /\ o \in Operation /\ o.kind \in Kinds /\ o.revision \in Nat /\ wk.rev \in Nat
        /\ wk.op \in DOMAIN ops /\ Recorded(o, calls[wk.op], ops)
        /\ Carried(wk, o, calls[wk.op]) /\ Op = o
        /\ device \in [Nodes -> {"absent", "enrolled", "removed"}]
    BY <1>1, AtWork
  <1>3. /\ UNCHANGED <<ctl, caller, calls, stageRev, device>>
        /\ Advance(pc) /\ pc \in Places
    BY <1>2 DEF begin, WorkerOnly, NoController, Places
  <1>4. CASE UNCHANGED ops /\ Done
    <2>1. ctl' \in Controller(ctl')
      BY <1>3 DEF OperationInv, Shape
    <2> QED
      BY <1>2, <1>3, <1>4, <2>1, DoneIs, WorkerMoves
  <1>5. CASE ~(UNCHANGED ops /\ Done)
    <2>1. /\ wk.rev = o.revision
          /\ ops' \in Seq(Operation) /\ Len(ops') = Len(ops) /\ Grown(ops, ops')
          /\ ops'[wk.op].phase = NextPhase(o)
          /\ ops'[wk.op].revision = wk.rev + 1 /\ ops'[wk.op].kind = o.kind
          /\ wk' \in Worker(wk') /\ wk'.pc = pc /\ wk'.op = wk.op /\ wk'.rev = wk.rev + 1
      BY <1>1, <1>3, <1>5, AdvanceIs
    <2>2. wk.rev = 1 /\ o.phase = "requested"
      BY <1>1, <1>2, <2>1 DEF Carried, Recorded
    <2>3. /\ o.kind = "remove" => NextPhase(o) = "removing_node"
          /\ o.kind = "commission" => NextPhase(o) = "validating_setup"
      BY <1>2, <2>2, FirstPhase
    <2>4. o.kind \in Runs[pc] /\ (o.kind # "cancel" => calls[wk.op] = 0)
      BY <1>2, <2>1, <2>2 DEF Runs, Recorded
    <2>5. Carried(wk', ops'[wk.op], calls[wk.op])
      BY <2>1, <2>2, <2>3, <2>4 DEF Carried
    <2> QED
      BY <1>2, <1>3, <2>1, <2>5, WorkerWrites
  <1> QED
    BY <1>4, <1>5

\* What the controller may be after a call: its fabric stays, and nothing
\* but a restart replaces it.
Kept(old, new) ==
    /\ new \in Controller(new) /\ new.replaced = old.replaced
    /\ old.fabric => new.fabric
    /\ old.completed \subseteq new.completed

LEMMA Emits ==
  ASSUME ctl \in Controller(ctl), NEW n
  PROVE  /\ Kept(ctl, emit_event(n))
         /\ emit_event(n).nodes = ctl.nodes /\ emit_event(n).completed = ctl.completed
         /\ emit_event(n).fabric = ctl.fabric /\ emit_event(n).origin = ctl.origin
  <1> DEFINE e == IF ctl.emitted + n <= EventPage THEN ctl.emitted + n ELSE EventPage
             c == emit_event(n)
  <1>1. c = [ctl EXCEPT !.emitted = e]
    BY DEF emit_event
  <1> HIDE DEF e, c
  <1>2. /\ c \in Controller(c) /\ c.nodes = ctl.nodes /\ c.completed = ctl.completed
        /\ c.fabric = ctl.fabric /\ c.replaced = ctl.replaced /\ c.origin = ctl.origin
    BY <1>1 DEF Controller
  <1> QED
    BY <1>2 DEF Kept, c

\* The calls, one by one.
LEMMA CreateReply ==
  ASSUME ctl \in Controller(ctl)
  PROVE  Kept(ctl, create_fabric.ctl) /\ create_fabric.ctl.nodes = ctl.nodes
         /\ create_fabric.ctl.completed = ctl.completed
         /\ create_fabric.ctl.origin = ctl.origin
  <1> DEFINE x == emit_event(1)
             c == [x EXCEPT !.fabric = TRUE]
  <1>1. /\ x \in Controller(x) /\ x.replaced = ctl.replaced /\ x.nodes = ctl.nodes
        /\ x.completed = ctl.completed /\ x.origin = ctl.origin
    BY Emits DEF Kept
  <1> HIDE DEF x
  <1>2. /\ c \in Controller(c) /\ c.nodes = x.nodes /\ c.completed = x.completed /\ c.fabric
        /\ c.replaced = x.replaced /\ c.origin = x.origin
    BY <1>1 DEF Controller
  <1>3. create_fabric.ctl = c
    BY DEF create_fabric, Answer, x
  <1> QED
    BY <1>1, <1>2, <1>3 DEF Kept

LEMMA ExportReply ==
  ASSUME ctl \in Controller(ctl)
  PROVE  Kept(ctl, export_fabric.ctl) /\ export_fabric.ctl.nodes = ctl.nodes
         /\ export_fabric.ctl.completed = ctl.completed
         /\ export_fabric.ctl.origin = ctl.origin
  BY Emits DEF export_fabric, Answer

LEMMA RemoveReply ==
  ASSUME ctl \in Controller(ctl), NEW n
  PROVE  /\ Kept(ctl, remove_node(n)) /\ remove_node(n).nodes = ctl.nodes \ {n}
         /\ remove_node(n).completed = ctl.completed /\ remove_node(n).fabric = ctl.fabric
         /\ remove_node(n).origin = ctl.origin
  <1> DEFINE x == emit_event(IF n \in ctl.nodes THEN 2 ELSE 1)
             c == [x EXCEPT !.nodes = x.nodes \ {n}]
  <1>1. /\ x \in Controller(x) /\ x.replaced = ctl.replaced /\ x.nodes = ctl.nodes
        /\ x.completed = ctl.completed /\ x.fabric = ctl.fabric /\ x.origin = ctl.origin
    BY Emits DEF Kept
  <1>2. remove_node(n) = c
    BY DEF remove_node
  <1> HIDE DEF x
  <1>3. /\ c \in Controller(c) /\ c.nodes = x.nodes \ {n} /\ c.completed = x.completed
        /\ c.fabric = x.fabric /\ c.replaced = x.replaced /\ c.origin = x.origin
    BY <1>1 DEF Controller
  <1> QED
    BY <1>1, <1>2, <1>3 DEF Kept

LEMMA SubscribeReply ==
  ASSUME ctl \in Controller(ctl), NEW n
  PROVE  /\ Kept(ctl, subscribe(n).ctl) /\ subscribe(n).ctl.nodes = ctl.nodes
         /\ subscribe(n).ctl.completed = ctl.completed
         /\ subscribe(n).ctl.fabric = ctl.fabric /\ subscribe(n).ctl.origin = ctl.origin
         /\ subscribe(n).ok => ctl.fabric /\ n \in ctl.nodes
  <1> DEFINE c == [ctl EXCEPT !.subscribed = ctl.subscribed \cup {n}]
  <1>1. /\ c \in Controller(c) /\ c.nodes = ctl.nodes /\ c.completed = ctl.completed
        /\ c.fabric = ctl.fabric /\ c.replaced = ctl.replaced /\ c.origin = ctl.origin
    BY DEF Controller
  <1>2. subscribe(n).ctl = c \/ subscribe(n).ctl = ctl
    BY DEF subscribe, Answer
  <1>3. subscribe(n).ok => ctl.fabric /\ n \in ctl.nodes
    BY DEF subscribe, Answer, Readable
  <1> HIDE DEF c
  <1> QED
    BY <1>1, <1>2, <1>3 DEF Kept

\* What the controller's answer a to commissioning i of node n may be.
Commissions(a, i, n) ==
    /\ Kept(ctl, a.ctl) /\ a.ctl.fabric = ctl.fabric
    /\ \/ /\ ~a.ok /\ a.ctl.nodes = ctl.nodes
          /\ a.ctl.completed = ctl.completed /\ a.ctl.origin = ctl.origin
       \/ /\ a.ok /\ ctl.fabric /\ n \notin ctl.nodes
          /\ a.ctl.nodes = ctl.nodes \cup {n}
          /\ a.ctl.completed = ctl.completed \cup {i}
          /\ a.ctl.origin = [ctl.origin EXCEPT ![n] = i]

LEMMA CommissionReply ==
  ASSUME ctl \in Controller(ctl), NEW i, NEW input
  PROVE  Commissions(commission(i, input), i, fixture_from_setup(input))
  <1> USE DEF Commissions
  <1> DEFINE n == fixture_from_setup(input)
             x == emit_event(6)
             t == x.traced \cup {j \in {i} : ctl.emitted + 6 <= EventPage}
             o == [x.origin EXCEPT ![n] = i]
             c == [x EXCEPT !.nodes = x.nodes \cup {n}, !.completed = x.completed \cup {i},
                            !.origin = o, !.traced = t]
  <1>1. /\ x \in Controller(x) /\ x.replaced = ctl.replaced /\ x.nodes = ctl.nodes
        /\ x.completed = ctl.completed /\ x.fabric = ctl.fabric /\ x.origin = ctl.origin
        /\ Kept(ctl, x)
    BY Emits DEF Kept
  <1>2. CASE ~input.valid
    <2>1. commission(i, input) = Answer(ctl, FALSE)
      BY <1>2 DEF commission
    <2> QED
      BY <2>1 DEF Answer, Kept
  <1>3. CASE input.valid /\ (~ctl.fabric \/ n \in ctl.nodes)
    <2>1. commission(i, input) = Answer(x, FALSE)
      BY <1>3 DEF commission
    <2> HIDE DEF x
    <2> QED
      BY <1>1, <2>1 DEF Answer
  <1>4. CASE input.valid /\ ctl.fabric /\ n \notin ctl.nodes
    <2>1. commission(i, input) = Answer(c, TRUE)
      BY <1>4 DEF commission
    <2>0. o = [ctl.origin EXCEPT ![n] = i]
      BY <1>1
    <2> HIDE DEF x, t, n, o
    <2>2. /\ c \in Controller(c) /\ c.nodes = x.nodes \cup {n}
          /\ c.completed = x.completed \cup {i} /\ c.fabric = x.fabric
          /\ c.replaced = x.replaced /\ c.origin = o
      BY <1>1 DEF Controller
    <2> HIDE DEF c
    <2>3. commission(i, input).ctl = c /\ commission(i, input).ok
      BY <2>1 DEF Answer
    <2> QED
      BY <1>1, <1>4, <2>0, <2>2, <2>3 DEF Kept, n
  <1> QED
    BY <1>2, <1>3, <1>4 DEF Controller

LEMMA RestoreReply ==
  ASSUME ctl \in Controller(ctl), NEW input
  PROVE  /\ Kept(ctl, restore_fabric(input).ctl) /\ restore_fabric(input).ok \in BOOLEAN
         /\ restore_fabric(input).ctl.completed = ctl.completed
         /\ restore_fabric(input).ctl.origin = ctl.origin
         /\ \/ restore_fabric(input).ctl.nodes = ctl.nodes
            \/ input.valid /\ ~ctl.fabric /\ restore_fabric(input).ctl.nodes = input.nodes
               /\ restore_fabric(input).ctl.fabric
  <1> DEFINE x == emit_event(2)
             c == [x EXCEPT !.fabric = TRUE, !.nodes = input.nodes]
  <1>1. /\ x \in Controller(x) /\ x.replaced = ctl.replaced /\ x.nodes = ctl.nodes
        /\ x.completed = ctl.completed /\ x.origin = ctl.origin /\ Kept(ctl, x)
    BY Emits DEF Kept
  <1>2. CASE ~input.valid
    <2>1. restore_fabric(input) = Answer(ctl, FALSE)
      BY <1>2 DEF restore_fabric
    <2> QED
      BY <2>1 DEF Answer, Kept
  <1>3. CASE input.valid /\ ctl.fabric
    <2>1. restore_fabric(input) = Answer(x, FALSE)
      BY <1>3 DEF restore_fabric
    <2> HIDE DEF x
    <2> QED
      BY <1>1, <2>1 DEF Answer
  <1>4. CASE input.valid /\ ~ctl.fabric
    <2>1. restore_fabric(input) = Answer(c, TRUE)
      BY <1>4 DEF restore_fabric
    <2> HIDE DEF x
    <2>2. /\ c \in Controller(c) /\ c.nodes = input.nodes /\ c.completed = x.completed
          /\ c.fabric /\ c.replaced = x.replaced /\ c.origin = x.origin
      BY <1>1 DEF Controller
    <2> HIDE DEF c
    <2>3. restore_fabric(input).ctl = c /\ restore_fabric(input).ok = TRUE
      BY <2>1 DEF Answer
    <2> QED
      BY <1>1, <1>4, <2>2, <2>3 DEF Kept
  <1> QED
    BY <1>2, <1>3, <1>4

\* The worker gives up on an operation, or goes on to a stretch in which it
\* relies on nothing but the kind.
LEMMA NowFails ==
  ASSUME OperationInv, wk.pc # "idle", NEW class \in {"failed", "repair_required"},
         Fails(class), ops[wk.op].kind # "cancel",
         ops[wk.op].kind = "remove" => class = "repair_required"
  PROVE  /\ wk' \in Worker(wk') /\ wk'.op = wk.op /\ wk'.pc = "fail"
         /\ \A n : Carried(wk', ops[wk.op], n)
  <1>1. /\ wk' \in Worker(wk') /\ wk'.pc = "fail" /\ wk'.op = wk.op /\ wk'.rev = wk.rev
        /\ wk'.outcome = class
    BY AtWork, FailsIs DEF Outcomes
  <1>2. ops[wk.op].kind \in Runs["fail"] /\ wk.rev > 0 /\ wk.rev <= ops[wk.op].revision
    BY AtWork DEF Runs, Carried
  <1> QED
    BY <1>1, <1>2 DEF Carried

LEMMA NowAt ==
  ASSUME OperationInv, wk.pc # "idle",
         NEW pc \in {"load", "finish", "trace", "subscribe", "commit", "inspect", "clean",
                     "removal", "settle"},
         wk' \in Worker(wk'), wk'.pc = pc, wk'.op = wk.op, wk'.rev = wk.rev,
         ops[wk.op].kind \in Runs[pc],
         ops[wk.op].kind = "remove" => ops[wk.op].phase = "removing_node" /\ pc # "removal",
         wk.rev = ops[wk.op].revision /\ pc = "trace" => ops[wk.op].phase = "validating_setup"
  PROVE  \A n : Carried(wk', ops[wk.op], n)
  <1>1. wk.rev > 0 /\ wk.rev <= ops[wk.op].revision
    BY AtWork DEF Carried
  <1> QED
    BY <1>1 DEF Carried

\* One of these after which no operation has moved and nothing was dispatched.
LEMMA WorkerTurns ==
  ASSUME OperationInv, wk.pc # "idle", wk' \in Worker(wk'), wk'.op = wk.op,
         Carried(wk', ops[wk.op], calls[wk.op]), ctl' \in Controller(ctl'),
         UNCHANGED <<ops, caller, calls, stageRev, device>>
  PROVE  OperationInv'
  BY AtWork, WorkerMoves

\* The worker ends its run, with or without a last transition.
LEMMA WorkerEnds ==
  ASSUME OperationInv, wk.pc # "idle", Done, UNCHANGED <<ctl, caller, calls, stageRev>>,
         device' \in [Nodes -> {"absent", "enrolled", "removed"}],
         \/ UNCHANGED ops
         \/ \E p : transition(Op, p) /\ transition_operation(Me, p)
  PROVE  OperationInv'
  <1>1. wk' \in Worker(wk') /\ wk'.pc = "idle"
    BY DoneIs
  <1>2. CASE UNCHANGED ops
    BY <1>1, <1>2, AtWork, WorkerMoves
  <1>3. CASE \E p : transition(Op, p) /\ transition_operation(Me, p)
    <2>1. PICK p : transition(Op, p) /\ transition_operation(Me, p)
      BY <1>3
    <2>2. ops[wk.op].phase \notin Terminal /\ p \in Phases \ {"requested"}
      BY <2>1, AtWork, TransitionGuard
    <2>3. ops' = MovedAt(ops, wk.op, p)
      BY <2>1 DEF transition_operation, MovedAt, Me
    <2>4. ops' \in Seq(Operation) /\ Len(ops') = Len(ops) /\ Grown(ops, ops')
      BY <2>2, <2>3, AtWork, OneMoves
    <2> QED
      BY <1>1, <2>4, WorkerWrites
  <1> QED
    BY <1>2, <1>3

LEMMA FabricStatus ==
  ASSUME OperationInv, fabric_status
  PROVE  OperationInv'
  <1>1. /\ wk.pc = "status" /\ UNCHANGED <<ops, ctl, caller, calls, stageRev, device>>
    BY DEF fabric_status, WorkerOnly, NoController, NoStore
  <1>2. /\ Carried(wk, ops[wk.op], calls[wk.op]) /\ wk \in Worker(wk)
        /\ ctl' \in Controller(ctl')
    BY <1>1, AtWork
  <1>3. ops[wk.op].kind \in {"create", "restore"}
    BY <1>1, <1>2 DEF Carried, Runs
  <1>4. CASE Then("load")
    <2>1. wk' \in Worker(wk') /\ wk'.pc = "load" /\ wk'.op = wk.op /\ wk'.rev = wk.rev
      BY <1>2, <1>4, ThenIs DEF Places
    <2>2. ops[wk.op].kind \in Runs["load"]
      BY <1>3 DEF Runs
    <2> QED
      BY <1>1, <1>2, <1>3, <2>1, <2>2, NowAt, WorkerTurns
  <1>5. CASE wk.fresh /\ Then("call")
    <2>1. wk' \in Worker(wk') /\ wk'.pc = "call" /\ wk'.op = wk.op /\ wk'.rev = wk.rev
      BY <1>2, <1>5, ThenIs DEF Places
    <2>2. ops[wk.op].kind \in Runs["call"]
      BY <1>3 DEF Runs, Kinds
    <2>3. Carried(wk', ops[wk.op], calls[wk.op])
      BY <1>1, <1>2, <1>3, <1>5, <2>1, <2>2 DEF Carried
    <2> QED
      BY <1>1, <1>2, <2>1, <2>3, WorkerTurns
  <1>6. CASE \E class \in {"failed", "repair_required"} : Fails(class)
    BY <1>1, <1>2, <1>3, <1>6, NowFails, WorkerTurns
  <1> QED
    BY <1>4, <1>5, <1>6 DEF fabric_status

LEMMA ControllerError ==
  ASSUME OperationInv, controller_error
  PROVE  OperationInv'
  <1>1. /\ wk.pc # "idle" /\ UNCHANGED <<ops, ctl, caller, stageRev, device>>
        /\ ops[wk.op].kind \notin {"remove", "cancel"}
    BY DEF controller_error, Faulty, WorkerOnly, NoStore, Op
  <1>2. PICK class \in {"failed", "repair_required"} : Fails(class)
    BY DEF controller_error
  <1>3. /\ wk' \in Worker(wk') /\ wk'.op = wk.op /\ \A n : Carried(wk', ops[wk.op], n)
    BY <1>1, <1>2, NowFails
  <1>4. ctl' \in Controller(ctl')
    BY <1>1, AtWork
  <1>5. CASE wk.pc = "call"
    <2>1. Dispatch
      BY <1>5 DEF controller_error
    <2> QED
      BY <1>1, <1>3, <1>4, <1>5, <2>1, WorkerDispatches
  <1>6. CASE wk.pc # "call"
    <2>1. calls' = calls
      BY <1>6 DEF controller_error
    <2> QED
      BY <1>1, <1>3, <1>4, <2>1, WorkerTurns
  <1> QED
    BY <1>5, <1>6

\* The calls that a fresh run makes.
LEMMA Calls ==
  ASSUME OperationInv, NEW kind \in Kinds \ {"cancel"}, NEW answer,
         NEW pc \in {"load", "trace", "finish", "clean"}, Call(kind, answer, pc),
         kind \in Runs[pc], kind = "remove" => answer.ok, answer.ok \in BOOLEAN,
         Kept(ctl, answer.ctl)
  PROVE  OperationInv'
  <1>1. /\ wk.pc = "call" /\ ops[wk.op].kind = kind /\ Dispatch /\ ctl' = answer.ctl
        /\ UNCHANGED <<ops, caller, stageRev, device>>
    BY DEF Call, WorkerOnly, NoStore, Op
  <1>2. /\ Carried(wk, ops[wk.op], calls[wk.op]) /\ wk \in Worker(wk)
    BY <1>1, AtWork
  <1>3. ctl' \in Controller(ctl')
    BY <1>1 DEF Kept
  <1>4. CASE answer.ok
    <2>1. Then(pc)
      BY <1>4 DEF Call
    <2>2. wk' \in Worker(wk') /\ wk'.pc = pc /\ wk'.op = wk.op /\ wk'.rev = wk.rev
      BY <1>2, <2>1, ThenIs DEF Places
    <2>3. /\ ops[wk.op].kind = "remove" => ops[wk.op].phase = "removing_node"
          /\ pc = "trace" => kind = "commission"
          /\ wk.rev = ops[wk.op].revision /\ pc = "trace" => ops[wk.op].phase = "validating_setup"
      BY <1>1, <1>2 DEF Carried, Runs
    <2>4. Carried(wk', ops[wk.op], calls'[wk.op])
      BY <1>1, <2>2, <2>3, NowAt
    <2> QED
      BY <1>1, <1>3, <2>2, <2>4, WorkerDispatches
  <1>5. CASE ~answer.ok
    <2>1. Fails("failed")
      BY <1>5 DEF Call
    <2>2. wk' \in Worker(wk') /\ wk'.op = wk.op /\ Carried(wk', ops[wk.op], calls'[wk.op])
      BY <1>1, <1>5, <2>1, NowFails
    <2> QED
      BY <1>1, <1>3, <2>2, WorkerDispatches
  <1> QED
    BY <1>4, <1>5

LEMMA FreshCalls ==
  ASSUME OperationInv
  PROVE  /\ run_create => OperationInv'
         /\ run_commission => OperationInv'
         /\ run_export => OperationInv'
         /\ run_simulator_restore => OperationInv'
         /\ run_remove_node => OperationInv'
  <1>1. ctl \in Controller(ctl)
    BY DEF OperationInv, Shape
  <1>2. ctl.fabric \in BOOLEAN
    BY <1>1 DEF Controller
  <1>3. ASSUME run_create PROVE OperationInv'
    <2>1. create_fabric.ok \in BOOLEAN /\ "create" \in Runs["load"] /\ "create" \in Kinds \ {"cancel"}
      BY <1>2 DEF create_fabric, Answer, Runs, Kinds
    <2> QED
      BY <1>1, <1>3, <2>1, CreateReply, Calls DEF run_create
  <1>4. ASSUME run_commission PROVE OperationInv'
    <2>1. commission(Me, wk.input).ok \in BOOLEAN
      BY DEF commission, Answer
    <2>2. Kept(ctl, commission(Me, wk.input).ctl)
      <3> DEFINE c == commission(Me, wk.input)
      <3>1. Commissions(c, Me, fixture_from_setup(wk.input))
        BY <1>1, CommissionReply
      <3> HIDE DEF c
      <3>2. Kept(ctl, c.ctl)
        BY <3>1 DEF Commissions
      <3> QED
        BY <3>2 DEF c
    <2>3. "commission" \in Runs["trace"] /\ "commission" \in Kinds \ {"cancel"}
      BY DEF Runs, Kinds
    <2> QED
      BY <1>1, <1>4, <2>1, <2>2, <2>3, Calls DEF run_commission
  <1>5. ASSUME run_export PROVE OperationInv'
    <2>1. export_fabric.ok \in BOOLEAN /\ "export" \in Runs["finish"] /\ "export" \in Kinds \ {"cancel"}
      BY <1>2 DEF export_fabric, Answer, Runs, Kinds
    <2> QED
      BY <1>1, <1>5, <2>1, ExportReply, Calls DEF run_export
  <1>6. ASSUME run_simulator_restore PROVE OperationInv'
    <2>1. restore_fabric(wk.input).ok \in BOOLEAN
      BY <1>1, RestoreReply
    <2>2. "restore" \in Runs["load"] /\ "restore" \in Kinds \ {"cancel"}
      BY DEF Runs, Kinds
    <2> QED
      BY <1>1, <1>6, <2>1, <2>2, RestoreReply, Calls DEF run_simulator_restore
  <1>7. ASSUME run_remove_node PROVE OperationInv'
    <2> DEFINE a == Answer(remove_node(Op.target), TRUE)
    <2>1. a.ok = TRUE /\ a.ctl = remove_node(Op.target)
      BY DEF Answer
    <2>2. "remove" \in Runs["clean"] /\ "remove" \in Kinds \ {"cancel"}
      BY DEF Runs, Kinds
    <2>3. Call("remove", a, "clean")
      BY <1>7 DEF run_remove_node
    <2>4. Kept(ctl, a.ctl) /\ a.ok \in BOOLEAN
      BY <1>1, <2>1, RemoveReply
    <2> HIDE DEF a
    <2> QED
      BY <2>1, <2>2, <2>3, <2>4, Calls
  <1> QED
    BY <1>3, <1>4, <1>5, <1>6, <1>7

\* A later transition by the declared order.
LEMMA WorkerAdvances ==
  ASSUME OperationInv, wk.pc # "idle",
         NEW pc \in {"load", "removal", "advance", "prepare", "subscribe"}, Advance(pc),
         UNCHANGED <<ctl, caller, calls, stageRev, device>>,
         ops[wk.op].kind \in Runs[pc],
         wk.rev = ops[wk.op].revision =>
           /\ pc = "removal" => NextPhase(ops[wk.op]) = "cleaning_secrets"
           /\ pc = "advance" => NextPhase(ops[wk.op]) \in {"validating_setup", "discovering",
                                   "establishing_session", "commissioning"}
           /\ pc = "prepare" => NextPhase(ops[wk.op]) = "projecting"
  PROVE  OperationInv'
  <1>1. pc \in Places
    BY DEF Places
  <1>2. CASE UNCHANGED ops /\ Done
    BY <1>2, AtWork, WorkerEnds
  <1>3. CASE ~(UNCHANGED ops /\ Done)
    <2>1. /\ wk.rev = ops[wk.op].revision
          /\ ops' \in Seq(Operation) /\ Len(ops') = Len(ops) /\ Grown(ops, ops')
          /\ ops'[wk.op].phase = NextPhase(ops[wk.op])
          /\ ops'[wk.op].revision = wk.rev + 1 /\ ops'[wk.op].kind = ops[wk.op].kind
          /\ wk' \in Worker(wk') /\ wk'.pc = pc /\ wk'.op = wk.op /\ wk'.rev = wk.rev + 1
      BY <1>1, <1>3, AdvanceIs
    <2>2. wk.rev \in Nat /\ wk.op \in DOMAIN ops
          /\ device' \in [Nodes -> {"absent", "enrolled", "removed"}]
      BY AtWork
    <2>3. Carried(wk', ops'[wk.op], calls[wk.op])
      BY <2>1, <2>2 DEF Carried
    <2> QED
      BY <2>1, <2>2, <2>3, WorkerWrites
  <1> QED
    BY <1>2, <1>3

LEMMA FabricIsLoaded ==
  ASSUME OperationInv
  PROVE  load_fabric \/ activate_fabric \/ finish => OperationInv'
  <1>1. ASSUME load_fabric PROVE OperationInv'
    <2>1. /\ wk.pc = "load" /\ Advance("load") /\ Op.kind = "restore"
          /\ UNCHANGED <<ctl, caller, calls, stageRev, device>>
      BY <1>1 DEF load_fabric, WorkerOnly, NoController
    <2>2. ops[wk.op].kind \in Runs["load"]
      BY <2>1 DEF Op, Runs
    <2> QED
      BY <2>1, <2>2, WorkerAdvances
  <1>2. ASSUME activate_fabric PROVE OperationInv'
    <2>1. /\ wk.pc = "load" /\ Then("finish")
          /\ UNCHANGED <<ops, ctl, caller, calls, stageRev, device>>
      BY <1>2 DEF activate_fabric, WorkerOnly, NoController
    <2>2. /\ wk \in Worker(wk) /\ Carried(wk, ops[wk.op], calls[wk.op])
          /\ ctl' \in Controller(ctl')
      BY <2>1, AtWork
    <2>3. wk' \in Worker(wk') /\ wk'.pc = "finish" /\ wk'.op = wk.op /\ wk'.rev = wk.rev
      BY <2>1, <2>2, ThenIs DEF Places
    <2>4. ops[wk.op].kind \in Runs["finish"] /\ ops[wk.op].kind # "remove"
      BY <2>1, <2>2 DEF Carried, Runs
    <2>5. Carried(wk', ops[wk.op], calls[wk.op])
      BY <2>1, <2>3, <2>4, NowAt
    <2> QED
      BY <2>1, <2>2, <2>3, <2>5, WorkerTurns
  <1>3. ASSUME finish PROVE OperationInv'
    <2>1. /\ wk.pc = "finish" /\ Done /\ UNCHANGED <<ctl, caller, calls, stageRev, device>>
          /\ \/ UNCHANGED ops
             \/ \E p : transition(Op, p) /\ transition_operation(Me, p)
      BY <1>3 DEF finish, WorkerOnly, NoController
    <2> QED
      BY <2>1, AtWork, WorkerEnds
  <1> QED
    BY <1>1, <1>2, <1>3

LEMMA CommissioningRuns ==
  ASSUME OperationInv
  PROVE  /\ commissioning_progress => OperationInv'
         /\ advance => OperationInv'
         /\ prepare_commissioning_projection => OperationInv'
         /\ SubscribeNode => OperationInv'
         /\ complete_commissioning => OperationInv'
  <1> DEFINE o == ops[wk.op]
  <1>1. ASSUME wk.pc \in {"trace", "advance", "prepare", "subscribe", "commit"}
        PROVE  o.kind = "commission"
    BY <1>1, AtWork DEF Carried, Runs
  <1>2. /\ "commission" \in Runs["advance"] /\ "commission" \in Runs["prepare"]
        /\ "commission" \in Runs["subscribe"] /\ "commission" \in Runs["commit"]
    BY DEF Runs
  <1>3. ASSUME commissioning_progress PROVE OperationInv'
    <2>1. /\ wk.pc = "trace" /\ (Then("advance") \/ Fails("repair_required"))
          /\ UNCHANGED <<ops, ctl, caller, calls, stageRev, device>>
      BY <1>3 DEF commissioning_progress, WorkerOnly, NoController, NoStore
    <2>2. /\ wk \in Worker(wk) /\ o.kind = "commission" /\ ctl' \in Controller(ctl')
          /\ Carried(wk, o, calls[wk.op])
      BY <1>1, <2>1, AtWork
    <2>3. CASE Then("advance")
      <3>1. wk' \in Worker(wk') /\ wk'.pc = "advance" /\ wk'.op = wk.op /\ wk'.rev = wk.rev
        BY <2>2, <2>3, ThenIs DEF Places
      <3>2. Carried(wk', o, calls[wk.op])
        BY <1>2, <2>1, <2>2, <3>1 DEF Carried
      <3> QED
        BY <2>1, <2>2, <3>1, <3>2, WorkerTurns
    <2>4. CASE Fails("repair_required")
      BY <2>1, <2>2, <2>4, NowFails, WorkerTurns
    <2> QED
      BY <2>1, <2>3, <2>4
  <1>4. ASSUME advance PROVE OperationInv'
    <2> DEFINE pc == IF NextPhase(o) = "projecting" THEN "prepare" ELSE "advance"
    <2>1. /\ wk.pc = "advance" /\ Advance(pc)
          /\ UNCHANGED <<ctl, caller, calls, stageRev, device>>
      BY <1>4 DEF advance, WorkerOnly, NoController, Op
    <2>2. o \in Operation /\ o.kind = "commission" /\ Carried(wk, o, calls[wk.op])
      BY <1>1, <2>1, AtWork
    <2>3. wk.rev = o.revision =>
            NextPhase(o) \in {"discovering", "establishing_session", "commissioning", "projecting"}
      <3> SUFFICES ASSUME wk.rev = o.revision
                   PROVE  NextPhase(o) \in {"discovering", "establishing_session",
                                            "commissioning", "projecting"}
        OBVIOUS
      <3>1. o.phase \in {"validating_setup", "discovering", "establishing_session",
                         "commissioning"}
        BY <2>1, <2>2 DEF Carried
      <3>2. PICK i \in 2 .. 5 : o.phase = Track["commission"][i]
        BY <3>1 DEF Track
      <3>3. NextPhase(o) = Track["commission"][i + 1]
        BY <2>2, <3>2, CommissioningPhase
      <3> QED
        BY <3>3 DEF Track
    <2> QED
      BY <1>2, <2>1, <2>2, <2>3, WorkerAdvances
  <1>5. ASSUME prepare_commissioning_projection PROVE OperationInv'
    <2>1. /\ wk.pc = "prepare" /\ UNCHANGED <<ctl, caller, calls, stageRev, device>>
          /\ Advance("subscribe") \/ (Fails("failed") /\ UNCHANGED ops)
      BY <1>5 DEF prepare_commissioning_projection, WorkerOnly, NoController
    <2>2. ctl' \in Controller(ctl') /\ o.kind = "commission"
      BY <1>1, <2>1, AtWork
    <2> QED
      BY <1>2, <2>1, <2>2, NowFails, WorkerTurns, WorkerAdvances
  <1>6. ASSUME SubscribeNode PROVE OperationInv'
    <2>1. /\ wk.pc = "subscribe" /\ (Then("commit") \/ Fails("failed"))
          /\ ctl' = subscribe(Fixture).ctl
          /\ UNCHANGED <<ops, caller, calls, stageRev, device>>
      BY <1>6 DEF SubscribeNode, WorkerOnly, NoStore
    <2>2. wk \in Worker(wk) /\ o.kind = "commission"
      BY <1>1, <2>1, AtWork
    <2>3. ctl' \in Controller(ctl')
      BY <2>1, AtWork, SubscribeReply DEF Kept
    <2>4. CASE Then("commit")
      <3>1. wk' \in Worker(wk') /\ wk'.pc = "commit" /\ wk'.op = wk.op /\ wk'.rev = wk.rev
        BY <2>2, <2>4, ThenIs DEF Places
      <3>2. Carried(wk', o, calls[wk.op])
        BY <1>2, <2>1, <2>2, <3>1, NowAt
      <3> QED
        BY <2>1, <2>3, <3>1, <3>2, WorkerTurns
    <2>5. CASE Fails("failed")
      BY <2>1, <2>2, <2>3, <2>5, NowFails, WorkerTurns
    <2> QED
      BY <2>1, <2>4, <2>5
  <1>7. ASSUME complete_commissioning PROVE OperationInv'
    <2>1. /\ wk.pc = "commit" /\ Done /\ UNCHANGED <<ctl, caller, calls, stageRev>>
          /\ \/ UNCHANGED ops
             \/ \E p : transition(Op, p) /\ transition_operation(Me, p)
      BY <1>7 DEF complete_commissioning, commit_commissioning, WorkerOnly, NoController
    <2>2. device' = device \/ device' = [device EXCEPT ![Fixture] = "enrolled"]
      BY <1>7 DEF complete_commissioning, commit_commissioning
    <2>3. device' \in [Nodes -> {"absent", "enrolled", "removed"}]
      BY <2>1, <2>2, AtWork
    <2> QED
      BY <2>1, <2>3, WorkerEnds
  <1> QED
    BY <1>3, <1>4, <1>5, <1>6, <1>7

LEMMA RemovalRuns ==
  ASSUME OperationInv
  PROVE  /\ remove_node_fault => OperationInv'
         /\ \A lookup : inspect_removal(lookup) => OperationInv'
         /\ clean_secrets => OperationInv'
         /\ complete_node_removal => OperationInv'
  <1> DEFINE o == ops[wk.op]
  <1>1. ASSUME wk.pc \in {"inspect", "clean", "removal"} \/ (wk.pc = "call" /\ Op.kind = "remove")
        PROVE  /\ o.kind = "remove" /\ o \in Operation
               /\ wk.pc # "removal" => o.phase = "removing_node"
    BY <1>1, AtWork DEF Carried, Runs
  <1>2. /\ "remove" \in Runs["inspect"] /\ "remove" \in Runs["clean"]
        /\ "remove" \in Runs["removal"]
    BY DEF Runs
  <1>3. ASSUME remove_node_fault PROVE OperationInv'
    <2>1. /\ wk.pc = "call" /\ Op.kind = "remove" /\ Dispatch
          /\ UNCHANGED <<ops, caller, stageRev, device>>
          /\ Fails("repair_required") \/ Then("inspect")
          /\ UNCHANGED ctl \/ ctl' = remove_node(Op.target)
      BY <1>3 DEF remove_node_fault, WorkerOnly, NoStore
    <2>2. wk \in Worker(wk) /\ o.kind = "remove" /\ o.phase = "removing_node"
      BY <1>1, <2>1, AtWork
    <2>3. ctl' \in Controller(ctl')
      BY <2>1, AtWork, RemoveReply DEF Kept
    <2>4. CASE Fails("repair_required")
      BY <2>1, <2>2, <2>3, <2>4, NowFails, WorkerDispatches
    <2>5. CASE Then("inspect")
      <3>1. wk' \in Worker(wk') /\ wk'.pc = "inspect" /\ wk'.op = wk.op /\ wk'.rev = wk.rev
        BY <2>2, <2>5, ThenIs DEF Places
      <3>2. Carried(wk', o, calls'[wk.op])
        BY <1>2, <2>1, <2>2, <3>1, NowAt
      <3> QED
        BY <2>1, <2>3, <3>1, <3>2, WorkerDispatches
    <2> QED
      BY <2>1, <2>4, <2>5
  <1>4. ASSUME wk.pc \in {"inspect", "clean"}, Advance("removal"),
               UNCHANGED <<ctl, caller, calls, stageRev, device>>
        PROVE  OperationInv'
    <2>1. NextPhase(o) = "cleaning_secrets" /\ o.kind = "remove"
      BY <1>1, <1>4, RemovalPhase
    <2> QED
      BY <1>2, <1>4, <2>1, WorkerAdvances
  <1>5. ASSUME NEW lookup, inspect_removal(lookup) PROVE OperationInv'
    <2>1. /\ wk.pc = "inspect" /\ UNCHANGED <<ctl, caller, calls, stageRev, device>>
          /\ Advance("removal") \/ (Fails("repair_required") /\ UNCHANGED ops)
      BY <1>5 DEF inspect_removal, WorkerOnly, NoController
    <2>2. ctl' \in Controller(ctl') /\ o.kind = "remove"
      BY <1>1, <2>1, AtWork
    <2> QED
      BY <1>4, <2>1, <2>2, NowFails, WorkerTurns
  <1>6. ASSUME clean_secrets PROVE OperationInv'
    BY <1>4, <1>6 DEF clean_secrets, WorkerOnly, NoController
  <1>7. ASSUME complete_node_removal PROVE OperationInv'
    <2>1. /\ wk.pc = "removal" /\ Done /\ UNCHANGED <<ctl, caller, calls, stageRev>>
          /\ \/ UNCHANGED ops
             \/ \E p : transition(Op, p) /\ transition_operation(Me, p)
      BY <1>7 DEF complete_node_removal, commit_matter_node_removal, WorkerOnly, NoController
    <2>2. device' = device \/ device' = [device EXCEPT ![Op.target] = "removed"]
      BY <1>7 DEF complete_node_removal, commit_matter_node_removal
    <2>3. device' \in [Nodes -> {"absent", "enrolled", "removed"}]
      BY <2>1, <2>2, AtWork
    <2> QED
      BY <2>1, <2>3, WorkerEnds
  <1> QED
    BY <1>3, <1>5, <1>6, <1>7

\* The two transitions of a cancellation: they are of different operations,
\* because a cancellation's target is a commissioning.
LEMMA BothMove ==
  ASSUME NEW os \in Seq(Operation), NEW t \in DOMAIN os, NEW m \in DOMAIN os, t # m,
         os[t].phase \notin Terminal, os[m].phase \notin Terminal,
         NEW p \in Phases \ {"requested"}, NEW q \in Phases \ {"requested"},
         NEW ns, ns = MovedAt(MovedAt(os, t, p), m, q)
  PROVE  /\ ns \in Seq(Operation) /\ Len(ns) = Len(os) /\ DOMAIN ns = DOMAIN os
         /\ Grown(os, ns)
         /\ ns[t].phase = p /\ ns[m].phase = q /\ ns[m].kind = os[m].kind
         /\ ns[m].target = os[m].target
         /\ \A j \in DOMAIN os : j \notin {t, m} => ns[j] = os[j]
  <1> DEFINE ms == MovedAt(os, t, p)
  <1>1. /\ ms \in Seq(Operation) /\ Len(ms) = Len(os) /\ DOMAIN ms = DOMAIN os
        /\ Grown(os, ms) /\ ms[t].phase = p
        /\ \A j \in DOMAIN os : j # t => ms[j] = os[j]
    BY OneMoves
  <1>2. ns = MovedAt(ms, m, q)
    OBVIOUS
  <1> HIDE DEF ms
  <1>3. /\ ns \in Seq(Operation) /\ Len(ns) = Len(ms) /\ DOMAIN ns = DOMAIN ms
        /\ Grown(ms, ns) /\ ns[m].phase = q /\ ns[m].kind = ms[m].kind
        /\ ns[m].target = ms[m].target
        /\ \A j \in DOMAIN ms : j # m => ns[j] = ms[j]
    BY <1>1, <1>2, OneMoves
  <1>4. Grown(os, ns)
    BY <1>1, <1>3 DEF Grown
  <1> QED
    BY <1>1, <1>3, <1>4

LEMMA CancellationPhase ==
  ASSUME NEW outcome
  PROVE  LET next == CancellationPhases(outcome) IN
         /\ next.commissioning \in {"cancelled", "repair_required"}
         /\ next.cancellation \in {"completed", "repair_required"}
         /\ next.commissioning = "cancelled" => next.cancellation = "completed"
  BY DEF CancellationPhases

\* commit_matter_cancellation writes both operations or none.
LEMMA CancellationGrows ==
  ASSUME OperationInv, commit_matter_cancellation, ~UNCHANGED ops
  PROVE  \E t \in DOMAIN ops :
           /\ t = ops[wk.op].target /\ t # wk.op /\ wk.pc = "settle" /\ wk.op \in DOMAIN ops
           /\ ops[t].kind = "commission" /\ ops[wk.op].kind = "cancel"
           /\ ops' \in Seq(Operation) /\ Len(ops') = Len(ops)
           /\ Grown(ops, ops') /\ DOMAIN ops' = DOMAIN ops
           /\ ops'[t].phase = CancellationPhases(wk.outcome).commissioning
           /\ ops'[wk.op].phase = CancellationPhases(wk.outcome).cancellation
           /\ ops'[wk.op].kind = ops[wk.op].kind /\ ops'[wk.op].target = ops[wk.op].target
           /\ \A j \in DOMAIN ops : j \notin {t, wk.op} => ops'[j] = ops[j]
  <1> DEFINE next == CancellationPhases(wk.outcome)
             o == ops[wk.op]
  <1>1. /\ wk.pc = "settle"
        /\ transition(Op, next.cancellation) /\ transition(ops[Op.target], next.commissioning)
        /\ ops' = [ops EXCEPT ![Op.target] = Moved(@, next.commissioning),
                              ![Me] = Moved(@, next.cancellation)]
    BY DEF commit_matter_cancellation
  <1>2. /\ ops \in Seq(Operation) /\ o \in Operation /\ Op = o /\ Me = wk.op
        /\ wk.op \in DOMAIN ops /\ Recorded(o, calls[wk.op], ops)
        /\ Carried(wk, o, calls[wk.op])
    BY <1>1, AtWork
  <1>3. o.kind = "cancel"
    BY <1>1, <1>2 DEF Carried, Runs
  <1>4. PICK t \in DOMAIN ops : t = o.target /\ ops[t].kind = "commission"
    BY <1>2, <1>3 DEF Recorded
  <1>5. t # wk.op /\ ops[t] \in Operation
    BY <1>2, <1>3, <1>4
  <1>6. /\ o.phase \notin Terminal /\ next.cancellation \in Phases \ {"requested"}
        /\ ops[t].phase \notin Terminal /\ next.commissioning \in Phases \ {"requested"}
    BY <1>1, <1>2, <1>4, <1>5, TransitionGuard
  <1>7. ops' = MovedAt(MovedAt(ops, t, next.commissioning), wk.op, next.cancellation)
    <2>1. ops' = [ops EXCEPT ![t] = Moved(@, next.commissioning),
                             ![wk.op] = Moved(@, next.cancellation)]
      BY <1>1, <1>2, <1>4
    <2> QED
      BY <1>2, <1>5, <2>1, Zenon DEF MovedAt
  <1>8. /\ ops' \in Seq(Operation) /\ Len(ops') = Len(ops)
        /\ Grown(ops, ops') /\ DOMAIN ops' = DOMAIN ops
        /\ ops'[t].phase = next.commissioning /\ ops'[wk.op].phase = next.cancellation
        /\ ops'[wk.op].kind = o.kind /\ ops'[wk.op].target = o.target
        /\ \A j \in DOMAIN ops : j \notin {t, wk.op} => ops'[j] = ops[j]
    BY <1>2, <1>4, <1>5, <1>6, <1>7, BothMove
  <1> QED
    BY <1>1, <1>2, <1>3, <1>4, <1>5, <1>8

LEMMA CancellationRuns ==
  ASSUME OperationInv
  PROVE  /\ \A answer : run_cancel_commissioning(answer) => OperationInv'
         /\ commit_matter_cancellation => OperationInv'
  <1> DEFINE o == ops[wk.op]
  <1>1. ASSUME NEW answer, run_cancel_commissioning(answer) PROVE OperationInv'
    <2> DEFINE r == IF answer = "error" THEN "unknown" ELSE cancel_commissioning(Op.target)
    <2>1. /\ wk.pc = "call" /\ Op.kind = "cancel" /\ Dispatch
          /\ UNCHANGED <<ops, caller, stageRev, device>>
          /\ wk' = [wk EXCEPT !.pc = "settle", !.outcome = r]
          /\ UNCHANGED ctl \/ ctl' = emit_event(1)
      BY <1>1 DEF run_cancel_commissioning, WorkerOnly, NoStore
    <2>2. r \in Outcomes
      BY DEF cancel_commissioning, Outcomes
    <2> HIDE DEF r
    <2>3. wk \in Worker(wk) /\ o.kind = "cancel"
      BY <2>1, AtWork
    <2>4. ctl' \in Controller(ctl')
      BY <2>1, AtWork, Emits DEF Kept
    <2>5. wk' \in Worker(wk') /\ wk'.pc = "settle" /\ wk'.op = wk.op /\ wk'.rev = wk.rev
      BY <2>1, <2>2, <2>3 DEF Worker, Places
    <2>6. "cancel" \in Runs["settle"]
      BY DEF Runs
    <2>7. Carried(wk', o, calls'[wk.op])
      BY <2>1, <2>3, <2>5, <2>6, NowAt
    <2> QED
      BY <2>1, <2>4, <2>5, <2>7, WorkerDispatches
  <1>2. ASSUME commit_matter_cancellation PROVE OperationInv'
    <2>1. /\ wk.pc = "settle" /\ Done
          /\ UNCHANGED <<ctl, caller, calls, stageRev, device>>
      BY <1>2 DEF commit_matter_cancellation, WorkerOnly, NoController
    <2>2. device' \in [Nodes -> {"absent", "enrolled", "removed"}]
      BY <2>1, AtWork
    <2>3. CASE UNCHANGED ops
      BY <2>1, <2>2, <2>3, WorkerEnds
    <2>4. CASE ~UNCHANGED ops
      <3>1. ops' \in Seq(Operation) /\ Len(ops') = Len(ops) /\ Grown(ops, ops')
        BY <1>2, <2>4, CancellationGrows
      <3> QED
        BY <2>1, <2>2, <3>1, DoneIs, WorkerWrites
    <2> QED
      BY <2>3, <2>4
  <1> QED
    BY <1>1, <1>2

LEMMA FailureIsRecorded ==
  ASSUME OperationInv, terminal_controller_error
  PROVE  OperationInv'
  <1>1. /\ wk.pc = "fail" /\ Done /\ UNCHANGED <<ctl, caller, calls, stageRev, device>>
        /\ \/ UNCHANGED ops
           \/ \E p : transition(Op, p) /\ transition_operation(Me, p)
    BY DEF terminal_controller_error, record_controller_failure, WorkerOnly, NoController, Op, Me
  <1> QED
    BY <1>1, AtWork, WorkerEnds

----------------------------------------------------------------------------
(* Recovery and the environment.                                           *)

LEMMA Recovers ==
  ASSUME OperationInv, NEW a, NEW i \in DOMAIN ops, recover_commissioning(a, i)
  PROVE  OperationInv'
  <1>1. /\ ops[i].kind = "commission" /\ ops[i].actor = a
        /\ UNCHANGED <<caller, wk, ctl, calls, stageRev, device>>
    BY DEF recover_commissioning, owned_operation_for_action
  <1>2. ops \in Seq(Operation) /\ ops[i] \in Operation
    BY DEF OperationInv, Shape
  <1>3. CASE UNCHANGED ops
    <2>1. Shape'
      BY <1>1, <1>3 DEF OperationInv, Shape
    <2> QED
      BY <1>1, <1>3, <2>1, Unmoved, MovedUnderWorker
  <1>4. CASE transition(ops[i], "repair_required") /\ transition_operation(i, "repair_required")
    <2>1. ops[i].phase \notin Terminal /\ "repair_required" \in Phases \ {"requested"}
      BY <1>2, <1>4, TransitionGuard
    <2>2. ops' = MovedAt(ops, i, "repair_required")
      BY <1>4 DEF transition_operation, MovedAt
    <2>3. /\ ops' \in Seq(Operation) /\ Len(ops') = Len(ops) /\ Grown(ops, ops')
          /\ \A j \in DOMAIN ops : j # i => ops'[j] = ops[j]
      BY <1>2, <2>1, <2>2, OneMoves
    <2>4. Shape'
      BY <1>1, <2>3 DEF OperationInv, Shape
    <2> QED
      BY <1>1, <2>3, <2>4, MovedUnderWorker
  <1> QED
    BY <1>3, <1>4 DEF recover_commissioning, record_controller_failure

LEMMA Restarts ==
  ASSUME OperationInv, caller' = [c \in Callers |-> Idle], Done, UNCHANGED <<durable, calls>>,
         ctl' \in Controller(ctl')
  PROVE  OperationInv'
  <1>1. Idle \in Handler /\ Idle.pc = "idle"
    BY DEF Idle, Handler, Targets
  <1>2. caller' \in [Callers -> Handler] /\ \A c \in Callers : caller'[c].pc = "idle"
    BY <1>1
  <1>3. wk' \in Worker(wk') /\ wk'.pc = "idle"
    BY DoneIs
  <1>4. Shape'
    BY <1>2, <1>3 DEF OperationInv, Shape, durable
  <1>5. Standing'
    BY <1>2, <1>3, <1>4, Unmoved, RecordsStay DEF durable
  <1> QED
    BY <1>4, <1>5 DEF OperationInv

LEMMA EmptyIs ==
  LET c == [EmptyController EXCEPT !.replaced = TRUE]
  IN  c \in Controller(c) /\ c.nodes = {} /\ c.replaced = TRUE
  BY DEF EmptyController, Controller

LEMMA NothingMoves ==
  ASSUME OperationInv, UNCHANGED <<ops, caller, wk, ctl, calls, stageRev, device>>
  PROVE  OperationInv'
  <1>1. Shape'
    BY DEF OperationInv, Shape
  <1>2. Standing'
    BY <1>1, Unmoved, RecordsStay DEF OperationInv, Standing
  <1> QED
    BY <1>1, <1>2 DEF OperationInv

LEMMA Disrupted ==
  ASSUME OperationInv, Environment
  PROVE  OperationInv'
  <1>1. CASE Crash
    <2>1. ctl' \in Controller(ctl')
      BY <1>1 DEF Crash, OperationInv, Shape
    <2> QED
      BY <1>1, <2>1, Restarts DEF Crash
  <1>2. CASE ReplaceController
    <2>1. ctl' \in Controller(ctl')
      BY <1>2, EmptyIs DEF ReplaceController
    <2> QED
      BY <1>2, <2>1, Restarts DEF ReplaceController
  <1>3. ASSUME NEW a, NEW action, Revoke(a, action) PROVE OperationInv'
    BY <1>3, NothingMoves DEF Revoke, durable
  <1> QED
    BY <1>1, <1>2, <1>3 DEF Environment

----------------------------------------------------------------------------
(* The invariant.                                                          *)

LEMMA OperationStart ==
  ASSUME Init
  PROVE  OperationInv
  <1>1. Idle \in Handler /\ Idle.pc = "idle"
    BY DEF Idle, Handler, Targets
  <1>2. caller \in [Callers -> Handler] /\ \A c \in Callers : caller[c].pc = "idle"
    BY <1>1 DEF Init
  <1>3. wk \in Worker(wk) /\ wk.pc = "idle"
    BY DEF Init, Free, Worker, Places, Outcomes
  <1>4. ctl \in Controller(ctl)
    <2>1. load.provisioned \in BOOLEAN
      BY OperationBounds DEF Init
    <2> QED
      BY <2>1 DEF Init, EmptyController, Controller
  <1>5. /\ ops \in Seq(Operation) /\ Len(ops) = 0 /\ DOMAIN ops = {} /\ MaxOps \in Nat
    BY OperationBounds DEF Init
  <1>6. /\ calls \in [1 .. MaxOps -> Nat] /\ \A i \in 1 .. MaxOps : calls[i] = 0
        /\ device \in [Nodes -> {"absent", "enrolled", "removed"}] /\ stageRev \in Nat
    BY DEF Init
  <1> QED
    BY <1>2, <1>3, <1>4, <1>5, <1>6 DEF OperationInv, Shape, Standing

LEMMA OperationStep ==
  ASSUME OperationInv, [Next]_vars
  PROVE  OperationInv'
  <1>1. CASE CallerStep
    <2>1. PICK c \in Callers :
            \/ \E a \in Actors, k \in Keys :
                  \/ start_create(c, a, k)
                  \/ start_commission(c, a, k)
                  \/ \E kind \in {"export", "restore"} :
                        start_existing_fabric_operation(c, a, k, kind)
                  \/ \E n \in Nodes : start_remove_node(c, a, k, n)
                  \/ \E i \in DOMAIN ops : start_cancel_commissioning(c, a, k, i)
            \/ LoadStage(c) \/ PutSecret(c) \/ PutFails(c) \/ SecretsReady(c)
            \/ AttachFabric(c) \/ delete_attached_matter_fabric_stage(c)
            \/ cancel_requested(c) \/ admit(c)
      BY <1>1 DEF CallerStep
    <2>2. ASSUME NEW a \in Actors, NEW k \in Keys,
                 \/ start_create(c, a, k)
                 \/ start_commission(c, a, k)
                 \/ \E kind \in {"export", "restore"} :
                       start_existing_fabric_operation(c, a, k, kind)
                 \/ \E n \in Nodes : start_remove_node(c, a, k, n)
                 \/ \E i \in DOMAIN ops : start_cancel_commissioning(c, a, k, i)
          PROVE  OperationInv'
      BY <2>2, HandlerStarts
    <2> QED
      BY <2>1, <2>2, HandlerProvisions, HandlerWithdraws, HandlerAdmits
  <1>2. CASE Submission
    BY <1>2, NothingMoves DEF Submission, submit, durable
  <1>3. CASE WorkerStep
    BY <1>3, RunNext, Begin, FabricStatus, ControllerError, FreshCalls, FabricIsLoaded,
       CommissioningRuns, RemovalRuns, CancellationRuns, FailureIsRecorded DEF WorkerStep
  <1>4. CASE Recovery
    BY <1>4, Recovers DEF Recovery
  <1>5. CASE Environment
    BY <1>5, Disrupted
  <1>6. CASE UNCHANGED vars
    BY <1>6, NothingMoves DEF vars, durable
  <1> QED
    BY <1>1, <1>2, <1>3, <1>4, <1>5, <1>6 DEF Next

LEMMA OperationInvariant == Spec => []OperationInv
  BY OperationStart, OperationStep, PTL DEF Spec

----------------------------------------------------------------------------
(* One dispatch.                                                           *)

\* Whatever crashes, retries and repeated wakes do, the workflows dispatch at
\* most one controller mutation for an operation: run_* reaches the
\* controller only from the requested phase it has itself moved on, and the
\* revision it checks then shows that no other run has.
THEOREM DispatchIsOnce == Spec => []DispatchedOnce
  <1>1. OperationInv => DispatchedOnce
    BY DEF OperationInv, Standing, Recorded, DispatchedOnce
  <1> QED
    BY <1>1, OperationInvariant, PTL

----------------------------------------------------------------------------
(* Secrets before the fabric.                                              *)

\* What a handler that provisions the fabric has written so far.
Provisioned(q, written) ==
    /\ q.pc = "stage" => q.put = 0
    /\ q.pc = "put" => q.put <= Refs /\ 1 .. q.put \subseteq written
    /\ q.pc = "attach" => written = 1 .. Refs

SecretInv ==
    /\ secrets \subseteq 1 .. Refs
    /\ stage = "secrets_ready" => secrets = 1 .. Refs
    /\ AttachedFabricHasSecrets
    /\ DOMAIN ops # {} => fabric # "none"
    /\ \A c \in Callers : Provisioned(caller[c], secrets)

\* A transition keeps the operations there are.
LEMMA SameOperations ==
  /\ \A i, p : transition_operation(i, p) => DOMAIN ops' = DOMAIN ops
  /\ \A a, i, class : record_controller_failure(a, i, class) => DOMAIN ops' = DOMAIN ops
  /\ \A pc : Advance(pc) => DOMAIN ops' = DOMAIN ops
  <1>1. \A i, p : transition_operation(i, p) => DOMAIN ops' = DOMAIN ops
    BY DEF transition_operation
  <1>2. \A a, i, class : record_controller_failure(a, i, class) => DOMAIN ops' = DOMAIN ops
    BY <1>1 DEF record_controller_failure
  <1>3. \A pc : Advance(pc) => DOMAIN ops' = DOMAIN ops
    BY <1>1 DEF Advance
  <1> QED
    BY <1>1, <1>2, <1>3

\* The worker never touches the stage, the secrets or a handler, and only
\* activates the fabric.
LEMMA WorkerKeeps ==
  ASSUME WorkerStep
  PROVE  /\ DOMAIN ops' = DOMAIN ops /\ UNCHANGED <<stage, secrets, caller>>
         /\ fabric' = fabric \/ (wk.pc = "load" /\ fabric' = "active")
  <1> USE SameOperations DEF WorkerOnly
  <1>1. CASE run_next
    BY <1>1 DEF run_next, NoStore
  <1>2. CASE begin \/ advance \/ load_fabric \/ clean_secrets
    BY <1>2 DEF begin, advance, load_fabric, clean_secrets
  <1>3. CASE fabric_status \/ commissioning_progress
    BY <1>3 DEF fabric_status, commissioning_progress, NoStore
  <1>4. CASE controller_error
    BY <1>4 DEF controller_error, Faulty, NoStore
  <1>5. CASE run_create \/ run_export \/ run_simulator_restore \/ run_commission \/ run_remove_node
    BY <1>5 DEF run_create, run_export, run_simulator_restore, run_commission, run_remove_node,
                Call, NoStore
  <1>6. CASE activate_fabric
    BY <1>6 DEF activate_fabric
  <1>7. CASE finish
    BY <1>7 DEF finish
  <1>8. CASE prepare_commissioning_projection
    BY <1>8 DEF prepare_commissioning_projection
  <1>9. CASE SubscribeNode
    BY <1>9 DEF SubscribeNode, NoStore
  <1>10. CASE complete_commissioning
    BY <1>10 DEF complete_commissioning, commit_commissioning
  <1>11. CASE remove_node_fault
    BY <1>11 DEF remove_node_fault, NoStore
  <1>12. CASE complete_node_removal
    BY <1>12 DEF complete_node_removal, commit_matter_node_removal
  <1>13. CASE \E l \in {"answers", "errors"} : inspect_removal(l)
    BY <1>13 DEF inspect_removal
  <1>14. CASE \E answer \in {"known", "error"} : run_cancel_commissioning(answer)
    BY <1>14 DEF run_cancel_commissioning, NoStore
  <1>15. CASE commit_matter_cancellation
    BY <1>15 DEF commit_matter_cancellation
  <1>16. CASE terminal_controller_error
    BY <1>16 DEF terminal_controller_error
  <1> QED
    BY <1>1, <1>2, <1>3, <1>4, <1>5, <1>6, <1>7, <1>8, <1>9, <1>10, <1>11, <1>12, <1>13,
       <1>14, <1>15, <1>16 DEF WorkerStep

\* Secrets are only added.
LEMMA SecretsAreKept ==
  ASSUME SecretInv, secrets \subseteq secrets', secrets' \subseteq 1 .. Refs,
         stage' = "secrets_ready" => stage = "secrets_ready" \/ secrets' = 1 .. Refs,
         fabric' # "none" => fabric # "none" \/ secrets' = 1 .. Refs,
         DOMAIN ops' # {} => fabric' # "none",
         \A c \in Callers : caller'[c] = caller[c] \/ Provisioned(caller'[c], secrets')
  PROVE  SecretInv'
  <1>1. \A c \in Callers : Provisioned(caller[c], secrets) => Provisioned(caller[c], secrets')
    BY DEF Provisioned
  <1>2. \A c \in Callers : Provisioned(caller'[c], secrets')
    BY <1>1 DEF SecretInv
  <1>3. AttachedFabricHasSecrets'
    BY DEF SecretInv, AttachedFabricHasSecrets
  <1> QED
    BY <1>2, <1>3 DEF SecretInv

LEMMA SecretsByHandlers ==
  ASSUME SecretInv, OperationInv, CallerStep
  PROVE  SecretInv'
  <1>1. /\ secrets \subseteq 1 .. Refs /\ Refs \in Nat /\ caller \in [Callers -> Handler]
        /\ DOMAIN ops # {} => fabric # "none"
    BY OperationBounds DEF SecretInv, OperationInv, Shape
  <1>2. ASSUME NEW c \in Callers, UNCHANGED <<stage, secrets, fabric>>,
               NEW q, caller' = [caller EXCEPT ![c] = q], Provisioned(q, secrets),
               DOMAIN ops' # {} => fabric # "none"
        PROVE  SecretInv'
    BY <1>1, <1>2, SecretsAreKept
  <1>3. Provisioned(Idle, secrets) /\ Provisioned(Idle, secrets')
    BY DEF Provisioned, Idle
  <1>4. ASSUME NEW c \in Callers, NEW a, NEW k, NEW kind, NEW target,
               NEW pc \in {"stage", "detach", "admit", "withdraw"},
               Request(c, a, k, kind, target, pc), UNCHANGED durable
        PROVE  SecretInv'
    <2> DEFINE q == [pc |-> pc, actor |-> a, key |-> k, kind |-> kind, target |-> target,
                     rev |-> 0, put |-> 0]
    <2>1. Provisioned(q, secrets)
      BY DEF Provisioned
    <2>2. caller' = [caller EXCEPT ![c] = q]
      BY <1>4 DEF Request
    <2> HIDE DEF q
    <2> QED
      BY <1>1, <1>2, <1>4, <2>1, <2>2 DEF durable
  <1>5. ASSUME NEW c \in Callers, NEW a, NEW k,
               \/ start_create(c, a, k)
               \/ start_commission(c, a, k)
               \/ \E kind \in {"export", "restore"} :
                     start_existing_fabric_operation(c, a, k, kind)
               \/ \E n \in Nodes : start_remove_node(c, a, k, n)
               \/ \E i \in DOMAIN ops : start_cancel_commissioning(c, a, k, i)
        PROVE  SecretInv'
    <2>1. CASE start_create(c, a, k)
      BY <1>4, <2>1 DEF start_create
    <2>2. CASE start_commission(c, a, k)
      BY <1>4, <2>2 DEF start_commission
    <2>3. ASSUME NEW kind, start_existing_fabric_operation(c, a, k, kind) PROVE SecretInv'
      BY <1>4, <2>3 DEF start_existing_fabric_operation
    <2>4. ASSUME NEW n, start_remove_node(c, a, k, n) PROVE SecretInv'
      BY <1>4, <2>4 DEF start_remove_node
    <2>5. ASSUME NEW i, start_cancel_commissioning(c, a, k, i) PROVE SecretInv'
      BY <1>4, <2>5 DEF start_cancel_commissioning
    <2> QED
      BY <1>5, <2>1, <2>2, <2>3, <2>4, <2>5
  <1>6. ASSUME NEW c \in Callers, LoadStage(c) PROVE SecretInv'
    <2> DEFINE h == caller[c]
    <2>1. /\ h \in Handler /\ h.pc = "stage" /\ h.put = 0 /\ UNCHANGED <<secrets, fabric, ops>>
      BY <1>1, <1>6 DEF LoadStage, SecretInv, Provisioned
    <2>2. PICK pc \in {"put", "attach"} :
            /\ caller' = [caller EXCEPT ![c].rev = stageRev', ![c].pc = pc]
            /\ pc = "attach" => stage = "secrets_ready"
            /\ stage' = "secrets_ready" => stage = "secrets_ready"
      BY <1>6 DEF LoadStage
    <2> DEFINE q == [h EXCEPT !.rev = stageRev', !.pc = pc]
    <2>3. caller' = [caller EXCEPT ![c] = q]
      BY <1>1, <2>2
    <2>4. q.pc = pc /\ q.put = h.put
      <3> HIDE DEF h
      <3> QED
        BY <2>1 DEF Handler
    <2> HIDE DEF q
    <2>5. Provisioned(q, secrets)
      BY <2>1, <2>2, <2>4, <1>1 DEF Provisioned, SecretInv
    <2> QED
      BY <1>1, <2>1, <2>2, <2>3, <2>5, SecretsAreKept
  <1>7. ASSUME NEW c \in Callers, PutSecret(c) PROVE SecretInv'
    <2> DEFINE h == caller[c]
               n == h.put + 1
               q == [h EXCEPT !.put = n]
    <2>1. /\ h \in Handler /\ h.pc = "put" /\ h.put < Refs /\ h.put \in Nat
          /\ 1 .. h.put \subseteq secrets /\ secrets' = secrets \cup {h.put + 1}
          /\ UNCHANGED <<stage, fabric, ops>>
      <3>1. h \in Handler
        BY <1>1
      <3>2. h.put \in Nat
        BY <3>1 DEF Handler
      <3> QED
        BY <1>7, <3>1, <3>2 DEF PutSecret, SecretInv, Provisioned
    <2>2. caller' = [caller EXCEPT ![c] = q]
      BY <1>1, <1>7 DEF PutSecret
    <2>3. q.pc = "put" /\ q.put = n
      <3> HIDE DEF h, n
      <3> QED
        BY <2>1 DEF Handler
    <2>4. n <= Refs /\ 1 .. n \subseteq secrets' /\ secrets' \subseteq 1 .. Refs
      <3> DEFINE m == h.put
      <3>1. /\ m \in Nat /\ m < Refs /\ 1 .. m \subseteq secrets /\ n = m + 1
            /\ secrets' = secrets \cup {m + 1}
        BY <2>1
      <3> HIDE DEF m, n
      <3>2. n <= Refs /\ n \in 1 .. Refs /\ \A x \in 1 .. n : x \in 1 .. m \/ x = n
        BY <1>1, <3>1
      <3> QED
        BY <1>1, <3>1, <3>2
    <2> HIDE DEF q, n
    <2>5. Provisioned(q, secrets')
      BY <2>3, <2>4 DEF Provisioned
    <2> QED
      BY <1>1, <2>1, <2>2, <2>4, <2>5, SecretsAreKept
  <1>8. ASSUME NEW c \in Callers, PutFails(c) PROVE SecretInv'
    <2>1. /\ UNCHANGED <<secrets, fabric, ops>> /\ caller' = [caller EXCEPT ![c] = Idle]
          /\ stage' \in {stage, "cleanup_required"}
      BY <1>8 DEF PutFails, transition_stage, Return
    <2> QED
      BY <1>1, <1>3, <2>1, SecretsAreKept
  <1>9. ASSUME NEW c \in Callers, NEW pc \in {"attach", "detach", "admit"}, Goto(c, pc)
        PROVE  /\ caller'[c].pc = pc /\ \A d \in Callers : d # c => caller'[d] = caller[d]
    <2> DEFINE h == caller[c]
    <2>1. h \in Handler
      BY <1>1
    <2>2. [h EXCEPT !.pc = pc].pc = pc
      <3> HIDE DEF h
      <3> QED
        BY <2>1 DEF Handler
    <2> QED
      BY <1>1, <1>9, <2>2 DEF Goto
  <1>10. ASSUME NEW c \in Callers, SecretsReady(c) PROVE SecretInv'
    <2>1. /\ UNCHANGED <<secrets, fabric, ops>> /\ caller[c].pc = "put" /\ caller[c].put = Refs
          /\ \/ UNCHANGED stage /\ caller' = [caller EXCEPT ![c] = Idle]
             \/ stage' = "secrets_ready" /\ Goto(c, "attach")
      BY <1>10 DEF SecretsReady, transition_stage, Return
    <2>2. secrets = 1 .. Refs
      BY <1>1, <2>1 DEF SecretInv, Provisioned
    <2>3. CASE caller' = [caller EXCEPT ![c] = Idle]
      BY <1>1, <1>3, <2>1, <2>2, <2>3, SecretsAreKept
    <2>4. CASE Goto(c, "attach")
      <3>1. Provisioned(caller'[c], secrets')
        BY <1>9, <2>1, <2>2, <2>4 DEF Provisioned
      <3> QED
        BY <1>1, <1>9, <2>1, <2>2, <2>4, <3>1, SecretsAreKept
    <2> QED
      BY <2>1, <2>3, <2>4
  <1>11. ASSUME NEW c \in Callers, AttachFabric(c) PROVE SecretInv'
    <2>1. /\ UNCHANGED <<secrets, stage, ops>> /\ caller[c].pc = "attach"
          /\ \/ UNCHANGED fabric /\ caller' = [caller EXCEPT ![c] = Idle]
             \/ fabric' = "unavailable" /\ Goto(c, "detach")
      BY <1>11 DEF AttachFabric, Return
    <2>2. secrets = 1 .. Refs
      BY <2>1 DEF SecretInv, Provisioned
    <2>3. CASE UNCHANGED fabric /\ caller' = [caller EXCEPT ![c] = Idle]
      BY <1>1, <1>3, <2>1, <2>3, SecretsAreKept
    <2>4. CASE fabric' = "unavailable" /\ Goto(c, "detach")
      <3>1. Provisioned(caller'[c], secrets')
        BY <1>9, <2>4 DEF Provisioned
      <3> QED
        BY <1>1, <1>9, <2>1, <2>2, <2>4, <3>1, SecretsAreKept
    <2> QED
      BY <2>1, <2>3, <2>4
  <1>12. ASSUME NEW c \in Callers, delete_attached_matter_fabric_stage(c) PROVE SecretInv'
    <2>1. UNCHANGED <<secrets, fabric, ops>> /\ stage' = "none" /\ Goto(c, "admit")
      BY <1>12 DEF delete_attached_matter_fabric_stage
    <2>2. Provisioned(caller'[c], secrets')
      BY <1>9, <2>1 DEF Provisioned
    <2> QED
      BY <1>1, <1>9, <2>1, <2>2, SecretsAreKept
  <1>13. ASSUME NEW c \in Callers, cancel_requested(c) PROVE SecretInv'
    <2>1. /\ UNCHANGED <<stage, secrets, fabric>> /\ caller' = [caller EXCEPT ![c] = Idle]
          /\ DOMAIN ops' = DOMAIN ops
      BY <1>13, SameOperations DEF cancel_requested, Return
    <2> QED
      BY <1>1, <1>2, <1>3, <2>1
  <1>14. ASSUME NEW c \in Callers, admit(c) PROVE SecretInv'
    <2>1. /\ UNCHANGED <<stage, secrets, fabric>> /\ caller' = [caller EXCEPT ![c] = Idle]
          /\ fabric # "none" \/ UNCHANGED ops
      BY <1>14 DEF admit, Return
    <2> QED
      BY <1>1, <1>2, <1>3, <2>1
  <1> QED
    BY <1>5, <1>6, <1>7, <1>8, <1>10, <1>11, <1>12, <1>13, <1>14 DEF CallerStep

LEMMA SecretStep ==
  ASSUME SecretInv, OperationInv, [Next]_vars
  PROVE  SecretInv'
  <1>1. DOMAIN ops # {} => fabric # "none"
    BY DEF SecretInv
  <1>2. ASSUME UNCHANGED <<stage, secrets, caller>>, DOMAIN ops' = DOMAIN ops,
               fabric' = fabric \/ (fabric # "none" /\ fabric' # "none")
        PROVE  SecretInv'
    BY <1>1, <1>2, SecretsAreKept DEF SecretInv
  <1>3. CASE CallerStep
    BY <1>3, SecretsByHandlers
  <1>4. CASE Submission
    BY <1>2, <1>4 DEF Submission, submit, durable
  <1>5. CASE WorkerStep
    <2>1. wk.pc = "load" => wk.op \in DOMAIN ops
      BY DEF OperationInv, Standing
    <2> QED
      BY <1>1, <1>2, <1>5, <2>1, WorkerKeeps
  <1>6. CASE Recovery
    BY <1>2, <1>6, SameOperations DEF Recovery, recover_commissioning
  <1>7. CASE Environment
    <2>1. UNCHANGED durable
      BY <1>7 DEF Environment, Crash, ReplaceController, Revoke
    <2>2. caller' = caller \/ caller' = [c \in Callers |-> Idle]
      BY <1>7 DEF Environment, Crash, ReplaceController, Revoke
    <2>3. Provisioned(Idle, secrets)
      BY DEF Provisioned, Idle
    <2> QED
      BY <1>1, <2>1, <2>2, <2>3, SecretsAreKept DEF durable, SecretInv
  <1>8. CASE UNCHANGED vars
    BY <1>2, <1>8 DEF vars, durable
  <1> QED
    BY <1>3, <1>4, <1>5, <1>6, <1>7, <1>8 DEF Next

\* The durable fabric is stored only after all of its secrets: neither two
\* handlers that provision at once, nor a put that fails, nor a restart
\* between two puts attaches a fabric that lacks one, because a stage is
\* ready only after all the puts of one handler and no put is undone.
THEOREM FabricFollowsSecrets == Spec => []AttachedFabricHasSecrets
  <1>1. Init => SecretInv
    <2> SUFFICES ASSUME Init PROVE SecretInv
      OBVIOUS
    <2>1. \A c \in Callers : caller[c] = Idle
      BY DEF Init
    <2>2. Provisioned(Idle, secrets)
      BY DEF Provisioned, Idle
    <2>3. DOMAIN ops = {} /\ stage = "none" /\ secrets \subseteq 1 .. Refs
      BY DEF Init
    <2>4. AttachedFabricHasSecrets
      BY DEF Init, AttachedFabricHasSecrets
    <2> QED
      BY <2>1, <2>2, <2>3, <2>4 DEF SecretInv
  <1>2. OperationInv /\ SecretInv /\ [Next]_vars => SecretInv'
    BY SecretStep
  <1>3. SecretInv => AttachedFabricHasSecrets
    BY DEF SecretInv
  <1> QED
    BY <1>1, <1>2, <1>3, OperationInvariant, PTL DEF Spec

----------------------------------------------------------------------------
(* What a step writes to the operations.                                   *)

Moves(i, p) ==
    /\ i \in DOMAIN ops /\ ops[i].phase \notin Terminal /\ p \in Phases \ {"requested"}
    /\ ops' = MovedAt(ops, i, p)

LEMMA MovesIs ==
  ASSUME ops \in Seq(Operation), NEW i, NEW p, Moves(i, p)
  PROVE  /\ Grown(ops, ops') /\ DOMAIN ops' = DOMAIN ops
         /\ ops'[i].phase = p /\ ops'[i].revision = ops[i].revision + 1
         /\ ops'[i].kind = ops[i].kind /\ ops'[i].target = ops[i].target
         /\ \A j \in DOMAIN ops : j # i => ops'[j] = ops[j]
  BY OneMoves DEF Moves

\* A transition by the declared order never ends an operation.
LEMMA AdvancesInside ==
  ASSUME OperationInv, wk.pc # "idle", NEW pc \in Places, Advance(pc),
         \/ wk.pc \in {"begin", "advance", "prepare", "inspect", "clean"}
         \/ Op.kind = "restore" /\ Op.phase = "restoring"
  PROVE  \/ UNCHANGED ops
         \/ /\ wk.rev = ops[wk.op].revision /\ Moves(wk.op, NextPhase(ops[wk.op]))
            /\ NextPhase(ops[wk.op]) \notin Terminal
            /\ NextPhase(ops[wk.op]) = "cleaning_secrets" => wk.pc \in {"inspect", "clean"}
  <1> DEFINE o == ops[wk.op]
  <1> SUFFICES ASSUME ~UNCHANGED ops
               PROVE  /\ wk.rev = o.revision /\ Moves(wk.op, NextPhase(o))
                      /\ NextPhase(o) \notin Terminal
                      /\ NextPhase(o) = "cleaning_secrets" => wk.pc \in {"inspect", "clean"}
    OBVIOUS
  <1>1. /\ wk.rev = o.revision /\ o.phase \notin Terminal
        /\ NextPhase(o) \in Phases \ {"requested"} /\ ops' = MovedAt(ops, wk.op, NextPhase(o))
    BY AdvanceIs
  <1>2. /\ o \in Operation /\ Carried(wk, o, calls[wk.op]) /\ Recorded(o, calls[wk.op], ops)
        /\ wk.op \in DOMAIN ops /\ Op = o
    BY AtWork
  <1>3. Moves(wk.op, NextPhase(o))
    BY <1>1, <1>2 DEF Moves
  <1>4. CASE wk.pc = "begin"
    <2>1. o.phase = "requested"
      BY <1>1, <1>2, <1>4 DEF Carried, Recorded
    <2>2. NextPhase(o) = Track[o.kind][2]
      <3>1. 1 \in DOMAIN Track[o.kind] /\ Track[o.kind][1] = "requested" /\ o.kind \in Kinds
        BY <1>2 DEF Track, Operation, Kinds
      <3> QED
        BY <2>1, <3>1, NextPhaseIs
    <2>3. NextPhase(o) \notin Terminal \cup {"cleaning_secrets"}
      BY <1>2, <2>2 DEF Track, Operation, Kinds, Terminal
    <2> QED
      BY <1>1, <1>3, <2>3
  <1>5. CASE wk.pc \in {"advance", "prepare"}
    <2>1. /\ o.kind = "commission"
          /\ o.phase \in {"validating_setup", "discovering", "establishing_session",
                          "commissioning", "projecting"}
      BY <1>1, <1>2, <1>5 DEF Carried, Runs
    <2>2. PICK i \in 2 .. 6 : o.phase = Track["commission"][i]
      BY <2>1 DEF Track
    <2>3. NextPhase(o) = Track["commission"][i + 1]
      BY <1>2, <2>1, <2>2, CommissioningPhase
    <2>4. NextPhase(o) \notin Terminal \cup {"cleaning_secrets"}
      BY <2>3 DEF Track, Terminal
    <2> QED
      BY <1>1, <1>3, <2>4
  <1>6. CASE wk.pc \in {"inspect", "clean"}
    <2>1. o.kind = "remove" /\ o.phase = "removing_node"
      BY <1>2, <1>6 DEF Carried, Runs
    <2>2. NextPhase(o) = "cleaning_secrets"
      BY <1>2, <2>1, RemovalPhase
    <2> QED
      BY <1>1, <1>3, <1>6, <2>2 DEF Terminal
  <1>7. CASE Op.kind = "restore" /\ Op.phase = "restoring"
    <2>1. NextPhase(o) = "loading_fabric"
      BY <1>2, <1>7, LoadingPhase
    <2> QED
      BY <1>1, <1>3, <2>1 DEF Terminal
  <1> QED
    BY <1>4, <1>5, <1>6, <1>7

\* A worker's last transition of its own operation.
LEMMA EndsOwn ==
  ASSUME OperationInv, wk.pc # "idle", NEW p, transition(Op, p), transition_operation(Me, p)
  PROVE  Moves(wk.op, p)
  BY AtWork, TransitionGuard DEF Moves, transition_operation, MovedAt

\* What a step of the worker writes to the operations, with the place it
\* writes it from.
LEMMA WorkerMovesOnly ==
  ASSUME OperationInv, WorkerStep
  PROVE  \/ UNCHANGED ops
         \/ \E p \in Phases \ (Terminal \cup {"requested"}) :
              /\ wk.pc # "idle" /\ Moves(wk.op, p)
              /\ p = "cleaning_secrets" => wk.pc \in {"inspect", "clean"}
         \/ wk.pc \in {"finish", "commit", "removal"} /\ Moves(wk.op, "completed")
         \/ /\ wk.pc = "fail" /\ wk.outcome \in {"failed", "repair_required"}
            /\ Moves(wk.op, wk.outcome)
         \/ commit_matter_cancellation
  <1>1. ASSUME wk.pc # "idle", NEW pc \in Places, Advance(pc),
               \/ wk.pc \in {"begin", "advance", "prepare", "inspect", "clean"}
               \/ Op.kind = "restore" /\ Op.phase = "restoring"
        PROVE  \/ UNCHANGED ops
               \/ \E p \in Phases \ (Terminal \cup {"requested"}) :
                     /\ wk.pc # "idle" /\ Moves(wk.op, p)
                     /\ p = "cleaning_secrets" => wk.pc \in {"inspect", "clean"}
    BY <1>1, AdvancesInside DEF Moves
  <1>2. CASE begin \/ advance
    BY <1>1, <1>2 DEF begin, advance, Places
  <1>3. CASE load_fabric \/ clean_secrets \/ prepare_commissioning_projection
             \/ \E l \in {"answers", "errors"} : inspect_removal(l)
    BY <1>1, <1>3 DEF load_fabric, clean_secrets, prepare_commissioning_projection,
                      inspect_removal, Places
  <1>4. CASE run_next \/ fabric_status \/ commissioning_progress \/ SubscribeNode
             \/ remove_node_fault
             \/ \E answer \in {"known", "error"} : run_cancel_commissioning(answer)
    BY <1>4 DEF run_next, fabric_status, commissioning_progress, SubscribeNode,
                remove_node_fault, run_cancel_commissioning, NoStore
  <1>5. CASE controller_error
    BY <1>5 DEF controller_error, Faulty, NoStore
  <1>6. CASE run_create \/ run_export \/ run_simulator_restore \/ run_commission \/ run_remove_node
    BY <1>6 DEF run_create, run_export, run_simulator_restore, run_commission, run_remove_node,
                Call, NoStore
  <1>7. CASE activate_fabric
    BY <1>7 DEF activate_fabric
  <1>8. CASE finish
    BY <1>8, EndsOwn DEF finish
  <1>9. CASE complete_commissioning
    BY <1>9, EndsOwn DEF complete_commissioning, commit_commissioning
  <1>10. CASE complete_node_removal
    BY <1>10, EndsOwn DEF complete_node_removal, commit_matter_node_removal
  <1>11. CASE terminal_controller_error
    <2>1. wk.pc = "fail"
      BY <1>11 DEF terminal_controller_error
    <2>2. wk.outcome \in {"failed", "repair_required"}
      BY <2>1, AtWork DEF Carried
    <2>3. \/ UNCHANGED ops
          \/ transition(Op, wk.outcome) /\ transition_operation(Me, wk.outcome)
      BY <1>11 DEF terminal_controller_error, record_controller_failure, Op, Me
    <2> QED
      BY <2>1, <2>2, <2>3, EndsOwn
  <1> QED
    BY <1>2, <1>3, <1>4, <1>5, <1>6, <1>7, <1>8, <1>9, <1>10, <1>11 DEF WorkerStep

----------------------------------------------------------------------------
(* Cancellations.                                                          *)

\* The two parts of the property of operation i.
Settled(os, i) ==
    os[i].kind = "cancel" /\ os[i].phase = "completed" =>
        os[os[i].target].phase \in {"cancelled", "repair_required"}

Explained(os, i) ==
    os[i].kind = "commission" /\ os[i].phase = "cancelled" =>
        \/ os[i].revision = 2
        \/ \E j \in DOMAIN os : os[j].kind = "cancel" /\ os[j].target = i
                                /\ os[j].phase = "completed"

LEMMA SettledOrExplained ==
  CancellationSettlesBoth <=> \A i \in DOMAIN ops : Settled(ops, i) /\ Explained(ops, i)
  BY DEF CancellationSettlesBoth, Settled, Explained

\* What was settled stays settled, because terminal operations stay.
LEMMA SettledStays ==
  ASSUME NEW os, NEW ns, Grown(os, ns), NEW i \in DOMAIN os, ns[i] = os[i],
         os[i].kind = "cancel" => os[i].target \in DOMAIN os
  PROVE  /\ Settled(os, i) => Settled(ns, i)
         /\ Explained(os, i) => Explained(ns, i)
  <1>1. Settled(os, i) => Settled(ns, i)
    BY DEF Grown, Evolved, Settled, Terminal
  <1>2. ASSUME NEW j \in DOMAIN os, os[j].phase = "completed"
        PROVE  ns[j] = os[j] /\ j \in DOMAIN ns
    BY <1>2 DEF Grown, Evolved, Terminal
  <1>3. Explained(os, i) => Explained(ns, i)
    BY <1>2 DEF Explained
  <1> QED
    BY <1>1, <1>3

LEMMA SettlementStays ==
  ASSUME OperationInv, CancellationSettlesBoth, Grown(ops, ops'), DOMAIN ops' = DOMAIN ops,
         \A i \in DOMAIN ops :
           \/ ops'[i] = ops[i]
           \/ /\ ops[i].kind = "cancel" => ops'[i].phase # "completed"
              /\ ops[i].kind = "commission" /\ ops'[i].phase = "cancelled" =>
                   ops'[i].revision = 2
           \/ Settled(ops', i) /\ Explained(ops', i)
  PROVE  CancellationSettlesBoth'
  <1>1. ASSUME NEW i \in DOMAIN ops
        PROVE  Settled(ops', i) /\ Explained(ops', i)
    <2>1. ops'[i].kind = ops[i].kind
      BY DEF Grown, Evolved
    <2>2. CASE ops'[i] = ops[i]
      <3>1. ops[i].kind = "cancel" => ops[i].target \in DOMAIN ops
        BY DEF OperationInv, Standing, Recorded
      <3> QED
        BY <2>2, <3>1, SettledStays, SettledOrExplained
    <2>3. CASE /\ ops[i].kind = "cancel" => ops'[i].phase # "completed"
               /\ ops[i].kind = "commission" /\ ops'[i].phase = "cancelled" =>
                    ops'[i].revision = 2
      BY <2>1, <2>3 DEF Settled, Explained
    <2> QED
      BY <2>2, <2>3
  <1> QED
    BY <1>1 DEF CancellationSettlesBoth, Settled, Explained

\* One operation moves, and not to the end of a cancellation.
LEMMA SettlementMove ==
  ASSUME OperationInv, CancellationSettlesBoth, NEW i, NEW p, Moves(i, p),
         ops[i].kind = "cancel" => p # "completed",
         ops[i].kind = "commission" /\ p = "cancelled" => ops[i].revision = 1
  PROVE  CancellationSettlesBoth'
  <1>1. ops \in Seq(Operation) /\ i \in DOMAIN ops
    BY DEF OperationInv, Shape, Moves
  <1>2. /\ Grown(ops, ops') /\ DOMAIN ops' = DOMAIN ops
        /\ ops'[i].phase = p /\ ops'[i].revision = ops[i].revision + 1
        /\ \A j \in DOMAIN ops : j # i => ops'[j] = ops[j]
    BY <1>1, MovesIs
  <1>3. /\ ops[i].kind = "cancel" => ops'[i].phase # "completed"
        /\ ops[i].kind = "commission" /\ ops'[i].phase = "cancelled" => ops'[i].revision = 2
    BY <1>2
  <1> QED
    BY <1>2, <1>3, SettlementStays

LEMMA SettlementCommits ==
  ASSUME OperationInv, CancellationSettlesBoth, commit_matter_cancellation
  PROVE  CancellationSettlesBoth'
  <1> DEFINE next == CancellationPhases(wk.outcome)
             o == ops[wk.op]
  <1>1. CASE UNCHANGED ops
    BY <1>1 DEF CancellationSettlesBoth
  <1>2. CASE ~UNCHANGED ops
    <2>1. PICK t \in DOMAIN ops :
            /\ t = o.target /\ t # wk.op /\ wk.op \in DOMAIN ops
            /\ ops[t].kind = "commission" /\ o.kind = "cancel"
            /\ Grown(ops, ops') /\ DOMAIN ops' = DOMAIN ops
            /\ ops'[t].phase = next.commissioning /\ ops'[wk.op].phase = next.cancellation
            /\ ops'[wk.op].kind = o.kind /\ ops'[wk.op].target = o.target
            /\ \A j \in DOMAIN ops : j \notin {t, wk.op} => ops'[j] = ops[j]
      BY <1>2, CancellationGrows
    <2>2. /\ next.commissioning \in {"cancelled", "repair_required"}
          /\ next.commissioning = "cancelled" => next.cancellation = "completed"
      BY CancellationPhase
    <2> HIDE DEF next
    <2>3. Settled(ops', wk.op) /\ Explained(ops', wk.op)
      BY <2>1, <2>2 DEF Settled, Explained
    <2>4. Settled(ops', t) /\ Explained(ops', t)
      <3>1. ops'[t].kind = "commission"
        BY <2>1 DEF Grown, Evolved
      <3> QED
        BY <2>1, <2>2, <3>1 DEF Settled, Explained
    <2> QED
      BY <2>1, <2>3, <2>4, SettlementStays
  <1> QED
    BY <1>1, <1>2

LEMMA SettlementStep ==
  ASSUME OperationInv, CancellationSettlesBoth, [Next]_vars
  PROVE  CancellationSettlesBoth'
  <1>1. ASSUME UNCHANGED ops PROVE CancellationSettlesBoth'
    BY <1>1 DEF CancellationSettlesBoth
  <1>2. ops \in Seq(Operation)
    BY DEF OperationInv, Shape
  <1>3. CASE CallerStep
    <2>1. ASSUME NEW c \in Callers, cancel_requested(c) PROVE CancellationSettlesBoth'
      <3> SUFFICES ASSUME ~UNCHANGED ops PROVE CancellationSettlesBoth'
        BY <1>1
      <3>1. PICK i : /\ i = caller[c].target /\ ops[i].phase = "requested"
                     /\ transition_operation(i, "cancelled")
        BY <2>1 DEF cancel_requested
      <3>2. i \in DOMAIN ops /\ ops[i].kind = "commission"
        BY <2>1, <3>1 DEF cancel_requested, OperationInv, Standing, Asked
      <3>3. Moves(i, "cancelled") /\ ops[i].revision = 1
        BY <3>1, <3>2 DEF Moves, transition_operation, MovedAt, Phases, Terminal,
                          OperationInv, Standing, Recorded
      <3> QED
        BY <3>2, <3>3, SettlementMove
    <2>2. ASSUME NEW c \in Callers, admit(c) PROVE CancellationSettlesBoth'
      <3> DEFINE q == caller[c]
                 o == NewOperation(q.actor, q.key, q.kind, q.target)
      <3> SUFFICES ASSUME ~UNCHANGED ops PROVE CancellationSettlesBoth'
        BY <1>1
      <3>1. ops' = Append(ops, o)
        BY <2>2 DEF admit
      <3>2. o.phase = "requested"
        BY DEF NewOperation
      <3> HIDE DEF o
      <3>3. /\ DOMAIN ops = 1 .. Len(ops) /\ Len(ops) \in Nat
            /\ DOMAIN ops' = 1 .. Len(ops) + 1 /\ ops'[Len(ops) + 1] = o
            /\ \A i \in DOMAIN ops : ops'[i] = ops[i]
        BY <1>2, <3>1
      <3>4. Grown(ops, ops')
        BY <3>3 DEF Grown, Evolved
      <3>5. \A i \in DOMAIN ops : Settled(ops', i) /\ Explained(ops', i)
        <4> TAKE i \in DOMAIN ops
        <4>1. ops[i].kind = "cancel" => ops[i].target \in DOMAIN ops
          BY DEF OperationInv, Standing, Recorded
        <4> QED
          BY <3>3, <3>4, <4>1, SettledStays, SettledOrExplained
      <3>6. Settled(ops', Len(ops) + 1) /\ Explained(ops', Len(ops) + 1)
        BY <3>2, <3>3 DEF Settled, Explained
      <3>7. \A i \in DOMAIN ops' : Settled(ops', i) /\ Explained(ops', i)
        BY <3>3, <3>5, <3>6
      <3> QED
        BY <3>7 DEF CancellationSettlesBoth, Settled, Explained
    <2>3. ASSUME NEW c \in Callers, NEW a, NEW k,
                 \/ start_create(c, a, k)
                 \/ start_commission(c, a, k)
                 \/ \E kind \in {"export", "restore"} :
                       start_existing_fabric_operation(c, a, k, kind)
                 \/ \E n \in Nodes : start_remove_node(c, a, k, n)
                 \/ \E i \in DOMAIN ops : start_cancel_commissioning(c, a, k, i)
          PROVE  UNCHANGED ops
      BY <2>3 DEF start_create, start_commission, start_existing_fabric_operation,
                  start_remove_node, start_cancel_commissioning, durable
    <2>4. ASSUME NEW c \in Callers,
                 \/ LoadStage(c) \/ PutSecret(c) \/ PutFails(c) \/ SecretsReady(c)
                 \/ AttachFabric(c) \/ delete_attached_matter_fabric_stage(c)
          PROVE  UNCHANGED ops
      BY <2>4 DEF LoadStage, PutSecret, PutFails, SecretsReady, AttachFabric,
                  delete_attached_matter_fabric_stage
    <2> QED
      BY <1>1, <1>3, <2>1, <2>2, <2>3, <2>4 DEF CallerStep
  <1>4. CASE Submission
    BY <1>1, <1>4 DEF Submission, submit, durable
  <1>5. CASE WorkerStep
    <2>1. wk.pc # "idle" => ops[wk.op].kind \in Runs[wk.pc]
      BY DEF OperationInv, Standing, Carried
    <2>2. ASSUME NEW p \in Phases \ (Terminal \cup {"requested"}), Moves(wk.op, p)
          PROVE  CancellationSettlesBoth'
      BY <2>2, SettlementMove DEF Terminal
    <2>3. ASSUME wk.pc \in {"finish", "commit", "removal"}, Moves(wk.op, "completed")
          PROVE  CancellationSettlesBoth'
      BY <2>1, <2>3, SettlementMove DEF Runs
    <2>4. ASSUME wk.outcome \in {"failed", "repair_required"}, Moves(wk.op, wk.outcome)
          PROVE  CancellationSettlesBoth'
      BY <2>4, SettlementMove
    <2> QED
      BY <1>1, <1>5, <2>2, <2>3, <2>4, SettlementCommits, WorkerMovesOnly
  <1>6. CASE Recovery
    <2>1. PICK a \in Actors, i \in DOMAIN ops : recover_commissioning(a, i)
      BY <1>6 DEF Recovery
    <2>2. \/ UNCHANGED ops
          \/ transition(ops[i], "repair_required") /\ transition_operation(i, "repair_required")
      BY <2>1 DEF recover_commissioning, record_controller_failure
    <2>3. ops[i] \in Operation
      BY <1>2
    <2>4. UNCHANGED ops \/ Moves(i, "repair_required")
      BY <2>2, <2>3, TransitionGuard DEF Moves, transition_operation, MovedAt
    <2> QED
      BY <1>1, <2>4, SettlementMove
  <1>7. CASE Environment
    BY <1>1, <1>7 DEF Environment, Crash, ReplaceController, Revoke, durable
  <1>8. CASE UNCHANGED vars
    BY <1>1, <1>8 DEF vars, durable
  <1> QED
    BY <1>3, <1>4, <1>5, <1>6, <1>7, <1>8 DEF Next

\* A completed cancellation has settled its commissioning in the transaction
\* that completed it, and no later step undoes that; a commissioning is
\* cancelled only before its first phase or by such a cancellation.
THEOREM CancellationIsJoint == Spec => []CancellationSettlesBoth
  <1>1. Init => CancellationSettlesBoth
    BY DEF Init, CancellationSettlesBoth
  <1>2. OperationInv /\ CancellationSettlesBoth /\ [Next]_vars => CancellationSettlesBoth'
    BY SettlementStep
  <1> QED
    BY <1>1, <1>2, OperationInvariant, PTL DEF Spec

----------------------------------------------------------------------------
(* Requests and the controller's nodes.                                    *)

Input == [valid : BOOLEAN, nodes : SUBSET Nodes]
Job == [actor : Actors \cup {"none"}, op : Nat, input : Input]

\* The input of a request for a stored operation: a setup payload stands for
\* a fixture, and only an exported envelope is restored.
Entrusted(r, os, envelopes) ==
    /\ r.op \in DOMAIN os /\ r.input \in Input
    /\ r.input.valid /\ os[r.op].kind = "commission" => r.input.nodes # {}
    /\ r.input.valid /\ os[r.op].kind = "restore" => envelopes # {}

RequestInv ==
    /\ queue \in Seq(Job)
    /\ \A j \in DOMAIN queue : Entrusted(queue[j], ops, exported)
    /\ wk.pc # "idle" => Entrusted(wk, ops, exported)
    /\ exported # {} => ctl.fabric \/ ctl.replaced
    /\ ctl.nodes \subseteq Nodes
    /\ ctl.nodes # {} => ctl.fabric

LEMMA EntrustedStays ==
  ASSUME NEW r, NEW os, NEW ns, Grown(os, ns), NEW es, NEW fs, es # {} => fs # {},
         Entrusted(r, os, es)
  PROVE  Entrusted(r, ns, fs)
  BY DEF Entrusted, Grown, Evolved

\* Every step of the worker only grows the operations.
LEMMA WorkerGrows ==
  ASSUME OperationInv, WorkerStep
  PROVE  Grown(ops, ops')
  <1>1. ops \in Seq(Operation)
    BY DEF OperationInv, Shape
  <1>2. ASSUME NEW i, NEW p, Moves(i, p) PROVE Grown(ops, ops')
    BY <1>1, <1>2, MovesIs
  <1> QED
    BY <1>2, WorkerMovesOnly, CancellationGrows, Unmoved

\* Between two requests the worker keeps its operation and its input.
LEMMA WorkerKeepsRequest ==
  ASSUME OperationInv, WorkerStep, ~run_next, wk'.pc # "idle"
  PROVE  wk.pc # "idle" /\ wk'.op = wk.op /\ wk'.input = wk.input
  <1>1. wk \in Worker(wk)
    BY DEF OperationInv, Shape
  <1>2. \A pc : Then(pc) => wk'.op = wk.op /\ wk'.input = wk.input
    BY <1>1 DEF Then, Worker
  <1>3. \A class : Fails(class) => wk'.op = wk.op /\ wk'.input = wk.input
    BY <1>1 DEF Fails, Worker
  <1>4. \A pc : Advance(pc) => wk'.pc = "idle" \/ (wk'.op = wk.op /\ wk'.input = wk.input)
    <2> SUFFICES ASSUME NEW pc, Advance(pc), ~Done
                 PROVE  wk'.op = wk.op /\ wk'.input = wk.input
      BY DoneIs
    <2>1. wk' = [wk EXCEPT !.rev = wk.rev + 1, !.pc = pc]
      BY DEF Advance
    <2> DEFINE r == wk.rev + 1
    <2>2. wk' = [wk EXCEPT !.rev = r, !.pc = pc]
      BY <2>1
    <2> HIDE DEF r
    <2> QED
      BY <1>1, <2>2 DEF Worker
  <1>5. ~Done
    BY DoneIs
  <1>6. CASE begin \/ advance \/ load_fabric \/ clean_secrets
    BY <1>4, <1>6 DEF begin, advance, load_fabric, clean_secrets
  <1>7. CASE fabric_status \/ commissioning_progress
    BY <1>2, <1>3, <1>7 DEF fabric_status, commissioning_progress
  <1>8. CASE controller_error
    BY <1>3, <1>8 DEF controller_error, Faulty
  <1>9. CASE run_create \/ run_export \/ run_simulator_restore \/ run_commission \/ run_remove_node
    BY <1>2, <1>3, <1>9 DEF run_create, run_export, run_simulator_restore, run_commission,
                            run_remove_node, Call
  <1>10. CASE activate_fabric \/ SubscribeNode \/ remove_node_fault
    BY <1>2, <1>3, <1>10 DEF activate_fabric, SubscribeNode, remove_node_fault
  <1>11. CASE prepare_commissioning_projection
              \/ \E l \in {"answers", "errors"} : inspect_removal(l)
    BY <1>3, <1>4, <1>11 DEF prepare_commissioning_projection, inspect_removal
  <1>12. CASE finish \/ complete_commissioning \/ complete_node_removal
              \/ commit_matter_cancellation \/ terminal_controller_error
    BY <1>5, <1>12 DEF finish, complete_commissioning, complete_node_removal,
                       commit_matter_cancellation, terminal_controller_error
  <1>13. ASSUME NEW answer, run_cancel_commissioning(answer)
         PROVE  wk.pc # "idle" /\ wk'.op = wk.op /\ wk'.input = wk.input
    <2> DEFINE r == IF answer = "error" THEN "unknown" ELSE cancel_commissioning(Op.target)
    <2>1. wk.pc # "idle" /\ wk' = [wk EXCEPT !.pc = "settle", !.outcome = r]
      BY <1>13 DEF run_cancel_commissioning
    <2> HIDE DEF r
    <2> QED
      BY <1>1, <2>1 DEF Worker
  <1> QED
    BY <1>6, <1>7, <1>8, <1>9, <1>10, <1>11, <1>12, <1>13 DEF WorkerStep

\* What a step of the worker does to the controller.
LEMMA WorkerCalls ==
  ASSUME OperationInv, WorkerStep
  PROVE  /\ Kept(ctl, ctl') /\ (exported' = exported \/ ctl.fabric)
         /\ \/ /\ ctl'.nodes = ctl.nodes /\ ctl'.completed = ctl.completed
               /\ ctl'.origin = ctl.origin
            \/ /\ wk.pc = "call" /\ ops[wk.op].kind = "commission"
               /\ ctl.fabric /\ wk.input.valid /\ Fixture \notin ctl.nodes
               /\ ctl'.nodes = ctl.nodes \cup {Fixture}
               /\ ctl'.completed = ctl.completed \cup {wk.op}
               /\ ctl'.origin = [ctl.origin EXCEPT ![Fixture] = wk.op]
            \/ /\ wk.pc = "call" /\ ops[wk.op].kind = "remove"
               /\ ctl'.nodes = ctl.nodes \ {ops[wk.op].target}
               /\ ctl'.completed = ctl.completed /\ ctl'.origin = ctl.origin
            \/ /\ wk.pc = "call" /\ ops[wk.op].kind = "restore"
               /\ wk.input.valid /\ ~ctl.fabric /\ ctl'.fabric
               /\ ctl'.nodes = wk.input.nodes /\ ctl'.completed = ctl.completed
               /\ ctl'.origin = ctl.origin
  <1> USE DEF WorkerOnly
  <1>1. ctl \in Controller(ctl)
    BY DEF OperationInv, Shape
  <1>2. Kept(ctl, ctl)
    BY <1>1 DEF Kept
  <1>3. CASE run_next \/ begin \/ fabric_status \/ load_fabric \/ activate_fabric \/ finish
             \/ commissioning_progress \/ advance
    BY <1>2, <1>3 DEF run_next, begin, fabric_status, load_fabric, activate_fabric, finish,
                      commissioning_progress, advance, NoController
  <1>4. CASE \/ prepare_commissioning_projection \/ complete_commissioning \/ clean_secrets
             \/ complete_node_removal \/ commit_matter_cancellation \/ terminal_controller_error
             \/ \E l \in {"answers", "errors"} : inspect_removal(l)
    BY <1>2, <1>4 DEF prepare_commissioning_projection, complete_commissioning, clean_secrets,
                      complete_node_removal, commit_matter_cancellation,
                      terminal_controller_error, inspect_removal, NoController
  <1>5. CASE controller_error
    BY <1>2, <1>5 DEF controller_error, Faulty
  <1>6. CASE run_create
    BY <1>1, <1>6, CreateReply DEF run_create, Call
  <1>7. CASE run_export
    <2>1. ctl' = export_fabric.ctl /\ (exported' = exported \/ export_fabric.ok)
      BY <1>7 DEF run_export, Call
    <2>2. export_fabric.ok = ctl.fabric
      BY DEF export_fabric, Answer
    <2> QED
      BY <1>1, <2>1, <2>2, ExportReply
  <1>8. CASE run_commission
    <2>1. /\ ctl' = commission(wk.op, wk.input).ctl /\ exported' = exported
          /\ wk.pc = "call" /\ ops[wk.op].kind = "commission"
      BY <1>8 DEF run_commission, Call, Me, Op
    <2>2. commission(wk.op, wk.input).ok => wk.input.valid
      BY DEF commission, Answer
    <2> DEFINE c == commission(wk.op, wk.input)
    <2>3. Commissions(c, wk.op, Fixture)
      BY <1>1, CommissionReply DEF Fixture
    <2>4. ctl' = c.ctl /\ (c.ok => wk.input.valid)
      BY <2>1, <2>2
    <2> HIDE DEF c, Fixture
    <2> QED
      BY <2>1, <2>3, <2>4 DEF Commissions
  <1>9. CASE run_simulator_restore
    <2>1. /\ ctl' = restore_fabric(wk.input).ctl /\ exported' = exported
          /\ wk.pc = "call" /\ ops[wk.op].kind = "restore"
      BY <1>9 DEF run_simulator_restore, Call, Op
    <2> QED
      BY <1>1, <2>1, RestoreReply
  <1>10. CASE run_remove_node
    <2>1. /\ ctl' = remove_node(ops[wk.op].target) /\ exported' = exported
          /\ wk.pc = "call" /\ ops[wk.op].kind = "remove"
      BY <1>10 DEF run_remove_node, Call, Op, Answer
    <2> QED
      BY <1>1, <2>1, RemoveReply
  <1>11. CASE remove_node_fault
    <2>1. /\ ctl' = ctl \/ ctl' = remove_node(ops[wk.op].target)
          /\ exported' = exported /\ wk.pc = "call" /\ ops[wk.op].kind = "remove"
      BY <1>11 DEF remove_node_fault, Op
    <2> QED
      BY <1>1, <1>2, <2>1, RemoveReply
  <1>12. CASE SubscribeNode
    BY <1>1, <1>12, SubscribeReply DEF SubscribeNode
  <1>13. CASE \E answer \in {"known", "error"} : run_cancel_commissioning(answer)
    BY <1>1, <1>2, <1>13, Emits DEF run_cancel_commissioning
  <1> QED
    BY <1>3, <1>4, <1>5, <1>6, <1>7, <1>8, <1>9, <1>10, <1>11, <1>12, <1>13 DEF WorkerStep

\* What recovery writes.
LEMMA RecoveryWrites ==
  ASSUME OperationInv, NEW a, NEW i \in DOMAIN ops, recover_commissioning(a, i)
  PROVE  UNCHANGED ops \/ (Moves(i, "repair_required") /\ ops[i].kind = "commission")
  <1>1. /\ ops[i].kind = "commission"
        /\ \/ UNCHANGED ops
           \/ transition(ops[i], "repair_required") /\ transition_operation(i, "repair_required")
    BY DEF recover_commissioning, record_controller_failure, owned_operation_for_action
  <1>2. ops[i] \in Operation
    BY DEF OperationInv, Shape
  <1> QED
    BY <1>1, <1>2, TransitionGuard DEF Moves, transition_operation, MovedAt

\* No envelope is taken back.
LEMMA WorkerExports ==
  ASSUME WorkerStep
  PROVE  exported \subseteq exported'
  <1>1. CASE run_export
    BY <1>1 DEF run_export
  <1>2. CASE run_create \/ run_commission \/ run_simulator_restore \/ run_remove_node
             \/ controller_error \/ SubscribeNode \/ remove_node_fault
             \/ \E answer \in {"known", "error"} : run_cancel_commissioning(answer)
    BY <1>2 DEF run_create, run_commission, run_simulator_restore, run_remove_node,
                controller_error, Faulty, SubscribeNode, remove_node_fault,
                run_cancel_commissioning
  <1>3. CASE run_next \/ begin \/ fabric_status \/ load_fabric \/ activate_fabric \/ finish
             \/ commissioning_progress \/ advance
    BY <1>3 DEF run_next, begin, fabric_status, load_fabric, activate_fabric, finish,
                commissioning_progress, advance, NoController
  <1>4. CASE \/ prepare_commissioning_projection \/ complete_commissioning \/ clean_secrets
             \/ complete_node_removal \/ commit_matter_cancellation \/ terminal_controller_error
             \/ \E l \in {"answers", "errors"} : inspect_removal(l)
    BY <1>4 DEF prepare_commissioning_projection, complete_commissioning, clean_secrets,
                complete_node_removal, commit_matter_cancellation, terminal_controller_error,
                inspect_removal, NoController
  <1> QED
    BY <1>1, <1>2, <1>3, <1>4 DEF WorkerStep

\* Only taking a request changes the queue.
LEMMA WorkerQueues ==
  ASSUME WorkerStep, ~run_next
  PROVE  UNCHANGED queue
  <1>1. CASE run_create \/ run_commission \/ run_simulator_restore \/ run_export
             \/ run_remove_node \/ controller_error \/ SubscribeNode \/ remove_node_fault
             \/ \E answer \in {"known", "error"} : run_cancel_commissioning(answer)
    BY <1>1 DEF run_create, run_commission, run_simulator_restore, run_remove_node, run_export,
                controller_error, Faulty, SubscribeNode, remove_node_fault,
                run_cancel_commissioning, Call
  <1>2. CASE begin \/ fabric_status \/ load_fabric \/ activate_fabric \/ finish
             \/ commissioning_progress \/ advance
    BY <1>2 DEF begin, fabric_status, load_fabric, activate_fabric, finish,
                commissioning_progress, advance
  <1>3. CASE \/ prepare_commissioning_projection \/ complete_commissioning \/ clean_secrets
             \/ complete_node_removal \/ commit_matter_cancellation \/ terminal_controller_error
             \/ \E l \in {"answers", "errors"} : inspect_removal(l)
    BY <1>3 DEF prepare_commissioning_projection, complete_commissioning, clean_secrets,
                complete_node_removal, commit_matter_cancellation, terminal_controller_error,
                inspect_removal
  <1> QED
    BY <1>1, <1>2, <1>3 DEF WorkerStep

\* What a step of a handler writes: a withdrawal moves a requested
\* commissioning, an admission appends an operation and wakes the worker, and
\* no other step touches the operations or the queue.
LEMMA HandlerWrites ==
  ASSUME OperationInv, CallerStep
  PROVE  /\ UNCHANGED <<ctl, exported, wk, calls, device, linked, results>>
         /\ \/ UNCHANGED <<ops, queue>>
            \/ \E c \in Callers : admit(c)
            \/ \E i \in DOMAIN ops : /\ ops[i].kind = "commission" /\ ops[i].revision = 1
                                     /\ Moves(i, "cancelled") /\ UNCHANGED queue
  <1>1. ASSUME NEW c \in Callers, cancel_requested(c), ~UNCHANGED ops
        PROVE  \E i \in DOMAIN ops : /\ ops[i].kind = "commission" /\ ops[i].revision = 1
                                     /\ Moves(i, "cancelled") /\ UNCHANGED queue
    <2>1. PICK i : /\ i = caller[c].target /\ ops[i].phase = "requested"
                   /\ transition_operation(i, "cancelled")
      BY <1>1 DEF cancel_requested
    <2>2. i \in DOMAIN ops /\ ops[i].kind = "commission"
      BY <1>1, <2>1 DEF cancel_requested, OperationInv, Standing, Asked
    <2>3. Moves(i, "cancelled") /\ ops[i].revision = 1
      BY <2>1, <2>2 DEF Moves, transition_operation, MovedAt, Phases, Terminal,
                        OperationInv, Standing, Recorded
    <2> QED
      BY <1>1, <2>2, <2>3 DEF cancel_requested
  <1>2. ASSUME NEW c \in Callers, cancel_requested(c) \/ admit(c)
        PROVE  /\ UNCHANGED <<ctl, exported, wk, calls, device, linked, results>>
               /\ cancel_requested(c) => UNCHANGED queue
    BY <1>2 DEF cancel_requested, admit, CallerOnly
  <1>3. ASSUME NEW c \in Callers, NEW a, NEW k,
               \/ start_create(c, a, k)
               \/ start_commission(c, a, k)
               \/ \E kind \in {"export", "restore"} :
                     start_existing_fabric_operation(c, a, k, kind)
               \/ \E n \in Nodes : start_remove_node(c, a, k, n)
               \/ \E i \in DOMAIN ops : start_cancel_commissioning(c, a, k, i)
        PROVE  UNCHANGED <<ctl, exported, wk, calls, device, linked, results, ops, queue>>
    BY <1>3 DEF start_create, start_commission, start_existing_fabric_operation,
                start_remove_node, start_cancel_commissioning, durable, CallerOnly
  <1>4. ASSUME NEW c \in Callers,
               \/ LoadStage(c) \/ PutSecret(c) \/ PutFails(c) \/ SecretsReady(c)
               \/ AttachFabric(c) \/ delete_attached_matter_fabric_stage(c)
        PROVE  UNCHANGED <<ctl, exported, wk, calls, device, linked, results, ops, queue>>
    BY <1>4 DEF LoadStage, PutSecret, PutFails, SecretsReady, AttachFabric,
                delete_attached_matter_fabric_stage, CallerOnly
  <1> QED
    BY <1>1, <1>2, <1>3, <1>4 DEF CallerStep

\* An admission answers with an operation that is stored, a new one at the
\* end, and wakes the worker without input.
LEMMA AdmissionWrites ==
  ASSUME OperationInv, NEW c \in Callers, admit(c)
  PROVE  /\ Grown(ops, ops') /\ \A i \in DOMAIN ops : ops'[i] = ops[i]
         /\ \A i \in DOMAIN ops' \ DOMAIN ops :
              /\ ops'[i].kind = caller[c].kind /\ ops'[i].target = caller[c].target
              /\ ops'[i].phase = "requested"
         /\ \/ UNCHANGED queue
            \/ \E i \in DOMAIN ops' : /\ i \in Nat
                 /\ queue' = Append(queue, [actor |-> caller[c].actor, op |-> i,
                                            input |-> NoInput])
  <1> DEFINE q == caller[c]
             o == NewOperation(q.actor, q.key, q.kind, q.target)
             e == create_administration_operation(q.actor, q.key, q.kind, q.target)
  <1>1. ops \in Seq(Operation) /\ DOMAIN ops = 1 .. Len(ops) /\ Len(ops) \in Nat
    BY DEF OperationInv, Shape
  <1>2. /\ o.phase = "requested" /\ o.kind = q.kind /\ o.target = q.target
    BY DEF NewOperation
  <1>3. e = 0 \/ e = Len(ops) + 1 \/ e \in DOMAIN ops
    BY DEF create_administration_operation, Bound
  <1>4. /\ \/ ops' = ops /\ UNCHANGED queue
           \/ e > Len(ops) /\ ops' = Append(ops, o)
           \/ ~(e > Len(ops)) /\ ops' = ops
        /\ \/ UNCHANGED queue
           \/ e # 0 /\ queue' = Append(queue, [actor |-> q.actor, op |-> e, input |-> NoInput])
    BY DEF admit, matter_admitted, wake
  <1> HIDE DEF o, e
  <1>5. CASE UNCHANGED <<ops, queue>>
    BY <1>1, <1>5, Unmoved
  <1>6. CASE ~(e > Len(ops)) /\ ops' = ops
    <2>1. e = 0 \/ e \in DOMAIN ops
      BY <1>1, <1>3, <1>6
    <2>2. e \in DOMAIN ops => e \in Nat
      BY <1>1
    <2> QED
      BY <1>4, <1>6, <2>1, <2>2, Unmoved
  <1>7. CASE e > Len(ops) /\ ops' = Append(ops, o)
    <2>1. /\ DOMAIN ops' = 1 .. Len(ops) + 1 /\ ops'[Len(ops) + 1] = o
          /\ \A i \in DOMAIN ops : ops'[i] = ops[i]
      BY <1>1, <1>7
    <2>2. Grown(ops, ops')
      BY <1>1, <2>1 DEF Grown, Evolved
    <2>3. e \in DOMAIN ops' /\ e \in Nat
      BY <1>1, <1>3, <1>7, <2>1
    <2>4. \A i \in DOMAIN ops' \ DOMAIN ops : ops'[i] = o
      BY <1>1, <2>1
    <2> QED
      BY <1>2, <1>4, <2>1, <2>2, <2>3, <2>4
  <1> QED
    BY <1>4, <1>5, <1>6, <1>7

LEMMA RequestsStay ==
  ASSUME RequestInv, Grown(ops, ops'), exported # {} => exported' # {},
         queue' \in Seq(Job),
         \A j \in DOMAIN queue' : \/ \E i \in DOMAIN queue : queue'[j] = queue[i]
                                  \/ Entrusted(queue'[j], ops', exported'),
         wk'.pc # "idle" => \/ wk.pc # "idle" /\ wk'.op = wk.op /\ wk'.input = wk.input
                            \/ Entrusted(wk', ops', exported'),
         exported' # {} => ctl'.fabric \/ ctl'.replaced,
         ctl'.nodes \subseteq Nodes, ctl'.nodes # {} => ctl'.fabric
  PROVE  RequestInv'
  <1>1. \A j \in DOMAIN queue' : Entrusted(queue'[j], ops', exported')
    BY EntrustedStays DEF RequestInv
  <1>2. wk'.pc # "idle" => Entrusted(wk', ops', exported')
    <2>1. wk.pc # "idle" => Entrusted(wk, ops', exported')
      BY EntrustedStays DEF RequestInv
    <2> QED
      BY <2>1 DEF Entrusted
  <1> QED
    BY <1>1, <1>2 DEF RequestInv

\* A new request at the end of the queue.
LEMMA RequestsQueued ==
  ASSUME RequestInv, Grown(ops, ops'), NEW r \in Job, Entrusted(r, ops', exported),
         queue' = Append(queue, r), UNCHANGED <<wk, ctl, exported>>
  PROVE  RequestInv'
  <1>1. queue \in Seq(Job)
    BY DEF RequestInv
  <1>2. /\ queue' \in Seq(Job) /\ DOMAIN queue' = 1 .. Len(queue) + 1 /\ Len(queue) \in Nat
        /\ DOMAIN queue = 1 .. Len(queue) /\ queue'[Len(queue) + 1] = r
        /\ \A i \in DOMAIN queue : queue'[i] = queue[i]
    BY <1>1
  <1>3. \A j \in DOMAIN queue' : \/ \E i \in DOMAIN queue : queue'[j] = queue[i]
                                 \/ Entrusted(queue'[j], ops', exported)
    BY <1>2
  <1> QED
    BY <1>2, <1>3, RequestsStay DEF RequestInv

LEMMA RequestStep ==
  ASSUME OperationInv, RequestInv, [Next]_vars
  PROVE  RequestInv'
  <1>1. /\ queue \in Seq(Job) /\ ctl.nodes \subseteq Nodes
        /\ ctl.nodes # {} => ctl.fabric
        /\ exported # {} => ctl.fabric \/ ctl.replaced
        /\ ops \in Seq(Operation)
    BY DEF RequestInv, OperationInv, Shape
  <1>2. ASSUME Grown(ops, ops'), UNCHANGED <<queue, wk, ctl, exported>> PROVE RequestInv'
    BY <1>1, <1>2, RequestsStay DEF RequestInv
  <1>3. CASE CallerStep
    <2>1. UNCHANGED <<ctl, exported, wk>>
      BY <1>3, HandlerWrites
    <2>2. CASE UNCHANGED <<ops, queue>>
      BY <1>2, <2>1, <2>2, Unmoved
    <2>3. ASSUME NEW c \in Callers, admit(c) PROVE RequestInv'
      <3>1. CASE UNCHANGED queue
        BY <1>2, <2>1, <2>3, <3>1, AdmissionWrites
      <3>2. CASE ~UNCHANGED queue
        <4>1. PICK i \in DOMAIN ops' : /\ i \in Nat
                 /\ queue' = Append(queue, [actor |-> caller[c].actor, op |-> i,
                                            input |-> NoInput])
          BY <2>3, <3>2, AdmissionWrites
        <4> DEFINE r == [actor |-> caller[c].actor, op |-> i, input |-> NoInput]
        <4>2. caller[c].actor \in Actors \cup {"none"}
          BY DEF OperationInv, Shape, Handler
        <4>3. NoInput \in Input /\ ~NoInput.valid
          BY DEF NoInput, Input
        <4>4. r \in Job /\ r.op = i /\ r.input = NoInput
          BY <4>1, <4>2, <4>3 DEF Job
        <4>5. queue' = Append(queue, r)
          BY <4>1
        <4> HIDE DEF r
        <4>6. Entrusted(r, ops', exported)
          BY <4>1, <4>3, <4>4 DEF Entrusted
        <4> QED
          BY <2>1, <2>3, <4>4, <4>5, <4>6, AdmissionWrites, RequestsQueued
      <3> QED
        BY <3>1, <3>2
    <2>4. ASSUME NEW i, Moves(i, "cancelled"), UNCHANGED queue PROVE RequestInv'
      BY <1>1, <1>2, <2>1, <2>4, MovesIs
    <2> QED
      BY <1>3, <2>2, <2>3, <2>4, HandlerWrites
  <1>4. CASE Submission
    <2>1. PICK a \in Actors, i \in DOMAIN ops,
               input \in {Payload(ns) : ns \in SUBSET Nodes} \cup {NoInput} : submit(a, i, input)
      BY <1>4 DEF Submission
    <2> DEFINE r == [actor |-> a, op |-> i, input |-> input]
    <2>2. /\ NoInput \in Input /\ ~NoInput.valid
          /\ \A ns \in SUBSET Nodes : Payload(ns) \in Input /\ Payload(ns).nodes = ns
      BY DEF Input, Payload, NoInput
    <2> HIDE DEF r
    <2>3. /\ input \in Input
          /\ ops[i].kind = "commission" /\ input.valid => input.nodes # {}
          /\ ops[i].kind = "restore" /\ input.valid => exported # {}
      <3>1. \A n \in Nodes : {n} \in SUBSET Nodes
        OBVIOUS
      <3> QED
        BY <2>1, <2>2, <3>1 DEF submit
    <2>4. r \in Job /\ r.op = i /\ r.input = input
      BY <1>1, <2>3 DEF Job, r
    <2>5. queue' = Append(queue, r) /\ UNCHANGED <<ops, wk, ctl, exported>>
      BY <2>1 DEF submit, durable, r
    <2>6. Entrusted(r, ops', exported)
      BY <2>2, <2>3, <2>4, <2>5 DEF Entrusted
    <2> QED
      BY <2>4, <2>5, <2>6, Unmoved, RequestsQueued
  <1>5. CASE WorkerStep
    <2>1. /\ Grown(ops, ops') /\ Kept(ctl, ctl') /\ (exported' = exported \/ ctl.fabric)
      BY <1>5, WorkerGrows, WorkerCalls
    <2>2. exported \subseteq exported'
      BY <1>5, WorkerExports
    <2>3. ctl'.nodes \subseteq Nodes /\ (ctl'.nodes # {} => ctl'.fabric)
      <3>1. wk.pc = "call" => Entrusted(wk, ops, exported)
        BY DEF RequestInv
      <3>2. wk.pc = "call" => wk.input.nodes \subseteq Nodes
        BY <3>1 DEF Entrusted, Input
      <3>3. wk.pc = "call" /\ ops[wk.op].kind = "commission" /\ wk.input.valid => Fixture \in Nodes
        BY <3>1, <3>2 DEF Entrusted, Fixture, fixture_from_setup
      <3> QED
        BY <1>1, <1>5, <2>1, <3>2, <3>3, WorkerCalls DEF Kept
    <2>4. exported' # {} => ctl'.fabric \/ ctl'.replaced
      BY <2>1 DEF Kept, RequestInv
    <2>5. CASE run_next
      <3>1. queue # <<>> /\ queue' = Tail(queue) /\ UNCHANGED <<ops, exported>>
        BY <2>5 DEF run_next, NoStore, NoController
      <3>2. /\ queue' \in Seq(Job) /\ 1 \in DOMAIN queue /\ Head(queue) = queue[1]
            /\ \A j \in DOMAIN queue' : j + 1 \in DOMAIN queue /\ queue'[j] = queue[j + 1]
        BY <1>1, <3>1
      <3>3. wk'.pc # "idle" => wk'.op = Head(queue).op /\ wk'.input = Head(queue).input
        BY <2>5 DEF run_next, Free
      <3>4. wk'.pc # "idle" => Entrusted(wk', ops', exported')
        BY <3>1, <3>2, <3>3 DEF RequestInv, Entrusted
      <3> QED
        BY <2>1, <2>2, <2>3, <2>4, <3>2, <3>4, RequestsStay
    <2>6. CASE ~run_next
      <3>1. UNCHANGED queue
        BY <1>5, <2>6, WorkerQueues
      <3> QED
        BY <1>1, <1>5, <2>1, <2>2, <2>3, <2>4, <2>6, <3>1, WorkerKeepsRequest, RequestsStay
    <2> QED
      BY <2>5, <2>6
  <1>6. CASE Recovery
    <2>1. PICK a \in Actors, i \in DOMAIN ops : recover_commissioning(a, i)
      BY <1>6 DEF Recovery
    <2>2. UNCHANGED <<queue, wk, ctl, exported>>
      BY <2>1 DEF recover_commissioning
    <2> QED
      BY <1>1, <1>2, <2>1, <2>2, RecoveryWrites, MovesIs, Unmoved
  <1>7. CASE Crash \/ ReplaceController
    <2>1. /\ queue' = <<>> /\ UNCHANGED <<ops, exported>> /\ wk'.pc = "idle"
          /\ ctl' = ctl \/ (ctl'.nodes = {} /\ ctl'.replaced)
      BY <1>7, DoneIs, EmptyIs DEF Crash, ReplaceController, durable
    <2>2. queue' \in Seq(Job) /\ DOMAIN queue' = {}
      BY <2>1
    <2> QED
      BY <1>1, <2>1, <2>2, Unmoved, RequestsStay
  <1>8. CASE \E a, action : Revoke(a, action)
    BY <1>2, <1>8, Unmoved DEF Revoke, durable
  <1>9. CASE UNCHANGED vars
    BY <1>2, <1>9, Unmoved DEF vars, durable
  <1> QED
    BY <1>3, <1>4, <1>5, <1>6, <1>7, <1>8, <1>9 DEF Next, Environment

LEMMA RequestStart ==
  ASSUME Init
  PROVE  RequestInv
  <1>1. queue \in Seq(Job) /\ DOMAIN queue = {} /\ exported = {}
    BY DEF Init
  <1>2. wk.pc = "idle"
    BY DEF Init, Free
  <1>3. ctl.nodes = {}
    BY DEF Init, EmptyController
  <1> QED
    BY <1>1, <1>2, <1>3 DEF RequestInv

LEMMA RequestInvariant == Spec => []RequestInv
  <1>1. OperationInv /\ RequestInv /\ [Next]_vars => RequestInv'
    BY RequestStep
  <1> QED
    BY <1>1, RequestStart, OperationInvariant, PTL DEF Spec

----------------------------------------------------------------------------
(* The nodes of the controller and the enrolled devices.                   *)

\* Where a commissioning stands whose node the controller has taken in.
Tracing == {"trace", "advance", "prepare", "subscribe", "commit"}

\* The worker's places that say something of the controller.
LEMMA WorkerPlaces ==
  ASSUME OperationInv, WorkerStep
  PROVE  /\ wk'.pc \in Tracing => \/ wk.pc \in Tracing
                                  \/ wk.pc = "call" /\ Fixture \in ctl'.nodes \ ctl.nodes
         /\ wk'.pc = "clean" => ops[wk.op].target \notin ctl'.nodes /\ UNCHANGED ops
         /\ wk'.pc = "settle" /\ wk'.outcome = "cancelled" =>
              /\ ops[wk.op].target \notin ctl.completed /\ ctl'.completed = ctl.completed
              /\ UNCHANGED ops
  <1>1. wk \in Worker(wk) /\ ctl \in Controller(ctl)
    BY DEF OperationInv, Shape
  <1>2. \A pc : Then(pc) => wk'.pc = pc
    BY <1>1 DEF Then, Worker
  <1>3. \A class : Fails(class) => wk'.pc = "fail"
    BY <1>1 DEF Fails, Worker
  <1>4. \A pc \in Places : Advance(pc) => wk'.pc = "idle" \/ wk'.pc = pc
    <2> SUFFICES ASSUME NEW pc \in Places, Advance(pc), ~Done
                 PROVE  wk'.pc = pc
      BY DoneIs
    <2> DEFINE r == wk.rev + 1
    <2>1. wk' = [wk EXCEPT !.rev = r, !.pc = pc]
      BY DEF Advance
    <2> HIDE DEF r
    <2> QED
      BY <1>1, <2>1 DEF Worker
  <1>5. CASE run_next
    <2> DEFINE r == Head(queue)
               o == ops[r.op]
               p == Resume(r.op)
    <2>1. wk'.pc = "idle" \/ wk'.pc = p
      BY <1>5 DEF run_next, Free
    <2>2. p \in {"begin", "status", "fail", "inspect", "removal", "call", "done"}
      BY DEF Resume
    <2> HIDE DEF p
    <2> QED
      BY <2>1, <2>2 DEF Tracing
  <1>6. CASE begin
    BY <1>4, <1>6 DEF begin, Places, Tracing
  <1>7. CASE advance
    BY <1>4, <1>7 DEF advance, Places, Tracing
  <1>8. CASE load_fabric \/ clean_secrets
    BY <1>4, <1>8 DEF load_fabric, clean_secrets, Places, Tracing
  <1>9. CASE prepare_commissioning_projection \/ \E l \in {"answers", "errors"} : inspect_removal(l)
    BY <1>3, <1>4, <1>9 DEF prepare_commissioning_projection, inspect_removal, Places, Tracing
  <1>10. CASE fabric_status \/ commissioning_progress \/ activate_fabric \/ SubscribeNode
              \/ controller_error \/ remove_node_fault
    BY <1>2, <1>3, <1>10 DEF fabric_status, commissioning_progress, activate_fabric,
                             SubscribeNode, controller_error, remove_node_fault, Tracing
  <1>11. CASE run_create \/ run_export \/ run_simulator_restore
    BY <1>2, <1>3, <1>11 DEF run_create, run_export, run_simulator_restore, Call, Tracing
  <1>12. CASE run_commission
    <2>1. /\ ctl' = commission(wk.op, wk.input).ctl /\ wk.pc = "call"
          /\ wk'.pc = "fail" \/ (commission(wk.op, wk.input).ok /\ wk'.pc = "trace")
      BY <1>2, <1>3, <1>12 DEF run_commission, Call, Me
    <2> DEFINE c == commission(wk.op, wk.input)
    <2>2. Commissions(c, wk.op, Fixture)
      BY <1>1, CommissionReply DEF Fixture
    <2> HIDE DEF c
    <2>3. ctl' = c.ctl /\ wk.pc = "call" /\ (wk'.pc = "fail" \/ (c.ok /\ wk'.pc = "trace"))
      BY <2>1 DEF c
    <2> QED
      BY <2>2, <2>3 DEF Commissions, Tracing
  <1>13. CASE run_remove_node
    <2>1. /\ ctl' = remove_node(ops[wk.op].target) /\ wk'.pc = "clean" /\ UNCHANGED ops
      BY <1>2, <1>13 DEF run_remove_node, Call, Op, Answer, NoStore
    <2> QED
      BY <1>1, <2>1, RemoveReply DEF Tracing
  <1>14. CASE finish \/ complete_commissioning \/ complete_node_removal
              \/ commit_matter_cancellation \/ terminal_controller_error
    BY <1>14, DoneIs DEF finish, complete_commissioning, complete_node_removal,
                         commit_matter_cancellation, terminal_controller_error, Tracing
  <1>15. ASSUME NEW answer, run_cancel_commissioning(answer)
         PROVE  /\ wk'.pc = "settle" /\ UNCHANGED ops /\ ctl'.completed = ctl.completed
                /\ wk'.outcome = "cancelled" => ops[wk.op].target \notin ctl.completed
    <2> DEFINE r == IF answer = "error" THEN "unknown" ELSE cancel_commissioning(Op.target)
    <2>1. /\ UNCHANGED ops /\ (ctl' = ctl \/ ctl' = emit_event(1))
          /\ wk' = [wk EXCEPT !.pc = "settle", !.outcome = r]
      BY <1>15 DEF run_cancel_commissioning, NoStore
    <2>2. r = "cancelled" => ops[wk.op].target \notin ctl.completed
      BY DEF cancel_commissioning, Op
    <2> HIDE DEF r
    <2>3. wk'.pc = "settle" /\ wk'.outcome = r
      BY <1>1, <2>1 DEF Worker
    <2> QED
      BY <1>1, <2>1, <2>2, <2>3, Emits
  <1> QED
    BY <1>5, <1>6, <1>7, <1>8, <1>9, <1>10, <1>11, <1>12, <1>13, <1>14, <1>15
       DEF WorkerStep, Tracing

\* A node that the controller has belongs to the commissioning that brought
\* it in; if that has completed, the node's device is enrolled and no removal
\* of it is past the controller.
Owners(f, c, os, dev, w) ==
    /\ \A n \in c.nodes : f[n] = c.origin[n]
    /\ \A m, n \in c.nodes : f[m] = f[n] => m = n
    /\ \A n \in c.nodes : os[f[n]].phase = "completed" =>
         /\ dev[n] = "enrolled"
         /\ \A i \in DOMAIN os : os[i].kind = "remove" /\ os[i].target = n =>
                                   os[i].phase # "cleaning_secrets"
    /\ w.pc \in Tracing => /\ fixture_from_setup(w.input) \in c.nodes
                           /\ f[fixture_from_setup(w.input)] = w.op

Enlisted(n, dev) == n \in Nodes /\ dev[n] # "absent"

\* The devices and the controller's nodes together.
NodeInv ==
    /\ \A i \in ctl.completed : /\ i \in DOMAIN ops /\ calls[i] > 0
                                /\ ops[i].kind = "commission" /\ ops[i].phase # "cancelled"
    /\ wk.pc = "call" /\ ops[wk.op].kind = "commission" =>
         ops[wk.op].phase \notin {"completed", "cancelled"}
    /\ wk.pc = "settle" /\ wk.outcome = "cancelled" => ops[wk.op].target \notin ctl.completed
    /\ wk.pc = "clean" => ops[wk.op].target \notin ctl.nodes
    /\ \A i \in DOMAIN ops : ops[i].kind = "remove" => Enlisted(ops[i].target, device)
    /\ \A c \in Callers :
         caller[c].pc # "idle" /\ caller[c].kind = "remove" => Enlisted(caller[c].target, device)
    /\ \A r \in results : r[1] \in DOMAIN ops
    /\ EnrolledIsBacked
    /\ ctl.origin \in [Nodes -> Nat]
    /\ ~ctl.replaced => \E f \in [ctl.nodes -> ctl.completed] : Owners(f, ctl, ops, device, wk)

\* What a step may do to operation i, from o to p, without a device or a node
\* of the controller changing with it: no commissioning and no removal ends
\* well, a commissioning is cancelled only if the controller has not taken it
\* in, and a removal goes on only once the controller does not have the node.
Tame(o, p, i, c) ==
    \/ p = o
    \/ /\ o.kind = "commission" => /\ p.phase # "completed"
                                   /\ p.phase = "cancelled" => i \notin c.completed
       /\ o.kind = "remove" => /\ p.phase \notin {"completed", "failed"}
                               /\ p.phase = "cleaning_secrets" => o.target \notin c.nodes

LEMMA OwnersStay ==
  ASSUME NEW f, NEW c, NEW d, NEW os, NEW ns, NEW dev, NEW w, NEW v,
         f \in [c.nodes -> c.completed], Owners(f, c, os, dev, w),
         d.nodes = c.nodes, d.origin = c.origin, Grown(os, ns),
         \A i \in c.completed : i \in DOMAIN os /\ os[i].kind = "commission",
         \A i \in DOMAIN os : Tame(os[i], ns[i], i, c),
         \A i \in DOMAIN ns \ DOMAIN os : ns[i].phase = "requested",
         v.pc \in Tracing => w.pc \in Tracing /\ v.op = w.op /\ v.input = w.input
  PROVE  Owners(f, d, ns, dev, v)
  <1>1. ASSUME NEW n \in d.nodes, ns[f[n]].phase = "completed"
        PROVE  /\ dev[n] = "enrolled"
               /\ \A i \in DOMAIN ns : ns[i].kind = "remove" /\ ns[i].target = n =>
                                         ns[i].phase # "cleaning_secrets"
    <2>1. n \in c.nodes /\ f[n] \in DOMAIN os /\ os[f[n]].kind = "commission"
      OBVIOUS
    <2>2. os[f[n]].phase = "completed"
      BY <1>1, <2>1 DEF Tame
    <2>3. ASSUME NEW i \in DOMAIN ns, ns[i].kind = "remove", ns[i].target = n
          PROVE  ns[i].phase # "cleaning_secrets"
      <3>1. CASE i \notin DOMAIN os
        BY <3>1
      <3>2. CASE i \in DOMAIN os
        <4>1. os[i].kind = "remove" /\ os[i].target = n /\ Tame(os[i], ns[i], i, c)
          BY <2>3, <3>2 DEF Grown, Evolved
        <4>2. os[i].phase # "cleaning_secrets"
          BY <2>1, <2>2, <3>2, <4>1 DEF Owners
        <4> QED
          BY <2>1, <4>1, <4>2 DEF Tame
      <3> QED
        BY <3>1, <3>2
    <2> QED
      BY <2>1, <2>2, <2>3 DEF Owners
  <1>2. /\ \A m, n \in d.nodes : f[m] = f[n] => m = n
        /\ \A n \in d.nodes : f[n] = d.origin[n]
    BY DEF Owners
  <1>3. v.pc \in Tracing => /\ fixture_from_setup(v.input) \in d.nodes
                            /\ f[fixture_from_setup(v.input)] = v.op
    BY DEF Owners
  <1> QED
    BY <1>1, <1>2, <1>3 DEF Owners

\* What was dispatched stays dispatched.
Counted == \A i \in DOMAIN ops : calls[i] > 0 => calls'[i] > 0

\* A removal that may have taken a node out stays open.
LEMMA RemovingStays ==
  ASSUME Grown(ops, ops'), Counted, \A i \in DOMAIN ops : Tame(ops[i], ops'[i], i, ctl), NEW n,
         Removing(n)
  PROVE  Removing(n)'
  <1>1. PICK i \in DOMAIN ops : /\ ops[i].kind = "remove" /\ ops[i].target = n /\ calls[i] > 0
                                /\ ops[i].phase \notin {"completed", "failed"}
    BY DEF Removing
  <1>2. /\ i \in DOMAIN ops' /\ ops'[i].kind = "remove" /\ ops'[i].target = n /\ calls'[i] > 0
    BY <1>1 DEF Grown, Evolved, Counted
  <1>3. ops'[i].phase \notin {"completed", "failed"}
    BY <1>1 DEF Tame
  <1> QED
    BY <1>2, <1>3 DEF Removing

\* Enrolled devices whose nodes stay are as well backed as they were.
LEMMA BackedStays ==
  ASSUME Grown(ops, ops'), \A r \in results : r[1] \in DOMAIN ops,
         results \subseteq results', NEW n \in Nodes,
         device[n] = "enrolled", EnrolledIsBacked
  PROVE  \E r \in results' : r[2] = n /\ ops'[r[1]].phase = "completed"
  <1>1. PICK r \in results : r[2] = n /\ ops[r[1]].phase = "completed"
    BY DEF EnrolledIsBacked
  <1>2. ops'[r[1]].phase = "completed"
    BY <1>1 DEF Grown, Evolved, Terminal
  <1> QED
    BY <1>1, <1>2

LEMMA NodesStay ==
  ASSUME NodeInv, Grown(ops, ops'), UNCHANGED <<device, linked, results>>, Counted,
         ctl'.nodes = ctl.nodes, ctl'.completed = ctl.completed, ctl'.replaced = ctl.replaced,
         ctl'.origin = ctl.origin,
         \A i \in DOMAIN ops : Tame(ops[i], ops'[i], i, ctl),
         \A i \in DOMAIN ops' \ DOMAIN ops :
           /\ ops'[i].phase = "requested"
           /\ ops'[i].kind = "remove" => Enlisted(ops'[i].target, device),
         \A c \in Callers :
           \/ caller'[c] = caller[c]
           \/ caller'[c].pc # "idle" /\ caller'[c].kind = "remove" =>
                Enlisted(caller'[c].target, device),
         wk'.pc = "call" /\ ops'[wk'.op].kind = "commission" =>
           ops'[wk'.op].phase \notin {"completed", "cancelled"},
         wk'.pc = "settle" /\ wk'.outcome = "cancelled" =>
           ops'[wk'.op].target \notin ctl.completed,
         wk'.pc = "clean" => ops'[wk'.op].target \notin ctl.nodes,
         wk'.pc \in Tracing => wk.pc \in Tracing /\ wk'.op = wk.op /\ wk'.input = wk.input
  PROVE  NodeInv'
  <1>1. \A i \in ctl.completed : /\ i \in DOMAIN ops' /\ calls'[i] > 0
                                 /\ ops'[i].kind = "commission" /\ ops'[i].phase # "cancelled"
    <2> TAKE i \in ctl.completed
    <2>1. /\ i \in DOMAIN ops /\ calls[i] > 0
          /\ ops[i].kind = "commission" /\ ops[i].phase # "cancelled"
      BY DEF NodeInv
    <2>2. ops'[i].phase # "cancelled"
      BY <2>1 DEF Tame
    <2> QED
      BY <2>1, <2>2 DEF Grown, Evolved, Counted
  <1>2. \A i \in DOMAIN ops' : ops'[i].kind = "remove" => Enlisted(ops'[i].target, device)
    BY DEF NodeInv, Grown, Evolved
  <1>3. \A r \in results : r[1] \in DOMAIN ops'
    BY DEF NodeInv, Grown
  <1>4. EnrolledIsBacked'
    <2> SUFFICES ASSUME NEW n \in Nodes, device'[n] = "enrolled"
                 PROVE  /\ n \in linked'
                        /\ \E r \in results' : r[2] = n /\ ops'[r[1]].phase = "completed"
                        /\ ~ctl'.replaced => n \in ctl'.nodes \/ Removing(n)'
      BY DEF EnrolledIsBacked
    <2>1. \E r \in results' : r[2] = n /\ ops'[r[1]].phase = "completed"
      BY BackedStays DEF NodeInv
    <2>2. n \in linked /\ (~ctl.replaced => n \in ctl.nodes \/ Removing(n))
      BY DEF NodeInv, EnrolledIsBacked
    <2> QED
      BY <2>1, <2>2, RemovingStays
  <1>5. ~ctl'.replaced =>
          \E f \in [ctl'.nodes -> ctl'.completed] : Owners(f, ctl', ops', device', wk')
    <2> SUFFICES ASSUME ~ctl.replaced
                 PROVE  \E f \in [ctl'.nodes -> ctl'.completed] :
                           Owners(f, ctl', ops', device', wk')
      OBVIOUS
    <2>1. PICK f \in [ctl.nodes -> ctl.completed] : Owners(f, ctl, ops, device, wk)
      BY DEF NodeInv
    <2>2. \A i \in ctl.completed : i \in DOMAIN ops /\ ops[i].kind = "commission"
      BY DEF NodeInv
    <2>3. Owners(f, ctl', ops', device, wk')
      BY <2>1, <2>2, OwnersStay
    <2> QED
      BY <2>1, <2>3
  <1>6. \A c \in Callers : caller'[c].pc # "idle" /\ caller'[c].kind = "remove" =>
                             Enlisted(caller'[c].target, device)
    BY DEF NodeInv
  <1> QED
    BY <1>1, <1>2, <1>3, <1>4, <1>5, <1>6 DEF NodeInv

\* A handler that asks for a removal did so before, or its node is enlisted.
Wishes(q, h) ==
    q.pc # "idle" /\ q.kind = "remove" =>
        \/ h.pc # "idle" /\ h.kind = "remove" /\ h.target = q.target
        \/ Enlisted(q.target, device)

LEMMA HandlerWishes ==
  ASSUME OperationInv, CallerStep, NEW d \in Callers
  PROVE  Wishes(caller'[d], caller[d])
  <1>1. caller \in [Callers -> Handler]
    BY DEF OperationInv, Shape
  <1>2. ASSUME NEW c \in Callers, NEW q, caller' = [caller EXCEPT ![c] = q],
               Wishes(q, caller[c])
        PROVE  Wishes(caller'[d], caller[d])
    BY <1>1, <1>2 DEF Wishes
  <1>3. ASSUME NEW c \in Callers, Return(c) PROVE Wishes(caller'[d], caller[d])
    BY <1>2, <1>3 DEF Return, Idle, Wishes
  <1>4. ASSUME NEW c \in Callers, NEW pc, Goto(c, pc), caller[c].pc # "idle"
        PROVE  Wishes(caller'[d], caller[d])
    <2> DEFINE h == caller[c]
               q == [h EXCEPT !.pc = pc]
    <2>1. h \in Handler /\ h.pc # "idle" /\ caller' = [caller EXCEPT ![c] = q]
      BY <1>1, <1>4 DEF Goto
    <2>2. q.kind = h.kind /\ q.target = h.target
      <3> HIDE DEF h
      <3> QED
        BY <2>1 DEF Handler
    <2>3. Wishes(q, h)
      <3> HIDE DEF h, q
      <3> QED
        BY <2>1, <2>2 DEF Wishes
    <2> HIDE DEF q
    <2> QED
      BY <1>2, <2>1, <2>3
  <1>5. ASSUME NEW c \in Callers, NEW a, NEW k, NEW kind, NEW target, NEW pc,
               Request(c, a, k, kind, target, pc),
               kind = "remove" => Enlisted(target, device)
        PROVE  Wishes(caller'[d], caller[d])
    <2> DEFINE q == [pc |-> pc, actor |-> a, key |-> k, kind |-> kind, target |-> target,
                     rev |-> 0, put |-> 0]
    <2>1. Wishes(q, caller[c])
      BY <1>5 DEF Wishes
    <2>2. caller' = [caller EXCEPT ![c] = q]
      BY <1>5 DEF Request
    <2> HIDE DEF q
    <2> QED
      BY <1>2, <2>1, <2>2
  <1>6. ASSUME NEW c \in Callers, NEW a, NEW k,
               \/ start_create(c, a, k)
               \/ start_commission(c, a, k)
               \/ \E kind \in {"export", "restore"} :
                     start_existing_fabric_operation(c, a, k, kind)
               \/ \E n \in Nodes : start_remove_node(c, a, k, n)
               \/ \E i \in DOMAIN ops : start_cancel_commissioning(c, a, k, i)
        PROVE  Wishes(caller'[d], caller[d])
    <2>1. CASE start_create(c, a, k)
      BY <1>5, <2>1 DEF start_create
    <2>2. CASE start_commission(c, a, k)
      BY <1>5, <2>2 DEF start_commission
    <2>3. ASSUME NEW kind \in {"export", "restore"}, start_existing_fabric_operation(c, a, k, kind)
          PROVE  Wishes(caller'[d], caller[d])
      BY <1>5, <2>3 DEF start_existing_fabric_operation
    <2>4. ASSUME NEW n \in Nodes, start_remove_node(c, a, k, n)
          PROVE  Wishes(caller'[d], caller[d])
      <3>1. Enlisted(n, device) /\ Request(c, a, k, "remove", n, "admit")
        BY <2>4 DEF start_remove_node, Enlisted
      <3> QED
        BY <1>5, <3>1
    <2>5. ASSUME NEW i, start_cancel_commissioning(c, a, k, i)
          PROVE  Wishes(caller'[d], caller[d])
      BY <1>5, <2>5 DEF start_cancel_commissioning
    <2> QED
      BY <1>6, <2>1, <2>2, <2>3, <2>4, <2>5
  <1>7. ASSUME NEW c \in Callers, LoadStage(c) PROVE Wishes(caller'[d], caller[d])
    <2> DEFINE h == caller[c]
    <2>1. h \in Handler /\ h.pc = "stage"
      BY <1>1, <1>7 DEF LoadStage
    <2>2. PICK pc : caller' = [caller EXCEPT ![c].rev = stageRev', ![c].pc = pc]
      BY <1>7 DEF LoadStage
    <2> DEFINE q == [h EXCEPT !.rev = stageRev', !.pc = pc]
    <2>3. caller' = [caller EXCEPT ![c] = q]
      BY <1>1, <2>2
    <2>4. q.kind = h.kind /\ q.target = h.target
      <3> HIDE DEF h
      <3> QED
        BY <2>1 DEF Handler
    <2>5. Wishes(q, h)
      <3> HIDE DEF h, q
      <3> QED
        BY <2>1, <2>4 DEF Wishes
    <2> HIDE DEF q
    <2> QED
      BY <1>2, <2>3, <2>5
  <1>8. ASSUME NEW c \in Callers, PutSecret(c) PROVE Wishes(caller'[d], caller[d])
    <2> DEFINE h == caller[c]
               n == h.put + 1
               q == [h EXCEPT !.put = n]
    <2>1. h \in Handler /\ h.pc = "put"
      BY <1>1, <1>8 DEF PutSecret
    <2>2. caller' = [caller EXCEPT ![c] = q]
      BY <1>1, <1>8 DEF PutSecret
    <2>3. q.kind = h.kind /\ q.target = h.target
      <3> HIDE DEF h, n
      <3> QED
        BY <2>1 DEF Handler
    <2>4. Wishes(q, h)
      <3> HIDE DEF h, q
      <3> QED
        BY <2>1, <2>3 DEF Wishes
    <2> HIDE DEF q
    <2> QED
      BY <1>2, <2>2, <2>4
  <1>9. ASSUME NEW c \in Callers,
               \/ PutFails(c) \/ SecretsReady(c) \/ AttachFabric(c)
               \/ delete_attached_matter_fabric_stage(c) \/ cancel_requested(c) \/ admit(c)
        PROVE  Wishes(caller'[d], caller[d])
    BY <1>3, <1>4, <1>9 DEF PutFails, SecretsReady, transition_stage, AttachFabric,
                            delete_attached_matter_fabric_stage, cancel_requested, admit
  <1> QED
    BY <1>6, <1>7, <1>8, <1>9 DEF CallerStep

\* One operation moves in a tame way and the worker stays where it is.
LEMMA NodesUnderMove ==
  ASSUME OperationInv, NodeInv, NEW i, NEW p, Moves(i, p), Tame(ops[i], ops'[i], i, ctl),
         wk.pc = "call" /\ i = wk.op => p \notin {"completed", "cancelled"},
         UNCHANGED <<wk, ctl, calls, device, linked, results>>,
         \A c \in Callers : caller'[c] = caller[c] \/ Wishes(caller'[c], caller[c])
  PROVE  NodeInv'
  <1>1. ops \in Seq(Operation)
    BY DEF OperationInv, Shape
  <1>2. /\ Grown(ops, ops') /\ DOMAIN ops' = DOMAIN ops /\ ops'[i].phase = p
        /\ \A j \in DOMAIN ops : j # i => ops'[j] = ops[j]
    BY <1>1, MovesIs
  <1>3. \A j \in DOMAIN ops : Tame(ops[j], ops'[j], j, ctl)
    BY <1>2 DEF Tame
  <1>4. wk.pc # "idle" => /\ wk.op \in DOMAIN ops /\ ops'[wk.op].target = ops[wk.op].target
                          /\ ops'[wk.op].kind = ops[wk.op].kind
    BY <1>2 DEF OperationInv, Standing, Grown, Evolved
  <1>5. wk.pc = "call" /\ ops'[wk.op].kind = "commission" =>
          ops'[wk.op].phase \notin {"completed", "cancelled"}
    BY <1>2, <1>4 DEF NodeInv
  <1>6. \A c \in Callers :
           \/ caller'[c] = caller[c]
           \/ caller'[c].pc # "idle" /\ caller'[c].kind = "remove" =>
                Enlisted(caller'[c].target, device)
    BY DEF NodeInv, Wishes
  <1>7. Counted
    BY DEF Counted
  <1>8. /\ wk.pc = "settle" /\ wk.outcome = "cancelled" => ops'[wk.op].target \notin ctl.completed
        /\ wk.pc = "clean" => ops'[wk.op].target \notin ctl.nodes
    BY <1>4 DEF NodeInv
  <1> QED
    BY <1>2, <1>3, <1>5, <1>6, <1>7, <1>8, NodesStay

LEMMA NodesByHandlers ==
  ASSUME OperationInv, NodeInv, CallerStep
  PROVE  NodeInv'
  <1>1. UNCHANGED <<ctl, wk, calls, device, linked, results>>
    BY HandlerWrites
  <1>2. \A c \in Callers : caller'[c].pc # "idle" /\ caller'[c].kind = "remove" =>
                             Enlisted(caller'[c].target, device)
    BY HandlerWishes DEF NodeInv, Wishes
  <1>3. ASSUME Grown(ops, ops'), \A i \in DOMAIN ops : ops'[i] = ops[i],
               \A i \in DOMAIN ops' \ DOMAIN ops :
                 /\ ops'[i].phase = "requested"
                 /\ ops'[i].kind = "remove" => Enlisted(ops'[i].target, device)
        PROVE  NodeInv'
    <2>1. Counted /\ \A i \in DOMAIN ops : Tame(ops[i], ops'[i], i, ctl)
      BY <1>1, <1>3 DEF Counted, Tame
    <2>2. wk.pc # "idle" => wk.op \in DOMAIN ops
      BY DEF OperationInv, Standing
    <2>3. /\ wk.pc = "call" /\ ops'[wk.op].kind = "commission" =>
               ops'[wk.op].phase \notin {"completed", "cancelled"}
          /\ wk.pc = "settle" /\ wk.outcome = "cancelled" =>
               ops'[wk.op].target \notin ctl.completed
          /\ wk.pc = "clean" => ops'[wk.op].target \notin ctl.nodes
      BY <1>3, <2>2 DEF NodeInv
    <2> QED
      BY <1>1, <1>2, <1>3, <2>1, <2>3, NodesStay
  <1>4. CASE UNCHANGED ops
    BY <1>3, <1>4, Unmoved
  <1>5. ASSUME NEW c \in Callers, admit(c) PROVE NodeInv'
    <2>1. caller[c].pc # "idle"
      BY <1>5 DEF admit
    <2>2. \A i \in DOMAIN ops' \ DOMAIN ops :
            /\ ops'[i].phase = "requested"
            /\ ops'[i].kind = "remove" => Enlisted(ops'[i].target, device)
      BY <1>5, <2>1, AdmissionWrites DEF NodeInv
    <2> QED
      BY <1>3, <1>5, <2>2, AdmissionWrites
  <1>6. ASSUME NEW i \in DOMAIN ops, ops[i].kind = "commission", ops[i].revision = 1,
               Moves(i, "cancelled")
        PROVE  NodeInv'
    <2>1. ops \in Seq(Operation) /\ ops[i] \in Operation
      BY DEF OperationInv, Shape
    <2>2. calls[i] = 0
      BY <1>6 DEF OperationInv, Standing, Recorded
    <2>3. i \notin ctl.completed
      BY <2>2 DEF NodeInv
    <2>4. Tame(ops[i], ops'[i], i, ctl)
      BY <1>6, <2>1, <2>3, MovesIs DEF Tame
    <2>5. ~(wk.pc = "call" /\ i = wk.op)
      <3> SUFFICES ASSUME wk.pc = "call", i = wk.op PROVE FALSE
        OBVIOUS
      <3>1. wk.rev > 1 /\ wk.rev <= ops[wk.op].revision /\ wk.rev \in Nat
        BY AtWork DEF Carried
      <3> QED
        BY <1>6, <3>1
    <2> QED
      BY <1>1, <1>6, <2>4, <2>5, HandlerWishes, NodesUnderMove
  <1> QED
    BY <1>4, <1>5, <1>6, HandlerWrites

\* Recovery closes an interrupted commissioning as repair-required.
LEMMA NodesByRecovery ==
  ASSUME OperationInv, NodeInv, NEW a, NEW i \in DOMAIN ops, recover_commissioning(a, i)
  PROVE  NodeInv' \/ UNCHANGED ops
  <1> SUFFICES ASSUME ~UNCHANGED ops PROVE NodeInv'
    OBVIOUS
  <1>1. Moves(i, "repair_required") /\ ops[i].kind = "commission"
    BY RecoveryWrites
  <1>2. UNCHANGED <<wk, ctl, calls, device, linked, results, caller>> /\ ops \in Seq(Operation)
    BY DEF recover_commissioning, OperationInv, Shape
  <1>3. Tame(ops[i], ops'[i], i, ctl)
    BY <1>1, <1>2, MovesIs DEF Tame
  <1> QED
    BY <1>1, <1>2, <1>3, NodesUnderMove

\* The process starts again, perhaps with an empty controller.
LEMMA NodesAfterRestart ==
  ASSUME NodeInv, Crash \/ ReplaceController
  PROVE  NodeInv'
  <1>1. /\ UNCHANGED <<ops, calls, device, linked, results>> /\ wk'.pc = "idle"
        /\ \A c \in Callers : caller'[c].pc = "idle"
    BY DoneIs DEF Crash, ReplaceController, durable, Idle
  <1>2. CASE Crash
    <2>1. ctl' = ctl /\ Counted /\ \A i \in DOMAIN ops : Tame(ops[i], ops'[i], i, ctl)
      BY <1>1, <1>2 DEF Crash, Counted, Tame
    <2> QED
      BY <1>1, <2>1, Unmoved, NodesStay DEF Tracing
  <1>3. CASE ReplaceController
    <2>1. ctl'.nodes = {} /\ ctl'.completed = {} /\ ctl'.replaced /\ ctl'.origin \in [Nodes -> Nat]
      BY <1>3 DEF ReplaceController, EmptyController
    <2>2. EnrolledIsBacked'
      BY <1>1, <2>1 DEF NodeInv, EnrolledIsBacked
    <2> QED
      BY <1>1, <2>1, <2>2 DEF NodeInv
  <1> QED
    BY <1>2, <1>3

\* What the worker's steps count, store and take up.
LEMMA WorkerCounts ==
  ASSUME OperationInv, WorkerStep
  PROVE  Counted /\ (wk.pc = "call" => calls'[wk.op] > 0)
  <1>1. calls \in [1 .. MaxOps -> Nat] /\ ops \in Seq(Operation) /\ Len(ops) <= MaxOps
        /\ MaxOps \in Nat
    BY OperationBounds DEF OperationInv, Shape
  <1>2. ASSUME UNCHANGED calls, wk.pc # "call"
        PROVE  Counted /\ (wk.pc = "call" => calls'[wk.op] > 0)
    BY <1>2 DEF Counted
  <1>3. ASSUME Dispatch, wk.pc = "call"
        PROVE  Counted /\ (wk.pc = "call" => calls'[wk.op] > 0)
    <2>1. wk.op \in 1 .. MaxOps
      BY <1>1, <1>3 DEF OperationInv, Standing
    <2> DEFINE n == calls[wk.op]
               m == IF n < 2 THEN n + 1 ELSE n
    <2>2. n \in Nat
      BY <1>1, <2>1
    <2>3. m > 0
      BY <2>2
    <2>4. calls' = [calls EXCEPT ![wk.op] = m]
      BY <1>3 DEF Dispatch, Me
    <2> HIDE DEF m
    <2>5. calls'[wk.op] = m /\ \A i \in 1 .. MaxOps : i # wk.op => calls'[i] = calls[i]
      BY <1>1, <2>1, <2>4
    <2>6. DOMAIN ops \subseteq 1 .. MaxOps
      BY <1>1
    <2> QED
      BY <2>3, <2>5, <2>6 DEF Counted
  <1>4. CASE run_create \/ run_export \/ run_simulator_restore \/ run_commission \/ run_remove_node
             \/ remove_node_fault
             \/ \E answer \in {"known", "error"} : run_cancel_commissioning(answer)
    BY <1>3, <1>4 DEF run_create, run_export, run_simulator_restore, run_commission,
                      run_remove_node, remove_node_fault, run_cancel_commissioning, Call
  <1>5. CASE controller_error
    BY <1>2, <1>3, <1>5 DEF controller_error, Faulty
  <1>6. CASE SubscribeNode
    BY <1>2, <1>6 DEF SubscribeNode
  <1>7. CASE run_next \/ begin \/ fabric_status \/ load_fabric \/ activate_fabric \/ finish
             \/ commissioning_progress \/ advance
    BY <1>2, <1>7 DEF run_next, begin, fabric_status, load_fabric, activate_fabric, finish,
                      commissioning_progress, advance, NoController
  <1>8. CASE \/ prepare_commissioning_projection \/ complete_commissioning \/ clean_secrets
             \/ complete_node_removal \/ commit_matter_cancellation \/ terminal_controller_error
             \/ \E l \in {"answers", "errors"} : inspect_removal(l)
    BY <1>2, <1>8 DEF prepare_commissioning_projection, complete_commissioning, clean_secrets,
                      complete_node_removal, commit_matter_cancellation,
                      terminal_controller_error, inspect_removal, NoController
  <1> QED
    BY <1>4, <1>5, <1>6, <1>7, <1>8 DEF WorkerStep

LEMMA WorkerStores ==
  ASSUME WorkerStep
  PROVE  /\ \/ UNCHANGED <<device, linked, results>>
            \/ complete_commissioning \/ complete_node_removal
         /\ wk.pc = "call" => UNCHANGED <<ops, device, linked, results>>
         /\ wk.pc = "commit" => complete_commissioning
         /\ wk.pc = "removal" => complete_node_removal
         /\ wk.pc = "inspect" => \E l \in {"answers", "errors"} : inspect_removal(l)
  <1>1. CASE run_create \/ run_export \/ run_simulator_restore \/ run_commission \/ run_remove_node
             \/ remove_node_fault
             \/ \E answer \in {"known", "error"} : run_cancel_commissioning(answer)
    BY <1>1 DEF run_create, run_export, run_simulator_restore, run_commission, run_remove_node,
                remove_node_fault, run_cancel_commissioning, Call, NoStore
  <1>2. CASE controller_error
    BY <1>2 DEF controller_error, Faulty, NoStore
  <1>3. CASE run_next \/ begin \/ fabric_status \/ load_fabric \/ activate_fabric \/ finish
             \/ commissioning_progress \/ advance \/ SubscribeNode
    BY <1>3 DEF run_next, begin, fabric_status, load_fabric, activate_fabric, finish,
                commissioning_progress, advance, SubscribeNode, NoStore
  <1>4. CASE \/ prepare_commissioning_projection \/ complete_commissioning \/ clean_secrets
             \/ complete_node_removal \/ commit_matter_cancellation \/ terminal_controller_error
             \/ \E l \in {"answers", "errors"} : inspect_removal(l)
    BY <1>4 DEF prepare_commissioning_projection, complete_commissioning, clean_secrets,
                complete_node_removal, commit_matter_cancellation, terminal_controller_error,
                inspect_removal
  <1> QED
    BY <1>1, <1>2, <1>3, <1>4 DEF WorkerStep

\* Where a new run starts.
LEMMA TakesUp ==
  ASSUME run_next
  PROVE  /\ wk'.pc \in {"idle", "begin", "status", "fail", "inspect", "removal", "call"}
         /\ wk'.pc = "call" => ops[wk'.op].kind = "cancel"
         /\ UNCHANGED ops
  <1> DEFINE r == Head(queue)
             p == Resume(r.op)
  <1>1. wk'.pc = "idle" \/ (wk'.pc = p /\ wk'.op = r.op /\ p # "done")
    BY DEF run_next, Free
  <1>2. /\ p \in {"begin", "status", "fail", "inspect", "removal", "call", "done"}
        /\ p = "call" => ops[r.op].kind = "cancel"
    BY DEF Resume
  <1>3. UNCHANGED ops
    BY DEF run_next, NoStore
  <1> HIDE DEF p, r
  <1> QED
    BY <1>1, <1>2, <1>3

\* A transition that writes nothing ends the run.
LEMMA StillDone ==
  ASSUME OperationInv, wk.pc # "idle", NEW pc, Advance(pc), UNCHANGED ops
  PROVE  Done
  <1> SUFFICES ASSUME ~Done PROVE FALSE
    OBVIOUS
  <1> DEFINE p == NextPhase(ops[wk.op])
  <1>1. transition(ops[wk.op], p) /\ transition_operation(wk.op, p)
    BY DEF Advance, Op, Me
  <1>2. ops \in Seq(Operation) /\ wk.op \in DOMAIN ops /\ ops[wk.op] \in Operation
    BY AtWork
  <1>3. Moves(wk.op, p)
    BY <1>1, <1>2, TransitionGuard DEF Moves, transition_operation, MovedAt
  <1>4. ops'[wk.op].revision = ops[wk.op].revision + 1
    BY <1>2, <1>3, MovesIs
  <1>5. ops[wk.op].revision \in Nat
    BY <1>2 DEF Operation
  <1> QED
    BY <1>4, <1>5

\* A commissioning that reaches the controller is open.
LEMMA CallsOpen ==
  ASSUME OperationInv, WorkerStep, wk'.pc = "call", ops'[wk'.op].kind = "commission"
  PROVE  ops'[wk'.op].phase \notin {"completed", "cancelled"}
  <1>1. wk \in Worker(wk) /\ ops \in Seq(Operation)
    BY DEF OperationInv, Shape
  <1>2. ~run_next
    BY TakesUp
  <1>3. /\ wk.pc # "idle" /\ wk'.op = wk.op
    BY <1>2, WorkerKeepsRequest
  <1>4. Grown(ops, ops') /\ ops[wk.op].kind \in Runs[wk.pc] /\ wk.op \in DOMAIN ops
    BY <1>3, WorkerGrows, AtWork DEF Carried
  <1>5. ops[wk.op].kind = "commission"
    BY <1>3, <1>4 DEF Grown, Evolved
  <1>6. wk.pc # "status"
    BY <1>4, <1>5 DEF Runs
  <1>7. \A pc : Then(pc) => wk'.pc = pc
    BY <1>1 DEF Then, Worker
  <1>8. \A class : Fails(class) => wk'.pc = "fail"
    BY <1>1 DEF Fails, Worker
  <1>9. \A pc : Advance(pc) => wk'.pc = "idle" \/ wk'.pc = pc
    <2> SUFFICES ASSUME NEW pc, Advance(pc), ~Done
                 PROVE  wk'.pc = pc
      BY DoneIs
    <2> DEFINE r == wk.rev + 1
    <2>1. wk' = [wk EXCEPT !.rev = r, !.pc = pc]
      BY DEF Advance
    <2> HIDE DEF r
    <2> QED
      BY <1>1, <2>1 DEF Worker
  <1>10. CASE begin
    <2>1. Advance("status") \/ Advance("call")
      BY <1>10 DEF begin
    <2>2. wk.pc = "begin" /\ Op = ops[wk.op]
      BY <1>10 DEF begin, Op
    <2>3. CASE UNCHANGED ops
      <3>1. Done
        BY <1>1, <1>4, <2>1, <2>2, <2>3, StillDone
      <3> QED
        BY <3>1, DoneIs
    <2>4. CASE ~UNCHANGED ops
      <3>1. /\ Moves(wk.op, NextPhase(ops[wk.op]))
            /\ NextPhase(ops[wk.op]) \notin Terminal
        BY <2>1, <2>2, <2>4, AdvancesInside DEF Places
      <3> QED
        BY <1>1, <1>3, <3>1, MovesIs DEF Terminal
    <2> QED
      BY <2>3, <2>4
  <1>11. CASE fabric_status
    BY <1>6, <1>11 DEF fabric_status
  <1>12. CASE advance \/ load_fabric \/ clean_secrets \/ prepare_commissioning_projection
              \/ \E l \in {"answers", "errors"} : inspect_removal(l)
    BY <1>8, <1>9, <1>12 DEF advance, load_fabric, clean_secrets,
                             prepare_commissioning_projection, inspect_removal
  <1>13. CASE commissioning_progress \/ activate_fabric \/ SubscribeNode \/ controller_error
              \/ remove_node_fault
    BY <1>7, <1>8, <1>13 DEF commissioning_progress, activate_fabric, SubscribeNode,
                             controller_error, remove_node_fault
  <1>14. CASE run_create \/ run_export \/ run_simulator_restore \/ run_commission \/ run_remove_node
    BY <1>7, <1>8, <1>14 DEF run_create, run_export, run_simulator_restore, run_commission,
                             run_remove_node, Call
  <1>15. CASE finish \/ complete_commissioning \/ complete_node_removal
              \/ commit_matter_cancellation \/ terminal_controller_error
    BY <1>15, DoneIs DEF finish, complete_commissioning, complete_node_removal,
                         commit_matter_cancellation, terminal_controller_error
  <1>16. CASE \E answer \in {"known", "error"} : run_cancel_commissioning(answer)
    <2>1. Op.kind = "cancel"
      BY <1>16 DEF run_cancel_commissioning
    <2> QED
      BY <1>5, <2>1 DEF Op
  <1> QED
    BY <1>2, <1>10, <1>11, <1>12, <1>13, <1>14, <1>15, <1>16 DEF WorkerStep

\* Every transition of the worker but a commit is tame.
LEMMA WorkerIsTame ==
  ASSUME OperationInv, NodeInv, WorkerStep, wk.pc \notin {"commit", "removal"},
         NEW i \in DOMAIN ops
  PROVE  Tame(ops[i], ops'[i], i, ctl)
  <1>1. ops \in Seq(Operation)
    BY DEF OperationInv, Shape
  <1>2. ASSUME NEW p, Moves(wk.op, p),
               ops[wk.op].kind = "commission" => p \notin {"completed", "cancelled"},
               ops[wk.op].kind = "remove" =>
                 /\ p \notin {"completed", "failed"}
                 /\ p = "cleaning_secrets" => ops[wk.op].target \notin ctl.nodes
        PROVE  Tame(ops[i], ops'[i], i, ctl)
    BY <1>1, <1>2, MovesIs DEF Tame
  <1>3. CASE UNCHANGED ops
    BY <1>3 DEF Tame
  <1>4. wk.pc # "idle" => /\ ops[wk.op].kind \in Runs[wk.pc]
                          /\ Carried(wk, ops[wk.op], calls[wk.op])
    BY DEF OperationInv, Standing, Carried
  <1>5. ASSUME NEW p \in Phases \ (Terminal \cup {"requested"}), wk.pc # "idle", Moves(wk.op, p),
               p = "cleaning_secrets" => wk.pc \in {"inspect", "clean"}
        PROVE  Tame(ops[i], ops'[i], i, ctl)
    <2>1. wk.pc = "clean" => ops[wk.op].target \notin ctl.nodes
      BY DEF NodeInv
    <2>2. wk.pc = "inspect" => ops[wk.op].target \notin ctl.nodes
      <3> SUFFICES ASSUME wk.pc = "inspect" PROVE ops[wk.op].target \notin ctl.nodes
        OBVIOUS
      <3>1. PICK l : inspect_removal(l)
        BY WorkerStores
      <3>2. ops'[wk.op].revision = ops[wk.op].revision + 1 /\ ops[wk.op].revision \in Nat
        BY <1>1, <1>5, MovesIs, AtWork
      <3>3. ~UNCHANGED ops
        BY <3>2
      <3> QED
        BY <3>1, <3>3 DEF inspect_removal, Op
    <2> QED
      BY <1>2, <1>5, <2>1, <2>2 DEF Terminal
  <1>6. CASE wk.pc = "finish" /\ Moves(wk.op, "completed")
    BY <1>2, <1>4, <1>6 DEF Runs
  <1>7. CASE /\ wk.pc = "fail" /\ wk.outcome \in {"failed", "repair_required"}
             /\ Moves(wk.op, wk.outcome)
    BY <1>2, <1>4, <1>7 DEF Carried
  <1>8. CASE commit_matter_cancellation /\ ~UNCHANGED ops
    <2> DEFINE next == CancellationPhases(wk.outcome)
    <2>1. PICK t \in DOMAIN ops :
            /\ t = ops[wk.op].target /\ wk.pc = "settle"
            /\ ops[t].kind = "commission" /\ ops[wk.op].kind = "cancel"
            /\ ops'[t].phase = next.commissioning
            /\ \A j \in DOMAIN ops : j \notin {t, wk.op} => ops'[j] = ops[j]
      BY <1>8, CancellationGrows
    <2>2. /\ next.commissioning # "completed"
          /\ next.commissioning = "cancelled" => wk.outcome = "cancelled"
      BY DEF CancellationPhases
    <2> HIDE DEF next
    <2>3. next.commissioning = "cancelled" => t \notin ctl.completed
      BY <2>1, <2>2 DEF NodeInv
    <2> QED
      BY <2>1, <2>2, <2>3 DEF Tame
  <1> QED
    BY <1>3, <1>5, <1>6, <1>7, <1>8, WorkerMovesOnly

\* What the invariant needs of the worker's next place.
Placed ==
    /\ wk'.pc = "call" /\ ops'[wk'.op].kind = "commission" =>
         ops'[wk'.op].phase \notin {"completed", "cancelled"}
    /\ wk'.pc = "settle" /\ wk'.outcome = "cancelled" => ops'[wk'.op].target \notin ctl'.completed
    /\ wk'.pc = "clean" => ops'[wk'.op].target \notin ctl'.nodes
    /\ wk'.pc \in Tracing => /\ wk'.op = wk.op /\ wk'.input = wk.input
                             /\ \/ wk.pc \in Tracing
                                \/ wk.pc = "call" /\ Fixture \in ctl'.nodes \ ctl.nodes

LEMMA WorkerIsPlaced ==
  ASSUME OperationInv, WorkerStep
  PROVE  Placed
  <1>1. wk'.pc \in Tracing \cup {"settle", "clean"} => wk'.op = wk.op /\ wk'.input = wk.input
    <2> SUFFICES ASSUME wk'.pc \in Tracing \cup {"settle", "clean"}
                 PROVE  wk'.op = wk.op /\ wk'.input = wk.input
      OBVIOUS
    <2>1. ~run_next /\ wk'.pc # "idle"
      BY TakesUp DEF Tracing
    <2> QED
      BY <2>1, WorkerKeepsRequest
  <1>2. wk'.pc = "call" /\ ops'[wk'.op].kind = "commission" =>
          ops'[wk'.op].phase \notin {"completed", "cancelled"}
    BY CallsOpen
  <1> QED
    BY <1>1, <1>2, WorkerPlaces DEF Placed

\* Steps of the worker that change no device and no node.
LEMMA NodesByWorker ==
  ASSUME OperationInv, NodeInv, WorkerStep, UNCHANGED <<device, linked, results>>,
         \A i \in DOMAIN ops : Tame(ops[i], ops'[i], i, ctl),
         ctl'.nodes = ctl.nodes, ctl'.completed = ctl.completed, ctl'.origin = ctl.origin
  PROVE  NodeInv'
  <1>1. Grown(ops, ops') /\ Counted /\ ctl'.replaced = ctl.replaced /\ UNCHANGED caller
    BY WorkerGrows, WorkerCounts, WorkerCalls, WorkerKeeps DEF Kept
  <1>2. DOMAIN ops' = DOMAIN ops
    BY WorkerKeeps
  <1>3. Placed
    BY WorkerIsPlaced
  <1> QED
    BY <1>1, <1>2, <1>3, NodesStay DEF Placed

\* The controller takes a node in: it belongs to the commissioning that is
\* calling, which no other node belongs to since nothing was dispatched for
\* it before.
LEMMA NodeIsTakenIn ==
  ASSUME OperationInv, RequestInv, NodeInv, WorkerStep, wk.pc = "call", ops[wk.op].kind = "commission",
         wk.input.valid, Fixture \notin ctl.nodes, ctl'.nodes = ctl.nodes \cup {Fixture},
         ctl'.completed = ctl.completed \cup {wk.op},
         ctl'.origin = [ctl.origin EXCEPT ![Fixture] = wk.op]
  PROVE  NodeInv'
  <1>1. UNCHANGED <<ops, device, linked, results, caller>> /\ Counted /\ calls'[wk.op] > 0
        /\ ctl'.replaced = ctl.replaced
    BY WorkerStores, WorkerCounts, WorkerKeeps, WorkerCalls DEF Kept
  <1>2. Placed
    BY WorkerIsPlaced
  <1>3. /\ wk.op \in DOMAIN ops /\ calls[wk.op] = 0
        /\ ops[wk.op].phase \notin {"completed", "cancelled"}
    BY AtWork DEF Carried, NodeInv
  <1>4. wk.op \notin ctl.completed
    BY <1>3 DEF NodeInv
  <1>5. \A i \in ctl'.completed : /\ i \in DOMAIN ops /\ calls'[i] > 0
                                  /\ ops[i].kind = "commission" /\ ops[i].phase # "cancelled"
    BY <1>1, <1>3 DEF NodeInv, Counted
  <1>6. EnrolledIsBacked'
    <2>1. \A i \in DOMAIN ops : Tame(ops[i], ops'[i], i, ctl)
      BY <1>1 DEF Tame
    <2>2. \A n : Removing(n) => Removing(n)'
      BY <1>1, <2>1, Unmoved, RemovingStays
    <2> QED
      BY <1>1, <2>2 DEF NodeInv, EnrolledIsBacked
  <1>7. /\ Fixture \in Nodes /\ ctl.nodes \subseteq Nodes /\ ctl'.origin \in [Nodes -> Nat]
        /\ ctl'.origin[Fixture] = wk.op
        /\ \A n \in ctl.nodes : ctl'.origin[n] = ctl.origin[n]
    <2>1. Fixture \in Nodes /\ ctl.nodes \subseteq Nodes
      BY DEF RequestInv, Entrusted, Input, Fixture, fixture_from_setup
    <2>2. wk.op \in Nat /\ ctl.origin \in [Nodes -> Nat]
      BY <1>3 DEF NodeInv, OperationInv, Shape
    <2> QED
      BY <2>1, <2>2
  <1>8. ASSUME ~ctl.replaced
        PROVE  \E f \in [ctl'.nodes -> ctl'.completed] : Owners(f, ctl', ops, device, wk')
    <2>1. PICK f \in [ctl.nodes -> ctl.completed] : Owners(f, ctl, ops, device, wk)
      BY <1>8 DEF NodeInv
    <2> DEFINE x == Fixture
               g == [n \in ctl'.nodes |-> IF n = x THEN wk.op ELSE f[n]]
    <2>2. g \in [ctl'.nodes -> ctl'.completed]
      BY <2>1
    <2>3. g[x] = wk.op /\ x \in ctl'.nodes /\ \A n \in ctl.nodes : g[n] = f[n] /\ n # x
      OBVIOUS
    <2>4. \A m, n \in ctl'.nodes : g[m] = g[n] => m = n
      BY <1>4, <2>1, <2>3 DEF Owners
    <2>5. ops[wk.op].phase # "completed"
      BY <1>3
    <2>6. \A n \in ctl'.nodes : ops[g[n]].phase = "completed" =>
            /\ device[n] = "enrolled"
            /\ \A i \in DOMAIN ops : ops[i].kind = "remove" /\ ops[i].target = n =>
                                      ops[i].phase # "cleaning_secrets"
      <3> TAKE n \in ctl'.nodes
      <3>1. CASE n = x
        BY <2>3, <2>5, <3>1
      <3>2. CASE n \in ctl.nodes
        BY <2>1, <2>3, <3>2 DEF Owners
      <3> QED
        BY <3>1, <3>2
    <2>7. wk'.pc \in Tracing => /\ fixture_from_setup(wk'.input) \in ctl'.nodes
                                /\ g[fixture_from_setup(wk'.input)] = wk'.op
      BY <1>2, <2>3 DEF Placed, Tracing, Fixture
    <2>8. \A n \in ctl'.nodes : g[n] = ctl'.origin[n]
      BY <1>7, <2>1, <2>3 DEF Owners
    <2> HIDE DEF g
    <2>9. Owners(g, ctl', ops, device, wk')
      BY <2>4, <2>6, <2>7, <2>8 DEF Owners
    <2> QED
      BY <2>2, <2>9
  <1> QED
    BY <1>1, <1>2, <1>5, <1>6, <1>8, <1>7 DEF NodeInv, Placed

\* The controller removes a node, if it has it: a removal of it is now open.
LEMMA NodeIsTakenOut ==
  ASSUME OperationInv, NodeInv, WorkerStep, wk.pc = "call", ops[wk.op].kind = "remove",
         ctl'.nodes = ctl.nodes \ {ops[wk.op].target}, ctl'.completed = ctl.completed,
         ctl'.origin = ctl.origin
  PROVE  NodeInv'
  <1>1. UNCHANGED <<ops, device, linked, results, caller>> /\ Counted /\ calls'[wk.op] > 0
        /\ ctl'.replaced = ctl.replaced
    BY WorkerStores, WorkerCounts, WorkerKeeps, WorkerCalls DEF Kept
  <1>2. Placed
    BY WorkerIsPlaced
  <1>3. wk.op \in DOMAIN ops /\ ops[wk.op].phase = "removing_node"
    BY AtWork DEF Carried
  <1>4. \A i \in ctl'.completed : /\ i \in DOMAIN ops /\ calls'[i] > 0
                                  /\ ops[i].kind = "commission" /\ ops[i].phase # "cancelled"
    BY <1>1 DEF NodeInv, Counted
  <1>5. EnrolledIsBacked'
    <2>1. \A i \in DOMAIN ops : Tame(ops[i], ops'[i], i, ctl)
      BY <1>1 DEF Tame
    <2>2. \A n : Removing(n) => Removing(n)'
      BY <1>1, <2>1, Unmoved, RemovingStays
    <2>3. \A n : n = ops[wk.op].target => Removing(n)'
      BY <1>1, <1>3 DEF Removing
    <2> QED
      BY <1>1, <2>2, <2>3 DEF NodeInv, EnrolledIsBacked
  <1>6. wk'.pc \notin Tracing
    BY <1>2 DEF Placed, Tracing
  <1>7. ASSUME ~ctl.replaced
        PROVE  \E f \in [ctl'.nodes -> ctl'.completed] : Owners(f, ctl', ops, device, wk')
    <2>1. PICK f \in [ctl.nodes -> ctl.completed] : Owners(f, ctl, ops, device, wk)
      BY <1>7 DEF NodeInv
    <2> DEFINE g == [n \in ctl'.nodes |-> f[n]]
    <2>2. g \in [ctl'.nodes -> ctl'.completed] /\ \A n \in ctl'.nodes : g[n] = f[n] /\ n \in ctl.nodes
      BY <2>1
    <2> HIDE DEF g
    <2>3. Owners(g, ctl', ops, device, wk')
      BY <1>6, <2>1, <2>2 DEF Owners
    <2> QED
      BY <2>2, <2>3
  <1> QED
    BY <1>1, <1>2, <1>4, <1>5, <1>7 DEF NodeInv, Placed

\* Only a controller that was replaced takes an envelope: none was exported
\* before the first fabric was there, and that fabric stays.
LEMMA NodesAreRestored ==
  ASSUME OperationInv, RequestInv, NodeInv, WorkerStep, wk.pc = "call",
         ops[wk.op].kind = "restore", wk.input.valid, ~ctl.fabric,
         ctl'.completed = ctl.completed, ctl'.origin = ctl.origin
  PROVE  NodeInv'
  <1>1. UNCHANGED <<ops, device, linked, results, caller>> /\ Counted
        /\ ctl'.replaced = ctl.replaced
    BY WorkerStores, WorkerCounts, WorkerKeeps, WorkerCalls DEF Kept
  <1>2. Placed
    BY WorkerIsPlaced
  <1>3. ctl.replaced
    BY DEF RequestInv, Entrusted
  <1>4. \A i \in ctl'.completed : /\ i \in DOMAIN ops /\ calls'[i] > 0
                                  /\ ops[i].kind = "commission" /\ ops[i].phase # "cancelled"
    BY <1>1 DEF NodeInv, Counted
  <1>5. EnrolledIsBacked'
    BY <1>1, <1>3 DEF NodeInv, EnrolledIsBacked
  <1> QED
    BY <1>1, <1>2, <1>3, <1>4, <1>5 DEF NodeInv, Placed

\* A commissioning commits its device: no removal of that node exists, since
\* the device was absent.
LEMMA DeviceIsEnrolled ==
  ASSUME OperationInv, RequestInv, NodeInv, WorkerStep, complete_commissioning, ~UNCHANGED ops
  PROVE  NodeInv'
  <1> DEFINE i == wk.op
             x == Fixture
  <1>1. /\ wk.pc = "commit" /\ device[x] = "absent" /\ transition(Op, "completed")
        /\ transition_operation(Me, "completed")
        /\ device' = [device EXCEPT ![x] = "enrolled"]
        /\ linked' = linked \cup {x} /\ results' = results \cup {<<i, x>>}
        /\ Done /\ UNCHANGED <<caller, ctl, calls>>
    BY DEF complete_commissioning, commit_commissioning, store_node, Me, WorkerOnly, NoController
  <1>2. /\ ops \in Seq(Operation) /\ i \in DOMAIN ops /\ ops[i].kind \in Runs[wk.pc]
        /\ device \in [Nodes -> {"absent", "enrolled", "removed"}]
    BY <1>1, AtWork DEF Carried
  <1>3. ops[i].kind = "commission" /\ Moves(i, "completed")
    BY <1>1, <1>2, EndsOwn DEF Runs
  <1> HIDE DEF i, x
  <1>4. /\ Grown(ops, ops') /\ DOMAIN ops' = DOMAIN ops /\ ops'[i].phase = "completed"
        /\ ops'[i].kind = "commission"
        /\ \A j \in DOMAIN ops : j # i => ops'[j] = ops[j]
    BY <1>2, <1>3, MovesIs
  <1>5. wk'.pc = "idle"
    BY <1>1, DoneIs
  <1>6. /\ x \in Nodes => device'[x] = "enrolled"
        /\ \A n \in Nodes : n # x => device'[n] = device[n]
    BY <1>1, <1>2
  <1>7. \A n : Enlisted(n, device) => Enlisted(n, device')
    BY <1>6 DEF Enlisted
  <1>8. \A j \in ctl.completed : /\ j \in DOMAIN ops' /\ calls[j] > 0
                                 /\ ops'[j].kind = "commission" /\ ops'[j].phase # "cancelled"
    BY <1>4 DEF NodeInv
  <1>9. \A j \in DOMAIN ops' : ops'[j].kind = "remove" => Enlisted(ops'[j].target, device')
    BY <1>4, <1>7 DEF NodeInv
  <1>10. \A r \in results' : r[1] \in DOMAIN ops'
    BY <1>1, <1>2, <1>4 DEF NodeInv
  <1>11. ASSUME ~ctl.replaced
         PROVE  /\ x \in ctl.nodes /\ x \in Nodes
                /\ \E f \in [ctl.nodes -> ctl.completed] : Owners(f, ctl, ops', device', wk')
    <2>1. PICK f \in [ctl.nodes -> ctl.completed] : Owners(f, ctl, ops, device, wk)
      BY <1>11 DEF NodeInv
    <2>2. x \in ctl.nodes /\ f[x] = i /\ x \in Nodes /\ ctl.nodes \subseteq Nodes
      BY <1>1, <2>1 DEF Owners, Tracing, Fixture, x, i, RequestInv
    <2>3. ASSUME NEW n \in ctl.nodes, ops'[f[n]].phase = "completed"
          PROVE  /\ device'[n] = "enrolled"
                 /\ \A j \in DOMAIN ops' : ops'[j].kind = "remove" /\ ops'[j].target = n =>
                                            ops'[j].phase # "cleaning_secrets"
      <3>1. CASE n = x
        <4>1. \A j \in DOMAIN ops : ops[j].kind = "remove" => ops[j].target # x
          BY <1>1 DEF NodeInv, Enlisted
        <4> QED
          BY <1>4, <1>6, <2>2, <3>1, <4>1
      <3>2. CASE n # x
        <4>1. f[n] # i /\ f[n] \in DOMAIN ops /\ n \in Nodes
          BY <2>1, <2>2, <3>2 DEF Owners, NodeInv
        <4>2. ops[f[n]].phase = "completed"
          BY <1>4, <2>3, <4>1
        <4> QED
          BY <1>4, <1>6, <2>1, <3>2, <4>1, <4>2 DEF Owners
      <3> QED
        BY <3>1, <3>2
    <2>4. Owners(f, ctl, ops', device', wk')
      BY <1>5, <2>1, <2>3 DEF Owners, Tracing
    <2> QED
      BY <2>1, <2>2, <2>4
  <1>12. EnrolledIsBacked'
    <2> SUFFICES ASSUME NEW n \in Nodes, device'[n] = "enrolled"
                 PROVE  /\ n \in linked'
                        /\ \E r \in results' : r[2] = n /\ ops'[r[1]].phase = "completed"
                        /\ ~ctl'.replaced => n \in ctl'.nodes \/ Removing(n)'
      BY DEF EnrolledIsBacked
    <2>1. CASE n = x
      <3>1. <<i, x>> \in results' /\ <<i, x>>[1] = i /\ <<i, x>>[2] = x
        BY <1>1
      <3> QED
        BY <1>1, <1>4, <1>11, <2>1, <3>1
    <2>2. CASE n # x
      <3>1. device[n] = "enrolled" /\ results \subseteq results'
        BY <1>1, <1>6, <2>2
      <3>2. \E r \in results' : r[2] = n /\ ops'[r[1]].phase = "completed"
        BY <1>4, <3>1, BackedStays DEF NodeInv
      <3>3. n \in linked /\ (~ctl.replaced => n \in ctl.nodes \/ Removing(n))
        BY <3>1 DEF NodeInv, EnrolledIsBacked
      <3>4. Removing(n) => Removing(n)'
        BY <1>1, <1>3, <1>4 DEF Removing
      <3> QED
        BY <1>1, <3>2, <3>3, <3>4
    <2> QED
      BY <2>1, <2>2
  <1>13. \A c \in Callers : caller'[c].pc # "idle" /\ caller'[c].kind = "remove" =>
                              Enlisted(caller'[c].target, device')
    BY <1>1, <1>7 DEF NodeInv
  <1> QED
    BY <1>1, <1>5, <1>8, <1>9, <1>10, <1>11, <1>12, <1>13 DEF NodeInv

\* A removal commits the tombstone: if the controller has a node of that
\* name again, the commissioning that brought it in has not completed.
LEMMA DeviceIsRemoved ==
  ASSUME OperationInv, RequestInv, NodeInv, WorkerStep, complete_node_removal, ~UNCHANGED ops
  PROVE  NodeInv'
  <1> DEFINE i == wk.op
             x == ops[wk.op].target
  <1>1. /\ wk.pc = "removal" /\ transition(Op, "completed")
        /\ transition_operation(Me, "completed")
        /\ device' = [device EXCEPT ![x] = "removed"] /\ linked' = linked \ {x}
        /\ Done /\ UNCHANGED <<caller, ctl, calls, results>>
    BY DEF complete_node_removal, commit_matter_node_removal, Op, WorkerOnly, NoController
  <1>2. /\ ops \in Seq(Operation) /\ i \in DOMAIN ops /\ ops[i].kind \in Runs[wk.pc]
        /\ device \in [Nodes -> {"absent", "enrolled", "removed"}]
        /\ ops[i].kind = "remove" => ops[i].phase = "cleaning_secrets"
    BY <1>1, AtWork DEF Carried
  <1>3. ops[i].kind = "remove" /\ Moves(i, "completed") /\ ops[i].phase = "cleaning_secrets"
    BY <1>1, <1>2, EndsOwn DEF Runs
  <1>4. /\ Grown(ops, ops') /\ DOMAIN ops' = DOMAIN ops /\ ops'[i].phase = "completed"
        /\ ops'[i].kind = "remove" /\ ops'[i].target = x
        /\ \A j \in DOMAIN ops : j # i => ops'[j] = ops[j]
    BY <1>2, <1>3, MovesIs
  <1>5. wk'.pc = "idle"
    BY <1>1, DoneIs
  <1>6. ops[i].target = x /\ x \in Nodes
    BY <1>2, <1>3 DEF NodeInv, Enlisted
  <1> HIDE DEF i, x
  <1>7. device'[x] = "removed" /\ \A n \in Nodes : n # x => device'[n] = device[n]
    BY <1>1, <1>2, <1>6
  <1>8. \A n : Enlisted(n, device) => Enlisted(n, device')
    BY <1>7 DEF Enlisted
  <1>9. \A j \in ctl.completed : /\ j \in DOMAIN ops' /\ calls[j] > 0
                                 /\ ops'[j].kind = "commission" /\ ops'[j].phase # "cancelled"
    BY <1>3, <1>4 DEF NodeInv
  <1>10. \A j \in DOMAIN ops' : ops'[j].kind = "remove" => Enlisted(ops'[j].target, device')
    BY <1>3, <1>4, <1>6, <1>8 DEF NodeInv
  <1>11. \A r \in results' : r[1] \in DOMAIN ops'
    BY <1>1, <1>4 DEF NodeInv
  <1>12. ASSUME ~ctl.replaced
         PROVE  \E f \in [ctl.nodes -> ctl.completed] : Owners(f, ctl, ops', device', wk')
    <2>1. PICK f \in [ctl.nodes -> ctl.completed] : Owners(f, ctl, ops, device, wk)
      BY <1>12 DEF NodeInv
    <2>2. ASSUME NEW n \in ctl.nodes, ops'[f[n]].phase = "completed"
          PROVE  /\ device'[n] = "enrolled"
                 /\ \A j \in DOMAIN ops' : ops'[j].kind = "remove" /\ ops'[j].target = n =>
                                            ops'[j].phase # "cleaning_secrets"
      <3>1. f[n] # i /\ f[n] \in DOMAIN ops /\ n \in Nodes
        BY <1>3, <2>1 DEF NodeInv, RequestInv
      <3>2. ops[f[n]].phase = "completed"
        BY <1>4, <2>2, <3>1
      <3>3. /\ device[n] = "enrolled"
            /\ \A j \in DOMAIN ops : ops[j].kind = "remove" /\ ops[j].target = n =>
                                       ops[j].phase # "cleaning_secrets"
        BY <2>1, <3>2 DEF Owners
      <3>4. n # x
        BY <1>2, <1>3, <1>6, <3>3
      <3> QED
        BY <1>4, <1>7, <3>1, <3>3, <3>4
    <2>3. Owners(f, ctl, ops', device', wk')
      BY <1>5, <2>1, <2>2 DEF Owners, Tracing
    <2> QED
      BY <2>1, <2>3
  <1>13. EnrolledIsBacked'
    <2> SUFFICES ASSUME NEW n \in Nodes, device'[n] = "enrolled"
                 PROVE  /\ n \in linked'
                        /\ \E r \in results' : r[2] = n /\ ops'[r[1]].phase = "completed"
                        /\ ~ctl'.replaced => n \in ctl'.nodes \/ Removing(n)'
      BY DEF EnrolledIsBacked
    <2>1. n # x /\ device[n] = "enrolled" /\ results \subseteq results'
      BY <1>1, <1>7
    <2>2. \E r \in results' : r[2] = n /\ ops'[r[1]].phase = "completed"
      BY <1>4, <2>1, BackedStays DEF NodeInv
    <2>3. n \in linked /\ (~ctl.replaced => n \in ctl.nodes \/ Removing(n))
      BY <2>1 DEF NodeInv, EnrolledIsBacked
    <2>4. Removing(n) => Removing(n)'
      BY <1>1, <1>4, <1>6, <2>1 DEF Removing
    <2> QED
      BY <1>1, <2>1, <2>2, <2>3, <2>4
  <1>14. \A c \in Callers : caller'[c].pc # "idle" /\ caller'[c].kind = "remove" =>
                              Enlisted(caller'[c].target, device')
    BY <1>1, <1>8 DEF NodeInv
  <1> QED
    BY <1>1, <1>5, <1>9, <1>10, <1>11, <1>12, <1>13, <1>14 DEF NodeInv

\* Ending an operation is a change.
LEMMA EndsChange ==
  ASSUME OperationInv, wk.pc # "idle", UNCHANGED ops
  PROVE  ~transition_operation(wk.op, "completed") \/ ~transition(ops[wk.op], "completed")
  <1> SUFFICES ASSUME transition_operation(wk.op, "completed"), transition(ops[wk.op], "completed")
               PROVE  FALSE
    OBVIOUS
  <1>1. Moves(wk.op, "completed")
    BY EndsOwn DEF Op, Me
  <1>2. ops'[wk.op].revision = ops[wk.op].revision + 1 /\ ops[wk.op].revision \in Nat
    BY <1>1, MovesIs, AtWork
  <1> QED
    BY <1>2

LEMMA NodeStep ==
  ASSUME OperationInv, RequestInv, NodeInv, [Next]_vars
  PROVE  NodeInv'
  <1>1. ASSUME UNCHANGED <<ops, calls, device, linked, results, ctl, caller, wk>> PROVE NodeInv'
    BY <1>1 DEF NodeInv, EnrolledIsBacked, Removing
  <1>2. CASE CallerStep
    BY <1>2, NodesByHandlers
  <1>3. CASE Submission
    BY <1>1, <1>3 DEF Submission, submit, durable
  <1>4. CASE WorkerStep
    <2>1. CASE UNCHANGED ops /\ wk.pc \in {"commit", "removal"}
      <3>1. UNCHANGED <<device, linked, results>> /\ UNCHANGED ctl
        <4>1. CASE wk.pc = "commit"
          <5>1. complete_commissioning
            BY <1>4, <4>1, WorkerStores
          <5>2. ~transition_operation(wk.op, "completed") \/ ~transition(ops[wk.op], "completed")
            BY <2>1, <4>1, EndsChange
          <5> QED
            BY <5>1, <5>2 DEF complete_commissioning, commit_commissioning, NoController, Me, Op
        <4>2. CASE wk.pc = "removal"
          <5>1. complete_node_removal
            BY <1>4, <4>2, WorkerStores
          <5>2. ~transition_operation(wk.op, "completed") \/ ~transition(ops[wk.op], "completed")
            BY <2>1, <4>2, EndsChange
          <5> QED
            BY <5>1, <5>2 DEF complete_node_removal, commit_matter_node_removal, NoController,
                              Me, Op
        <4> QED
          BY <2>1, <4>1, <4>2
      <3>2. \A i \in DOMAIN ops : Tame(ops[i], ops'[i], i, ctl)
        BY <2>1 DEF Tame
      <3> QED
        BY <1>4, <3>1, <3>2, NodesByWorker
    <2>2. CASE ~UNCHANGED ops /\ wk.pc \in {"commit", "removal"}
      BY <1>4, <2>2, WorkerStores, DeviceIsEnrolled, DeviceIsRemoved
    <2>3. CASE wk.pc \notin {"commit", "removal"}
      <3>1. /\ UNCHANGED <<device, linked, results>>
            /\ \A i \in DOMAIN ops : Tame(ops[i], ops'[i], i, ctl)
        <4>1. ~complete_commissioning /\ ~complete_node_removal
          BY <2>3 DEF complete_commissioning, complete_node_removal
        <4> QED
          BY <1>4, <2>3, <4>1, WorkerStores, WorkerIsTame
      <3> QED
        BY <1>4, <3>1, WorkerCalls, NodesByWorker, NodeIsTakenIn, NodeIsTakenOut,
           NodesAreRestored
    <2> QED
      BY <2>1, <2>2, <2>3
  <1>5. CASE Recovery
    <2>1. PICK a \in Actors, i \in DOMAIN ops : recover_commissioning(a, i)
      BY <1>5 DEF Recovery
    <2>2. UNCHANGED <<calls, device, linked, results, ctl, caller, wk>>
      BY <2>1 DEF recover_commissioning
    <2> QED
      BY <1>1, <2>1, <2>2, NodesByRecovery
  <1>6. CASE Environment
    <2>1. ASSUME NEW a, NEW action, Revoke(a, action) PROVE NodeInv'
      BY <1>1, <2>1 DEF Revoke, durable
    <2> QED
      BY <1>6, <2>1, NodesAfterRestart DEF Environment
  <1>7. CASE UNCHANGED vars
    BY <1>1, <1>7 DEF vars, durable
  <1> QED
    BY <1>2, <1>3, <1>4, <1>5, <1>6, <1>7 DEF Next

LEMMA NodeStart ==
  ASSUME Init
  PROVE  NodeInv
  <1>1. /\ DOMAIN ops = {} /\ results = {} /\ \A n \in Nodes : device[n] = "absent"
        /\ \A c \in Callers : caller[c].pc = "idle"
    BY DEF Init, Idle
  <1>2. wk.pc = "idle"
    BY DEF Init, Free
  <1>3. ctl.nodes = {} /\ ctl.completed = {} /\ ctl.origin \in [Nodes -> Nat]
    BY DEF Init, EmptyController
  <1>4. EnrolledIsBacked
    BY <1>1 DEF EnrolledIsBacked
  <1>5. \E f \in [ctl.nodes -> ctl.completed] : Owners(f, ctl, ops, device, wk)
    <2> DEFINE f == [n \in ctl.nodes |-> n]
    <2>1. f \in [ctl.nodes -> ctl.completed] /\ Owners(f, ctl, ops, device, wk)
      BY <1>2, <1>3 DEF Owners, Tracing
    <2> QED
      BY <2>1
  <1> QED
    BY <1>1, <1>2, <1>3, <1>4, <1>5 DEF NodeInv

LEMMA NodeInvariant == Spec => []NodeInv
  <1>1. OperationInv /\ RequestInv /\ NodeInv /\ [Next]_vars => NodeInv'
    BY NodeStep
  <1> QED
    BY <1>1, NodeStart, OperationInvariant, RequestInvariant, PTL DEF Spec

\* While the controller is the one the nodes were commissioned into, an
\* enrolled device is a node it has, or a removal that reached the controller
\* is open or needs repair: no crash, retry or fault between remove_node and
\* commit_matter_node_removal loses a node silently.
THEOREM EnrolledDevicesAreBacked == Spec => []EnrolledIsBacked
  <1>1. NodeInv => EnrolledIsBacked
    BY DEF NodeInv
  <1> QED
    BY <1>1, NodeInvariant, PTL

\* For any nodes, operations and faults: a node that the controller took in and
\* no device stands for was brought in by a commissioning that is open, failed
\* or needs repair.  run_cancel_commissioning never cancels what took effect,
\* and only commit_commissioning completes it.
THEOREM StrayNodesAreUnfinished == Spec => []StrayNodeIsUnfinished
  <1>1. NodeInv => StrayNodeIsUnfinished
    <2> SUFFICES ASSUME NodeInv, NEW n \in ctl.nodes, device[n] # "enrolled", ~ctl.replaced
                 PROVE  /\ ctl.origin[n] \in DOMAIN ops
                        /\ ops[ctl.origin[n]].kind = "commission"
                        /\ ops[ctl.origin[n]].phase \notin {"completed", "cancelled"}
      BY DEF StrayNodeIsUnfinished
    <2>1. PICK f \in [ctl.nodes -> ctl.completed] : Owners(f, ctl, ops, device, wk)
      BY DEF NodeInv
    <2>2. /\ f[n] = ctl.origin[n] /\ f[n] \in ctl.completed
          /\ ops[f[n]].phase # "completed"
      BY <2>1 DEF Owners
    <2> QED
      BY <2>2 DEF NodeInv
  <1> QED
    BY <1>1, NodeInvariant, PTL
=============================================================================
