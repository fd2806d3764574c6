--------------------------- MODULE CommandsProofs ---------------------------
(***************************************************************************)
(* Proofs about Commands for every set of commands, calls and requests.    *)
(***************************************************************************)
EXTENDS Commands, TLAPS

-----------------------------------------------------------------------------
(* Type correctness.  TypeOK is inductive together with what the program     *)
(* counter of a call promises of the private data its next step reads.       *)

ThreadOK(r) ==
  /\ r \in Call
  /\ r.pc # "idle" => r.own \in Aggregate
  /\ r.pc = "write" => r.goal \in States
  /\ r.pc \in {"approve", "authorize", "unlock"} => r.view.approver \in Actors
  /\ r.pc = "unlock" => r.view.auth \in AuthIds

CallsOK(f) == f \in [Threads -> Call] /\ \A t \in Threads : ThreadOK(f[t])

ProcessOK ==
  /\ mode \in {"down", "recovering", "serving"}
  /\ page \subseteq Aggregate
  /\ startedAt \in Nat

AuthorizationHeld ==
  \A t \in Threads : call[t].pc = "unlock" => authorizations[call[t].view.auth] # None

TypeInv == TypeOK /\ CallsOK(call) /\ AuthorizationHeld

\* A call that is not running is well formed.
LEMMA IdleType == NoView \in View /\ Idle \in Call /\ ThreadOK(Idle) /\ Idle.pc = "idle"
  BY DEF NoView, Idle, View, Call, Failures, ThreadOK

\* CommandAggregate::transition yields an aggregate of the same command.
LEMMA TransitionedType ==
  ASSUME NEW c \in Aggregate, NEW s \in States, NEW f \in Failures, NEW n \in Nat
  PROVE  /\ transitioned(c, s, f, n) \in Aggregate
         /\ transitioned(c, s, f, n).id = c.id
         /\ transitioned(c, s, f, n).req = c.req
         /\ transitioned(c, s, f, n).state = s
         /\ transitioned(c, s, f, n).policy = c.policy
  <1>1. c.version + 1 \in Nat
    BY DEF Aggregate
  <1>2. \A m \in Nat : [c EXCEPT !.state = s, !.version = m, !.failure = f,
                                 !.updated = n] \in Aggregate
    BY DEF Aggregate
  <1>3. transitioned(c, s, f, n) \in Aggregate
    BY <1>1, <1>2 DEF transitioned
  <1> QED
    BY <1>3 DEF transitioned, Aggregate

\* A running call may always be about to store its aggregate in a state.
LEMMA WritingType ==
  ASSUME NEW k \in Threads, TypeInv, call[k].pc # "idle",
         NEW g \in States, NEW f \in Failures, NEW n \in Nat
  PROVE  /\ ThreadOK(Writing(k, g, f, n))
         /\ Writing(k, g, f, n).pc = "write"
         /\ Writing(k, g, f, n).own = call[k].own
  <1>1. call[k] \in Call /\ call[k].own \in Aggregate
    BY DEF TypeInv, CallsOK, ThreadOK
  <1>2. Writing(k, g, f, n) \in Call
    BY <1>1 DEF Writing, Call
  <1> QED
    BY <1>1, <1>2 DEF Writing, Call, ThreadOK

\* A call about to write may carry any aggregate.
LEMMA WriteOwnType ==
  ASSUME NEW r, ThreadOK(r), r.pc = "write", NEW a \in Aggregate
  PROVE  ThreadOK([r EXCEPT !.own = a]) /\ [r EXCEPT !.own = a].pc = "write"
  <1>1. r \in Call
    BY DEF ThreadOK
  <1>2. [r EXCEPT !.own = a] \in Call /\ [r EXCEPT !.own = a].pc = "write"
        /\ [r EXCEPT !.own = a].own = a
    BY <1>1 DEF Call
  <1> QED
    BY <1>2 DEF ThreadOK

\* A step that gives one call a well-formed next state keeps all calls so.
LEMMA GotoType ==
  ASSUME TypeInv, NEW k \in Threads, NEW r, ThreadOK(r), Goto(k, r)
  PROVE  /\ CallsOK(call')
         /\ \A t \in Threads : call'[t] = IF t = k THEN r ELSE call[t]
  BY DEF TypeInv, CallsOK, ThreadOK, Goto

\* An error return keeps the calls well formed; every call is as before or idle.
LEMMA FailType ==
  ASSUME TypeInv, NEW k \in Threads, Fail(k)
  PROVE  /\ CallsOK(call')
         /\ ProcessOK'
         /\ \A t \in Threads : call'[t] = Idle \/ call'[t] = call[t]
  <1>1. CASE k = Recovery
    BY <1>1, IdleType DEF Fail, TypeInv, TypeOK, CallsOK, ProcessOK
  <1>2. CASE k # Recovery
    BY <1>2, IdleType, GotoType DEF Fail, Return, TypeInv, TypeOK, ProcessOK, process
  <1> QED
    BY <1>1, <1>2

\* A failed registration attempt starts the next one or ends the call.
LEMMA AttemptFailedType ==
  ASSUME TypeInv, NEW k \in Threads, call[k].pc \in {"register", "replace"}, AttemptFailed(k)
  PROVE  /\ CallsOK(call')
         /\ ProcessOK'
         /\ \A t \in Threads : \/ call'[t] = Idle
                               \/ call'[t] = call[t]
                               \/ call'[t].pc = "register" /\ call'[t].own = call[t].own
  <1>1. CASE call[k].tries + 1 < RegistrationAttempts
    <2>1. call[k] \in Call /\ call[k].own \in Aggregate
      BY DEF TypeInv, CallsOK, ThreadOK
    <2>2. call[k].tries + 1 \in Nat
      BY <2>1 DEF Call
    <2> DEFINE r == [call[k] EXCEPT !.pc = "register", !.tries = @ + 1, !.view = NoView]
    <2>3. \A m \in Nat :
            [call[k] EXCEPT !.pc = "register", !.tries = m, !.view = NoView] \in Call
      BY <2>1, IdleType DEF Call
    <2>4. r \in Call
      BY <2>2, <2>3
    <2>5. r.pc = "register" /\ r.own = call[k].own
      BY <2>1 DEF Call
    <2>6. ThreadOK(r)
      BY <2>1, <2>4, <2>5 DEF ThreadOK
    <2>7. Goto(k, r) /\ UNCHANGED process
      BY <1>1 DEF AttemptFailed
    <2> QED
      BY <2>5, <2>6, <2>7, GotoType DEF TypeInv, TypeOK, ProcessOK, process
  <1>2. CASE ~(call[k].tries + 1 < RegistrationAttempts)
    BY <1>2, FailType DEF AttemptFailed
  <1> QED
    BY <1>1, <1>2

\* The row update and audit insert of transition_command keep both tables typed.
LEMMA TransitionCommandType ==
  ASSUME TypeInv, NEW next \in Aggregate, commands[next.id] # None, transition_command(next)
  PROVE  /\ commands' \in [CommandIds -> Aggregate \cup {None}]
         /\ audit' \in [CommandIds -> Seq([from : States \cup {"None"}, to : States])]
  <1> DEFINE Log == [from : States \cup {"None"}, to : States]
  <1>1. next.id \in CommandIds /\ next.state \in States
    BY DEF Aggregate
  <1>2. commands[next.id].state \in States
    BY <1>1 DEF TypeInv, TypeOK, Aggregate
  <1>3. command_audit(commands[next.id].state, next.state) \in Log
    BY <1>1, <1>2 DEF command_audit
  <1>4. audit \in [CommandIds -> Seq(Log)]
    BY DEF TypeInv, TypeOK
  <1> HIDE DEF Log
  <1>5. Append(audit[next.id], command_audit(commands[next.id].state, next.state)) \in Seq(Log)
    BY <1>1, <1>3, <1>4
  <1>6. audit' \in [CommandIds -> Seq(Log)]
    BY <1>1, <1>4, <1>5 DEF transition_command
  <1>7. commands' \in [CommandIds -> Aggregate \cup {None}]
    BY <1>1 DEF transition_command, TypeInv, TypeOK
  <1> QED
    BY <1>6, <1>7 DEF Log

\* A fresh database and a stopped process satisfy TypeInv.
LEMMA InitType == Init => TypeInv
  BY IdleType, GrantSetsAssumption
  DEF Init, TypeInv, TypeOK, CallsOK, AuthorizationHeld

\* The unlock authorization of a call that is about to consume it stays.
LEMMA HeldKept ==
  ASSUME TypeInv,
         \A t \in Threads : call'[t].pc = "unlock" => call'[t] = call[t],
         \A x \in AuthIds : authorizations[x] # None => authorizations'[x] # None
  PROVE  AuthorizationHeld'
  BY DEF TypeInv, CallsOK, ThreadOK, AuthorizationHeld

\* A step that only moves one call on.
LEMMA QuietType ==
  ASSUME TypeInv, NEW k \in Threads, NEW r, ThreadOK(r), r.pc # "unlock", Goto(k, r),
         UNCHANGED <<durable, sent, world, process>>
  PROVE  TypeInv'
  <1>1. CallsOK(call') /\ \A t \in Threads : call'[t] = IF t = k THEN r ELSE call[t]
    BY GotoType
  <1>2. AuthorizationHeld'
    BY <1>1, HeldKept DEF durable
  <1>3. \A t \in Threads : call'[t].pc # "idle" => call'[t].own # None
    BY <1>1, NoneAssumption DEF CallsOK, ThreadOK
  <1> QED
    BY <1>1, <1>2, <1>3 DEF TypeInv, TypeOK, CallsOK, durable, world, process

\* An error return that changes nothing durable.
LEMMA QuietFailType ==
  ASSUME TypeInv, CallsOK(call'), ProcessOK',
         \A t \in Threads : call'[t].pc = "unlock" => call'[t] = call[t],
         UNCHANGED <<durable, sent, world>>
  PROVE  TypeInv'
  <1>2. AuthorizationHeld'
    BY HeldKept DEF durable
  <1>3. \A t \in Threads : call'[t].pc # "idle" => call'[t].own # None
    BY NoneAssumption DEF CallsOK, ThreadOK
  <1> QED
    BY <1>2, <1>3 DEF TypeInv, TypeOK, CallsOK, ProcessOK, durable, world

\* Validation and policy leave TypeInv intact.
LEMMA ContinueReceivedType ==
  ASSUME TypeInv, NEW k \in Threads, continue_received(k)
  PROVE  TypeInv'
  <1> DEFINE c == call[k].own
             now == call[k].now
             denied == [Writing(k, "Rejected", "PolicyDenied", now)
                          EXCEPT !.own = [c EXCEPT !.policy = "Denied"]]
             allow == [Writing(k, "Validated", "None", now)
                          EXCEPT !.own = [c EXCEPT !.policy = "Allowed"]]
  <1>1. call[k] \in Call /\ c \in Aggregate /\ now \in Nat /\ call[k].pc = "received"
    BY DEF continue_received, TypeInv, CallsOK, ThreadOK, Call
  <1>2. /\ ThreadOK(Writing(k, "Rejected", "InvalidTarget", now))
        /\ Writing(k, "Rejected", "InvalidTarget", now).pc = "write"
    BY <1>1, WritingType DEF States, Failures
  <1>3. /\ ThreadOK(Writing(k, "Rejected", "PolicyDenied", now))
        /\ Writing(k, "Rejected", "PolicyDenied", now).pc = "write"
    BY <1>1, WritingType DEF States, Failures
  <1>4. /\ ThreadOK(Writing(k, "Validated", "None", now))
        /\ Writing(k, "Validated", "None", now).pc = "write"
    BY <1>1, WritingType DEF States, Failures
  <1>5. /\ [c EXCEPT !.policy = "Denied"] \in Aggregate
        /\ [c EXCEPT !.policy = "Allowed"] \in Aggregate
    BY <1>1 DEF Aggregate
  <1>6. ThreadOK(denied) /\ denied.pc = "write"
    BY <1>3, <1>5, WriteOwnType
  <1>7. ThreadOK(allow) /\ allow.pc = "write"
    BY <1>4, <1>5, WriteOwnType
  <1>8. \/ Goto(k, Writing(k, "Rejected", "InvalidTarget", now))
        \/ Goto(k, denied)
        \/ Goto(k, allow)
    BY DEF continue_received
  <1>9. UNCHANGED <<durable, sent, world, process>>
    BY DEF continue_received
  <1> HIDE DEF denied, allow
  <1> QED
    BY <1>2, <1>6, <1>7, <1>8, <1>9, QuietType

\* What a call does after a durable transition is well formed.
LEMMA AfterTransitionType ==
  ASSUME TypeInv, NEW k \in Threads, call[k].pc # "idle", NEW next \in Aggregate
  PROVE  /\ ThreadOK(AfterTransition(k, next))
         /\ AfterTransition(k, next).pc # "unlock"
         /\ AfterTransition(k, next).pc = "adapter"
              => next.state = "Dispatched" /\ AfterTransition(k, next).own = next
  <1> DEFINE r == AfterTransition(k, next)
  <1>1. call[k] \in Call /\ clock \in Nat
    BY DEF TypeInv, TypeOK
  <1>2. CASE next.state = "Validated" /\ ~next.req.dryRun
    <2>1. r = Dispatching(k, next)
      BY <1>2 DEF AfterTransition
    <2>2. /\ Dispatching(k, next) \in Call
          /\ Dispatching(k, next).own = next
          /\ \/ Dispatching(k, next).pc = "write" /\ Dispatching(k, next).goal \in States
             \/ Dispatching(k, next).pc = "register"
      BY <1>1 DEF Dispatching, Call, States, Failures
    <2> QED
      BY <2>1, <2>2 DEF ThreadOK
  <1>3. CASE next.state = "Dispatched"
    <2>1. r = [call[k] EXCEPT !.pc = "adapter", !.own = next, !.goal = "None"]
      BY <1>3 DEF AfterTransition
    <2> QED
      BY <1>1, <1>3, <2>1 DEF ThreadOK, Call
  <1>4. CASE next.state = "Acknowledged"
    <2>1. r = [call[k] EXCEPT !.pc = "confirm", !.own = next, !.goal = "None", !.now = clock]
      BY <1>4 DEF AfterTransition
    <2> QED
      BY <1>1, <2>1 DEF ThreadOK, Call
  <1>5. CASE /\ ~(next.state = "Validated" /\ ~next.req.dryRun)
             /\ next.state # "Dispatched"
             /\ next.state # "Acknowledged"
    <2>1. r = Idle
      BY <1>5 DEF AfterTransition
    <2> QED
      BY <2>1, IdleType
  <1> QED
    BY <1>2, <1>3, <1>4, <1>5

\* So does every plain lifecycle write of the service.
LEMMA TransitionType ==
  ASSUME TypeInv, NEW k \in Threads, transition(k)
  PROVE  TypeInv'
  <1> DEFINE c == call[k].own
             next == transitioned(c, call[k].goal, call[k].failure, call[k].now)
  <1>1. call[k].pc = "write" /\ c \in Aggregate
    BY DEF transition, TypeInv, CallsOK, ThreadOK
  <1>2. call[k].goal \in States /\ call[k].failure \in Failures /\ call[k].now \in Nat
    BY <1>1 DEF TypeInv, CallsOK, ThreadOK, Call
  <1>3. next \in Aggregate
    BY <1>1, <1>2, TransitionedType
  <1>4. CASE /\ transition_allowed(next, c.version)
             /\ transition_command(next)
             /\ Goto(k, AfterTransition(k, next))
             /\ UNCHANGED process
    <2> DEFINE r == AfterTransition(k, next)
    <2>1. ThreadOK(r) /\ r.pc # "unlock"
      BY <1>1, <1>3, AfterTransitionType
    <2> HIDE DEF r
    <2>2. CallsOK(call') /\ \A t \in Threads : call'[t] = IF t = k THEN r ELSE call[t]
      BY <1>4, <2>1, GotoType DEF r
    <2>3. UNCHANGED <<slots, projections, authorizations, supersessions, sent, world>>
      BY DEF transition
    <2>4. AuthorizationHeld'
      BY <2>1, <2>2, <2>3, HeldKept
    <2>5. \A t \in Threads : call'[t].pc # "idle" => call'[t].own # None
      BY <2>2, NoneAssumption DEF CallsOK, ThreadOK
    <2>6. commands[next.id] # None
      BY <1>4 DEF transition_allowed
    <2>7. /\ commands' \in [CommandIds -> Aggregate \cup {None}]
          /\ audit' \in [CommandIds -> Seq([from : States \cup {"None"}, to : States])]
      BY <1>3, <1>4, <2>6, TransitionCommandType
    <2> QED
      BY <1>4, <2>2, <2>3, <2>4, <2>5, <2>7 DEF TypeInv, TypeOK, CallsOK, world, process
  <1>5. CASE Fail(k) /\ UNCHANGED <<commands, audit>>
    <2>1. UNCHANGED <<durable, sent, world>>
      BY <1>5 DEF transition, durable
    <2> QED
      BY <1>5, <2>1, FailType, QuietFailType, IdleType
  <1> HIDE DEF next
  <1> QED
    BY <1>4, <1>5 DEF transition, next

\* So does reading the desired slot.
LEMMA RegisterOnceType ==
  ASSUME TypeInv, NEW k \in Threads, register_once(k)
  PROVE  TypeInv'
  <1> DEFINE c == call[k].own
             slot == slots[c.req.device]
             superseding == slot # None /\ ~slot.dispatched
             prior == IF superseding THEN commands[slot.command] ELSE None
             revision == IF slot = None THEN 1 ELSE slot.revision + 1
             look == [NoView EXCEPT !.revision = revision, !.prior = prior,
                        !.projection = projections[c.req.device].revision]
             commit == [call[k] EXCEPT !.pc = "commit"]
             replace == [call[k] EXCEPT !.pc = "replace", !.view = look]
  <1>1. call[k] \in Call /\ c \in Aggregate /\ call[k].pc = "register" /\ call[k].now \in Nat
    BY DEF register_once, TypeInv, CallsOK, ThreadOK, Call
  <1>2. c.req.device \in Devices
    BY <1>1, RequestsAssumption DEF Aggregate, Request
  <1>3. slot \in Slot \cup {None}
    BY <1>2 DEF TypeInv, TypeOK
  <1>4. revision \in Nat
    BY <1>3 DEF Slot
  <1>5. prior \in Aggregate \cup {None}
    BY <1>3 DEF Slot, TypeInv, TypeOK
  <1>6. projections[c.req.device].revision \in Nat
    BY <1>2 DEF TypeInv, TypeOK
  <1> HIDE DEF revision, prior
  <1>7. look \in View
    BY <1>4, <1>5, <1>6, IdleType DEF View
  <1>8. ThreadOK(commit) /\ commit.pc = "commit"
    BY <1>1 DEF ThreadOK, Call
  <1> HIDE DEF look
  <1>9. ThreadOK(replace) /\ replace.pc = "replace"
    BY <1>1, <1>7 DEF ThreadOK, Call
  <1>10. ThreadOK(Writing(k, "Dispatched", "None", call[k].now))
         /\ Writing(k, "Dispatched", "None", call[k].now).pc = "write"
    BY <1>1, WritingType DEF States, Failures
  <1>11. UNCHANGED <<durable, sent, world>>
    BY DEF register_once
  <1>12. \/ Goto(k, Writing(k, "Dispatched", "None", call[k].now)) /\ UNCHANGED process
         \/ Goto(k, commit) /\ UNCHANGED process
         \/ AttemptFailed(k)
         \/ Goto(k, replace) /\ UNCHANGED process
    BY DEF register_once, look, prior, revision
  <1> HIDE DEF commit, replace
  <1>13. CASE AttemptFailed(k)
    BY <1>1, <1>11, <1>13, AttemptFailedType, QuietFailType, IdleType
  <1> QED
    BY <1>8, <1>9, <1>10, <1>11, <1>12, <1>13, QuietType

\* So does the replacement of the desired slot.
LEMMA ReplaceDesiredType ==
  ASSUME TypeInv, NEW k \in Threads, replace_matter_desired_state(k)
  PROVE  TypeInv'
  <1> DEFINE c == call[k].own
             d == c.req.device
             view == call[k].view
             old == superseded(view.prior, call[k].now)
             r == [call[k] EXCEPT !.pc = "commit", !.view = NoView]
  <1>1. call[k] \in Call /\ c \in Aggregate /\ call[k].pc = "replace" /\ view \in View
    BY DEF replace_matter_desired_state, TypeInv, CallsOK, ThreadOK, Call
  <1>2. d \in Devices /\ c.id \in CommandIds
    BY <1>1, RequestsAssumption DEF Aggregate, Request
  <1>3. /\ call[k].now \in Nat
        /\ view.revision \in Nat
        /\ view.prior \in Aggregate \cup {None}
    BY <1>1 DEF Call, View
  <1>4. CASE /\ replace_allowed(c, view, call[k].now)
             /\ IF view.prior = None
                THEN UNCHANGED <<commands, audit, supersessions>>
                ELSE /\ transition_command(old)
                     /\ supersessions' = supersessions \cup {<<old.id, c.id>>}
             /\ authorizations' = IF slots[d] = None \/ slots[d].command = c.id
                                  THEN authorizations
                                  ELSE without_open(slots[d].command)
             /\ slots' = [slots EXCEPT ![d] = [revision |-> view.revision,
                                               command |-> c.id, dispatched |-> FALSE]]
             /\ projections' = [projections EXCEPT ![d].revision = @ + 1]
             /\ Goto(k, r)
             /\ UNCHANGED process
    <2>1. ThreadOK(r) /\ r.pc = "commit"
      BY <1>1, IdleType DEF ThreadOK, Call
    <2> HIDE DEF r
    <2>2. CallsOK(call') /\ \A t \in Threads : call'[t] = IF t = k THEN r ELSE call[t]
      BY <1>4, <2>1, GotoType
    <2>3. slots' \in [Devices -> Slot \cup {None}]
      <3>1. [revision |-> view.revision, command |-> c.id, dispatched |-> FALSE] \in Slot
        BY <1>2, <1>3 DEF Slot
      <3> QED
        BY <1>2, <1>4, <3>1 DEF TypeInv, TypeOK
    <2>4. projections' \in [Devices -> [revision : Nat, fresh : BOOLEAN]]
      <3>1. projections[d] \in [revision : Nat, fresh : BOOLEAN]
        BY <1>2 DEF TypeInv, TypeOK
      <3>2. projections[d].revision + 1 \in Nat
        BY <3>1
      <3>3. [projections[d] EXCEPT !.revision = projections[d].revision + 1]
              \in [revision : Nat, fresh : BOOLEAN]
        BY <3>1, <3>2
      <3> DEFINE p == [projections[d] EXCEPT !.revision = projections[d].revision + 1]
      <3>4. projections' = [projections EXCEPT ![d] = p]
        BY <1>4
      <3>5. p \in [revision : Nat, fresh : BOOLEAN]
        BY <3>3
      <3> HIDE DEF p
      <3> QED
        BY <3>4, <3>5 DEF TypeInv, TypeOK
    <2>5. /\ authorizations' \in [AuthIds -> Authorization \cup {None}]
          /\ \A x \in AuthIds : authorizations[x] # None => authorizations'[x] # None
      <3>1. \A x \in AuthIds : authorizations[x] \in Authorization
              => [authorizations[x] EXCEPT !.status = "Deleted"] \in Authorization
        BY DEF Authorization
      <3>2. authorizations \in [AuthIds -> Authorization \cup {None}]
        BY DEF TypeInv, TypeOK
      <3>3. ASSUME NEW id
            PROVE  /\ without_open(id) \in [AuthIds -> Authorization \cup {None}]
                   /\ \A x \in AuthIds : authorizations[x] # None => without_open(id)[x] # None
        BY <3>1, <3>2, NoneAssumption DEF without_open
      <3> QED
        BY <1>4, <3>2, <3>3
    <2>6. /\ commands' \in [CommandIds -> Aggregate \cup {None}]
          /\ audit' \in [CommandIds -> Seq([from : States \cup {"None"}, to : States])]
          /\ supersessions' \subseteq CommandIds \X CommandIds
      <3>1. CASE view.prior = None
        BY <1>4, <3>1 DEF TypeInv, TypeOK
      <3>2. CASE view.prior # None
        <4>1. old \in Aggregate
          <5>1. view.prior \in Aggregate
            BY <1>3, <3>2
          <5>2. "Cancelled" \in States /\ "SupersededBeforeDispatch" \in Failures
            BY DEF States, Failures
          <5> QED
            BY <1>3, <5>1, <5>2, TransitionedType DEF superseded
        <4>2. old.id \in CommandIds
          BY <4>1 DEF Aggregate
        <4>3. commands[old.id] # None
          <5>1. transition_allowed(old, view.prior.version)
            BY <1>4, <3>2 DEF replace_allowed
          <5> QED
            BY <5>1 DEF transition_allowed
        <4> HIDE DEF old
        <4>4. transition_command(old) /\ supersessions' = supersessions \cup {<<old.id, c.id>>}
          BY <1>4, <3>2
        <4>5. supersessions' \subseteq CommandIds \X CommandIds
          BY <1>2, <4>2, <4>4 DEF TypeInv, TypeOK
        <4> QED
          BY <4>1, <4>3, <4>4, <4>5, TransitionCommandType
      <3> QED
        BY <3>1, <3>2
    <2>7. AuthorizationHeld'
      BY <2>1, <2>2, <2>5, HeldKept
    <2>8. \A t \in Threads : call'[t].pc # "idle" => call'[t].own # None
      BY <2>2, NoneAssumption DEF CallsOK, ThreadOK
    <2>9. UNCHANGED <<sent, world, process>>
      BY <1>4 DEF replace_matter_desired_state
    <2> QED
      BY <2>2, <2>3, <2>4, <2>5, <2>6, <2>7, <2>8, <2>9
      DEF TypeInv, TypeOK, CallsOK, world, process
  <1>5. CASE AttemptFailed(k) /\ UNCHANGED durable
    <2>1. UNCHANGED <<durable, sent, world>>
      BY <1>5 DEF replace_matter_desired_state
    <2> QED
      BY <1>1, <1>5, <2>1, AttemptFailedType, QuietFailType, IdleType
  <1> HIDE DEF old, r
  <1> QED
    BY <1>4, <1>5 DEF replace_matter_desired_state, old, r

\* So does looking at the slot before the dispatch record.
LEMMA CommitDispatchType ==
  ASSUME TypeInv, NEW k \in Threads, commit_dispatch(k)
  PROVE  TypeInv'
  <1> DEFINE r == [call[k] EXCEPT !.pc = "record"]
  <1>1. call[k] \in Call /\ call[k].own \in Aggregate /\ call[k].pc = "commit"
    BY DEF commit_dispatch, TypeInv, CallsOK, ThreadOK, Call
  <1>2. ThreadOK(r) /\ r.pc = "record"
    BY <1>1 DEF ThreadOK, Call
  <1>3. (Goto(k, Idle) \/ Goto(k, r)) /\ UNCHANGED <<durable, sent, world, process>>
    BY DEF commit_dispatch, Return
  <1> HIDE DEF r
  <1> QED
    BY <1>2, <1>3, IdleType, QuietType

\* record_dispatch keeps the command, audit and slot tables typed.
LEMMA RecordDispatchType ==
  ASSUME TypeInv, NEW next \in Aggregate, NEW v, dispatch_recordable(next, v),
         record_dispatch(next)
  PROVE  /\ commands' \in [CommandIds -> Aggregate \cup {None}]
         /\ audit' \in [CommandIds -> Seq([from : States \cup {"None"}, to : States])]
         /\ slots' \in [Devices -> Slot \cup {None}]
  <1>1. next.req.device \in Devices
    BY RequestsAssumption DEF Aggregate, Request
  <1>2. slots[next.req.device] \in Slot
    BY <1>1 DEF TypeInv, TypeOK, dispatch_recordable
  <1>3. [slots[next.req.device] EXCEPT !.dispatched = TRUE] \in Slot
    BY <1>2 DEF Slot
  <1>4. slots' \in [Devices -> Slot \cup {None}]
    BY <1>1, <1>3 DEF record_dispatch, TypeInv, TypeOK
  <1>5. commands[next.id] # None
    BY DEF dispatch_recordable, transition_allowed
  <1> QED
    BY <1>4, <1>5, TransitionCommandType DEF record_dispatch

\* So does the durable dispatch of a desired slot.
LEMMA RecordMatterDispatchType ==
  ASSUME TypeInv, NEW k \in Threads, record_matter_dispatch(k)
  PROVE  TypeInv'
  <1> DEFINE c == call[k].own
             next == transitioned(c, "Dispatched", "None", call[k].now)
             r == [call[k] EXCEPT !.pc = "adapter", !.own = next]
  <1>1. call[k] \in Call /\ c \in Aggregate /\ call[k].pc = "record" /\ call[k].now \in Nat
    BY DEF record_matter_dispatch, TypeInv, CallsOK, ThreadOK, Call
  <1>2. next \in Aggregate
    BY <1>1, TransitionedType DEF States, Failures
  <1> HIDE DEF next
  <1>3. ThreadOK(r) /\ r.pc = "adapter"
    BY <1>1, <1>2 DEF ThreadOK, Call
  <1> HIDE DEF r
  <1>4. CASE /\ dispatch_recordable(next, c.version)
             /\ record_dispatch(next)
             /\ Goto(k, r)
             /\ UNCHANGED process
    <2>1. CallsOK(call') /\ \A t \in Threads : call'[t] = IF t = k THEN r ELSE call[t]
      BY <1>3, <1>4, GotoType
    <2>2. UNCHANGED <<projections, authorizations, supersessions, sent, world>>
      BY DEF record_matter_dispatch
    <2>3. AuthorizationHeld'
      BY <1>3, <2>1, <2>2, HeldKept
    <2>4. \A t \in Threads : call'[t].pc # "idle" => call'[t].own # None
      BY <2>1, NoneAssumption DEF CallsOK, ThreadOK
    <2>5. /\ commands' \in [CommandIds -> Aggregate \cup {None}]
          /\ audit' \in [CommandIds -> Seq([from : States \cup {"None"}, to : States])]
          /\ slots' \in [Devices -> Slot \cup {None}]
      BY <1>2, <1>4, RecordDispatchType
    <2> QED
      BY <1>4, <2>1, <2>2, <2>3, <2>4, <2>5 DEF TypeInv, TypeOK, CallsOK, world, process
  <1>5. CASE Fail(k) /\ UNCHANGED <<commands, audit, slots>>
    <2>1. UNCHANGED <<durable, sent, world>>
      BY <1>5 DEF record_matter_dispatch, durable
    <2> QED
      BY <1>5, <2>1, FailType, QuietFailType, IdleType
  <1> QED
    BY <1>4, <1>5 DEF record_matter_dispatch, next, r

\* So does the adapter invocation.
LEMMA AdapterDispatchType ==
  ASSUME TypeInv, NEW k \in Threads, adapter_dispatch(k)
  PROVE  TypeInv'
  <1> DEFINE r == [call[k] EXCEPT !.pc = "reply"]
             w == Writing(k, "Failed", "AdapterFailure", clock)
  <1>1. call[k] \in Call /\ call[k].own \in Aggregate /\ call[k].pc = "adapter" /\ clock \in Nat
    BY DEF adapter_dispatch, TypeInv, TypeOK, CallsOK, ThreadOK, Call
  <1>2. ThreadOK(r) /\ r.pc = "reply"
    BY <1>1 DEF ThreadOK, Call
  <1>3. ThreadOK(w) /\ w.pc = "write"
    BY <1>1, WritingType DEF States, Failures
  <1>4. UNCHANGED <<durable, world, process>>
    BY DEF adapter_dispatch
  <1> HIDE DEF r, w
  <1>5. CASE Goto(k, w) /\ UNCHANGED sent
    BY <1>3, <1>4, <1>5, QuietType
  <1>6. CASE sent' = [sent EXCEPT ![call[k].own.id] = @ + 1] /\ Goto(k, r)
    <2>1. CallsOK(call') /\ \A t \in Threads : call'[t] = IF t = k THEN r ELSE call[t]
      BY <1>2, <1>6, GotoType
    <2>2. AuthorizationHeld'
      BY <1>2, <1>4, <2>1, HeldKept DEF durable
    <2>3. \A t \in Threads : call'[t].pc # "idle" => call'[t].own # None
      BY <2>1, NoneAssumption DEF CallsOK, ThreadOK
    <2>4. sent' \in [CommandIds -> Nat]
      <3>1. sent \in [CommandIds -> Nat]
        BY DEF TypeInv, TypeOK
      <3>2. call[k].own.id \in CommandIds
        BY <1>1 DEF Aggregate
      <3>3. sent[call[k].own.id] + 1 \in Nat
        BY <3>1, <3>2
      <3> QED
        BY <1>6, <3>1, <3>2, <3>3
    <2> QED
      BY <1>4, <2>1, <2>2, <2>3, <2>4 DEF TypeInv, TypeOK, CallsOK, durable, world, process
  <1> QED
    BY <1>5, <1>6 DEF adapter_dispatch, r, w

\* So does the answer of the adapter.
LEMMA DispatchCommittedType ==
  ASSUME TypeInv, NEW k \in Threads, dispatch_committed(k)
  PROVE  TypeInv'
  <1>1. call[k].pc = "reply" /\ clock \in Nat
    BY DEF dispatch_committed, TypeInv, TypeOK
  <1>2. \E g \in States, f \in Failures : Goto(k, Writing(k, g, f, clock))
    BY DEF dispatch_committed, States, Failures
  <1>3. UNCHANGED <<durable, sent, world, process>>
    BY DEF dispatch_committed
  <1> QED
    BY <1>1, <1>2, <1>3, WritingType, QuietType

\* So does every confirmation outcome.
LEMMA ConfirmType ==
  ASSUME TypeInv, NEW k \in Threads, confirm(k)
  PROVE  TypeInv'
  <1>1. call[k].pc = "confirm" /\ call[k].now \in Nat
    BY DEF confirm, TypeInv, TypeOK, Call
  <1>2. \/ \E g \in States, f \in Failures : Goto(k, Writing(k, g, f, call[k].now))
        \/ Goto(k, Idle)
    BY DEF confirm, States, Failures
  <1>3. UNCHANGED <<durable, sent, world, process>>
    BY DEF confirm
  <1> QED
    BY <1>1, <1>2, <1>3, IdleType, WritingType, QuietType

\* So does the approval policy.
LEMMA AuthorizeUnlockType ==
  ASSUME TypeInv, NEW k \in Threads, authorize_unlock(k)
  PROVE  TypeInv'
  <1> DEFINE c == call[k].own
             slot == slots[c.req.device]
             seen == [call[k].view EXCEPT !.revision = slot.revision]
             r == [call[k] EXCEPT !.pc = "authorize", !.view = seen]
  <1>1. /\ call[k] \in Call /\ c \in Aggregate /\ call[k].pc = "approve"
        /\ call[k].view \in View /\ call[k].view.approver \in Actors
    BY DEF authorize_unlock, TypeInv, CallsOK, ThreadOK, Call
  <1>2. c.req.device \in Devices
    BY <1>1, RequestsAssumption DEF Aggregate, Request
  <1>3. UNCHANGED <<durable, sent, world, process>>
    BY DEF authorize_unlock, Return
  <1>4. CASE slot # None /\ Goto(k, r)
    <2>1. slot.revision \in Nat
      BY <1>2, <1>4 DEF TypeInv, TypeOK, Slot
    <2> HIDE DEF slot
    <2>2. seen \in View /\ seen.approver = call[k].view.approver
      BY <1>1, <2>1 DEF View
    <2> HIDE DEF seen
    <2>3. ThreadOK(r) /\ r.pc = "authorize"
      BY <1>1, <2>2 DEF ThreadOK, Call
    <2> HIDE DEF r
    <2> QED
      BY <1>3, <1>4, <2>3, QuietType
  <1>5. CASE Goto(k, Idle)
    BY <1>3, <1>5, IdleType, QuietType
  <1> QED
    BY <1>4, <1>5 DEF authorize_unlock, Return

\* So does storing an unlock authorization.
LEMMA CreateAuthorizationType ==
  ASSUME TypeInv, NEW k \in Threads, NEW x \in AuthIds, create_unlock_authorization(k, x)
  PROVE  TypeInv'
  <1> DEFINE c == call[k].own
             view == call[k].view
             limit == call[k].now + AuthorizationLifetime
             expires == IF limit < c.req.deadline THEN limit ELSE c.req.deadline
             a == [command |-> c.id, device |-> c.req.device, revision |-> view.revision,
                   approver |-> view.approver, expires |-> expires, status |-> "Open"]
             seen == [view EXCEPT !.auth = x]
             r == [call[k] EXCEPT !.pc = "unlock", !.view = seen]
  <1>1. /\ call[k] \in Call /\ c \in Aggregate /\ call[k].pc = "authorize"
        /\ view \in View /\ view.approver \in Actors /\ call[k].now \in Nat
    BY DEF create_unlock_authorization, TypeInv, CallsOK, ThreadOK, Call
  <1>2. c.id \in CommandIds /\ c.req.device \in Devices /\ c.req.deadline \in Nat
    BY <1>1, RequestsAssumption DEF Aggregate, Request
  <1>3. CASE /\ authorizations' = [authorizations EXCEPT ![x] = a]
             /\ Goto(k, r)
             /\ UNCHANGED process
    <2>1. expires \in Nat
      BY <1>1, <1>2, BoundsAssumption
    <2> HIDE DEF expires
    <2>2. a \in Authorization
      BY <1>1, <1>2, <2>1 DEF Authorization, View
    <2> HIDE DEF a
    <2>3. seen \in View /\ seen.approver = view.approver /\ seen.auth = x
      BY <1>1 DEF View
    <2> HIDE DEF seen
    <2>4. ThreadOK(r) /\ r.view = seen
      BY <1>1, <2>3 DEF ThreadOK, Call
    <2> HIDE DEF r
    <2>5. CallsOK(call') /\ \A t \in Threads : call'[t] = IF t = k THEN r ELSE call[t]
      BY <1>3, <2>4, GotoType
    <2>6. authorizations' \in [AuthIds -> Authorization \cup {None}]
      BY <1>3, <2>2 DEF TypeInv, TypeOK
    <2>7. authorizations'[x] # None
          /\ \A y \in AuthIds : authorizations[y] # None => authorizations'[y] # None
      BY <1>3, <2>2, NoneAssumption DEF TypeInv, TypeOK
    <2>8. AuthorizationHeld'
      BY <2>3, <2>4, <2>5, <2>7 DEF TypeInv, CallsOK, ThreadOK, AuthorizationHeld
    <2>9. \A t \in Threads : call'[t].pc # "idle" => call'[t].own # None
      BY <2>5, NoneAssumption DEF CallsOK, ThreadOK
    <2>10. UNCHANGED <<commands, audit, slots, projections, supersessions, sent, world>>
      BY DEF create_unlock_authorization
    <2> QED
      BY <1>3, <2>5, <2>6, <2>8, <2>9, <2>10 DEF TypeInv, TypeOK, CallsOK, world, process
  <1>4. CASE Fail(k) /\ UNCHANGED authorizations
    <2>1. UNCHANGED <<durable, sent, world>>
      BY <1>4 DEF create_unlock_authorization, durable
    <2> QED
      BY <1>4, <2>1, FailType, QuietFailType, IdleType
  <1> QED
    BY <1>3, <1>4 DEF create_unlock_authorization

\* So does consuming it with the dispatch of the unlock.
LEMMA UnlockDispatchType ==
  ASSUME TypeInv, NEW k \in Threads, authorize_and_record_unlock_dispatch(k)
  PROVE  TypeInv'
  <1> DEFINE c == call[k].own
             x == call[k].view.auth
             next == transitioned(c, "Dispatched", "None", call[k].now)
             r == [call[k] EXCEPT !.pc = "adapter", !.own = next, !.view = NoView]
  <1>1. /\ call[k] \in Call /\ c \in Aggregate /\ call[k].pc = "unlock"
        /\ call[k].now \in Nat /\ x \in AuthIds
    BY DEF authorize_and_record_unlock_dispatch, TypeInv, CallsOK, ThreadOK, Call
  <1>2. next \in Aggregate
    <2>1. "Dispatched" \in States /\ "None" \in Failures
      BY DEF States, Failures
    <2> QED
      BY <1>1, <2>1, TransitionedType
  <1>3. authorizations[x] \in Authorization
    BY <1>1 DEF TypeInv, TypeOK, AuthorizationHeld
  <1> HIDE DEF next
  <1>4. ThreadOK(r) /\ r.pc = "adapter"
    BY <1>1, <1>2, IdleType DEF ThreadOK, Call
  <1> HIDE DEF r
  <1>5. CASE /\ dispatch_recordable(next, c.version)
             /\ authorizations' = [authorizations EXCEPT ![x].status = "Consumed"]
             /\ record_dispatch(next)
             /\ Goto(k, r)
             /\ UNCHANGED process
    <2>1. CallsOK(call') /\ \A t \in Threads : call'[t] = IF t = k THEN r ELSE call[t]
      BY <1>4, <1>5, GotoType
    <2>2. UNCHANGED <<projections, supersessions, sent, world>>
      BY DEF authorize_and_record_unlock_dispatch
    <2>3. [authorizations[x] EXCEPT !.status = "Consumed"] \in Authorization
      BY <1>3 DEF Authorization
    <2>4. /\ authorizations' \in [AuthIds -> Authorization \cup {None}]
          /\ \A y \in AuthIds : authorizations[y] # None => authorizations'[y] # None
      BY <1>5, <2>3, NoneAssumption DEF TypeInv, TypeOK
    <2>5. AuthorizationHeld'
      BY <1>4, <2>1, <2>4, HeldKept
    <2>6. \A t \in Threads : call'[t].pc # "idle" => call'[t].own # None
      BY <2>1, NoneAssumption DEF CallsOK, ThreadOK
    <2>7. /\ commands' \in [CommandIds -> Aggregate \cup {None}]
          /\ audit' \in [CommandIds -> Seq([from : States \cup {"None"}, to : States])]
          /\ slots' \in [Devices -> Slot \cup {None}]
      BY <1>2, <1>5, RecordDispatchType
    <2> QED
      BY <1>5, <2>1, <2>2, <2>4, <2>5, <2>6, <2>7 DEF TypeInv, TypeOK, CallsOK, world, process
  <1>6. CASE Fail(k) /\ UNCHANGED <<authorizations, commands, audit, slots>>
    <2>1. UNCHANGED <<durable, sent, world>>
      BY <1>6 DEF authorize_and_record_unlock_dispatch, durable
    <2> QED
      BY <1>6, <2>1, FailType, QuietFailType, IdleType
  <1> QED
    BY <1>5, <1>6 DEF authorize_and_record_unlock_dispatch, next, r

\* Under TypeInv every action of a running call keeps TypeInv.
LEMMA StepType ==
  ASSUME TypeInv, NEW k \in Threads, Step(k)
  PROVE  TypeInv'
  BY ContinueReceivedType, TransitionType, RegisterOnceType, ReplaceDesiredType,
     CommitDispatchType, RecordMatterDispatchType, AdapterDispatchType,
     DispatchCommittedType, ConfirmType, AuthorizeUnlockType, CreateAuthorizationType,
     UnlockDispatchType
  DEF Step

\* Receipt of a new command leaves TypeInv intact.
LEMMA ExecuteType ==
  ASSUME TypeInv, NEW k \in Threads, NEW q \in Requests, NEW id \in CommandIds,
         NEW payload \in effective_payloads(q.payload), execute(k, q, id, payload)
  PROVE  TypeInv'
  <1> DEFINE c == received(id, q, payload, clock)
             r == [Idle EXCEPT !.pc = "received", !.own = c, !.now = clock]
  <1>1. clock \in Nat
    BY DEF TypeInv, TypeOK
  <1>2. payload \in Payloads
    BY RequestsAssumption DEF effective_payloads, Request, Payloads
  <1>3. c \in Aggregate
    BY <1>1, <1>2 DEF received, Aggregate, States, Failures
  <1>4. /\ commands' = [commands EXCEPT ![id] = c]
        /\ audit' = [audit EXCEPT ![id] = <<command_audit("None", "Received")>>]
        /\ Goto(k, r)
        /\ UNCHANGED <<slots, projections, authorizations, supersessions, sent, world, process>>
    BY DEF execute
  <1> HIDE DEF c
  <1>5. ThreadOK(r) /\ r.pc = "received"
    BY <1>1, <1>3, IdleType DEF ThreadOK, Call
  <1> HIDE DEF r
  <1>6. CallsOK(call') /\ \A t \in Threads : call'[t] = IF t = k THEN r ELSE call[t]
    BY <1>4, <1>5, GotoType
  <1>7. AuthorizationHeld'
    BY <1>4, <1>5, <1>6, HeldKept
  <1>8. \A t \in Threads : call'[t].pc # "idle" => call'[t].own # None
    BY <1>6, NoneAssumption DEF CallsOK, ThreadOK
  <1>9. commands' \in [CommandIds -> Aggregate \cup {None}]
    BY <1>3, <1>4 DEF TypeInv, TypeOK
  <1>10. audit' \in [CommandIds -> Seq([from : States \cup {"None"}, to : States])]
    <2> DEFINE Log == [from : States \cup {"None"}, to : States]
    <2>1. command_audit("None", "Received") \in Log
      BY DEF command_audit, States
    <2>2. audit \in [CommandIds -> Seq(Log)]
      BY DEF TypeInv, TypeOK
    <2> HIDE DEF Log
    <2>3. <<command_audit("None", "Received")>> \in Seq(Log)
      BY <2>1
    <2>4. audit' \in [CommandIds -> Seq(Log)]
      BY <1>4, <2>2, <2>3
    <2> QED
      BY <2>4 DEF Log
  <1> QED
    BY <1>4, <1>6, <1>7, <1>8, <1>9, <1>10 DEF TypeInv, TypeOK, CallsOK, world, process

\* So does the start of a cancellation.
LEMMA CancelType ==
  ASSUME TypeInv, NEW k \in Threads, NEW id \in CommandIds, cancel(k, id)
  PROVE  TypeInv'
  <1> DEFINE r == [Idle EXCEPT !.pc = "write", !.own = commands[id], !.goal = "Cancelled",
                               !.now = clock]
  <1>1. commands[id] \in Aggregate /\ clock \in Nat
    BY DEF cancel, TypeInv, TypeOK
  <1>2. ThreadOK(r) /\ r.pc = "write"
    BY <1>1, IdleType DEF ThreadOK, Call, States
  <1>3. Goto(k, r) /\ UNCHANGED <<durable, sent, world, process>>
    BY DEF cancel
  <1> HIDE DEF r
  <1> QED
    BY <1>2, <1>3, QuietType

\* So does the start of an approval.
LEMMA ApproveUnlockType ==
  ASSUME TypeInv, NEW k \in Threads, NEW id \in CommandIds, NEW a \in Actors,
         approve_unlock(k, id, a)
  PROVE  TypeInv'
  <1> DEFINE seen == [NoView EXCEPT !.approver = a]
             r == [Idle EXCEPT !.pc = "approve", !.own = commands[id], !.now = clock,
                               !.view = seen]
  <1>1. commands[id] \in Aggregate /\ clock \in Nat
    BY DEF approve_unlock, TypeInv, TypeOK
  <1>2. seen \in View /\ seen.approver = a
    BY IdleType DEF View
  <1>3. Goto(k, r) /\ UNCHANGED <<durable, sent, world, process>>
    BY DEF approve_unlock
  <1> HIDE DEF seen
  <1>4. ThreadOK(r) /\ r.pc = "approve"
    BY <1>1, <1>2, IdleType DEF ThreadOK, Call
  <1> HIDE DEF r
  <1> QED
    BY <1>3, <1>4, QuietType

\* So does taking the next command of the recovery page.
LEMMA RecoverOneType ==
  ASSUME TypeInv, NEW c \in page, recover_one(c)
  PROVE  TypeInv'
  <1> DEFINE start == [Idle EXCEPT !.own = c, !.now = startedAt]
             timeout == [start EXCEPT !.pc = "write", !.goal = "TimedOut",
                                      !.failure = "DeadlineExceeded"]
             deny == [start EXCEPT !.pc = "write", !.goal = "Rejected",
                        !.failure = "PolicyDenied", !.own = [c EXCEPT !.policy = "Denied"]]
             go(pc) == [start EXCEPT !.pc = pc]
  <1>1. c \in Aggregate /\ startedAt \in Nat /\ page \subseteq Aggregate
    BY DEF TypeInv, TypeOK
  <1>2. start \in Call /\ start.own = c
    BY <1>1, IdleType DEF Call
  <1>3. \/ Goto(Recovery, timeout)
        \/ Goto(Recovery, deny)
        \/ Goto(Recovery, go("received"))
        \/ Goto(Recovery, go("register"))
        \/ Goto(Recovery, go("confirm"))
    BY DEF recover_one
  <1>4. page' = page \ {c} /\ UNCHANGED <<durable, sent, world, mode, startedAt>>
    BY DEF recover_one
  <1> HIDE DEF start
  <1>5. ThreadOK(timeout) /\ timeout.pc = "write"
    BY <1>1, <1>2 DEF ThreadOK, Call, States, Failures
  <1>6. ThreadOK(go("received")) /\ ThreadOK(go("register")) /\ ThreadOK(go("confirm"))
    BY <1>1, <1>2 DEF ThreadOK, Call
  <1>7. /\ go("received").pc = "received"
        /\ go("register").pc = "register"
        /\ go("confirm").pc = "confirm"
    BY <1>2 DEF Call
  <1>8. [c EXCEPT !.policy = "Denied"] \in Aggregate
    BY <1>1 DEF Aggregate
  <1>9. ThreadOK(deny) /\ deny.pc = "write"
    BY <1>2, <1>8 DEF ThreadOK, Call, States, Failures
  <1> HIDE DEF timeout, deny, go
  <1>10. PICK r : ThreadOK(r) /\ r.pc # "unlock" /\ Goto(Recovery, r)
    BY <1>3, <1>5, <1>6, <1>7, <1>9
  <1>11. Recovery \in Threads
    BY DEF Threads
  <1>12. CallsOK(call') /\ \A t \in Threads : call'[t] = IF t = Recovery THEN r ELSE call[t]
    BY <1>10, <1>11, GotoType
  <1>13. ProcessOK'
    BY <1>1, <1>4 DEF ProcessOK, TypeInv, TypeOK
  <1> QED
    BY <1>4, <1>10, <1>12, <1>13, QuietFailType

\* So does every step of a startup.
LEMMA StartupType ==
  ASSUME TypeInv, Startup
  PROVE  TypeInv'
  <1>1. CASE recover
    <2>1. page' \subseteq Aggregate
      <3>1. page' \in recoverable_commands
        BY <1>1 DEF recover
      <3>2. \A i \in Stored : commands[i] \in Aggregate
        BY DEF Stored, TypeInv, TypeOK
      <3> QED
        BY <3>1, <3>2 DEF recoverable_commands
    <2>2. ProcessOK'
      BY <1>1, <2>1 DEF recover, ProcessOK, TypeInv, TypeOK
    <2>3. UNCHANGED <<durable, sent, world, call>>
      BY <1>1 DEF recover
    <2> QED
      BY <2>2, <2>3, QuietFailType DEF TypeInv
  <1>2. CASE \E c \in page : recover_one(c)
    BY <1>2, RecoverOneType
  <1>3. CASE serve
    <2>1. ProcessOK' /\ UNCHANGED <<durable, sent, world, call>>
      BY <1>3 DEF serve, ProcessOK, TypeInv, TypeOK
    <2> QED
      BY <2>1, QuietFailType DEF TypeInv
  <1> QED
    BY <1>1, <1>2, <1>3 DEF Startup

\* So do crashes, faults, grant changes, reports and time.
LEMMA EnvironmentType ==
  ASSUME TypeInv, Environment
  PROVE  TypeInv'
  <1>1. CASE Crash
    <2>1. CallsOK(call') /\ \A t \in Threads : call'[t] = Idle
      BY <1>1, IdleType DEF Crash, CallsOK
    <2>2. crashes' \in Nat
      BY <1>1 DEF Crash, TypeInv, TypeOK
    <2>3. AuthorizationHeld'
      BY <2>1, IdleType DEF AuthorizationHeld
    <2>4. \A t \in Threads : call'[t].pc # "idle" => call'[t].own # None
      BY <2>1, IdleType
    <2> QED
      BY <1>1, <2>1, <2>2, <2>3, <2>4 DEF Crash, TypeInv, TypeOK, CallsOK, durable
  <1>2. ASSUME NEW k \in Threads, Fault(k) PROVE TypeInv'
    <2>1. /\ CallsOK(call')
          /\ ProcessOK'
          /\ \A t \in Threads : call'[t] = Idle \/ call'[t] = call[t]
      BY <1>2, FailType DEF Fault
    <2>2. faults' \in Nat
      BY <1>2 DEF Fault, TypeInv, TypeOK
    <2>3. AuthorizationHeld'
      BY <1>2, <2>1, IdleType, HeldKept DEF Fault, durable
    <2>4. \A t \in Threads : call'[t].pc # "idle" => call'[t].own # None
      BY <2>1, NoneAssumption DEF CallsOK, ThreadOK
    <2> QED
      BY <1>2, <2>1, <2>2, <2>3, <2>4
      DEF Fault, TypeInv, TypeOK, CallsOK, ProcessOK, durable
  <1>3. ASSUME NEW a \in Actors, NEW g \in GrantSets, replace_actor_grants(a, g)
        PROVE  TypeInv'
    <2>1. grants' \in [Actors -> SUBSET Actions]
      BY <1>3, GrantSetsAssumption DEF replace_actor_grants, TypeInv, TypeOK
    <2> QED
      BY <1>3, <2>1
      DEF replace_actor_grants, TypeInv, TypeOK, CallsOK, AuthorizationHeld, durable, process
  <1>4. ASSUME NEW d \in Managed, NEW fresh \in BOOLEAN, store_matter_projection(d, fresh)
        PROVE  TypeInv'
    <2>1. projections[d].revision + 1 \in Nat
      BY SetsAssumption DEF TypeInv, TypeOK
    <2> DEFINE p == [revision |-> projections[d].revision + 1, fresh |-> fresh]
    <2>2. p \in [revision : Nat, fresh : BOOLEAN] /\ projections' = [projections EXCEPT ![d] = p]
      BY <1>4, <2>1 DEF store_matter_projection
    <2> HIDE DEF p
    <2>3. projections' \in [Devices -> [revision : Nat, fresh : BOOLEAN]]
      BY <2>2 DEF TypeInv, TypeOK
    <2> QED
      BY <1>4, <2>3
      DEF store_matter_projection, TypeInv, TypeOK, CallsOK, AuthorizationHeld, world, process
  <1>5. CASE Tick
    <2>1. clock' \in Nat
      BY <1>5 DEF Tick, TypeInv, TypeOK
    <2> QED
      BY <1>5, <2>1
      DEF Tick, TypeInv, TypeOK, CallsOK, AuthorizationHeld, durable, process
  <1> QED
    BY <1>1, <1>2, <1>3, <1>4, <1>5 DEF Environment

\* TypeInv is inductive.
LEMMA NextType ==
  ASSUME TypeInv, [Next]_vars
  PROVE  TypeInv'
  <1>1. ASSUME NEW k \in Calls, Begin(k) PROVE TypeInv'
    BY <1>1, ExecuteType, CancelType, ApproveUnlockType DEF Begin, Threads
  <1>2. CASE UNCHANGED vars
    BY <1>2 DEF vars, TypeInv, TypeOK, CallsOK, AuthorizationHeld
  <1> QED
    BY <1>1, <1>2, StepType, StartupType, EnvironmentType DEF Next

\* Rows, private copies and tables keep their types whatever calls, crashes and
\* faults happen (TypeOK), for any number of commands, calls and devices.
THEOREM TypeCorrect == Spec => []TypeOK
  <1>1. Spec => []TypeInv
    BY InitType, NextType, PTL DEF Spec
  <1>2. TypeInv => TypeOK
    BY DEF TypeInv
  <1> QED
    BY <1>1, <1>2, PTL

-----------------------------------------------------------------------------
(* The dispatch boundary.  Every step of the system is one of four kinds as   *)
(* far as the command table, the adapter and the calls about to invoke it are *)
(* concerned; DispatchInv and the refinement both follow from this summary.   *)

AdapterKept == \A t \in Threads : call'[t].pc = "adapter" => call'[t] = call[t]

\* A new command is stored under an unused key.
Receives ==
  /\ \E id \in CommandIds, c \in Aggregate :
       /\ commands[id] = None
       /\ c.state = "Received"
       /\ \A e \in Stored : ~SameKey(commands[e].req, c.req)
       /\ commands' = [commands EXCEPT ![id] = c]
  /\ UNCHANGED sent
  /\ AdapterKept

\* A stored command advances; only its dispatch sends a call to the adapter.
Advances ==
  /\ \E next \in Aggregate, v \in Nat :
       /\ transition_allowed(next, v)
       /\ commands' = [commands EXCEPT ![next.id] = next]
       /\ \/ AdapterKept
          \/ /\ next.state = "Dispatched"
             /\ \E k \in Threads : /\ call'[k].own = next
                                   /\ \A t \in Threads \ {k} : call'[t] = call[t]
  /\ UNCHANGED sent

\* A call invokes the adapter and leaves that step.
Invokes ==
  /\ \E k \in Threads :
       /\ call[k].pc = "adapter"
       /\ sent' = [sent EXCEPT ![call[k].own.id] = @ + 1]
       /\ call'[k].pc # "adapter"
       /\ \A t \in Threads \ {k} : call'[t] = call[t]
  /\ UNCHANGED commands

Rests == UNCHANGED <<commands, sent>> /\ AdapterKept

\* The states a command has before its dispatch is durable, or instead of it.
Undispatched == {"Received", "Validated", "Rejected", "Cancelled"}

\* Nothing was sent for a command without a dispatch record, at most one call is
\* about to invoke the adapter for a command, nobody did before it, and a key
\* of an actor names one command.
DispatchInv ==
  /\ \A c \in CommandIds :
       /\ sent[c] \in {0, 1}
       /\ commands[c] = None \/ commands[c].state \in Undispatched => sent[c] = 0
  /\ \A k \in Threads : call[k].pc = "adapter" =>
       /\ commands[call[k].own.id] # None
       /\ commands[call[k].own.id].state \notin Undispatched
       /\ sent[call[k].own.id] = 0
  /\ \A k, t \in Threads :
       call[k].pc = "adapter" /\ call[t].pc = "adapter" /\ k # t
         => call[k].own.id # call[t].own.id
  /\ \A c, e \in Stored : SameKey(commands[c].req, commands[e].req) => c = e

\* A call that moves on without reaching the adapter step.
LEMMA GotoRests ==
  ASSUME TypeInv, NEW k \in Threads, NEW r, r.pc # "adapter", Goto(k, r),
         UNCHANGED <<commands, sent>>
  PROVE  Rests
  BY DEF TypeInv, TypeOK, Goto, Rests, AdapterKept

\* A call that ends with an error.
LEMMA FailRests ==
  ASSUME TypeInv, NEW k \in Threads, Fail(k), UNCHANGED <<commands, sent>>
  PROVE  Rests
  BY FailType, IdleType DEF Rests, AdapterKept

\* transition_command under its checks advances a command.
LEMMA StoredAdvances ==
  ASSUME NEW next \in Aggregate, NEW v \in Nat, transition_allowed(next, v),
         transition_command(next), UNCHANGED sent,
         \/ AdapterKept
         \/ /\ next.state = "Dispatched"
            /\ \E k \in Threads : /\ call'[k].own = next
                                  /\ \A t \in Threads \ {k} : call'[t] = call[t]
  PROVE  Advances
  BY DEF Advances, transition_command

\* A plain lifecycle write advances its command or changes nothing.
LEMMA TransitionEffect ==
  ASSUME TypeInv, NEW k \in Threads, transition(k)
  PROVE  Advances \/ Rests
  <1> DEFINE c == call[k].own
             next == transitioned(c, call[k].goal, call[k].failure, call[k].now)
  <1>1. call[k].pc = "write" /\ c \in Aggregate
    BY DEF transition, TypeInv, CallsOK, ThreadOK
  <1>2. /\ call[k].goal \in States /\ call[k].failure \in Failures /\ call[k].now \in Nat
        /\ c.version \in Nat
    BY <1>1 DEF TypeInv, CallsOK, ThreadOK, Call, Aggregate
  <1>3. next \in Aggregate
    BY <1>1, <1>2, TransitionedType
  <1>4. UNCHANGED sent
    BY DEF transition
  <1>5. CASE /\ transition_allowed(next, c.version)
             /\ transition_command(next)
             /\ Goto(k, AfterTransition(k, next))
    <2> DEFINE r == AfterTransition(k, next)
    <2>1. ThreadOK(r) /\ (r.pc = "adapter" => next.state = "Dispatched" /\ r.own = next)
      BY <1>1, <1>3, AfterTransitionType
    <2> HIDE DEF r
    <2>2. \A t \in Threads : call'[t] = IF t = k THEN r ELSE call[t]
      BY <1>5, <2>1, GotoType DEF r
    <2> HIDE DEF next
    <2>3. \/ AdapterKept
          \/ /\ next.state = "Dispatched"
             /\ call'[k].own = next
             /\ \A t \in Threads \ {k} : call'[t] = call[t]
      BY <2>1, <2>2 DEF AdapterKept
    <2> QED
      BY <1>2, <1>3, <1>4, <1>5, <2>3, StoredAdvances
  <1>6. CASE Fail(k) /\ UNCHANGED <<commands, audit>>
    BY <1>4, <1>6, FailRests
  <1> HIDE DEF next
  <1> QED
    BY <1>5, <1>6 DEF transition, next

\* The two durable dispatches of a desired slot advance their command.
LEMMA RecordEffect ==
  ASSUME TypeInv, NEW k \in Threads,
         record_matter_dispatch(k) \/ authorize_and_record_unlock_dispatch(k)
  PROVE  Advances \/ Rests
  <1> DEFINE c == call[k].own
             next == transitioned(c, "Dispatched", "None", call[k].now)
             r1 == [call[k] EXCEPT !.pc = "adapter", !.own = next]
             r2 == [call[k] EXCEPT !.pc = "adapter", !.own = next, !.view = NoView]
  <1>1. call[k] \in Call /\ call[k].pc # "idle"
    BY DEF record_matter_dispatch, authorize_and_record_unlock_dispatch, TypeInv, TypeOK
  <1>2. c \in Aggregate /\ call[k].now \in Nat /\ c.version \in Nat
    BY <1>1 DEF TypeInv, CallsOK, ThreadOK, Call, Aggregate
  <1>3. next \in Aggregate /\ next.state = "Dispatched"
    <2>1. "Dispatched" \in States /\ "None" \in Failures
      BY DEF States, Failures
    <2> QED
      BY <1>2, <2>1, TransitionedType
  <1>4. UNCHANGED sent
    BY DEF record_matter_dispatch, authorize_and_record_unlock_dispatch
  <1>5. \/ /\ dispatch_recordable(next, c.version)
           /\ record_dispatch(next)
           /\ Goto(k, r1) \/ Goto(k, r2)
        \/ Fail(k) /\ UNCHANGED commands
    BY DEF record_matter_dispatch, authorize_and_record_unlock_dispatch
  <1> HIDE DEF next
  <1>6. r1.own = next /\ r2.own = next
    BY <1>1 DEF Call
  <1> HIDE DEF r1, r2
  <1>7. CASE /\ dispatch_recordable(next, c.version)
             /\ record_dispatch(next)
             /\ Goto(k, r1) \/ Goto(k, r2)
    <2>1. call'[k].own = next /\ \A t \in Threads \ {k} : call'[t] = call[t]
      BY <1>6, <1>7 DEF Goto, TypeInv, TypeOK
    <2>2. transition_allowed(next, c.version) /\ transition_command(next)
      BY <1>7 DEF dispatch_recordable, record_dispatch
    <2> QED
      BY <1>2, <1>3, <1>4, <2>1, <2>2, StoredAdvances
  <1>8. CASE Fail(k) /\ UNCHANGED commands
    BY <1>4, <1>8, FailRests
  <1> QED
    BY <1>5, <1>7, <1>8

\* Replacing a desired slot advances the superseded command or no command.
LEMMA ReplaceEffect ==
  ASSUME TypeInv, NEW k \in Threads, replace_matter_desired_state(k)
  PROVE  Advances \/ Rests
  <1> DEFINE c == call[k].own
             view == call[k].view
             old == superseded(view.prior, call[k].now)
             r == [call[k] EXCEPT !.pc = "commit", !.view = NoView]
  <1>1. call[k] \in Call /\ call[k].pc = "replace"
    BY DEF replace_matter_desired_state, TypeInv, TypeOK
  <1>2. call[k].now \in Nat /\ view.prior \in Aggregate \cup {None}
    BY <1>1 DEF Call, View
  <1>3. UNCHANGED sent
    BY DEF replace_matter_desired_state
  <1>4. r.pc = "commit"
    BY <1>1 DEF Call
  <1>5. \/ /\ replace_allowed(c, view, call[k].now)
           /\ IF view.prior = None THEN UNCHANGED commands ELSE transition_command(old)
           /\ Goto(k, r)
        \/ AttemptFailed(k) /\ UNCHANGED commands
    BY DEF replace_matter_desired_state, durable
  <1> HIDE DEF r
  <1>6. CASE view.prior = None /\ UNCHANGED commands /\ Goto(k, r)
    BY <1>3, <1>4, <1>6, GotoRests
  <1>7. CASE /\ view.prior # None
             /\ replace_allowed(c, view, call[k].now)
             /\ transition_command(old)
             /\ Goto(k, r)
    <2>1. view.prior \in Aggregate /\ view.prior.version \in Nat
      BY <1>2, <1>7 DEF Aggregate
    <2>2. old \in Aggregate
      <3>1. "Cancelled" \in States /\ "SupersededBeforeDispatch" \in Failures
        BY DEF States, Failures
      <3> QED
        BY <1>2, <2>1, <3>1, TransitionedType DEF superseded
    <2>3. transition_allowed(old, view.prior.version)
      BY <1>7 DEF replace_allowed
    <2>4. AdapterKept
      BY <1>4, <1>7 DEF Goto, AdapterKept, TypeInv, TypeOK
    <2> QED
      BY <1>3, <1>7, <2>1, <2>2, <2>3, <2>4, StoredAdvances
  <1>8. CASE AttemptFailed(k) /\ UNCHANGED commands
    BY <1>1, <1>3, <1>8, AttemptFailedType, IdleType DEF Rests, AdapterKept
  <1> HIDE DEF old
  <1> QED
    BY <1>5, <1>6, <1>7, <1>8

\* The adapter step invokes once or rests.
LEMMA AdapterEffect ==
  ASSUME TypeInv, NEW k \in Threads, adapter_dispatch(k)
  PROVE  Invokes \/ Rests
  <1> DEFINE r == [call[k] EXCEPT !.pc = "reply"]
             w == Writing(k, "Failed", "AdapterFailure", clock)
  <1>1. call[k] \in Call /\ call[k].pc = "adapter" /\ clock \in Nat
    BY DEF adapter_dispatch, TypeInv, TypeOK
  <1>2. r.pc = "reply"
    BY <1>1 DEF Call
  <1>3. w.pc = "write"
    BY <1>1, WritingType DEF States, Failures
  <1>4. UNCHANGED commands
    BY DEF adapter_dispatch, durable
  <1> HIDE DEF r, w
  <1>5. CASE sent' = [sent EXCEPT ![call[k].own.id] = @ + 1] /\ Goto(k, r)
    <2>1. call'[k].pc # "adapter" /\ \A t \in Threads \ {k} : call'[t] = call[t]
      BY <1>2, <1>5 DEF Goto, TypeInv, TypeOK
    <2> QED
      BY <1>1, <1>4, <1>5, <2>1 DEF Invokes
  <1>6. CASE Goto(k, w) /\ UNCHANGED sent
    BY <1>3, <1>4, <1>6, GotoRests
  <1> QED
    BY <1>5, <1>6 DEF adapter_dispatch, r, w

\* The steps of a call that neither store a transition nor invoke the adapter.
LEMMA QuietEffect ==
  ASSUME TypeInv, NEW k \in Threads,
         \/ continue_received(k) \/ register_once(k) \/ commit_dispatch(k)
         \/ dispatch_committed(k) \/ confirm(k) \/ authorize_unlock(k)
         \/ \E x \in AuthIds : create_unlock_authorization(k, x)
  PROVE  Rests
  <1>1. call[k] \in Call /\ call[k].pc # "idle"
    BY DEF continue_received, register_once, commit_dispatch, dispatch_committed, confirm,
           authorize_unlock, create_unlock_authorization, TypeInv, TypeOK
  <1>2. UNCHANGED <<commands, sent>>
    BY DEF continue_received, register_once, commit_dispatch, dispatch_committed, confirm,
           authorize_unlock, create_unlock_authorization, durable
  <1>3. \A g, f, n : Writing(k, g, f, n).pc = "write"
    BY <1>1 DEF Writing, Call
  <1>4. CASE continue_received(k)
    <2>1. \A g, f, n, o : [Writing(k, g, f, n) EXCEPT !.own = o].pc = "write"
      BY <1>1 DEF Writing, Call
    <2>2. \E g, f, n, o : \/ Goto(k, Writing(k, g, f, n))
                          \/ Goto(k, [Writing(k, g, f, n) EXCEPT !.own = o])
      BY <1>4 DEF continue_received
    <2> QED
      BY <1>2, <1>3, <2>1, <2>2, GotoRests
  <1>5. CASE register_once(k)
    <2>1. \A v : /\ [call[k] EXCEPT !.pc = "commit"].pc = "commit"
                 /\ [call[k] EXCEPT !.pc = "replace", !.view = v].pc = "replace"
      BY <1>1 DEF Call
    <2>2. (\E r : r.pc # "adapter" /\ Goto(k, r)) \/ AttemptFailed(k)
      BY <1>3, <1>5, <2>1 DEF register_once
    <2>3. CASE AttemptFailed(k)
      <3>1. call[k].pc = "register"
        BY <1>5 DEF register_once
      <3> QED
        BY <1>2, <2>3, <3>1, AttemptFailedType, IdleType DEF Rests, AdapterKept
    <2> QED
      BY <1>2, <2>2, <2>3, GotoRests
  <1>6. CASE commit_dispatch(k)
    <2>1. [call[k] EXCEPT !.pc = "record"].pc = "record"
      BY <1>1 DEF Call
    <2> QED
      BY <1>2, <1>6, <2>1, IdleType, GotoRests DEF commit_dispatch, Return
  <1>7. CASE dispatch_committed(k)
    <2>1. \E g, f : Goto(k, Writing(k, g, f, clock))
      BY <1>7 DEF dispatch_committed
    <2> QED
      BY <1>2, <1>3, <2>1, GotoRests
  <1>8. CASE confirm(k)
    <2>1. Goto(k, Idle) \/ \E g, f : Goto(k, Writing(k, g, f, call[k].now))
      BY <1>8 DEF confirm
    <2> QED
      BY <1>2, <1>3, <2>1, IdleType, GotoRests
  <1>9. CASE authorize_unlock(k)
    <2>1. \A v : [call[k] EXCEPT !.pc = "authorize", !.view = v].pc = "authorize"
      BY <1>1 DEF Call
    <2>2. Goto(k, Idle) \/ \E v : Goto(k, [call[k] EXCEPT !.pc = "authorize", !.view = v])
      BY <1>9 DEF authorize_unlock, Return
    <2> QED
      BY <1>2, <2>1, <2>2, IdleType, GotoRests
  <1>10. CASE \E x \in AuthIds : create_unlock_authorization(k, x)
    <2>1. \A v : [call[k] EXCEPT !.pc = "unlock", !.view = v].pc = "unlock"
      BY <1>1 DEF Call
    <2>2. Fail(k) \/ \E v : Goto(k, [call[k] EXCEPT !.pc = "unlock", !.view = v])
      BY <1>10 DEF create_unlock_authorization
    <2> QED
      BY <1>2, <2>1, <2>2, FailRests, GotoRests
  <1> QED
    BY <1>4, <1>5, <1>6, <1>7, <1>8, <1>9, <1>10

\* A new call receives a command or only reads.
LEMMA BeginEffect ==
  ASSUME TypeInv, NEW k \in Threads, Begin(k)
  PROVE  Receives \/ Rests
  <1>1. ASSUME NEW q \in Requests, NEW id \in CommandIds,
               NEW payload \in effective_payloads(q.payload), execute(k, q, id, payload)
        PROVE  Receives
    <2> DEFINE c == received(id, q, payload, clock)
               r == [Idle EXCEPT !.pc = "received", !.own = c, !.now = clock]
    <2>1. clock \in Nat /\ payload \in Payloads
      BY RequestsAssumption DEF effective_payloads, Request, Payloads, TypeInv, TypeOK
    <2>2. c \in Aggregate /\ c.state = "Received" /\ c.req = q
      BY <2>1 DEF received, Aggregate, States, Failures
    <2>3. /\ commands[id] = None
          /\ \A e \in Stored : ~SameKey(commands[e].req, q)
          /\ commands' = [commands EXCEPT ![id] = c]
          /\ Goto(k, r)
          /\ UNCHANGED sent
      BY <1>1 DEF execute
    <2> HIDE DEF c
    <2>4. r.pc = "received"
      BY IdleType DEF Call
    <2> HIDE DEF r
    <2>5. AdapterKept
      BY <2>3, <2>4 DEF Goto, AdapterKept, TypeInv, TypeOK
    <2> QED
      BY <2>2, <2>3, <2>5 DEF Receives
  <1>2. ASSUME NEW id \in CommandIds, cancel(k, id) PROVE Rests
    <2> DEFINE r == [Idle EXCEPT !.pc = "write", !.own = commands[id], !.goal = "Cancelled",
                                 !.now = clock]
    <2>1. r.pc = "write"
      BY IdleType DEF Call
    <2>2. Goto(k, r) /\ UNCHANGED <<commands, sent>>
      BY <1>2 DEF cancel, durable
    <2> HIDE DEF r
    <2> QED
      BY <2>1, <2>2, GotoRests
  <1>3. ASSUME NEW id \in CommandIds, NEW a \in Actors, approve_unlock(k, id, a) PROVE Rests
    <2> DEFINE r == [Idle EXCEPT !.pc = "approve", !.own = commands[id], !.now = clock,
                                 !.view = [NoView EXCEPT !.approver = a]]
    <2>1. r.pc = "approve"
      BY IdleType DEF Call
    <2>2. Goto(k, r) /\ UNCHANGED <<commands, sent>>
      BY <1>3 DEF approve_unlock, durable
    <2> HIDE DEF r
    <2> QED
      BY <2>1, <2>2, GotoRests
  <1> QED
    BY <1>1, <1>2, <1>3 DEF Begin

\* A startup step changes no command by itself.
LEMMA StartupEffect ==
  ASSUME TypeInv, Startup
  PROVE  Rests
  <1>1. CASE recover \/ serve
    BY <1>1 DEF recover, serve, durable, Rests, AdapterKept
  <1>2. ASSUME NEW c \in page, recover_one(c) PROVE Rests
    <2> DEFINE start == [Idle EXCEPT !.own = c, !.now = startedAt]
               timeout == [start EXCEPT !.pc = "write", !.goal = "TimedOut",
                                        !.failure = "DeadlineExceeded"]
               deny == [start EXCEPT !.pc = "write", !.goal = "Rejected",
                          !.failure = "PolicyDenied", !.own = [c EXCEPT !.policy = "Denied"]]
               go(pc) == [start EXCEPT !.pc = pc]
    <2>1. Recovery \in Threads /\ UNCHANGED <<commands, sent>>
      BY <1>2 DEF recover_one, durable, Threads
    <2>2. \/ Goto(Recovery, timeout)
          \/ Goto(Recovery, deny)
          \/ Goto(Recovery, go("received"))
          \/ Goto(Recovery, go("register"))
          \/ Goto(Recovery, go("confirm"))
      BY <1>2 DEF recover_one
    <2>3. /\ timeout.pc = "write" /\ deny.pc = "write" /\ go("received").pc = "received"
          /\ go("register").pc = "register" /\ go("confirm").pc = "confirm"
      BY IdleType DEF Call
    <2> HIDE DEF timeout, deny, go
    <2> QED
      BY <2>1, <2>2, <2>3, GotoRests
  <1> QED
    BY <1>1, <1>2 DEF Startup

\* The environment changes no command and sends no call to the adapter.
LEMMA EnvironmentEffect ==
  ASSUME TypeInv, Environment
  PROVE  Rests
  <1>1. CASE Crash
    BY <1>1, IdleType DEF Crash, durable, Rests, AdapterKept
  <1>2. ASSUME NEW k \in Threads, Fault(k) PROVE Rests
    BY <1>2, FailRests DEF Fault, durable
  <1>3. ASSUME NEW a \in Actors, NEW g \in GrantSets, replace_actor_grants(a, g) PROVE Rests
    BY <1>3 DEF replace_actor_grants, durable, Rests, AdapterKept
  <1>4. ASSUME NEW d \in Managed, NEW fresh \in BOOLEAN, store_matter_projection(d, fresh)
        PROVE  Rests
    BY <1>4 DEF store_matter_projection, Rests, AdapterKept
  <1>5. CASE Tick
    BY <1>5 DEF Tick, durable, Rests, AdapterKept
  <1> QED
    BY <1>1, <1>2, <1>3, <1>4, <1>5 DEF Environment

\* Every step receives, advances or invokes one command, or rests.
LEMMA Effect ==
  ASSUME TypeInv, [Next]_vars
  PROVE  Receives \/ Advances \/ Invokes \/ Rests
  <1>1. ASSUME NEW k \in Threads, Step(k) PROVE Advances \/ Invokes \/ Rests
    BY <1>1, TransitionEffect, RecordEffect, ReplaceEffect, AdapterEffect, QuietEffect DEF Step
  <1>2. CASE UNCHANGED vars
    BY <1>2 DEF vars, Rests, AdapterKept
  <1> QED
    BY <1>1, <1>2, BeginEffect, StartupEffect, EnvironmentEffect DEF Next, Threads

\* DispatchInv is inductive relative to TypeInv.
LEMMA NextDispatch ==
  ASSUME TypeInv, TypeInv', DispatchInv, [Next]_vars
  PROVE  DispatchInv'
  <1>1. /\ commands \in [CommandIds -> Aggregate \cup {None}]
        /\ sent \in [CommandIds -> Nat]
        /\ \A t \in Threads : call[t].pc = "adapter" => call[t].own.id \in CommandIds
        /\ \A t \in Threads : call'[t].pc = "adapter" => call'[t].own.id \in CommandIds
    BY DEF TypeInv, TypeOK, CallsOK, ThreadOK, Aggregate
  <1>2. CASE Rests
    BY <1>2 DEF Rests, AdapterKept, DispatchInv, Stored
  <1>3. CASE Receives
    <2>1. PICK id \in CommandIds, c \in Aggregate :
            /\ commands[id] = None
            /\ c.state = "Received"
            /\ \A e \in Stored : ~SameKey(commands[e].req, c.req)
            /\ commands' = [commands EXCEPT ![id] = c]
      BY <1>3 DEF Receives
    <2>2. UNCHANGED sent /\ AdapterKept
      BY <1>3 DEF Receives
    <2>3. \A e \in CommandIds : commands'[e] = IF e = id THEN c ELSE commands[e]
      BY <1>1, <2>1
    <2>4. \A e \in CommandIds :
            /\ sent'[e] \in {0, 1}
            /\ commands'[e] = None \/ commands'[e].state \in Undispatched => sent'[e] = 0
      BY <2>1, <2>2, <2>3 DEF DispatchInv
    <2>5. \A t \in Threads : call'[t].pc = "adapter" =>
            /\ commands'[call'[t].own.id] # None
            /\ commands'[call'[t].own.id].state \notin Undispatched
            /\ sent'[call'[t].own.id] = 0
      BY <1>1, <2>1, <2>2, <2>3 DEF DispatchInv, AdapterKept
    <2>6. \A s, t \in Threads :
            call'[s].pc = "adapter" /\ call'[t].pc = "adapter" /\ s # t
              => call'[s].own.id # call'[t].own.id
      BY <2>2 DEF DispatchInv, AdapterKept
    <2>7. \A e, f \in CommandIds :
            commands'[e] # None /\ commands'[f] # None
              /\ SameKey(commands'[e].req, commands'[f].req) => e = f
      BY <2>1, <2>3 DEF DispatchInv, Stored, SameKey
    <2> QED
      BY <2>4, <2>5, <2>6, <2>7 DEF DispatchInv, Stored
  <1>4. CASE Advances
    <2>1. PICK next \in Aggregate, v \in Nat :
            /\ transition_allowed(next, v)
            /\ commands' = [commands EXCEPT ![next.id] = next]
            /\ \/ AdapterKept
               \/ /\ next.state = "Dispatched"
                  /\ \E k \in Threads : /\ call'[k].own = next
                                        /\ \A t \in Threads \ {k} : call'[t] = call[t]
      BY <1>4 DEF Advances
    <2>2. UNCHANGED sent
      BY <1>4 DEF Advances
    <2>3. next.id \in CommandIds
      BY DEF Aggregate
    <2>4. \A e \in CommandIds : commands'[e] = IF e = next.id THEN next ELSE commands[e]
      BY <1>1, <2>1, <2>3
    <2>5. /\ commands[next.id] # None
          /\ next.req = commands[next.id].req
          /\ allows_transition_to(commands[next.id].state, next.state)
      BY <2>1 DEF transition_allowed
    <2>6. next # None
      BY NoneAssumption
    <2>7. /\ next.state \in Undispatched => commands[next.id].state \in Undispatched
          /\ next.state = "Dispatched" => commands[next.id].state \in Undispatched
          /\ next.state = "Dispatched" => next.state \notin Undispatched
      BY <2>5 DEF allows_transition_to, Undispatched
    <2>8. \A e \in CommandIds :
            /\ sent'[e] \in {0, 1}
            /\ commands'[e] = None \/ commands'[e].state \in Undispatched => sent'[e] = 0
      BY <2>2, <2>4, <2>6, <2>7 DEF DispatchInv
    <2>9. \A e, f \in CommandIds :
            commands'[e] # None /\ commands'[f] # None
              /\ SameKey(commands'[e].req, commands'[f].req) => e = f
      BY <2>3, <2>4, <2>5 DEF DispatchInv, Stored
    <2>10. CASE AdapterKept
      <3>1. \A t \in Threads : call'[t].pc = "adapter" =>
              /\ commands'[call'[t].own.id] # None
              /\ commands'[call'[t].own.id].state \notin Undispatched
              /\ sent'[call'[t].own.id] = 0
        BY <1>1, <2>2, <2>4, <2>6, <2>7, <2>10 DEF DispatchInv, AdapterKept
      <3>2. \A s, t \in Threads :
              call'[s].pc = "adapter" /\ call'[t].pc = "adapter" /\ s # t
                => call'[s].own.id # call'[t].own.id
        BY <2>10 DEF DispatchInv, AdapterKept
      <3> QED
        BY <2>8, <2>9, <3>1, <3>2 DEF DispatchInv, Stored
    <2>11. ASSUME NEW k \in Threads, next.state = "Dispatched", call'[k].own = next,
                  \A t \in Threads \ {k} : call'[t] = call[t]
           PROVE  DispatchInv'
      <3>1. sent[next.id] = 0
        BY <2>3, <2>7, <2>11 DEF DispatchInv
      <3>2. \A t \in Threads \ {k} : call'[t].pc = "adapter" => call'[t].own.id # next.id
        BY <2>7, <2>11 DEF DispatchInv
      <3>3. \A t \in Threads : call'[t].pc = "adapter" =>
              /\ commands'[call'[t].own.id] # None
              /\ commands'[call'[t].own.id].state \notin Undispatched
              /\ sent'[call'[t].own.id] = 0
        <4>1. ASSUME NEW t \in Threads \ {k}, call'[t].pc = "adapter"
              PROVE  /\ commands'[call'[t].own.id] # None
                     /\ commands'[call'[t].own.id].state \notin Undispatched
                     /\ sent'[call'[t].own.id] = 0
          BY <1>1, <2>2, <2>4, <2>11, <3>2, <4>1 DEF DispatchInv
        <4>2. commands'[next.id] = next /\ sent'[next.id] = 0
          BY <2>2, <2>3, <2>4, <3>1
        <4> QED
          BY <2>6, <2>7, <2>11, <4>1, <4>2
      <3>4. \A s, t \in Threads :
              call'[s].pc = "adapter" /\ call'[t].pc = "adapter" /\ s # t
                => call'[s].own.id # call'[t].own.id
        BY <2>11, <3>2 DEF DispatchInv
      <3> QED
        BY <2>8, <2>9, <3>3, <3>4 DEF DispatchInv, Stored
    <2> QED
      BY <2>1, <2>10, <2>11
  <1>5. CASE Invokes
    <2>1. PICK k \in Threads :
            /\ call[k].pc = "adapter"
            /\ sent' = [sent EXCEPT ![call[k].own.id] = @ + 1]
            /\ call'[k].pc # "adapter"
            /\ \A t \in Threads \ {k} : call'[t] = call[t]
      BY <1>5 DEF Invokes
    <2>2. UNCHANGED commands
      BY <1>5 DEF Invokes
    <2> DEFINE id == call[k].own.id
    <2>3. id \in CommandIds /\ sent[id] = 0 /\ commands[id] # None
          /\ commands[id].state \notin Undispatched
      BY <1>1, <2>1 DEF DispatchInv
    <2>4. \A e \in CommandIds : sent'[e] = IF e = id THEN 1 ELSE sent[e]
      BY <1>1, <2>1, <2>3
    <2>5. \A t \in Threads \ {k} : call[t].pc = "adapter" => call[t].own.id # id
      BY <2>1 DEF DispatchInv
    <2>6. \A e \in CommandIds :
            /\ sent'[e] \in {0, 1}
            /\ commands'[e] = None \/ commands'[e].state \in Undispatched => sent'[e] = 0
      BY <2>2, <2>3, <2>4 DEF DispatchInv
    <2>7. \A t \in Threads : call'[t].pc = "adapter" =>
            /\ commands'[call'[t].own.id] # None
            /\ commands'[call'[t].own.id].state \notin Undispatched
            /\ sent'[call'[t].own.id] = 0
      BY <1>1, <2>1, <2>2, <2>4, <2>5 DEF DispatchInv
    <2>8. \A s, t \in Threads :
            call'[s].pc = "adapter" /\ call'[t].pc = "adapter" /\ s # t
              => call'[s].own.id # call'[t].own.id
      BY <2>1 DEF DispatchInv
    <2> QED
      BY <2>2, <2>6, <2>7, <2>8 DEF DispatchInv, Stored
  <1> QED
    BY <1>2, <1>3, <1>4, <1>5, Effect

\* Initially nothing is stored or sent.
LEMMA InitDispatch == Init => DispatchInv
  BY IdleType DEF Init, DispatchInv, Stored

\* Both invariants hold in every reachable state.
LEMMA InvariantsHold == Spec => [](TypeInv /\ DispatchInv)
  <1>1. Init => TypeInv /\ DispatchInv
    BY InitType, InitDispatch
  <1>2. TypeInv /\ DispatchInv /\ [Next]_vars => (TypeInv /\ DispatchInv)'
    BY NextType, NextDispatch
  <1> QED
    BY <1>1, <1>2, PTL DEF Spec

\* One idempotency key of one actor causes at most one adapter invocation for any
\* number of commands, calls, approvals, crashes and recoveries: the idempotency
\* lookup of create_command makes the key name one command, and the guarded
\* transition to Dispatched lets one call of its lifetime reach the adapter.
THEOREM AtMostOneInvocation == Spec => []OneInvocationPerKey
  <1>1. TypeInv /\ DispatchInv => OneInvocationPerKey
    <2> SUFFICES ASSUME TypeInv, DispatchInv, NEW c \in Stored, NEW e \in Stored,
                        commands[c].req.actor = commands[e].req.actor,
                        commands[c].req.key = commands[e].req.key
                 PROVE  sent[c] <= 1 /\ (c # e => sent[c] + sent[e] <= 1)
      BY DEF OneInvocationPerKey
    <2>1. c = e
      BY DEF DispatchInv, SameKey
    <2>2. c \in CommandIds
      BY DEF Stored
    <2>3. sent[c] \in {0, 1}
      BY <2>2 DEF DispatchInv
    <2> QED
      BY <2>1, <2>3
  <1> QED
    BY <1>1, InvariantsHold, PTL

-----------------------------------------------------------------------------
(* Refinement of CommandLifecycle.                                           *)

\* A transition the code allows is an edge of the abstract lifecycle.
LEMMA EdgesAgree ==
  ASSUME NEW from \in States, NEW to \in States, allows_transition_to(from, to)
  PROVE  to \in Lifecycle!Lifecycle[from]
  BY DEF allows_transition_to, States, Lifecycle!Lifecycle

\* Every step of the command path is a step of the abstract lifecycle.
LEMMA NextLifecycle ==
  ASSUME TypeInv, TypeInv', DispatchInv, [Next]_vars
  PROVE  [Lifecycle!Next]_(Lifecycle!vars)
  <1> DEFINE abs == [c \in CommandIds |-> IF commands[c] = None THEN "Absent"
                                          ELSE commands[c].state]
  <1>1. /\ commands \in [CommandIds -> Aggregate \cup {None}]
        /\ commands' \in [CommandIds -> Aggregate \cup {None}]
        /\ sent \in [CommandIds -> Nat]
    BY DEF TypeInv, TypeOK
  <1>2. ASSUME NEW id \in CommandIds, NEW c \in Aggregate,
               commands' = [commands EXCEPT ![id] = c],
               c.state \in Lifecycle!Lifecycle[abs[id]],
               UNCHANGED sent
        PROVE  Lifecycle!Next
    <2>1. c # None
      BY NoneAssumption
    <2>2. abs' = [abs EXCEPT ![id] = c.state]
      BY <1>1, <1>2, <2>1
    <2>3. Lifecycle!Advance(id)
      BY <1>2, <2>2 DEF Lifecycle!Advance
    <2> QED
      BY <2>3 DEF Lifecycle!Next
  <1>3. CASE Rests
    BY <1>3 DEF Rests, Lifecycle!vars
  <1>4. CASE Receives
    <2>1. PICK id \in CommandIds, c \in Aggregate :
            /\ commands[id] = None
            /\ c.state = "Received"
            /\ commands' = [commands EXCEPT ![id] = c]
      BY <1>4 DEF Receives
    <2>2. abs[id] = "Absent"
      BY <2>1
    <2>3. c.state \in Lifecycle!Lifecycle[abs[id]]
      BY <2>1, <2>2 DEF Lifecycle!Lifecycle
    <2> HIDE DEF abs
    <2> QED
      BY <1>2, <1>4, <2>1, <2>3 DEF Receives
  <1>5. CASE Advances
    <2>1. PICK next \in Aggregate, v \in Nat :
            /\ transition_allowed(next, v)
            /\ commands' = [commands EXCEPT ![next.id] = next]
      BY <1>5 DEF Advances
    <2>2. next.id \in CommandIds /\ next.state \in States
      BY DEF Aggregate
    <2>3. commands[next.id] \in Aggregate
      BY <1>1, <2>1, <2>2 DEF transition_allowed
    <2>4. abs[next.id] = commands[next.id].state /\ commands[next.id].state \in States
      BY <2>2, <2>3, NoneAssumption DEF Aggregate
    <2>5. next.state \in Lifecycle!Lifecycle[abs[next.id]]
      BY <2>1, <2>2, <2>4, EdgesAgree DEF transition_allowed
    <2> HIDE DEF abs
    <2> QED
      BY <1>2, <1>5, <2>1, <2>2, <2>5 DEF Advances
  <1>6. CASE Invokes
    <2>1. PICK k \in Threads :
            /\ call[k].pc = "adapter"
            /\ sent' = [sent EXCEPT ![call[k].own.id] = @ + 1]
      BY <1>6 DEF Invokes
    <2>2. UNCHANGED commands
      BY <1>6 DEF Invokes
    <2> DEFINE id == call[k].own.id
    <2>3. id \in CommandIds
      BY <2>1 DEF TypeInv, CallsOK, ThreadOK, Aggregate
    <2>4. sent[id] = 0 /\ commands[id] # None /\ commands[id].state \notin Undispatched
      BY <2>1 DEF DispatchInv
    <2>5. commands[id].state \in States
      BY <1>1, <2>3, <2>4 DEF Aggregate
    <2>6. abs[id] \in {"Dispatched", "Acknowledged", "Confirmed", "Failed", "TimedOut"}
      BY <2>3, <2>4, <2>5 DEF Undispatched, States
    <2>7. sent' = [sent EXCEPT ![id] = 1]
      BY <1>1, <2>1, <2>3, <2>4
    <2>8. UNCHANGED abs
      BY <2>2
    <2>9. Lifecycle!Invoke(id)
      BY <2>4, <2>6, <2>7, <2>8 DEF Lifecycle!Invoke
    <2> QED
      BY <2>3, <2>9 DEF Lifecycle!Next
  <1> QED
    BY <1>3, <1>4, <1>5, <1>6, Effect

\* The command path implements the abstract lifecycle for every instance: a
\* command is received once, walks the documented states, and is invoked at most
\* once, never before its dispatch is durable.
THEOREM Refinement == Spec => ImplementsLifecycle
  <1>1. Init => Lifecycle!Init
    BY DEF Init, Lifecycle!Init
  <1>2. /\ TypeInv /\ DispatchInv
        /\ (TypeInv /\ DispatchInv)'
        /\ [Next]_vars
        => [Lifecycle!Next]_(Lifecycle!vars)
    BY NextLifecycle
  <1> QED
    BY <1>1, <1>2, InvariantsHold, PTL DEF Spec, ImplementsLifecycle, Lifecycle!Spec
=============================================================================
