----------------------- MODULE CommandGovernanceProofs -----------------------
(***************************************************************************)
(* What governs a command, proved for every instance of Commands: the audit *)
(* log explains the stored state, only allowed and audited dispatches reach *)
(* the adapter, a desired slot tracks its command's dispatch, superseded    *)
(* commands are linked to their successor, and a Matter unlock consumed the *)
(* authorization of a user.                                                 *)
(*                                                                          *)
(* The five invariants lean on each other and on what the private copy of a *)
(* call says about the stored row: a copy may be stale, but only the copy   *)
(* that still has the stored version can be written back.  GovernanceInv    *)
(* states that relation for every call and for the page of recover.         *)
(* Predicates take the tables as parameters, so that a step's effect on     *)
(* them can be stated about the old and the new table alike.                *)
(*                                                                          *)
(* A sixth invariant is about startup: SettleInv says where the commands    *)
(* are that a restart found open and past their deadline, and shows that    *)
(* none is left when the process serves, if the page covers the open ones.  *)
(***************************************************************************)
EXTENDS CommandsProofs, FiniteSetTheorems

-----------------------------------------------------------------------------
(* The inductive invariant.                                                 *)

DispatchedIn(log) == \E i \in DOMAIN log : log[i].to = "Dispatched"

\* The log is a walk of the lifecycle that ends in the row's state.
Explained(row, log) ==
  /\ Len(log) = row.version + 1
  /\ log[1] = command_audit("None", "Received")
  /\ log[Len(log)].to = row.state
  /\ \A i \in 2..Len(log) : /\ log[i].from = log[i - 1].to
                            /\ allows_transition_to(log[i].from, log[i].to)

\* A dispatched command was allowed, is no dry run and stays past its dispatch.
Governed(row, log) ==
  DispatchedIn(log) => /\ row.policy = "Allowed"
                       /\ ~row.req.dryRun
                       /\ row.state \notin Undispatched

RowOK(i, row, log) ==
  /\ row = None => log = <<>>
  /\ row # None => row.id = i /\ Explained(row, log) /\ Governed(row, log)

RowsOK(rows, logs) == \A i \in CommandIds : RowOK(i, rows[i], logs[i])

\* c was read from rows: it is the stored row, or an older version of it.  A
\* call may have changed the policy of a copy that is not yet dispatched.
CopyOf(rows, c) ==
  /\ rows[c.id] # None
  /\ c.req = rows[c.id].req
  /\ c.payload = rows[c.id].payload
  /\ c.version <= rows[c.id].version
  /\ c.version = rows[c.id].version =>
       /\ c.state = rows[c.id].state
       /\ c.state \notin {"Received", "Validated"} => c.policy = rows[c.id].policy

\* What a call knows of its command at each program counter.
Sound(rows, logs, r) ==
  r.pc # "idle" =>
    /\ CopyOf(rows, r.own)
    /\ r.failure # "SupersededBeforeDispatch"
    /\ r.view.prior # None => CopyOf(rows, r.view.prior)
    /\ r.pc = "received" => r.own.state = "Received"
    /\ r.pc \in {"register", "replace", "commit", "record"} => ~r.own.req.dryRun
    /\ r.pc \in {"replace", "commit", "record"} => projection_for(r.own)
    /\ r.pc = "record" => r.own.payload # "Unlock"
    /\ r.pc = "write" /\ r.goal = "Dispatched" =>
         ~r.own.req.dryRun /\ ~projection_for(r.own)
    /\ r.pc = "adapter" => DispatchedIn(logs[r.own.id])

CallsSound(rows, logs, f) == \A t \in Threads : Sound(rows, logs, f[t])

\* recover loaded open commands, and they are at most outdated.
PageSound(rows, p) == \A c \in p : CopyOf(rows, c) /\ ~is_terminal(c)

\* A slot names a command of its device and carries its dispatch marker.
SlotOK(rows, logs, d, slot) ==
  slot # None =>
    /\ rows[slot.command] # None
    /\ rows[slot.command].req.device = d
    /\ ~rows[slot.command].req.dryRun
    /\ projection_for(rows[slot.command])
    /\ slot.dispatched <=> DispatchedIn(logs[slot.command])

SlotsOK(rows, logs, table) == \A d \in Devices : SlotOK(rows, logs, d, table[d])

\* Supersession links are the reason of the cancelled commands, one for each.
LinksOK(rows, links) ==
  /\ \A c, e \in CommandIds : <<c, e>> \in links =>
       /\ rows[c] # None /\ rows[e] # None
       /\ rows[c].state = "Cancelled"
       /\ rows[c].failure = "SupersededBeforeDispatch"
       /\ rows[e].req.device = rows[c].req.device
  /\ \A c \in CommandIds :
       rows[c] # None /\ rows[c].failure = "SupersededBeforeDispatch"
         => \E e \in CommandIds : <<c, e>> \in links
  /\ \A c, e, f \in CommandIds : <<c, e>> \in links /\ <<c, f>> \in links => e = f

\* An open authorization belongs to a slot's command, a consumed one to a
\* dispatched command.
AuthOK(rows, logs, table, a) ==
  a # None =>
    /\ rows[a.command] # None
    /\ a.status = "Consumed" => DispatchedIn(logs[a.command])
    /\ a.status = "Open" =>
         /\ table[rows[a.command].req.device] # None
         /\ table[rows[a.command].req.device].command = a.command

ConsumedBy(auths, x, c) ==
  auths[x] # None /\ auths[x].command = c /\ auths[x].status = "Consumed"

AuthsOK(rows, logs, table, auths) ==
  /\ \A x \in AuthIds : AuthOK(rows, logs, table, auths[x])
  /\ \A x, y \in AuthIds, c \in CommandIds :
       ConsumedBy(auths, x, c) /\ ConsumedBy(auths, y, c) => x = y
  /\ \A c \in CommandIds :
       rows[c] # None /\ DispatchedIn(logs[c]) /\ rows[c].payload = "Unlock"
         /\ rows[c].req.device \in Managed
         => \E x \in AuthIds : ConsumedBy(auths, x, c) /\ auths[x].approver \in Users

SentOK(logs, count) == \A c \in CommandIds : count[c] > 0 => DispatchedIn(logs[c])

GovernanceInv ==
  /\ RowsOK(commands, audit)
  /\ CallsSound(commands, audit, call)
  /\ PageSound(commands, page)
  /\ SlotsOK(commands, audit, slots)
  /\ LinksOK(commands, supersessions)
  /\ AuthsOK(commands, audit, slots, authorizations)
  /\ SentOK(audit, sent)

-----------------------------------------------------------------------------
(* What the steps do to the tables.                                         *)

Log == [from : States \cup {"None"}, to : States]

\* Copies stay copies and dispatched commands stay dispatched.
Extended(rows, logs, rows2, logs2) ==
  /\ \A c \in Aggregate : CopyOf(rows, c) => CopyOf(rows2, c)
  /\ \A i \in CommandIds : DispatchedIn(logs[i]) => DispatchedIn(logs2[i])

\* A guarded transition of the stored row, with its audit record.
Moves(next) ==
  /\ next \in Aggregate
  /\ transition_allowed(next, commands[next.id].version)
  /\ next.version = commands[next.id].version + 1
  /\ next.payload = commands[next.id].payload
  /\ commands[next.id].state \notin {"Received", "Validated"}
       => next.policy = commands[next.id].policy
  /\ transition_command(next)

\* The types the proofs below use.
LEMMA Tables ==
  ASSUME TypeInv
  PROVE  /\ commands \in [CommandIds -> Aggregate \cup {None}]
         /\ audit \in [CommandIds -> Seq(Log)]
         /\ slots \in [Devices -> Slot \cup {None}]
         /\ authorizations \in [AuthIds -> Authorization \cup {None}]
         /\ supersessions \subseteq CommandIds \X CommandIds
         /\ sent \in [CommandIds -> Nat]
         /\ call \in [Threads -> Call]
         /\ page \subseteq Aggregate
         /\ clock \in Nat /\ startedAt \in Nat
         /\ \A t \in Threads : ThreadOK(call[t])
  BY DEF TypeInv, TypeOK, CallsOK, Log

\* The request, device and version of an aggregate.
LEMMA AggregateFields ==
  ASSUME NEW c \in Aggregate
  PROVE  /\ c.id \in CommandIds /\ c.version \in Nat /\ c.state \in States
         /\ c.req \in Requests /\ c.req.device \in Devices
         /\ c.payload \in Payloads /\ c # None
  BY RequestsAssumption, NoneAssumption DEF Aggregate, Request

\* A running call has an aggregate, and its view is typed.
LEMMA CallFields ==
  ASSUME NEW r, ThreadOK(r)
  PROVE  /\ r \in Call
         /\ r.pc # "idle" => r.own \in Aggregate
         /\ r.view.prior \in Aggregate \cup {None}
         /\ r.now \in Nat /\ r.failure \in Failures
         /\ r.pc = "write" => r.goal \in States
  BY DEF ThreadOK, Call, View

\* An aggregate that was read from the table and moved on.
LEMMA TransitionedFields ==
  ASSUME NEW c \in Aggregate, NEW s \in States, NEW f \in Failures, NEW n \in Nat
  PROVE  /\ transitioned(c, s, f, n).version = c.version + 1
         /\ transitioned(c, s, f, n).payload = c.payload
         /\ transitioned(c, s, f, n).failure = f
  BY DEF transitioned, Aggregate

\* Writing back a copy under the checks of transition_command is a move: the
\* copy that has the stored version is the stored row.
LEMMA WrittenMoves ==
  ASSUME TypeInv, NEW c \in Aggregate, CopyOf(commands, c),
         NEW s \in States, NEW f \in Failures, NEW n \in Nat,
         transition_allowed(transitioned(c, s, f, n), c.version),
         transition_command(transitioned(c, s, f, n))
  PROVE  /\ Moves(transitioned(c, s, f, n))
         /\ transitioned(c, s, f, n).id = c.id
         /\ transitioned(c, s, f, n).req = c.req
         /\ transitioned(c, s, f, n).payload = c.payload
         /\ transitioned(c, s, f, n).state = s
         /\ transitioned(c, s, f, n).failure = f
  <1> DEFINE next == transitioned(c, s, f, n)
  <1>1. /\ next \in Aggregate /\ next.id = c.id /\ next.req = c.req
        /\ next.state = s /\ next.policy = c.policy
    BY TransitionedType
  <1>2. next.version = c.version + 1 /\ next.payload = c.payload /\ next.failure = f
    BY TransitionedFields
  <1> HIDE DEF next
  <1>3. commands[c.id].version = c.version
    BY <1>1 DEF transition_allowed, next
  <1>4. Moves(next)
    BY <1>1, <1>2, <1>3 DEF Moves, CopyOf, next
  <1> QED
    BY <1>1, <1>2, <1>4 DEF next

\* The rows and the logs after a move.
LEMMA MovesTables ==
  ASSUME TypeInv, NEW next, Moves(next)
  PROVE  /\ next \in Aggregate /\ next.id \in CommandIds
         /\ commands[next.id] \in Aggregate
         /\ next.req = commands[next.id].req
         /\ allows_transition_to(commands[next.id].state, next.state)
         /\ \A i \in CommandIds : commands'[i] = IF i = next.id THEN next ELSE commands[i]
         /\ \A i \in CommandIds :
              audit'[i] = IF i = next.id
                          THEN Append(audit[i], command_audit(commands[i].state, next.state))
                          ELSE audit[i]
  <1>1. next \in Aggregate /\ next.id \in CommandIds
    BY AggregateFields DEF Moves
  <1>2. commands[next.id] # None
    BY DEF Moves, transition_allowed
  <1>3. commands[next.id] \in Aggregate
    BY <1>1, <1>2, Tables
  <1> QED
    BY <1>1, <1>3, Tables DEF Moves, transition_allowed, transition_command

\* A log knows a dispatch after an append when it did before, or by the record.
LEMMA AppendDispatched ==
  ASSUME NEW log \in Seq(Log), NEW e \in Log
  PROVE  /\ DispatchedIn(log) => DispatchedIn(Append(log, e))
         /\ DispatchedIn(Append(log, e)) => DispatchedIn(log) \/ e.to = "Dispatched"
         /\ e.to = "Dispatched" => DispatchedIn(Append(log, e))
  <1>1. /\ Len(log) \in Nat
        /\ Len(Append(log, e)) = Len(log) + 1
        /\ DOMAIN log = 1..Len(log)
        /\ DOMAIN Append(log, e) = 1..(Len(log) + 1)
        /\ \A i \in 1..Len(log) : Append(log, e)[i] = log[i]
        /\ Append(log, e)[Len(log) + 1] = e
    OBVIOUS
  <1>2. \A i \in 1..(Len(log) + 1) : i \in 1..Len(log) \/ i = Len(log) + 1
    BY <1>1
  <1>3. Len(log) + 1 \in 1..(Len(log) + 1) /\ 1..Len(log) \subseteq 1..(Len(log) + 1)
    BY <1>1
  <1> QED
    BY <1>1, <1>2, <1>3 DEF DispatchedIn

\* The record a move appends.
LEMMA MovesLog ==
  ASSUME TypeInv, NEW next, Moves(next)
  PROVE  /\ command_audit(commands[next.id].state, next.state) \in Log
         /\ command_audit(commands[next.id].state, next.state).to = next.state
         /\ command_audit(commands[next.id].state, next.state).from = commands[next.id].state
         /\ audit[next.id] \in Seq(Log)
         /\ DispatchedIn(audit[next.id]) => DispatchedIn(audit'[next.id])
         /\ DispatchedIn(audit'[next.id])
              => DispatchedIn(audit[next.id]) \/ next.state = "Dispatched"
         /\ next.state = "Dispatched" => DispatchedIn(audit'[next.id])
  <1>1. /\ next \in Aggregate /\ next.id \in CommandIds
        /\ commands[next.id] \in Aggregate
        /\ audit'[next.id]
             = Append(audit[next.id], command_audit(commands[next.id].state, next.state))
    BY MovesTables
  <1>2. next.state \in States /\ commands[next.id].state \in States
    BY <1>1, AggregateFields
  <1> DEFINE e == command_audit(commands[next.id].state, next.state)
  <1>3. e \in Log /\ e.to = next.state /\ e.from = commands[next.id].state
    BY <1>2 DEF command_audit, Log
  <1>4. audit[next.id] \in Seq(Log)
    BY <1>1, Tables
  <1> HIDE DEF e
  <1>5. audit'[next.id] = Append(audit[next.id], e)
    BY <1>1 DEF e
  <1>6. /\ DispatchedIn(audit[next.id]) => DispatchedIn(audit'[next.id])
        /\ DispatchedIn(audit'[next.id])
             => DispatchedIn(audit[next.id]) \/ next.state = "Dispatched"
        /\ next.state = "Dispatched" => DispatchedIn(audit'[next.id])
    BY <1>3, <1>4, <1>5, AppendDispatched
  <1> QED
    BY <1>3, <1>4, <1>6 DEF e

\* A move extends the tables: every older copy is now outdated.
LEMMA MovesExtend ==
  ASSUME TypeInv, NEW next, Moves(next)
  PROVE  Extended(commands, audit, commands', audit')
  <1>1. /\ next \in Aggregate /\ next.id \in CommandIds
        /\ commands[next.id] \in Aggregate
        /\ next.req = commands[next.id].req
        /\ \A i \in CommandIds : commands'[i] = IF i = next.id THEN next ELSE commands[i]
        /\ \A i \in CommandIds : i # next.id => audit'[i] = audit[i]
    BY MovesTables
  <1>2. ASSUME NEW c \in Aggregate, CopyOf(commands, c) PROVE CopyOf(commands', c)
    <2>1. c.id \in CommandIds /\ c.version \in Nat
      BY AggregateFields
    <2>2. CASE c.id # next.id
      BY <1>1, <1>2, <2>1, <2>2 DEF CopyOf
    <2>3. CASE c.id = next.id
      <3>1. next.version = commands[next.id].version + 1 /\ next.payload = commands[next.id].payload
        BY DEF Moves
      <3>2. commands[next.id].version \in Nat /\ next # None
        BY <1>1, AggregateFields
      <3>3. c.version <= commands[next.id].version
        BY <1>2, <2>3 DEF CopyOf
      <3>4. c.version <= next.version /\ c.version # next.version
        BY <2>1, <3>1, <3>2, <3>3
      <3> QED
        BY <1>1, <1>2, <2>3, <3>1, <3>2, <3>4 DEF CopyOf
    <2> QED
      BY <2>2, <2>3
  <1>3. \A i \in CommandIds : DispatchedIn(audit[i]) => DispatchedIn(audit'[i])
    BY <1>1, MovesLog
  <1> QED
    BY <1>2, <1>3 DEF Extended

\* A move keeps the log an explanation of the row.
LEMMA MovesExplained ==
  ASSUME TypeInv, NEW next, Moves(next), Explained(commands[next.id], audit[next.id])
  PROVE  Explained(next, audit'[next.id])
  <1> DEFINE e == command_audit(commands[next.id].state, next.state)
             log == audit[next.id]
             n == Len(log)
  <1>1. /\ commands[next.id] \in Aggregate
        /\ allows_transition_to(commands[next.id].state, next.state)
        /\ audit'[next.id] = Append(log, e)
    BY MovesTables
  <1>2. log \in Seq(Log) /\ e \in Log /\ e.to = next.state /\ e.from = commands[next.id].state
    BY MovesLog
  <1>3. next.version = commands[next.id].version + 1 /\ commands[next.id].version \in Nat
    BY <1>1, AggregateFields DEF Moves
  <1>4. /\ n = commands[next.id].version + 1
        /\ log[1] = command_audit("None", "Received")
        /\ log[n].to = commands[next.id].state
        /\ \A i \in 2..n : /\ log[i].from = log[i - 1].to
                           /\ allows_transition_to(log[i].from, log[i].to)
    BY DEF Explained
  <1> HIDE DEF e, log
  <1>5. /\ n \in Nat /\ n >= 1
        /\ Len(Append(log, e)) = n + 1
        /\ \A i \in 1..n : Append(log, e)[i] = log[i]
        /\ Append(log, e)[n + 1] = e
    BY <1>2, <1>3, <1>4
  <1> DEFINE m == Append(log, e)
  <1> HIDE DEF m
  <1>6. Len(m) = next.version + 1 /\ m[1] = command_audit("None", "Received")
    BY <1>3, <1>4, <1>5 DEF m
  <1>7. m[Len(m)].to = next.state
    BY <1>2, <1>5 DEF m
  <1>8. ASSUME NEW i \in 2..Len(m)
        PROVE  m[i].from = m[i - 1].to /\ allows_transition_to(m[i].from, m[i].to)
    <2>1. CASE i = n + 1
      <3>1. m[i] = e /\ i - 1 = n /\ m[n] = log[n]
        BY <1>5, <2>1 DEF m
      <3> QED
        BY <1>1, <1>2, <1>4, <3>1
    <2>2. CASE i # n + 1
      <3>1. i \in 2..n /\ i \in 1..n /\ i - 1 \in 1..n
        BY <1>5, <2>2 DEF m
      <3>2. m[i] = log[i] /\ m[i - 1] = log[i - 1]
        BY <1>5, <3>1 DEF m
      <3> QED
        BY <1>4, <3>1, <3>2
    <2> QED
      BY <2>1, <2>2
  <1> QED
    BY <1>1, <1>6, <1>7, <1>8 DEF Explained, m

\* A move keeps every row explained and governed, when a dry run is not what is
\* dispatched.
LEMMA MovesRows ==
  ASSUME TypeInv, RowsOK(commands, audit), NEW next, Moves(next),
         next.state = "Dispatched" => ~next.req.dryRun
  PROVE  RowsOK(commands', audit')
  <1>1. /\ next \in Aggregate /\ next.id \in CommandIds
        /\ commands[next.id] \in Aggregate
        /\ next.req = commands[next.id].req
        /\ allows_transition_to(commands[next.id].state, next.state)
        /\ \A i \in CommandIds : commands'[i] = IF i = next.id THEN next ELSE commands[i]
        /\ \A i \in CommandIds : i # next.id => audit'[i] = audit[i]
    BY MovesTables
  <1>2. ASSUME NEW i \in CommandIds, i # next.id PROVE RowOK(i, commands'[i], audit'[i])
    BY <1>1, <1>2 DEF RowsOK
  <1>3. RowOK(next.id, commands[next.id], audit[next.id]) /\ commands[next.id] # None
    BY <1>1, AggregateFields DEF RowsOK
  <1>4. Explained(next, audit'[next.id])
    BY <1>3, MovesExplained DEF RowOK
  <1>5. Governed(next, audit'[next.id])
    <2> SUFFICES ASSUME DispatchedIn(audit'[next.id])
                 PROVE  /\ next.policy = "Allowed"
                        /\ ~next.req.dryRun
                        /\ next.state \notin Undispatched
      BY DEF Governed
    <2>1. CASE next.state = "Dispatched"
      BY <2>1 DEF Moves, transition_allowed, Undispatched
    <2>2. CASE DispatchedIn(audit[next.id])
      <3>1. /\ commands[next.id].policy = "Allowed"
            /\ ~commands[next.id].req.dryRun
            /\ commands[next.id].state \notin Undispatched
        BY <1>3, <2>2 DEF RowOK, Governed
      <3>2. next.state \notin Undispatched
        BY <1>1, <3>1 DEF allows_transition_to, Undispatched
      <3>3. next.policy = commands[next.id].policy
        BY <3>1 DEF Moves, Undispatched
      <3> QED
        BY <1>1, <3>1, <3>2, <3>3
    <2> QED
      BY <2>1, <2>2, MovesLog
  <1>6. next # None
    BY <1>1, AggregateFields
  <1>7. RowOK(next.id, next, audit'[next.id])
    BY <1>4, <1>5, <1>6 DEF RowOK
  <1> QED
    BY <1>1, <1>2, <1>7 DEF RowsOK

\* A row whose command was not dispatched: the states before the dispatch.
LEMMA NotYetDispatched ==
  ASSUME RowsOK(commands, audit), NEW c \in CommandIds, commands[c] # None,
         commands[c].state \in Undispatched
  PROVE  ~DispatchedIn(audit[c])
  BY DEF RowsOK, RowOK, Governed

\* A move other than a dispatch, or of a command without a projection, leaves
\* the slots right about their commands.
LEMMA MovesSlots ==
  ASSUME TypeInv, SlotsOK(commands, audit, slots), NEW next, Moves(next),
         next.state # "Dispatched" \/ ~projection_for(next)
  PROVE  SlotsOK(commands', audit', slots)
  <1>1. /\ next \in Aggregate /\ next.id \in CommandIds
        /\ commands[next.id] \in Aggregate
        /\ next.req = commands[next.id].req
        /\ \A i \in CommandIds : commands'[i] = IF i = next.id THEN next ELSE commands[i]
        /\ \A i \in CommandIds : i # next.id => audit'[i] = audit[i]
    BY MovesTables
  <1>2. next.payload = commands[next.id].payload /\ next # None
    BY <1>1, AggregateFields DEF Moves
  <1>3. projection_for(next) <=> projection_for(commands[next.id])
    BY <1>1, <1>2 DEF projection_for
  <1> SUFFICES ASSUME NEW d \in Devices, slots[d] # None
               PROVE  SlotOK(commands', audit', d, slots[d])
    BY DEF SlotsOK, SlotOK
  <1>4. slots[d].command \in CommandIds /\ SlotOK(commands, audit, d, slots[d])
    BY Tables DEF SlotsOK, Slot
  <1>5. CASE slots[d].command # next.id
    BY <1>1, <1>4, <1>5 DEF SlotOK
  <1>6. CASE slots[d].command = next.id
    <2>1. projection_for(commands[next.id])
      BY <1>4, <1>6 DEF SlotOK
    <2>2. next.state # "Dispatched"
      BY <1>3, <2>1
    <2>3. DispatchedIn(audit'[next.id]) <=> DispatchedIn(audit[next.id])
      BY <2>2, MovesLog
    <2>4. commands'[next.id] = next
      BY <1>1
    <2> HIDE DEF Moves
    <2> QED
      BY <1>1, <1>2, <1>3, <1>4, <1>6, <2>3, <2>4 DEF SlotOK
  <1> QED
    BY <1>5, <1>6

\* A move without the reason of a supersession keeps the links: a cancelled
\* command never moves again.
LEMMA MovesLinks ==
  ASSUME TypeInv, LinksOK(commands, supersessions), NEW next, Moves(next),
         next.failure # "SupersededBeforeDispatch"
  PROVE  LinksOK(commands', supersessions)
  <1>1. /\ next \in Aggregate /\ next.id \in CommandIds
        /\ commands[next.id] \in Aggregate
        /\ next.req = commands[next.id].req
        /\ allows_transition_to(commands[next.id].state, next.state)
        /\ \A i \in CommandIds : commands'[i] = IF i = next.id THEN next ELSE commands[i]
    BY MovesTables
  <1>2. commands[next.id].state # "Cancelled" /\ next # None /\ commands[next.id] # None
    BY <1>1, AggregateFields DEF allows_transition_to
  <1>3. \A e \in CommandIds : <<next.id, e>> \notin supersessions
    BY <1>1, <1>2 DEF LinksOK
  <1>4. \A i \in CommandIds : /\ commands'[i] = None <=> commands[i] = None
                              /\ commands[i] # None => commands'[i].req = commands[i].req
    BY <1>1, <1>2
  <1>5. \A c, e \in CommandIds : <<c, e>> \in supersessions =>
          /\ commands'[c] # None /\ commands'[e] # None
          /\ commands'[c].state = "Cancelled"
          /\ commands'[c].failure = "SupersededBeforeDispatch"
          /\ commands'[e].req.device = commands'[c].req.device
    BY <1>1, <1>3, <1>4 DEF LinksOK
  <1>6. \A c \in CommandIds :
          commands'[c] # None /\ commands'[c].failure = "SupersededBeforeDispatch"
            => \E e \in CommandIds : <<c, e>> \in supersessions
    BY <1>1 DEF LinksOK
  <1> QED
    BY <1>5, <1>6 DEF LinksOK

\* A move other than the dispatch of a Matter unlock keeps the authorizations
\* bound to their commands.
LEMMA MovesAuths ==
  ASSUME TypeInv, AuthsOK(commands, audit, slots, authorizations), NEW next, Moves(next),
         next.state = "Dispatched" /\ next.payload = "Unlock" => next.req.device \notin Managed,
         NEW table, \A d \in Devices : slots[d] # None =>
                      table[d] # None /\ table[d].command = slots[d].command
  PROVE  AuthsOK(commands', audit', table, authorizations)
  <1>1. /\ next \in Aggregate /\ next.id \in CommandIds
        /\ commands[next.id] \in Aggregate
        /\ next.req = commands[next.id].req
        /\ \A i \in CommandIds : commands'[i] = IF i = next.id THEN next ELSE commands[i]
        /\ \A i \in CommandIds : i # next.id => audit'[i] = audit[i]
    BY MovesTables
  <1>2. next.payload = commands[next.id].payload /\ next # None /\ commands[next.id] # None
    BY <1>1, AggregateFields DEF Moves
  <1>3. \A i \in CommandIds : /\ commands'[i] = None <=> commands[i] = None
                              /\ commands[i] # None => /\ commands'[i].req = commands[i].req
                                                       /\ commands'[i].payload = commands[i].payload
    BY <1>1, <1>2
  <1>4. \A i \in CommandIds : DispatchedIn(audit[i]) => DispatchedIn(audit'[i])
    BY MovesExtend DEF Extended
  <1>5. \A i \in CommandIds : commands[i] # None => commands[i].req.device \in Devices
    BY Tables, AggregateFields
  <1>6. ASSUME NEW x \in AuthIds PROVE AuthOK(commands', audit', table, authorizations[x])
    <2>1. AuthOK(commands, audit, slots, authorizations[x])
      BY DEF AuthsOK
    <2>2. authorizations[x] # None => authorizations[x].command \in CommandIds
      BY Tables DEF Authorization
    <2> HIDE DEF Moves
    <2> QED
      BY <1>3, <1>4, <1>5, <2>1, <2>2 DEF AuthOK
  <1>7. ASSUME NEW c \in CommandIds, commands'[c] # None, DispatchedIn(audit'[c]),
               commands'[c].payload = "Unlock", commands'[c].req.device \in Managed
        PROVE  \E x \in AuthIds : ConsumedBy(authorizations, x, c)
                                    /\ authorizations[x].approver \in Users
    <2>1. commands[c] # None /\ commands[c].payload = "Unlock" /\ commands[c].req.device \in Managed
      BY <1>3, <1>7
    <2>2. DispatchedIn(audit[c])
      BY <1>1, <1>2, <1>7, <2>1, MovesLog
    <2> QED
      BY <2>1, <2>2 DEF AuthsOK
  <1> QED
    BY <1>6, <1>7 DEF AuthsOK

-----------------------------------------------------------------------------
(* What a call knows survives the steps of the others.                      *)

\* Unchanged tables are extended tables.
LEMMA SameExtends ==
  ASSUME UNCHANGED <<commands, audit>>
  PROVE  Extended(commands, audit, commands', audit')
  BY DEF Extended

\* What a call knows of its command stays true of extended tables.
LEMMA SoundKept ==
  ASSUME NEW rows, NEW logs, NEW rows2, NEW logs2, Extended(rows, logs, rows2, logs2),
         NEW r, ThreadOK(r), Sound(rows, logs, r)
  PROVE  Sound(rows2, logs2, r)
  <1> SUFFICES ASSUME r.pc # "idle" PROVE Sound(rows2, logs2, r)
    BY DEF Sound
  <1>1. r.own \in Aggregate /\ r.view.prior \in Aggregate \cup {None} /\ r.own.id \in CommandIds
    BY CallFields, AggregateFields
  <1>2. CopyOf(rows2, r.own)
    BY <1>1 DEF Sound, Extended
  <1>3. r.view.prior # None => CopyOf(rows2, r.view.prior)
    BY <1>1 DEF Sound, Extended
  <1>4. r.pc = "adapter" => DispatchedIn(logs2[r.own.id])
    BY <1>1 DEF Sound, Extended
  <1> QED
    BY <1>2, <1>3, <1>4 DEF Sound

\* A call that is not running knows nothing.
LEMMA IdleSound ==
  ASSUME NEW rows, NEW logs
  PROVE  Sound(rows, logs, Idle)
  BY IdleType DEF Sound

\* The calls stay sound when each is idle, as it was, or sound.
LEMMA CallsKept ==
  ASSUME TypeInv, CallsSound(commands, audit, call),
         Extended(commands, audit, commands', audit'),
         \A t \in Threads : \/ call'[t] = Idle
                            \/ call'[t] = call[t]
                            \/ Sound(commands', audit', call'[t])
  PROVE  CallsSound(commands', audit', call')
  <1> SUFFICES ASSUME NEW t \in Threads PROVE Sound(commands', audit', call'[t])
    BY DEF CallsSound
  <1>1. ThreadOK(call[t]) /\ Sound(commands, audit, call[t])
    BY Tables DEF CallsSound
  <1>2. Sound(commands', audit', call[t])
    BY <1>1, SoundKept
  <1> QED
    BY <1>2, IdleSound

\* The page of recover stays sound while it only shrinks.
LEMMA PageKept ==
  ASSUME TypeInv, PageSound(commands, page), Extended(commands, audit, commands', audit'),
         page' \subseteq page
  PROVE  PageSound(commands', page')
  BY Tables DEF PageSound, Extended

\* What was sent stays dispatched.
LEMMA SentKept ==
  ASSUME SentOK(audit, sent), Extended(commands, audit, commands', audit'), UNCHANGED sent
  PROVE  SentOK(audit', sent')
  BY DEF SentOK, Extended

\* A step of a call that stores nothing.
LEMMA QuietGovernance ==
  ASSUME TypeInv, GovernanceInv,
         UNCHANGED <<commands, audit, slots, authorizations, supersessions>>,
         page' \subseteq page,
         SentOK(audit, sent'),
         \A t \in Threads : \/ call'[t] = Idle
                            \/ call'[t] = call[t]
                            \/ Sound(commands, audit, call'[t])
  PROVE  GovernanceInv'
  <1>1. Extended(commands, audit, commands', audit')
    BY SameExtends
  <1>2. CallsSound(commands', audit', call')
    BY <1>1, CallsKept DEF GovernanceInv
  <1>3. PageSound(commands', page')
    BY <1>1, PageKept DEF GovernanceInv
  <1> QED
    BY <1>2, <1>3 DEF GovernanceInv

\* An error return ends one call or the process; the page only shrinks.
LEMMA FailCalls ==
  ASSUME TypeInv, NEW k \in Threads, Fail(k)
  PROVE  /\ \A t \in Threads : call'[t] = Idle \/ call'[t] = call[t]
         /\ page' \subseteq page
  BY FailType DEF Fail, Return, process

\* A call that goes on to a sound state, with everything else unchanged.
LEMMA GotoGovernance ==
  ASSUME TypeInv, GovernanceInv, NEW k \in Threads, NEW r, Goto(k, r),
         Sound(commands, audit, r),
         UNCHANGED <<commands, audit, slots, authorizations, supersessions>>,
         page' \subseteq page,
         SentOK(audit, sent')
  PROVE  GovernanceInv'
  <1>1. \A t \in Threads : call'[t] = IF t = k THEN r ELSE call[t]
    BY Tables DEF Goto
  <1> QED
    BY <1>1, QuietGovernance

\* An error return of a call, with everything else unchanged.
LEMMA FailGovernance ==
  ASSUME TypeInv, GovernanceInv, NEW k \in Threads, Fail(k),
         UNCHANGED <<commands, audit, slots, authorizations, supersessions, sent>>
  PROVE  GovernanceInv'
  BY FailCalls, QuietGovernance DEF GovernanceInv

\* A failed registration attempt.
LEMMA AttemptGovernance ==
  ASSUME TypeInv, GovernanceInv, NEW k \in Threads, AttemptFailed(k),
         call[k].pc \in {"register", "replace"},
         UNCHANGED <<commands, audit, slots, authorizations, supersessions, sent>>
  PROVE  GovernanceInv'
  <1>1. CASE Fail(k)
    BY <1>1, FailGovernance
  <1>2. CASE ~Fail(k)
    <2> DEFINE r == [call[k] EXCEPT !.pc = "register", !.tries = @ + 1, !.view = NoView]
    <2>1. Goto(k, r) /\ UNCHANGED page
      BY <1>2 DEF AttemptFailed, process
    <2>2. call[k] \in Call /\ Sound(commands, audit, call[k])
      BY Tables DEF GovernanceInv, CallsSound
    <2>3. /\ r.pc = "register" /\ r.own = call[k].own /\ r.failure = call[k].failure
          /\ r.view = NoView /\ NoView.prior = None
      BY <2>2 DEF Call, NoView
    <2> HIDE DEF r
    <2>4. Sound(commands, audit, r)
      BY <2>2, <2>3 DEF Sound
    <2>5. SentOK(audit, sent')
      BY DEF GovernanceInv
    <2> QED
      BY <2>1, <2>4, <2>5, GotoGovernance
  <1> QED
    BY <1>1, <1>2

\* A sound call may be about to store its aggregate; a dispatch needs a command
\* that is neither a dry run nor governed by a slot.
LEMMA WritingSound ==
  ASSUME TypeInv, GovernanceInv, NEW k \in Threads, call[k].pc # "idle",
         NEW g, NEW f, NEW n, f # "SupersededBeforeDispatch",
         g = "Dispatched" => ~call[k].own.req.dryRun /\ ~projection_for(call[k].own)
  PROVE  Sound(commands, audit, Writing(k, g, f, n))
  <1>1. call[k] \in Call /\ Sound(commands, audit, call[k])
    BY Tables DEF GovernanceInv, CallsSound
  <1> DEFINE r == Writing(k, g, f, n)
  <1>2. /\ r.pc = "write" /\ r.own = call[k].own /\ r.failure = f /\ r.goal = g
        /\ r.view = call[k].view
    BY <1>1 DEF Writing, Call
  <1> HIDE DEF r
  <1>3. Sound(commands, audit, r)
    BY <1>1, <1>2 DEF Sound
  <1> QED
    BY <1>3 DEF r

-----------------------------------------------------------------------------
(* The steps that store nothing.                                            *)

\* Validation and policy: only the policy of the private copy changes.
LEMMA ContinueReceivedGovernance ==
  ASSUME TypeInv, GovernanceInv, NEW k \in Threads, continue_received(k)
  PROVE  GovernanceInv'
  <1> DEFINE c == call[k].own
             now == call[k].now
             denied == [Writing(k, "Rejected", "PolicyDenied", now)
                          EXCEPT !.own = [c EXCEPT !.policy = "Denied"]]
             allow == [Writing(k, "Validated", "None", now)
                          EXCEPT !.own = [c EXCEPT !.policy = "Allowed"]]
  <1>1. /\ call[k] \in Call /\ Sound(commands, audit, call[k]) /\ call[k].pc = "received"
        /\ c \in Aggregate
    BY Tables, CallFields DEF GovernanceInv, CallsSound, continue_received
  <1>2. CopyOf(commands, c) /\ c.state = "Received"
    BY <1>1 DEF Sound
  <1>3. Sound(commands, audit, Writing(k, "Rejected", "InvalidTarget", now))
    BY <1>1, WritingSound
  <1>4. ASSUME NEW p PROVE CopyOf(commands, [c EXCEPT !.policy = p])
    <2> DEFINE q == [c EXCEPT !.policy = p]
    <2>1. /\ q.id = c.id /\ q.req = c.req /\ q.payload = c.payload
          /\ q.version = c.version /\ q.state = c.state
      BY <1>1 DEF Aggregate
    <2> HIDE DEF q
    <2>2. CopyOf(commands, q)
      BY <1>2, <2>1 DEF CopyOf
    <2> QED
      BY <2>2 DEF q
  <1>5. ASSUME NEW p, NEW g, NEW f, f # "SupersededBeforeDispatch", g # "Dispatched"
        PROVE  Sound(commands, audit,
                     [Writing(k, g, f, now) EXCEPT !.own = [c EXCEPT !.policy = p]])
    <2> DEFINE q == [c EXCEPT !.policy = p]
               r == [Writing(k, g, f, now) EXCEPT !.own = q]
    <2>1. CopyOf(commands, q)
      BY <1>4
    <2> HIDE DEF q
    <2>2. /\ r.pc = "write" /\ r.own = q /\ r.failure = f /\ r.goal = g
          /\ r.view = call[k].view
      BY <1>1 DEF Writing, Call
    <2> HIDE DEF r
    <2>3. Sound(commands, audit, r)
      BY <1>1, <1>5, <2>1, <2>2 DEF Sound
    <2> QED
      BY <2>3 DEF r, q
  <1>6. Sound(commands, audit, denied) /\ Sound(commands, audit, allow)
    BY <1>5
  <1>7. \/ Goto(k, Writing(k, "Rejected", "InvalidTarget", now))
        \/ Goto(k, denied)
        \/ Goto(k, allow)
    BY DEF continue_received
  <1>8. /\ UNCHANGED <<commands, audit, slots, authorizations, supersessions, sent>>
        /\ page' = page
    BY DEF continue_received, durable, process
  <1>9. SentOK(audit, sent')
    BY <1>8 DEF GovernanceInv
  <1> HIDE DEF denied, allow
  <1> QED
    BY <1>3, <1>6, <1>7, <1>8, <1>9, GotoGovernance

\* Reading the slot: the prior command in the view is the stored row, and a
\* command without a projection goes straight to its dispatch.
LEMMA RegisterOnceGovernance ==
  ASSUME TypeInv, GovernanceInv, NEW k \in Threads, register_once(k)
  PROVE  GovernanceInv'
  <1> DEFINE c == call[k].own
             slot == slots[c.req.device]
             superseding == slot # None /\ ~slot.dispatched
             prior == IF superseding THEN commands[slot.command] ELSE None
             revision == IF slot = None THEN 1 ELSE slot.revision + 1
             look == [NoView EXCEPT !.revision = revision, !.prior = prior,
                        !.projection = projections[c.req.device].revision]
             commit == [call[k] EXCEPT !.pc = "commit"]
             replace == [call[k] EXCEPT !.pc = "replace", !.view = look]
  <1>1. /\ call[k] \in Call /\ Sound(commands, audit, call[k]) /\ call[k].pc = "register"
        /\ c \in Aggregate /\ c.req.device \in Devices
    BY Tables, CallFields, AggregateFields DEF GovernanceInv, CallsSound, register_once
  <1>2. ~c.req.dryRun
    BY <1>1 DEF Sound
  <1>3. prior # None => CopyOf(commands, prior)
    <2> SUFFICES ASSUME superseding PROVE CopyOf(commands, commands[slot.command])
      OBVIOUS
    <2>1. slot.command \in CommandIds /\ SlotOK(commands, audit, c.req.device, slot)
      BY <1>1, Tables DEF GovernanceInv, SlotsOK, Slot
    <2>2. commands[slot.command] # None
      BY <2>1 DEF SlotOK
    <2>3. commands[slot.command] \in Aggregate
      BY <2>1, <2>2, Tables
    <2>4. commands[slot.command].id = slot.command /\ commands[slot.command].version \in Nat
      BY <2>1, <2>2, <2>3, AggregateFields DEF GovernanceInv, RowsOK, RowOK
    <2> HIDE DEF slot
    <2> QED
      BY <2>2, <2>4 DEF CopyOf
  <1> HIDE DEF prior, revision
  <1>4. look.prior = prior
    BY DEF NoView
  <1> HIDE DEF look
  <1>5. /\ commit.pc = "commit" /\ commit.own = c /\ commit.failure = call[k].failure
        /\ commit.view = call[k].view
        /\ replace.pc = "replace" /\ replace.own = c /\ replace.failure = call[k].failure
        /\ replace.view = look
    BY <1>1 DEF Call
  <1>6. /\ UNCHANGED <<commands, audit, slots, authorizations, supersessions, sent>>
    BY DEF register_once, durable
  <1>7. SentOK(audit, sent')
    BY <1>6 DEF GovernanceInv
  <1>8. \/ /\ ~projection_for(c)
           /\ Goto(k, Writing(k, "Dispatched", "None", call[k].now)) /\ UNCHANGED process
        \/ projection_for(c) /\ Goto(k, commit) /\ UNCHANGED process
        \/ AttemptFailed(k)
        \/ projection_for(c) /\ Goto(k, replace) /\ UNCHANGED process
    BY DEF register_once, look, prior, revision
  <1> HIDE DEF commit, replace
  <1>9. UNCHANGED process => page' \subseteq page
    BY DEF process
  <1>10. CASE projection_for(c) /\ Goto(k, commit) /\ UNCHANGED process
    <2>1. Sound(commands, audit, commit)
      BY <1>1, <1>2, <1>5, <1>10 DEF Sound
    <2> QED
      BY <1>6, <1>7, <1>9, <1>10, <2>1, GotoGovernance
  <1>11. CASE projection_for(c) /\ Goto(k, replace) /\ UNCHANGED process
    <2>1. Sound(commands, audit, replace)
      BY <1>1, <1>2, <1>3, <1>4, <1>5, <1>11 DEF Sound
    <2> QED
      BY <1>6, <1>7, <1>9, <1>11, <2>1, GotoGovernance
  <1>12. CASE /\ ~projection_for(c)
              /\ Goto(k, Writing(k, "Dispatched", "None", call[k].now)) /\ UNCHANGED process
    <2>1. Sound(commands, audit, Writing(k, "Dispatched", "None", call[k].now))
      BY <1>1, <1>2, <1>12, WritingSound
    <2> QED
      BY <1>6, <1>7, <1>9, <1>12, <2>1, GotoGovernance
  <1>13. CASE AttemptFailed(k)
    BY <1>1, <1>6, <1>13, AttemptGovernance
  <1> QED
    BY <1>8, <1>10, <1>11, <1>12, <1>13

\* A command that owns its slot and is no unlock goes on to record its dispatch.
LEMMA CommitGovernance ==
  ASSUME TypeInv, GovernanceInv, NEW k \in Threads, commit_dispatch(k)
  PROVE  GovernanceInv'
  <1> DEFINE c == call[k].own
             r == [call[k] EXCEPT !.pc = "record"]
  <1>1. call[k] \in Call /\ Sound(commands, audit, call[k]) /\ call[k].pc = "commit"
    BY Tables DEF GovernanceInv, CallsSound, commit_dispatch
  <1>2. r.pc = "record" /\ r.own = c /\ r.failure = call[k].failure /\ r.view = call[k].view
    BY <1>1 DEF Call
  <1>3. /\ UNCHANGED <<commands, audit, slots, authorizations, supersessions, sent>>
        /\ page' \subseteq page
    BY DEF commit_dispatch, durable, Return, process
  <1>4. SentOK(audit, sent')
    BY <1>3 DEF GovernanceInv
  <1>5. Goto(k, Idle) \/ (c.payload # "Unlock" /\ Goto(k, r))
    BY DEF commit_dispatch, Return
  <1> HIDE DEF r
  <1>6. c.payload # "Unlock" => Sound(commands, audit, r)
    BY <1>1, <1>2 DEF Sound
  <1> QED
    BY <1>3, <1>4, <1>5, <1>6, IdleSound, GotoGovernance

\* The adapter is invoked for a command whose dispatch is in its log.
LEMMA AdapterGovernance ==
  ASSUME TypeInv, GovernanceInv, NEW k \in Threads, adapter_dispatch(k)
  PROVE  GovernanceInv'
  <1> DEFINE r == [call[k] EXCEPT !.pc = "reply"]
             w == Writing(k, "Failed", "AdapterFailure", clock)
             id == call[k].own.id
  <1>1. /\ call[k] \in Call /\ Sound(commands, audit, call[k]) /\ call[k].pc = "adapter"
        /\ id \in CommandIds
    BY Tables, CallFields, AggregateFields DEF GovernanceInv, CallsSound, adapter_dispatch
  <1>2. r.pc = "reply" /\ r.own = call[k].own /\ r.failure = call[k].failure /\ r.view = call[k].view
    BY <1>1 DEF Call
  <1>3. UNCHANGED <<commands, audit, slots, authorizations, supersessions>> /\ page' \subseteq page
    BY DEF adapter_dispatch, durable, process
  <1>4. Sound(commands, audit, w)
    BY <1>1, WritingSound
  <1>5. \/ sent' = [sent EXCEPT ![id] = @ + 1] /\ Goto(k, r)
        \/ Goto(k, w) /\ UNCHANGED sent
    BY DEF adapter_dispatch
  <1> HIDE DEF r, w
  <1>6. Sound(commands, audit, r)
    BY <1>1, <1>2 DEF Sound
  <1>7. SentOK(audit, sent')
    <2>1. DispatchedIn(audit[id])
      BY <1>1 DEF Sound
    <2>2. \A c \in CommandIds : c # id => sent'[c] = sent[c]
      BY <1>5, Tables
    <2> QED
      BY <2>1, <2>2 DEF GovernanceInv, SentOK
  <1> QED
    BY <1>3, <1>4, <1>5, <1>6, <1>7, GotoGovernance

\* The answers of the adapter and of the confirmation decide what is stored next.
LEMMA AnswerGovernance ==
  ASSUME TypeInv, GovernanceInv, NEW k \in Threads, dispatch_committed(k) \/ confirm(k)
  PROVE  GovernanceInv'
  <1>1. call[k].pc # "idle"
    BY DEF dispatch_committed, confirm
  <1>2. /\ UNCHANGED <<commands, audit, slots, authorizations, supersessions, sent>>
        /\ page' \subseteq page
    BY DEF dispatch_committed, confirm, durable, process
  <1>3. SentOK(audit, sent')
    BY <1>2 DEF GovernanceInv
  <1>4. Goto(k, Idle) \/ \E g, f, n : /\ g # "Dispatched"
                                      /\ f # "SupersededBeforeDispatch"
                                      /\ Goto(k, Writing(k, g, f, n))
    BY DEF dispatch_committed, confirm
  <1>5. CASE Goto(k, Idle)
    BY <1>2, <1>3, <1>5, IdleSound, GotoGovernance
  <1>6. ASSUME NEW g, NEW f, NEW n, g # "Dispatched", f # "SupersededBeforeDispatch",
               Goto(k, Writing(k, g, f, n))
        PROVE  GovernanceInv'
    <2>1. Sound(commands, audit, Writing(k, g, f, n))
      BY <1>1, <1>6, WritingSound
    <2> QED
      BY <1>2, <1>3, <1>6, <2>1, GotoGovernance
  <1> QED
    BY <1>4, <1>5, <1>6

\* The approval policy reads the slot.
LEMMA AuthorizeUnlockGovernance ==
  ASSUME TypeInv, GovernanceInv, NEW k \in Threads, authorize_unlock(k)
  PROVE  GovernanceInv'
  <1> DEFINE v == [call[k].view EXCEPT !.revision = slots[call[k].own.req.device].revision]
             r == [call[k] EXCEPT !.pc = "authorize", !.view = v]
  <1>1. /\ call[k] \in Call /\ Sound(commands, audit, call[k]) /\ call[k].pc = "approve"
        /\ call[k].view \in View
    BY Tables DEF GovernanceInv, CallsSound, authorize_unlock, Call
  <1>2. v.prior = call[k].view.prior
    BY <1>1 DEF View
  <1>3. UNCHANGED <<commands, audit, slots, authorizations, supersessions, sent>>
    BY DEF authorize_unlock, durable
  <1>4. SentOK(audit, sent') /\ page' \subseteq page
    BY <1>3 DEF GovernanceInv, authorize_unlock, Return, process
  <1>5. Goto(k, Idle) \/ Goto(k, r)
    BY <1>1 DEF authorize_unlock, Return
  <1> HIDE DEF v
  <1>6. r.pc = "authorize" /\ r.own = call[k].own /\ r.failure = call[k].failure /\ r.view = v
    BY <1>1 DEF Call
  <1> HIDE DEF r
  <1>7. Sound(commands, audit, r)
    BY <1>1, <1>2, <1>6 DEF Sound
  <1> QED
    BY <1>3, <1>4, <1>5, <1>7, IdleSound, GotoGovernance

-----------------------------------------------------------------------------
(* The steps that store.                                                    *)

\* The written row is its own copy in the new table.
LEMMA WrittenCopy ==
  ASSUME TypeInv, NEW next, Moves(next)
  PROVE  CopyOf(commands', next)
  <1>1. next \in Aggregate /\ next.id \in CommandIds /\ commands'[next.id] = next
    BY MovesTables
  <1> QED
    BY <1>1, AggregateFields DEF CopyOf

\* What a call does after a durable transition is sound.
LEMMA AfterTransitionSound ==
  ASSUME TypeInv, GovernanceInv, NEW k \in Threads, call[k].pc # "idle",
         NEW next, Moves(next)
  PROVE  Sound(commands', audit', AfterTransition(k, next))
  <1> DEFINE r == AfterTransition(k, next)
  <1>1. /\ call[k] \in Call /\ ThreadOK(call[k]) /\ Sound(commands, audit, call[k])
    BY Tables DEF GovernanceInv, CallsSound
  <1>2. CopyOf(commands', next) /\ next.id \in CommandIds
    BY WrittenCopy, MovesTables
  <1>3. /\ call[k].failure # "SupersededBeforeDispatch"
        /\ call[k].view.prior # None => CopyOf(commands', call[k].view.prior)
    <2>1. Extended(commands, audit, commands', audit')
      BY MovesExtend
    <2>2. Sound(commands', audit', call[k])
      BY <1>1, <2>1, SoundKept
    <2> QED
      BY <2>2 DEF Sound
  <1>4. CASE next.state = "Validated" /\ ~next.req.dryRun
    <2>1. r = Dispatching(k, next)
      BY <1>4 DEF AfterTransition
    <2>2. /\ r.own = next /\ r.view = call[k].view
          /\ r.failure \in {call[k].failure, "DeadlineExceeded"}
          /\ r.pc = "register" \/ (r.pc = "write" /\ r.goal = "TimedOut")
      BY <1>1, <2>1 DEF Dispatching, Call
    <2> HIDE DEF r
    <2> QED
      BY <1>2, <1>3, <1>4, <2>2 DEF Sound, r
  <1>5. CASE next.state = "Dispatched"
    <2>1. r = [call[k] EXCEPT !.pc = "adapter", !.own = next, !.goal = "None"]
      BY <1>5 DEF AfterTransition
    <2>2. r.own = next /\ r.view = call[k].view /\ r.failure = call[k].failure /\ r.pc = "adapter"
      BY <1>1, <2>1 DEF Call
    <2>3. DispatchedIn(audit'[next.id])
      BY <1>5, MovesLog
    <2> HIDE DEF r
    <2> QED
      BY <1>2, <1>3, <2>2, <2>3 DEF Sound, r
  <1>6. CASE next.state = "Acknowledged"
    <2>1. r = [call[k] EXCEPT !.pc = "confirm", !.own = next, !.goal = "None", !.now = clock]
      BY <1>6 DEF AfterTransition
    <2>2. r.own = next /\ r.view = call[k].view /\ r.failure = call[k].failure /\ r.pc = "confirm"
      BY <1>1, <2>1 DEF Call
    <2> HIDE DEF r
    <2> QED
      BY <1>2, <1>3, <2>2 DEF Sound, r
  <1>7. CASE /\ ~(next.state = "Validated" /\ ~next.req.dryRun)
             /\ next.state # "Dispatched"
             /\ next.state # "Acknowledged"
    <2>1. r = Idle
      BY <1>7 DEF AfterTransition
    <2> QED
      BY <2>1, IdleSound
  <1> QED
    BY <1>4, <1>5, <1>6, <1>7

\* Every plain lifecycle write.
LEMMA TransitionGovernance ==
  ASSUME TypeInv, GovernanceInv, NEW k \in Threads, transition(k)
  PROVE  GovernanceInv'
  <1> DEFINE c == call[k].own
             next == transitioned(c, call[k].goal, call[k].failure, call[k].now)
  <1>1. /\ call[k].pc = "write" /\ c \in Aggregate /\ Sound(commands, audit, call[k])
        /\ call[k].goal \in States /\ call[k].failure \in Failures /\ call[k].now \in Nat
    BY Tables, CallFields DEF transition, GovernanceInv, CallsSound
  <1>2. UNCHANGED <<slots, authorizations, supersessions, sent>>
    BY DEF transition
  <1>3. CASE /\ transition_allowed(next, c.version)
             /\ transition_command(next)
             /\ Goto(k, AfterTransition(k, next))
             /\ UNCHANGED process
    <2>1. /\ Moves(next) /\ next.id = c.id /\ next.req = c.req /\ next.payload = c.payload
          /\ next.state = call[k].goal /\ next.failure = call[k].failure
      BY <1>1, <1>3, WrittenMoves DEF Sound
    <2>2. Goto(k, AfterTransition(k, next))
      BY <1>3
    <2> HIDE DEF next
    <2>3. next.state = "Dispatched" => ~next.req.dryRun /\ ~projection_for(next)
      BY <1>1, <2>1 DEF Sound, projection_for
    <2>4. next.failure # "SupersededBeforeDispatch"
      BY <1>1, <2>1 DEF Sound
    <2>5. next.state = "Dispatched" /\ next.payload = "Unlock" => next.req.device \notin Managed
      BY <2>3 DEF projection_for, is_replaceable
    <2>6. Extended(commands, audit, commands', audit')
      BY <2>1, MovesExtend
    <2>7. RowsOK(commands', audit')
      BY <2>1, <2>3, MovesRows DEF GovernanceInv
    <2>8. SlotsOK(commands', audit', slots')
      BY <1>2, <2>1, <2>3, MovesSlots DEF GovernanceInv
    <2>9. LinksOK(commands', supersessions')
      BY <1>2, <2>1, <2>4, MovesLinks DEF GovernanceInv
    <2>10. AuthsOK(commands', audit', slots', authorizations')
      BY <1>2, <2>1, <2>5, MovesAuths DEF GovernanceInv
    <2>11. CallsSound(commands', audit', call')
      <3>1. Sound(commands', audit', AfterTransition(k, next))
        BY <1>1, <2>1, AfterTransitionSound
      <3>2. \A t \in Threads : call'[t] = IF t = k THEN AfterTransition(k, next) ELSE call[t]
        BY <2>2, Tables DEF Goto
      <3> QED
        BY <2>6, <3>1, <3>2, CallsKept DEF GovernanceInv
    <2>12. PageSound(commands', page')
      BY <1>3, <2>6, PageKept DEF GovernanceInv, process
    <2>13. SentOK(audit', sent')
      BY <1>2, <2>6, SentKept DEF GovernanceInv
    <2> QED
      BY <2>7, <2>8, <2>9, <2>10, <2>11, <2>12, <2>13 DEF GovernanceInv
  <1>4. CASE Fail(k) /\ UNCHANGED <<commands, audit>>
    BY <1>2, <1>4, FailGovernance
  <1> HIDE DEF next
  <1> QED
    BY <1>3, <1>4 DEF transition, next

\* The durable dispatch of a slot's command: row, log and marker move together.
LEMMA RecordTables ==
  ASSUME TypeInv, GovernanceInv, NEW next, Moves(next), next.state = "Dispatched",
         NEW e \in Nat, dispatch_recordable(next, e), record_dispatch(next)
  PROVE  /\ RowsOK(commands', audit')
         /\ SlotsOK(commands', audit', slots')
         /\ ~next.req.dryRun
         /\ \A d \in Devices : slots[d] # None =>
              slots'[d] # None /\ slots'[d].command = slots[d].command
  <1> DEFINE dev == next.req.device
  <1>1. /\ next \in Aggregate /\ next.id \in CommandIds
        /\ commands[next.id] \in Aggregate
        /\ next.req = commands[next.id].req
        /\ \A i \in CommandIds : commands'[i] = IF i = next.id THEN next ELSE commands[i]
        /\ \A i \in CommandIds : i # next.id => audit'[i] = audit[i]
    BY MovesTables
  <1>2. dev \in Devices /\ next # None
    BY <1>1, AggregateFields
  <1>3. slots[dev] # None /\ slots[dev].command = next.id /\ slots[dev] \in Slot
    BY <1>2, Tables DEF dispatch_recordable
  <1>4. SlotOK(commands, audit, dev, slots[dev])
    BY <1>2 DEF GovernanceInv, SlotsOK
  <1>5. ~next.req.dryRun
    BY <1>1, <1>3, <1>4 DEF SlotOK
  <1>6. RowsOK(commands', audit')
    BY <1>5, MovesRows DEF GovernanceInv
  <1>7. \A d \in Devices : slots'[d] = IF d = dev THEN [slots[dev] EXCEPT !.dispatched = TRUE]
                                       ELSE slots[d]
    BY <1>2, Tables DEF record_dispatch
  <1>8. /\ slots'[dev].command = next.id /\ slots'[dev].dispatched = TRUE
        /\ slots'[dev] \in Slot /\ slots'[dev] # None
    <2>1. slots'[dev] = [slots[dev] EXCEPT !.dispatched = TRUE]
      BY <1>2, <1>7
    <2>2. /\ slots'[dev].command = next.id /\ slots'[dev].dispatched = TRUE
          /\ slots'[dev] \in Slot
      BY <1>3, <2>1 DEF Slot
    <2> QED
      BY <2>2, NoneAssumption
  <1>9. next.payload = commands[next.id].payload
    BY DEF Moves
  <1>10. DispatchedIn(audit'[next.id])
    BY MovesLog
  <1>11. ASSUME NEW d \in Devices, slots'[d] # None
         PROVE  SlotOK(commands', audit', d, slots'[d])
    <2>1. CASE d = dev
      <3>1. projection_for(next)
        BY <1>1, <1>3, <1>4, <1>9 DEF SlotOK, projection_for
      <3>2. commands'[next.id] = next
        BY <1>1
      <3> QED
        BY <1>2, <1>5, <1>8, <1>10, <2>1, <3>1, <3>2 DEF SlotOK
    <2>2. CASE d # dev
      <3>1. slots'[d] = slots[d] /\ SlotOK(commands, audit, d, slots[d]) /\ slots[d] # None
        BY <1>7, <1>11, <2>2 DEF GovernanceInv, SlotsOK
      <3>2. slots[d].command # next.id /\ slots[d].command \in CommandIds
        BY <1>1, <2>2, <3>1, Tables DEF SlotOK, Slot
      <3> QED
        BY <1>1, <3>1, <3>2 DEF SlotOK
    <2> QED
      BY <2>1, <2>2
  <1>12. SlotsOK(commands', audit', slots')
    BY <1>11 DEF SlotsOK, SlotOK
  <1> QED
    BY <1>3, <1>5, <1>6, <1>7, <1>8, <1>12

\* The call that recorded the dispatch of its command goes to the adapter.
LEMMA RecordCalls ==
  ASSUME TypeInv, GovernanceInv, NEW next, Moves(next), next.state = "Dispatched",
         NEW k \in Threads, call[k].pc # "idle", NEW r, Goto(k, r),
         r.pc = "adapter", r.own = next, r.failure = call[k].failure,
         r.view \in {call[k].view, NoView}
  PROVE  CallsSound(commands', audit', call')
  <1>1. /\ ThreadOK(call[k]) /\ Sound(commands, audit, call[k])
        /\ Extended(commands, audit, commands', audit')
    BY Tables, MovesExtend DEF GovernanceInv, CallsSound
  <1>2. Sound(commands', audit', call[k])
    BY <1>1, SoundKept
  <1>3. CopyOf(commands', next) /\ DispatchedIn(audit'[next.id])
    BY WrittenCopy, MovesLog
  <1>4. NoView.prior = None
    BY DEF NoView
  <1>5. Sound(commands', audit', r)
    BY <1>2, <1>3, <1>4 DEF Sound
  <1>6. \A t \in Threads : call'[t] = IF t = k THEN r ELSE call[t]
    BY Tables DEF Goto
  <1> QED
    BY <1>1, <1>5, <1>6, CallsKept DEF GovernanceInv

\* record_matter_dispatch: never an unlock.
LEMMA RecordGovernance ==
  ASSUME TypeInv, GovernanceInv, NEW k \in Threads, record_matter_dispatch(k)
  PROVE  GovernanceInv'
  <1> DEFINE c == call[k].own
             next == transitioned(c, "Dispatched", "None", call[k].now)
             r == [call[k] EXCEPT !.pc = "adapter", !.own = next]
  <1>1. /\ call[k].pc = "record" /\ c \in Aggregate /\ Sound(commands, audit, call[k])
        /\ call[k].now \in Nat /\ call[k] \in Call /\ c.version \in Nat
    BY Tables, CallFields, AggregateFields DEF record_matter_dispatch, GovernanceInv, CallsSound
  <1>2. UNCHANGED <<authorizations, supersessions, sent>>
    BY DEF record_matter_dispatch
  <1>3. CASE /\ dispatch_recordable(next, c.version)
             /\ record_dispatch(next)
             /\ Goto(k, r)
             /\ UNCHANGED process
    <2>1. "Dispatched" \in States /\ "None" \in Failures
      BY DEF States, Failures
    <2>2. transition_allowed(next, c.version) /\ transition_command(next)
      BY <1>3 DEF dispatch_recordable, record_dispatch
    <2>3. /\ Moves(next) /\ next.id = c.id /\ next.req = c.req /\ next.payload = c.payload
          /\ next.state = "Dispatched" /\ next.failure = "None"
      BY <1>1, <2>1, <2>2, WrittenMoves DEF Sound
    <2>4. dispatch_recordable(next, c.version) /\ record_dispatch(next) /\ Goto(k, r)
      BY <1>3
    <2> HIDE DEF next
    <2>5. r.pc = "adapter" /\ r.own = next /\ r.failure = call[k].failure /\ r.view = call[k].view
      BY <1>1 DEF Call
    <2> HIDE DEF r
    <2>6. Extended(commands, audit, commands', audit')
      BY <2>3, MovesExtend
    <2>7. /\ RowsOK(commands', audit')
          /\ SlotsOK(commands', audit', slots')
          /\ \A d \in Devices : slots[d] # None =>
               slots'[d] # None /\ slots'[d].command = slots[d].command
      BY <1>1, <2>3, <2>4, RecordTables
    <2>8. next.payload # "Unlock"
      BY <1>1, <2>3 DEF Sound
    <2>9. LinksOK(commands', supersessions')
      BY <1>2, <2>3, MovesLinks DEF GovernanceInv
    <2>10. AuthsOK(commands', audit', slots', authorizations')
      BY <1>2, <2>3, <2>7, <2>8, MovesAuths DEF GovernanceInv
    <2>11. CallsSound(commands', audit', call')
      BY <1>1, <2>3, <2>4, <2>5, RecordCalls
    <2>12. PageSound(commands', page')
      BY <1>3, <2>6, PageKept DEF GovernanceInv, process
    <2>13. SentOK(audit', sent')
      BY <1>2, <2>6, SentKept DEF GovernanceInv
    <2> QED
      BY <2>7, <2>9, <2>10, <2>11, <2>12, <2>13 DEF GovernanceInv
  <1>4. CASE Fail(k) /\ UNCHANGED <<commands, audit, slots>>
    BY <1>2, <1>4, FailGovernance
  <1> HIDE DEF next
  <1> QED
    BY <1>3, <1>4 DEF record_matter_dispatch, next

\* Issuing an authorization: its command owns the slot it is bound to.
LEMMA CreateGovernance ==
  ASSUME TypeInv, GovernanceInv, NEW k \in Threads, NEW x \in AuthIds,
         create_unlock_authorization(k, x)
  PROVE  GovernanceInv'
  <1> DEFINE c == call[k].own
             view == call[k].view
             limit == call[k].now + AuthorizationLifetime
             expires == IF limit < c.req.deadline THEN limit ELSE c.req.deadline
             a == [command |-> c.id, device |-> c.req.device, revision |-> view.revision,
                   approver |-> view.approver, expires |-> expires, status |-> "Open"]
             v == [view EXCEPT !.auth = x]
             r == [call[k] EXCEPT !.pc = "unlock", !.view = v]
  <1>1. /\ call[k] \in Call /\ Sound(commands, audit, call[k]) /\ call[k].pc = "authorize"
        /\ c \in Aggregate /\ view \in View /\ c.id \in CommandIds /\ c.req.device \in Devices
    BY Tables, CallFields, AggregateFields
    DEF GovernanceInv, CallsSound, create_unlock_authorization, Call
  <1>2. UNCHANGED <<commands, audit, slots, supersessions, sent>> /\ authorizations[x] = None
    BY DEF create_unlock_authorization
  <1>3. CASE /\ unlock_bound(c, view.revision, view.approver)
             /\ authorizations' = [authorizations EXCEPT ![x] = a]
             /\ Goto(k, r)
             /\ UNCHANGED process
    <2>1. a.command = c.id /\ a.status = "Open"
      OBVIOUS
    <2>2. \A y \in AuthIds : authorizations'[y] = IF y = x THEN a ELSE authorizations[y]
      BY <1>3, Tables
    <2> HIDE DEF a
    <2>3. AuthOK(commands, audit, slots, a)
      <3>1. commands[c.id] # None /\ commands[c.id].req = c.req
        BY <1>1 DEF Sound, CopyOf
      <3>2. slots[c.req.device] # None /\ slots[c.req.device].command = c.id
        BY <1>3 DEF unlock_bound, current_slot_matches
      <3> QED
        BY <2>1, <3>1, <3>2 DEF AuthOK
    <2>4. \A y \in AuthIds, e \in CommandIds :
            ConsumedBy(authorizations', y, e) <=> ConsumedBy(authorizations, y, e)
      BY <1>2, <2>1, <2>2 DEF ConsumedBy
    <2>5. \A y \in AuthIds, e \in CommandIds : ConsumedBy(authorizations, y, e)
            => authorizations'[y].approver = authorizations[y].approver
      BY <1>2, <2>2 DEF ConsumedBy
    <2>6. \A y \in AuthIds : AuthOK(commands, audit, slots, authorizations'[y])
      BY <2>2, <2>3 DEF GovernanceInv, AuthsOK
    <2>7. AuthsOK(commands', audit', slots', authorizations')
      BY <1>2, <2>4, <2>5, <2>6 DEF GovernanceInv, AuthsOK
    <2>8. v.prior = view.prior
      BY <1>1 DEF View
    <2> HIDE DEF v
    <2>9. r.pc = "unlock" /\ r.own = c /\ r.failure = call[k].failure /\ r.view = v
      BY <1>1 DEF Call
    <2> HIDE DEF r
    <2>10. Sound(commands, audit, r)
      BY <1>1, <2>8, <2>9 DEF Sound
    <2>11. Extended(commands, audit, commands', audit')
      BY <1>2, SameExtends
    <2>12. CallsSound(commands', audit', call')
      <3>1. \A t \in Threads : call'[t] = IF t = k THEN r ELSE call[t]
        BY <1>3, Tables DEF Goto
      <3> QED
        BY <1>2, <2>10, <2>11, <3>1, CallsKept DEF GovernanceInv
    <2>13. PageSound(commands', page')
      BY <1>3, <2>11, PageKept DEF GovernanceInv, process
    <2> QED
      BY <1>2, <2>7, <2>12, <2>13 DEF GovernanceInv
  <1>4. CASE Fail(k) /\ UNCHANGED authorizations
    BY <1>2, <1>4, FailGovernance
  <1> QED
    BY <1>3, <1>4 DEF create_unlock_authorization

\* Consuming an authorization dispatches the command it is bound to: no other
\* was consumed for it, and its approver is a user.
LEMMA ConsumeAuths ==
  ASSUME TypeInv, GovernanceInv, NEW next, Moves(next), next.state = "Dispatched",
         NEW x \in AuthIds, authorizations[x] # None,
         authorizations[x].command = next.id, authorizations[x].status = "Open",
         authorizations[x].approver \in Users,
         authorizations' = [authorizations EXCEPT ![x].status = "Consumed"],
         \A d \in Devices : slots[d] # None =>
           slots'[d] # None /\ slots'[d].command = slots[d].command
  PROVE  AuthsOK(commands', audit', slots', authorizations')
  <1>1. /\ next \in Aggregate /\ next.id \in CommandIds
        /\ commands[next.id] \in Aggregate
        /\ next.req = commands[next.id].req
        /\ allows_transition_to(commands[next.id].state, next.state)
        /\ \A i \in CommandIds : commands'[i] = IF i = next.id THEN next ELSE commands[i]
        /\ \A i \in CommandIds : i # next.id => audit'[i] = audit[i]
    BY MovesTables
  <1>2. next.payload = commands[next.id].payload /\ next # None /\ commands[next.id] # None
    BY <1>1, AggregateFields DEF Moves
  <1>3. \A i \in CommandIds : /\ commands'[i] = None <=> commands[i] = None
                              /\ commands[i] # None => /\ commands'[i].req = commands[i].req
                                                       /\ commands'[i].payload = commands[i].payload
    BY <1>1, <1>2
  <1>4. \A i \in CommandIds : DispatchedIn(audit[i]) => DispatchedIn(audit'[i])
    BY MovesExtend DEF Extended
  <1>5. \A i \in CommandIds : commands[i] # None => commands[i].req.device \in Devices
    BY Tables, AggregateFields
  <1>6. DispatchedIn(audit'[next.id])
    BY MovesLog
  <1>7. \A y \in AuthIds : ~ConsumedBy(authorizations, y, next.id)
    <2>1. commands[next.id].state \in Undispatched
      BY <1>1 DEF allows_transition_to, Undispatched
    <2>2. ~DispatchedIn(audit[next.id])
      BY <1>1, <1>2, <2>1, NotYetDispatched DEF GovernanceInv
    <2> QED
      BY <2>2 DEF GovernanceInv, AuthsOK, AuthOK, ConsumedBy
  <1>8. authorizations[x] \in Authorization
    BY Tables
  <1>9. \A y \in AuthIds : y # x => authorizations'[y] = authorizations[y]
    BY Tables
  <1>10. authorizations'[x] = [authorizations[x] EXCEPT !.status = "Consumed"]
    BY Tables
  <1>11. /\ authorizations'[x].status = "Consumed"
         /\ authorizations'[x].command = next.id
         /\ authorizations'[x].approver \in Users
         /\ authorizations'[x] \in Authorization
    BY <1>8, <1>10 DEF Authorization
  <1>12. authorizations'[x] # None
    BY <1>11, NoneAssumption
  <1>13. ASSUME NEW y \in AuthIds PROVE AuthOK(commands', audit', slots', authorizations'[y])
    <2>1. CASE y = x
      BY <1>1, <1>2, <1>6, <1>11, <2>1 DEF AuthOK
    <2>2. CASE y # x
      <3>1. AuthOK(commands, audit, slots, authorizations[y]) /\ authorizations'[y] = authorizations[y]
        BY <1>9, <2>2 DEF GovernanceInv, AuthsOK
      <3>2. authorizations[y] # None => authorizations[y].command \in CommandIds
        BY Tables DEF Authorization
      <3> HIDE DEF Moves
      <3> QED
        BY <1>3, <1>4, <1>5, <3>1, <3>2 DEF AuthOK
    <2> QED
      BY <2>1, <2>2
  <1>14. \A y \in AuthIds, e \in CommandIds : ConsumedBy(authorizations', y, e)
           => IF y = x THEN e = next.id ELSE ConsumedBy(authorizations, y, e)
    BY <1>9, <1>11 DEF ConsumedBy
  <1>15. \A y, z \in AuthIds, e \in CommandIds :
           ConsumedBy(authorizations', y, e) /\ ConsumedBy(authorizations', z, e) => y = z
    BY <1>7, <1>14 DEF GovernanceInv, AuthsOK
  <1>16. ASSUME NEW e \in CommandIds, commands'[e] # None, DispatchedIn(audit'[e]),
                commands'[e].payload = "Unlock", commands'[e].req.device \in Managed
         PROVE  \E y \in AuthIds : ConsumedBy(authorizations', y, e)
                                     /\ authorizations'[y].approver \in Users
    <2>1. CASE e = next.id
      BY <1>11, <1>12, <2>1 DEF ConsumedBy
    <2>2. CASE e # next.id
      <3>1. PICK y \in AuthIds : ConsumedBy(authorizations, y, e) /\ authorizations[y].approver \in Users
        BY <1>1, <1>16, <2>2 DEF GovernanceInv, AuthsOK
      <3>2. y # x
        BY <2>2, <3>1 DEF ConsumedBy
      <3> QED
        BY <1>9, <3>1, <3>2 DEF ConsumedBy
    <2> QED
      BY <2>1, <2>2
  <1> QED
    BY <1>13, <1>15, <1>16 DEF AuthsOK

\* authorize_and_record_unlock_dispatch.
LEMMA UnlockGovernance ==
  ASSUME TypeInv, GovernanceInv, NEW k \in Threads, authorize_and_record_unlock_dispatch(k)
  PROVE  GovernanceInv'
  <1> DEFINE c == call[k].own
             x == call[k].view.auth
             a == authorizations[x]
             next == transitioned(c, "Dispatched", "None", call[k].now)
             r == [call[k] EXCEPT !.pc = "adapter", !.own = next, !.view = NoView]
  <1>1. /\ call[k].pc = "unlock" /\ c \in Aggregate /\ Sound(commands, audit, call[k])
        /\ call[k].now \in Nat /\ call[k] \in Call /\ c.version \in Nat
    BY Tables, CallFields, AggregateFields
    DEF authorize_and_record_unlock_dispatch, GovernanceInv, CallsSound
  <1>2. x \in AuthIds /\ a # None
    BY <1>1, Tables DEF ThreadOK, TypeInv, AuthorizationHeld
  <1>3. UNCHANGED <<supersessions, sent>>
    BY DEF authorize_and_record_unlock_dispatch
  <1>4. CASE /\ a.status = "Open" /\ a.command = c.id
             /\ unlock_bound(c, a.revision, a.approver)
             /\ dispatch_recordable(next, c.version)
             /\ authorizations' = [authorizations EXCEPT ![x].status = "Consumed"]
             /\ record_dispatch(next)
             /\ Goto(k, r)
             /\ UNCHANGED process
    <2>1. "Dispatched" \in States /\ "None" \in Failures
      BY DEF States, Failures
    <2>2. transition_allowed(next, c.version) /\ transition_command(next)
      BY <1>4 DEF dispatch_recordable, record_dispatch
    <2>3. /\ Moves(next) /\ next.id = c.id /\ next.req = c.req /\ next.payload = c.payload
          /\ next.state = "Dispatched" /\ next.failure = "None"
      BY <1>1, <2>1, <2>2, WrittenMoves DEF Sound
    <2>4. dispatch_recordable(next, c.version) /\ record_dispatch(next) /\ Goto(k, r)
      BY <1>4
    <2> HIDE DEF next
    <2>5. r.pc = "adapter" /\ r.own = next /\ r.failure = call[k].failure /\ r.view = NoView
      BY <1>1 DEF Call
    <2> HIDE DEF r
    <2>6. Extended(commands, audit, commands', audit')
      BY <2>3, MovesExtend
    <2>7. /\ RowsOK(commands', audit')
          /\ SlotsOK(commands', audit', slots')
          /\ \A d \in Devices : slots[d] # None =>
               slots'[d] # None /\ slots'[d].command = slots[d].command
      BY <1>1, <2>3, <2>4, RecordTables
    <2>8. a.approver \in Users
      BY <1>4 DEF unlock_bound, actor_has_exact_unlock_grant
    <2>9. LinksOK(commands', supersessions')
      BY <1>3, <2>3, MovesLinks DEF GovernanceInv
    <2>10. AuthsOK(commands', audit', slots', authorizations')
      <3>1. /\ authorizations[x].command = next.id /\ authorizations[x].status = "Open"
            /\ authorizations' = [authorizations EXCEPT ![x].status = "Consumed"]
        BY <1>4, <2>3
      <3> HIDE DEF x
      <3> QED
        BY <1>2, <2>3, <2>7, <2>8, <3>1, ConsumeAuths
    <2>11. CallsSound(commands', audit', call')
      BY <1>1, <2>3, <2>4, <2>5, RecordCalls
    <2>12. PageSound(commands', page')
      BY <1>4, <2>6, PageKept DEF GovernanceInv, process
    <2>13. SentOK(audit', sent')
      BY <1>3, <2>6, SentKept DEF GovernanceInv
    <2> QED
      BY <2>7, <2>9, <2>10, <2>11, <2>12, <2>13 DEF GovernanceInv
  <1>5. CASE Fail(k) /\ UNCHANGED <<authorizations, commands, audit, slots>>
    BY <1>3, <1>5, FailGovernance
  <1> HIDE DEF next
  <1> QED
    BY <1>4, <1>5 DEF authorize_and_record_unlock_dispatch, next

\* A slot given to an undispatched command of its device, and the open
\* authorizations of the command that lost it deleted.
LEMMA SlotReplaced ==
  ASSUME TypeInv, NEW rows, NEW logs, SlotsOK(rows, logs, slots),
         AuthsOK(rows, logs, slots, authorizations),
         NEW d \in Devices, NEW id \in CommandIds, NEW n \in Nat,
         rows[id] # None, rows[id].req.device = d, ~rows[id].req.dryRun,
         projection_for(rows[id]), ~DispatchedIn(logs[id]),
         slots' = [slots EXCEPT ![d] = [revision |-> n, command |-> id, dispatched |-> FALSE]],
         authorizations' = IF slots[d] = None \/ slots[d].command = id
                           THEN authorizations ELSE without_open(slots[d].command)
  PROVE  SlotsOK(rows, logs, slots') /\ AuthsOK(rows, logs, slots', authorizations')
  <1> DEFINE s == [revision |-> n, command |-> id, dispatched |-> FALSE]
  <1>1. s \in Slot /\ s.command = id /\ s.dispatched = FALSE
    BY DEF Slot
  <1>2. s # None
    BY <1>1, NoneAssumption
  <1>3. slots' = [slots EXCEPT ![d] = s]
    OBVIOUS
  <1> HIDE DEF s
  <1>4. \A f \in Devices : slots'[f] = IF f = d THEN s ELSE slots[f]
    BY <1>3, Tables
  <1>5. SlotOK(rows, logs, d, s)
    BY <1>1 DEF SlotOK
  <1>6. SlotsOK(rows, logs, slots')
    BY <1>4, <1>5 DEF SlotsOK
  <1>7. CASE slots[d] = None \/ slots[d].command = id
    <2>1. authorizations' = authorizations
      BY <1>7
    <2>2. ASSUME NEW y \in AuthIds PROVE AuthOK(rows, logs, slots', authorizations[y])
      <3>1. AuthOK(rows, logs, slots, authorizations[y])
        BY DEF AuthsOK
      <3> DEFINE dev == rows[authorizations[y].command].req.device
      <3>2. CASE dev = d
        BY <1>1, <1>2, <1>4, <1>7, <3>1, <3>2 DEF AuthOK
      <3>3. CASE dev # d
        <4>1. slots'[dev] = slots[dev]
          BY <1>3, <3>3
        <4> QED
          BY <3>1, <4>1 DEF AuthOK
      <3> QED
        BY <3>2, <3>3
    <2>3. AuthsOK(rows, logs, slots', authorizations)
      BY <2>2 DEF AuthsOK
    <2> QED
      BY <1>6, <2>1, <2>3
  <1>8. CASE slots[d] # None /\ slots[d].command # id
    <2> DEFINE old == slots[d].command
    <2>1. authorizations' = without_open(old)
      BY <1>8
    <2>2. \A y \in AuthIds :
            authorizations'[y] = IF authorizations[y] # None /\ authorizations[y].command = old
                                      /\ authorizations[y].status = "Open"
                                 THEN [authorizations[y] EXCEPT !.status = "Deleted"]
                                 ELSE authorizations[y]
      BY <2>1 DEF without_open
    <2> HIDE DEF old
    <2>3. ASSUME NEW y \in AuthIds,
                 authorizations[y] # None, authorizations[y].command = old,
                 authorizations[y].status = "Open"
          PROVE  /\ authorizations'[y].status = "Deleted" /\ authorizations'[y] # None
                 /\ authorizations'[y].command = old
      <3>1. authorizations[y] \in Authorization
        BY <2>3, Tables
      <3>2. authorizations'[y] = [authorizations[y] EXCEPT !.status = "Deleted"]
        BY <2>2, <2>3
      <3>3. /\ authorizations'[y] \in Authorization
            /\ authorizations'[y].status = "Deleted" /\ authorizations'[y].command = old
        BY <2>3, <3>1, <3>2 DEF Authorization
      <3> QED
        BY <3>3, NoneAssumption
    <2>4. ASSUME NEW y \in AuthIds PROVE AuthOK(rows, logs, slots', authorizations'[y])
      <3>1. AuthOK(rows, logs, slots, authorizations[y])
        BY DEF AuthsOK
      <3>2. CASE /\ authorizations[y] # None /\ authorizations[y].command = old
                 /\ authorizations[y].status = "Open"
        BY <2>3, <3>1, <3>2 DEF AuthOK
      <3>3. CASE ~(/\ authorizations[y] # None /\ authorizations[y].command = old
                   /\ authorizations[y].status = "Open")
        <4>1. authorizations'[y] = authorizations[y]
          BY <2>2, <3>3
        <4> DEFINE dev == rows[authorizations[y].command].req.device
        <4>2. CASE dev = d
          BY <3>1, <3>3, <4>1, <4>2 DEF AuthOK, old
        <4>3. CASE dev # d
          <5>1. slots'[dev] = slots[dev]
            BY <1>3, <4>3
          <5> QED
            BY <3>1, <4>1, <5>1 DEF AuthOK
        <4> QED
          BY <4>2, <4>3
      <3> QED
        BY <3>2, <3>3
    <2>5. \A y \in AuthIds, e \in CommandIds :
            ConsumedBy(authorizations', y, e) => ConsumedBy(authorizations, y, e)
      BY <2>2, <2>3 DEF ConsumedBy
    <2>6. \A y \in AuthIds, e \in CommandIds : ConsumedBy(authorizations, y, e) =>
            ConsumedBy(authorizations', y, e) /\ authorizations'[y] = authorizations[y]
      <3>1. ASSUME NEW y \in AuthIds, NEW e \in CommandIds, ConsumedBy(authorizations, y, e)
            PROVE  ConsumedBy(authorizations', y, e) /\ authorizations'[y] = authorizations[y]
        <4>1. authorizations[y].status # "Open"
          BY <3>1 DEF ConsumedBy
        <4>2. authorizations'[y] = authorizations[y]
          BY <2>2, <4>1
        <4> QED
          BY <3>1, <4>2 DEF ConsumedBy
      <3> QED
        BY <3>1
    <2>7. AuthsOK(rows, logs, slots', authorizations')
      BY <2>4, <2>5, <2>6 DEF AuthsOK
    <2> QED
      BY <1>6, <2>7
  <1> QED
    BY <1>7, <1>8

\* Cancelling a superseded command links it to its successor, the only one.
LEMMA LinkAdded ==
  ASSUME TypeInv, LinksOK(commands, supersessions), NEW old, Moves(old),
         old.state = "Cancelled", old.failure = "SupersededBeforeDispatch",
         NEW id \in CommandIds, id # old.id, commands[id] # None,
         commands[id].req.device = old.req.device,
         supersessions' = supersessions \cup {<<old.id, id>>}
  PROVE  LinksOK(commands', supersessions')
  <1>1. /\ old \in Aggregate /\ old.id \in CommandIds
        /\ commands[old.id] \in Aggregate
        /\ old.req = commands[old.id].req
        /\ allows_transition_to(commands[old.id].state, old.state)
        /\ \A i \in CommandIds : commands'[i] = IF i = old.id THEN old ELSE commands[i]
    BY MovesTables
  <1>2. commands[old.id].state # "Cancelled" /\ old # None /\ commands[old.id] # None
    BY <1>1, AggregateFields DEF allows_transition_to
  <1>3. \A e \in CommandIds : <<old.id, e>> \notin supersessions
    BY <1>1, <1>2 DEF LinksOK
  <1>4. \A i \in CommandIds : /\ commands'[i] = None <=> commands[i] = None
                              /\ commands[i] # None => commands'[i].req = commands[i].req
    BY <1>1, <1>2
  <1>5. \A c, e \in CommandIds :
          <<c, e>> \in supersessions' <=> <<c, e>> \in supersessions \/ (c = old.id /\ e = id)
    OBVIOUS
  <1>6. ASSUME NEW c \in CommandIds, NEW e \in CommandIds, <<c, e>> \in supersessions'
        PROVE  /\ commands'[c] # None /\ commands'[e] # None
               /\ commands'[c].state = "Cancelled"
               /\ commands'[c].failure = "SupersededBeforeDispatch"
               /\ commands'[e].req.device = commands'[c].req.device
    <2>1. CASE <<c, e>> \in supersessions
      BY <1>1, <1>3, <1>4, <2>1 DEF LinksOK
    <2>2. CASE c = old.id /\ e = id
      BY <1>1, <1>2, <2>2
    <2> QED
      BY <1>5, <1>6, <2>1, <2>2
  <1>7. ASSUME NEW c \in CommandIds, commands'[c] # None,
               commands'[c].failure = "SupersededBeforeDispatch"
        PROVE  \E e \in CommandIds : <<c, e>> \in supersessions'
    BY <1>1, <1>5, <1>7 DEF LinksOK
  <1>8. \A c, e, f \in CommandIds :
          <<c, e>> \in supersessions' /\ <<c, f>> \in supersessions' => e = f
    BY <1>3, <1>5 DEF LinksOK
  <1> QED
    BY <1>6, <1>7, <1>8 DEF LinksOK

\* replace_matter_desired_state: the slot changes hands, and the command that
\* lost it before its dispatch is cancelled and linked in the same transaction.
LEMMA ReplaceGovernance ==
  ASSUME TypeInv, GovernanceInv, NEW k \in Threads, replace_matter_desired_state(k)
  PROVE  GovernanceInv'
  <1> DEFINE c == call[k].own
             d == c.req.device
             view == call[k].view
             old == superseded(view.prior, call[k].now)
             r == [call[k] EXCEPT !.pc = "commit", !.view = NoView]
  <1>1. /\ call[k] \in Call /\ Sound(commands, audit, call[k]) /\ call[k].pc = "replace"
        /\ c \in Aggregate /\ c.id \in CommandIds /\ d \in Devices
        /\ view.prior \in Aggregate \cup {None} /\ call[k].now \in Nat
    BY Tables, CallFields, AggregateFields
    DEF GovernanceInv, CallsSound, replace_matter_desired_state
  <1>2. view.revision \in Nat
    BY <1>1 DEF Call, View
  <1>3. UNCHANGED sent
    BY DEF replace_matter_desired_state
  <1>4. r.pc = "commit" /\ r.own = c /\ r.failure = call[k].failure /\ r.view = NoView
        /\ NoView.prior = None
    BY <1>1 DEF Call, NoView
  <1>5. /\ CopyOf(commands, c) /\ ~c.req.dryRun /\ projection_for(c)
        /\ view.prior # None => CopyOf(commands, view.prior)
    BY <1>1 DEF Sound
  <1>6. commands[c.id] # None /\ commands[c.id].req = c.req /\ commands[c.id].payload = c.payload
    BY <1>5 DEF CopyOf
  <1>7. CASE AttemptFailed(k) /\ UNCHANGED durable
    BY <1>1, <1>3, <1>7, AttemptGovernance DEF durable
  <1>8. CASE /\ replace_allowed(c, view, call[k].now)
             /\ IF view.prior = None
                THEN UNCHANGED <<commands, audit, supersessions>>
                ELSE /\ transition_command(old)
                     /\ supersessions' = supersessions \cup {<<old.id, c.id>>}
             /\ authorizations' = IF slots[d] = None \/ slots[d].command = c.id
                                  THEN authorizations
                                  ELSE without_open(slots[d].command)
             /\ slots' = [slots EXCEPT ![d] = [revision |-> view.revision,
                                               command |-> c.id, dispatched |-> FALSE]]
             /\ Goto(k, r)
             /\ UNCHANGED process
    <2>1. commands[c.id].state \in {"Received", "Validated"}
      BY <1>8 DEF replace_allowed
    <2>2. ~DispatchedIn(audit[c.id])
      BY <1>1, <1>6, <2>1, NotYetDispatched DEF GovernanceInv, Undispatched
    <2> DEFINE Tabled ==
                 /\ Extended(commands, audit, commands', audit')
                 /\ RowsOK(commands', audit')
                 /\ SlotsOK(commands', audit', slots)
                 /\ AuthsOK(commands', audit', slots, authorizations)
                 /\ LinksOK(commands', supersessions')
                 /\ commands'[c.id] = commands[c.id] /\ audit'[c.id] = audit[c.id]
    <2>3. ASSUME view.prior = None PROVE Tabled
      <3>1. UNCHANGED <<commands, audit, supersessions>>
        BY <1>8, <2>3
      <3> QED
        BY <3>1, SameExtends DEF GovernanceInv
    <2>4. ASSUME view.prior # None PROVE Tabled
      <3>1. /\ transition_command(old) /\ supersessions' = supersessions \cup {<<old.id, c.id>>}
            /\ view.prior \in Aggregate /\ CopyOf(commands, view.prior)
        BY <1>1, <1>5, <1>8, <2>4
      <3>2. /\ slots[d] # None /\ slots[d].command # c.id /\ view.prior.id = slots[d].command
            /\ transition_allowed(old, view.prior.version)
        BY <1>8, <2>4 DEF replace_allowed
      <3>3. "Cancelled" \in States /\ "SupersededBeforeDispatch" \in Failures
        BY DEF States, Failures
      <3>4. /\ Moves(old) /\ old.id = view.prior.id /\ old.req = view.prior.req
            /\ old.state = "Cancelled" /\ old.failure = "SupersededBeforeDispatch"
        BY <1>1, <3>1, <3>2, <3>3, WrittenMoves DEF superseded
      <3> HIDE DEF old
      <3>5. old.req.device = d
        <4>1. SlotOK(commands, audit, d, slots[d])
          BY <1>1 DEF GovernanceInv, SlotsOK
        <4>2. old.req = commands[old.id].req
          BY <3>4, MovesTables
        <4> QED
          BY <3>2, <3>4, <4>1, <4>2 DEF SlotOK
      <3>6. /\ Extended(commands, audit, commands', audit')
            /\ RowsOK(commands', audit')
            /\ SlotsOK(commands', audit', slots)
        BY <3>4, MovesExtend, MovesRows, MovesSlots DEF GovernanceInv
      <3>7. AuthsOK(commands', audit', slots, authorizations)
        BY <3>4, MovesAuths DEF GovernanceInv
      <3>8. LinksOK(commands', supersessions')
        BY <1>1, <1>6, <3>1, <3>2, <3>4, <3>5, LinkAdded DEF GovernanceInv
      <3>9. commands'[c.id] = commands[c.id] /\ audit'[c.id] = audit[c.id]
        BY <1>1, <3>2, <3>4, MovesTables
      <3> QED
        BY <3>6, <3>7, <3>8, <3>9
    <2>5. Tabled
      BY <2>3, <2>4
    <2> HIDE DEF old
    <2>6. projection_for(commands[c.id])
      BY <1>5, <1>6 DEF projection_for
    <2>7. /\ commands'[c.id] # None /\ commands'[c.id].req.device = d
          /\ ~commands'[c.id].req.dryRun
          /\ projection_for(commands'[c.id]) /\ ~DispatchedIn(audit'[c.id])
      BY <1>5, <1>6, <2>2, <2>5, <2>6
    <2>8. SlotsOK(commands', audit', slots') /\ AuthsOK(commands', audit', slots', authorizations')
      BY <1>1, <1>2, <1>8, <2>5, <2>7, SlotReplaced
    <2> HIDE DEF r
    <2>9. Sound(commands', audit', r)
      <3>1. CopyOf(commands', c)
        BY <1>1, <1>5, <2>5 DEF Extended
      <3> QED
        BY <1>1, <1>4, <1>5, <3>1 DEF Sound
    <2>10. CallsSound(commands', audit', call')
      <3>1. \A t \in Threads : call'[t] = IF t = k THEN r ELSE call[t]
        BY <1>8, Tables DEF Goto
      <3> QED
        BY <2>5, <2>9, <3>1, CallsKept DEF GovernanceInv
    <2>11. PageSound(commands', page')
      BY <1>8, <2>5, PageKept DEF GovernanceInv, process
    <2>12. SentOK(audit', sent')
      BY <1>3, <2>5, SentKept DEF GovernanceInv
    <2> QED
      BY <2>5, <2>8, <2>10, <2>11, <2>12 DEF GovernanceInv
  <1> QED
    BY <1>7, <1>8 DEF replace_matter_desired_state

-----------------------------------------------------------------------------
(* New calls, startup and the environment.                                  *)

\* create_command adds a row whose log starts with its receipt.
LEMMA ExecuteGovernance ==
  ASSUME TypeInv, GovernanceInv, NEW k \in Threads, NEW q \in Requests,
         NEW id \in CommandIds, NEW payload \in effective_payloads(q.payload),
         execute(k, q, id, payload)
  PROVE  GovernanceInv'
  <1> DEFINE c == received(id, q, payload, clock)
             e == command_audit("None", "Received")
             r == [Idle EXCEPT !.pc = "received", !.own = c, !.now = clock]
  <1>1. clock \in Nat /\ payload \in Payloads
    BY RequestsAssumption, Tables DEF effective_payloads, Request, Payloads
  <1>2. /\ c \in Aggregate /\ c.state = "Received" /\ c.id = id /\ c.version = 0
        /\ c.failure = "None"
    BY <1>1 DEF received, Aggregate, States, Failures
  <1>3. /\ commands[id] = None
        /\ commands' = [commands EXCEPT ![id] = c]
        /\ audit' = [audit EXCEPT ![id] = <<e>>]
        /\ Goto(k, r)
        /\ UNCHANGED <<slots, authorizations, supersessions, sent>>
        /\ page' \subseteq page
    BY DEF execute, process
  <1>4. e.to = "Received"
    BY DEF command_audit
  <1> HIDE DEF c
  <1>5. r.pc = "received" /\ r.own = c /\ r.failure = "None" /\ r.view.prior = None
    BY DEF Idle, NoView
  <1> HIDE DEF r, e
  <1>6. /\ \A i \in CommandIds : commands'[i] = IF i = id THEN c ELSE commands[i]
        /\ \A i \in CommandIds : audit'[i] = IF i = id THEN <<e>> ELSE audit[i]
    BY <1>3, Tables
  <1>7. c # None
    BY <1>2, NoneAssumption
  <1>8. ~DispatchedIn(<<e>>)
    <2>1. \A i \in DOMAIN <<e>> : <<e>>[i] = e
      OBVIOUS
    <2> QED
      BY <1>4, <2>1 DEF DispatchedIn
  <1>9. audit[id] = <<>>
    BY <1>3 DEF GovernanceInv, RowsOK, RowOK
  <1>10. ~DispatchedIn(audit[id])
    BY <1>9 DEF DispatchedIn
  <1>11. Extended(commands, audit, commands', audit')
    <2>1. ASSUME NEW p \in Aggregate, CopyOf(commands, p) PROVE CopyOf(commands', p)
      <3>1. p.id \in CommandIds /\ p.id # id
        BY <1>3, <2>1, AggregateFields DEF CopyOf
      <3> QED
        BY <1>6, <2>1, <3>1 DEF CopyOf
    <2> QED
      BY <1>6, <1>10, <2>1 DEF Extended
  <1>12. RowsOK(commands', audit')
    <2>1. Explained(c, <<e>>)
      <3>1. Len(<<e>>) = 1 /\ <<e>>[1] = e
        OBVIOUS
      <3> QED
        BY <1>2, <1>4, <3>1 DEF Explained, e
    <2>2. RowOK(id, c, <<e>>)
      BY <1>2, <1>7, <1>8, <2>1 DEF RowOK, Governed
    <2> QED
      BY <1>6, <2>2 DEF GovernanceInv, RowsOK
  <1>13. SlotsOK(commands', audit', slots')
    <2> SUFFICES ASSUME NEW d \in Devices, slots[d] # None
                 PROVE  SlotOK(commands', audit', d, slots[d])
      BY <1>3 DEF SlotsOK, SlotOK
    <2>1. SlotOK(commands, audit, d, slots[d]) /\ slots[d].command \in CommandIds
      BY Tables DEF GovernanceInv, SlotsOK, Slot
    <2>2. slots[d].command # id
      BY <1>3, <2>1 DEF SlotOK
    <2> QED
      BY <1>6, <2>1, <2>2 DEF SlotOK
  <1>14. LinksOK(commands', supersessions')
    <2>1. \A i, j \in CommandIds : <<i, j>> \in supersessions => i # id /\ j # id
      BY <1>3 DEF GovernanceInv, LinksOK
    <2>2. LinksOK(commands, supersessions)
      BY DEF GovernanceInv
    <2>3. c.failure # "SupersededBeforeDispatch"
      BY <1>2
    <2> QED
      BY <1>3, <1>6, <2>1, <2>2, <2>3 DEF LinksOK
  <1>15. AuthsOK(commands', audit', slots', authorizations')
    <2>1. ASSUME NEW x \in AuthIds PROVE AuthOK(commands', audit', slots, authorizations[x])
      <3>1. AuthOK(commands, audit, slots, authorizations[x])
        BY DEF GovernanceInv, AuthsOK
      <3>2. authorizations[x] # None => authorizations[x].command \in CommandIds
        BY Tables DEF Authorization
      <3> QED
        BY <1>3, <1>6, <3>1, <3>2 DEF AuthOK
    <2>2. \A i \in CommandIds : DispatchedIn(audit'[i]) => i # id
      BY <1>6, <1>8
    <2>3. AuthsOK(commands, audit, slots, authorizations)
      BY DEF GovernanceInv
    <2>4. ASSUME NEW i \in CommandIds, commands'[i] # None, DispatchedIn(audit'[i]),
                 commands'[i].payload = "Unlock", commands'[i].req.device \in Managed
          PROVE  \E x \in AuthIds : ConsumedBy(authorizations, x, i)
                                      /\ authorizations[x].approver \in Users
      <3>1. commands'[i] = commands[i] /\ audit'[i] = audit[i]
        BY <1>6, <2>2, <2>4
      <3> QED
        BY <2>3, <2>4, <3>1 DEF AuthsOK
    <2>5. AuthsOK(commands', audit', slots, authorizations)
      BY <2>1, <2>3, <2>4 DEF AuthsOK
    <2> QED
      BY <1>3, <2>5
  <1>16. CopyOf(commands', c)
    <2>1. commands'[c.id] = c
      BY <1>2, <1>6
    <2> QED
      BY <1>2, <1>7, <2>1 DEF CopyOf
  <1>17. Sound(commands', audit', r)
    BY <1>2, <1>5, <1>16 DEF Sound
  <1>18. CallsSound(commands', audit', call')
    <2>1. \A t \in Threads : call'[t] = IF t = k THEN r ELSE call[t]
      BY <1>3, Tables DEF Goto
    <2> QED
      BY <1>11, <1>17, <2>1, CallsKept DEF GovernanceInv
  <1>19. PageSound(commands', page')
    BY <1>3, <1>11, PageKept DEF GovernanceInv
  <1>20. SentOK(audit', sent')
    BY <1>3, <1>11, SentKept DEF GovernanceInv
  <1> QED
    BY <1>12, <1>13, <1>14, <1>15, <1>18, <1>19, <1>20 DEF GovernanceInv

\* A row is a copy of itself.
LEMMA StoredCopy ==
  ASSUME TypeInv, GovernanceInv, NEW id \in CommandIds, commands[id] # None
  PROVE  commands[id] \in Aggregate /\ commands[id].id = id /\ CopyOf(commands, commands[id])
  <1>1. commands[id] \in Aggregate /\ commands[id].id = id
    BY Tables DEF GovernanceInv, RowsOK, RowOK
  <1>2. commands[id].version \in Nat
    BY <1>1, AggregateFields
  <1> QED
    BY <1>1, <1>2 DEF CopyOf

\* cancel and approve_unlock load the stored row.
LEMMA LoadGovernance ==
  ASSUME TypeInv, GovernanceInv, NEW k \in Threads, NEW id \in CommandIds,
         cancel(k, id) \/ \E a \in Actors : approve_unlock(k, id, a)
  PROVE  GovernanceInv'
  <1> DEFINE r1 == [Idle EXCEPT !.pc = "write", !.own = commands[id], !.goal = "Cancelled",
                                !.now = clock]
             r2(a) == [Idle EXCEPT !.pc = "approve", !.own = commands[id], !.now = clock,
                                   !.view = [NoView EXCEPT !.approver = a]]
  <1>1. /\ commands[id] # None
        /\ UNCHANGED <<commands, audit, slots, authorizations, supersessions, sent>>
        /\ page' \subseteq page
    BY DEF cancel, approve_unlock, durable, process
  <1>2. SentOK(audit, sent')
    BY <1>1 DEF GovernanceInv
  <1>3. Goto(k, r1) \/ \E a : Goto(k, r2(a))
    BY DEF cancel, approve_unlock
  <1>4. CopyOf(commands, commands[id])
    BY <1>1, StoredCopy
  <1>5. /\ r1.pc = "write" /\ r1.own = commands[id] /\ r1.goal = "Cancelled"
        /\ r1.failure = "None" /\ r1.view.prior = None
    BY DEF Idle, NoView
  <1>6. ASSUME NEW a
        PROVE  /\ r2(a).pc = "approve" /\ r2(a).own = commands[id]
               /\ r2(a).failure = "None" /\ r2(a).view.prior = None
    <2>1. [NoView EXCEPT !.approver = a].prior = None
      BY DEF NoView
    <2> QED
      BY <2>1 DEF Idle
  <1>7. Sound(commands, audit, r1)
    <2> HIDE DEF r1
    <2> QED
      BY <1>4, <1>5 DEF Sound
  <1>8. ASSUME NEW a PROVE Sound(commands, audit, r2(a))
    <2> DEFINE r == r2(a)
    <2>1. /\ r.pc = "approve" /\ r.own = commands[id]
          /\ r.failure = "None" /\ r.view.prior = None
      BY <1>6
    <2> HIDE DEF r
    <2>2. Sound(commands, audit, r)
      BY <1>4, <2>1 DEF Sound
    <2> QED
      BY <2>2 DEF r
  <1> HIDE DEF r1, r2
  <1> QED
    BY <1>1, <1>2, <1>3, <1>7, <1>8, GotoGovernance

\* recover loads the open rows.
LEMMA RecoverGovernance ==
  ASSUME TypeInv, GovernanceInv, recover
  PROVE  GovernanceInv'
  <1>1. UNCHANGED <<commands, audit, slots, authorizations, supersessions, sent, call>>
    BY DEF recover, durable
  <1>2. page' \subseteq {commands[i] : i \in {j \in Stored : ~is_terminal(commands[j])}}
    BY DEF recover, recoverable_commands
  <1>3. PageSound(commands', page')
    <2> SUFFICES ASSUME NEW c \in page' PROVE CopyOf(commands, c) /\ ~is_terminal(c)
      BY <1>1 DEF PageSound
    <2>1. PICK i \in Stored : c = commands[i] /\ ~is_terminal(commands[i])
      BY <1>2
    <2>2. i \in CommandIds /\ commands[i] # None
      BY DEF Stored
    <2> QED
      BY <2>1, <2>2, StoredCopy
  <1> QED
    BY <1>1, <1>3 DEF GovernanceInv

\* recover_one starts from the loaded aggregate, which may be outdated.
LEMMA RecoverOneGovernance ==
  ASSUME TypeInv, GovernanceInv, NEW c \in page, recover_one(c)
  PROVE  GovernanceInv'
  <1> DEFINE start == [Idle EXCEPT !.own = c, !.now = startedAt]
             timeout == [start EXCEPT !.pc = "write", !.goal = "TimedOut",
                                      !.failure = "DeadlineExceeded"]
             denied == [c EXCEPT !.policy = "Denied"]
             deny == [start EXCEPT !.pc = "write", !.goal = "Rejected",
                        !.failure = "PolicyDenied", !.own = denied]
             go(pc) == [start EXCEPT !.pc = pc]
  <1>1. c \in Aggregate /\ CopyOf(commands, c) /\ ~is_terminal(c)
    BY Tables DEF GovernanceInv, PageSound
  <1>2. /\ Recovery \in Threads
        /\ UNCHANGED <<commands, audit, slots, authorizations, supersessions, sent>>
        /\ page' \subseteq page
    BY DEF recover_one, durable, Threads
  <1>3. SentOK(audit, sent')
    BY <1>2 DEF GovernanceInv
  <1>4. \/ Goto(Recovery, timeout)
        \/ c.state = "Validated" /\ Goto(Recovery, deny)
        \/ c.state = "Received" /\ Goto(Recovery, go("received"))
        \/ c.state = "Validated" /\ Goto(Recovery, go("register"))
        \/ Goto(Recovery, go("confirm"))
    BY DEF recover_one
  <1>5. c.state = "Validated" => ~c.req.dryRun
    BY <1>1 DEF is_terminal
  <1>6. c.state = "Validated" => CopyOf(commands, denied)
    <2>1. /\ denied.id = c.id /\ denied.req = c.req /\ denied.payload = c.payload
          /\ denied.version = c.version /\ denied.state = c.state
      BY <1>1 DEF Aggregate
    <2> HIDE DEF denied
    <2> QED
      BY <1>1, <2>1 DEF CopyOf
  <1> HIDE DEF denied
  <1>7. /\ timeout.pc = "write" /\ timeout.own = c /\ timeout.goal = "TimedOut"
        /\ timeout.failure = "DeadlineExceeded" /\ timeout.view.prior = None
        /\ deny.pc = "write" /\ deny.own = denied /\ deny.goal = "Rejected"
        /\ deny.failure = "PolicyDenied" /\ deny.view.prior = None
    BY DEF Idle, NoView
  <1>8. \A pc : /\ go(pc).pc = pc /\ go(pc).own = c
                /\ go(pc).failure = "None" /\ go(pc).view.prior = None
    BY DEF Idle, NoView
  <1> HIDE DEF timeout, deny, go
  <1>9. Sound(commands, audit, timeout)
    BY <1>1, <1>7 DEF Sound
  <1>10. c.state = "Validated" => Sound(commands, audit, deny)
    BY <1>6, <1>7 DEF Sound
  <1>11. c.state = "Received" => Sound(commands, audit, go("received"))
    BY <1>1, <1>8 DEF Sound
  <1>12. c.state = "Validated" => Sound(commands, audit, go("register"))
    BY <1>1, <1>5, <1>8 DEF Sound
  <1>13. Sound(commands, audit, go("confirm"))
    BY <1>1, <1>8 DEF Sound
  <1> QED
    BY <1>2, <1>3, <1>4, <1>9, <1>10, <1>11, <1>12, <1>13, GotoGovernance

\* serve, crashes, faults, grants, reports and time leave every table that
\* matters here alone, and at most end calls.
LEMMA AroundGovernance ==
  ASSUME TypeInv, GovernanceInv, serve \/ Environment
  PROVE  GovernanceInv'
  <1>1. UNCHANGED <<commands, audit, slots, authorizations, supersessions, sent>>
    BY DEF serve, Environment, Crash, Fault, replace_actor_grants, store_matter_projection,
           Tick, durable
  <1>2. SentOK(audit, sent')
    BY <1>1 DEF GovernanceInv
  <1>3. CASE serve \/ Crash
    BY <1>1, <1>2, <1>3, QuietGovernance DEF serve, Crash
  <1>4. ASSUME NEW k \in Threads, Fault(k) PROVE GovernanceInv'
    BY <1>1, <1>4, FailGovernance DEF Fault
  <1>5. CASE \E a \in Actors, g \in GrantSets : replace_actor_grants(a, g)
    BY <1>1, <1>2, <1>5, QuietGovernance DEF replace_actor_grants, process
  <1>6. CASE \E d \in Managed, fresh \in BOOLEAN : store_matter_projection(d, fresh)
    BY <1>1, <1>2, <1>6, QuietGovernance DEF store_matter_projection, process
  <1>7. CASE Tick
    BY <1>1, <1>2, <1>7, QuietGovernance DEF Tick, process
  <1> QED
    BY <1>3, <1>4, <1>5, <1>6, <1>7 DEF Environment

\* GovernanceInv is inductive relative to TypeInv.
LEMMA NextGovernance ==
  ASSUME TypeInv, GovernanceInv, [Next]_vars
  PROVE  GovernanceInv'
  <1>1. ASSUME NEW k \in Threads, Step(k) PROVE GovernanceInv'
    BY <1>1, ContinueReceivedGovernance, TransitionGovernance, RegisterOnceGovernance,
       ReplaceGovernance, CommitGovernance, RecordGovernance, AdapterGovernance,
       AnswerGovernance, AuthorizeUnlockGovernance, CreateGovernance, UnlockGovernance
    DEF Step
  <1>2. ASSUME NEW k \in Calls, Begin(k) PROVE GovernanceInv'
    <2>1. k \in Threads
      BY DEF Threads
    <2> QED
      BY <1>2, <2>1, ExecuteGovernance, LoadGovernance DEF Begin
  <1>3. CASE Startup
    BY <1>3, RecoverGovernance, RecoverOneGovernance, AroundGovernance DEF Startup
  <1>4. CASE Environment
    BY <1>4, AroundGovernance
  <1>5. CASE UNCHANGED vars
    BY <1>5 DEF vars, GovernanceInv
  <1> QED
    BY <1>1, <1>2, <1>3, <1>4, <1>5 DEF Next

\* A fresh database satisfies it.
LEMMA InitGovernance == Init => GovernanceInv
  <1> SUFFICES ASSUME Init PROVE GovernanceInv
    OBVIOUS
  <1>1. RowsOK(commands, audit)
    BY DEF Init, RowsOK, RowOK
  <1>2. CallsSound(commands, audit, call)
    BY IdleSound DEF Init, CallsSound
  <1>3. PageSound(commands, page) /\ SlotsOK(commands, audit, slots)
    BY DEF Init, PageSound, SlotsOK, SlotOK
  <1>4. LinksOK(commands, supersessions)
    BY DEF Init, LinksOK
  <1>5. AuthsOK(commands, audit, slots, authorizations)
    BY DEF Init, AuthsOK, AuthOK, ConsumedBy
  <1>6. SentOK(audit, sent)
    BY DEF Init, SentOK
  <1> QED
    BY <1>1, <1>2, <1>3, <1>4, <1>5, <1>6 DEF GovernanceInv

\* All three invariants hold in every reachable state.
LEMMA GovernanceHolds == Spec => [](TypeInv /\ DispatchInv /\ GovernanceInv)
  <1>1. Init => GovernanceInv
    BY InitGovernance
  <1>2. TypeInv /\ GovernanceInv /\ [Next]_vars => GovernanceInv'
    BY NextGovernance
  <1> QED
    BY <1>1, <1>2, InvariantsHold, PTL DEF Spec

-----------------------------------------------------------------------------
(* The theorems.                                                            *)

\* WasDispatched reads the same log.
LEMMA WasDispatchedIn ==
  ASSUME NEW c
  PROVE  WasDispatched(c) <=> DispatchedIn(audit[c])
  BY DEF WasDispatched, DispatchedIn

\* A set without two elements has at most one.
LEMMA AtMostOne ==
  ASSUME NEW S, \A x, y \in S : x = y
  PROVE  Cardinality(S) <= 1
  <1>1. CASE S = {}
    <2>1. Cardinality(S) = 0
      BY <1>1, FS_EmptySet
    <2> QED
      BY <2>1
  <1>2. CASE S # {}
    <2>1. PICK x \in S : TRUE
      BY <1>2
    <2>2. S = {x}
      BY <2>1
    <2>3. Cardinality({x}) = 1
      BY FS_Singleton
    <2>4. Cardinality(S) = 1
      BY <2>2, <2>3
    <2> QED
      BY <2>4
  <1> QED
    BY <1>1, <1>2

\* For every instance the audit log of a command is a gap-free walk of the
\* lifecycle from its receipt to its stored state, one record per version
\* (transition_command, insert_audit): the version check makes the copy that is
\* written back the stored row, so the record is built from the state it leaves.
THEOREM AuditIsComplete == Spec => []AuditExplainsState
  <1>1. GovernanceInv => AuditExplainsState
    BY DEF GovernanceInv, RowsOK, RowOK, Explained, AuditExplainsState, Stored
  <1> QED
    BY <1>1, GovernanceHolds, PTL

\* The adapter is only ever invoked for a stored command that was allowed, is no
\* dry run, has its dispatch in the log and did not end rejected or cancelled,
\* whatever a retry, an approval, a crash or a recovery does (dispatch,
\* dispatch_committed, recover_one).
THEOREM InvocationsAreGoverned == Spec => []InvocationIsGoverned
  <1>1. TypeInv /\ DispatchInv /\ GovernanceInv => InvocationIsGoverned
    <2> SUFFICES ASSUME TypeInv, DispatchInv, GovernanceInv, NEW c \in CommandIds, sent[c] > 0
                 PROVE  /\ c \in Stored
                        /\ WasDispatched(c)
                        /\ commands[c].policy = "Allowed"
                        /\ ~commands[c].req.dryRun
                        /\ commands[c].state \notin {"Received", "Validated",
                                                     "Rejected", "Cancelled"}
      BY DEF InvocationIsGoverned
    <2>1. DispatchedIn(audit[c])
      BY DEF GovernanceInv, SentOK
    <2>2. commands[c] # None
      BY Tables DEF DispatchInv
    <2>3. Governed(commands[c], audit[c])
      BY <2>2 DEF GovernanceInv, RowsOK, RowOK
    <2> QED
      BY <2>1, <2>2, <2>3, WasDispatchedIn DEF Governed, Stored, Undispatched
  <1> QED
    BY <1>1, GovernanceHolds, PTL

\* A desired slot names a live command of its device, never a dry run, and
\* carries the dispatch marker exactly when that command crossed the durable
\* boundary (replace_desired_slot, record_dispatch).
THEOREM SlotsTrackDispatches == Spec => []SlotTracksDispatch
  <1>1. TypeInv /\ GovernanceInv => SlotTracksDispatch
    <2> SUFFICES ASSUME TypeInv, GovernanceInv, NEW d \in Devices, slots[d] # None
                 PROVE  /\ slots[d].command \in Stored
                        /\ commands[slots[d].command].req.device = d
                        /\ ~commands[slots[d].command].req.dryRun
                        /\ slots[d].dispatched <=> WasDispatched(slots[d].command)
      BY DEF SlotTracksDispatch
    <2>1. SlotOK(commands, audit, d, slots[d]) /\ slots[d].command \in CommandIds
      BY Tables DEF GovernanceInv, SlotsOK, Slot
    <2> QED
      BY <2>1, WasDispatchedIn DEF SlotOK, Stored
  <1> QED
    BY <1>1, GovernanceHolds, PTL

\* A command is cancelled as superseded exactly when one command of its device is
\* linked to it as its successor, and nothing was sent for it
\* (replace_desired_slot).
THEOREM SupersessionsAreLinked == Spec => []SupersessionIsLinked
  <1>1. TypeInv /\ DispatchInv /\ GovernanceInv => SupersessionIsLinked
    <2> SUFFICES ASSUME TypeInv, DispatchInv, GovernanceInv, NEW c \in Stored
                 PROVE  LET replacing == {e \in CommandIds : <<c, e>> \in supersessions} IN
                        /\ commands[c].failure = "SupersededBeforeDispatch" <=> replacing # {}
                        /\ Cardinality(replacing) <= 1
                        /\ replacing # {} => commands[c].state = "Cancelled" /\ sent[c] = 0
                        /\ \A e \in replacing :
                             e \in Stored /\ commands[e].req.device = commands[c].req.device
      BY DEF SupersessionIsLinked
    <2> DEFINE replacing == {e \in CommandIds : <<c, e>> \in supersessions}
    <2>1. c \in CommandIds /\ commands[c] # None
      BY DEF Stored
    <2>2. LinksOK(commands, supersessions)
      BY DEF GovernanceInv
    <2>3. \A e \in replacing :
            /\ e \in CommandIds /\ commands[e] # None
            /\ commands[c].state = "Cancelled"
            /\ commands[c].failure = "SupersededBeforeDispatch"
            /\ commands[e].req.device = commands[c].req.device
      BY <2>1, <2>2 DEF LinksOK
    <2>4. commands[c].failure = "SupersededBeforeDispatch" => replacing # {}
      BY <2>1, <2>2 DEF LinksOK
    <2>5. Cardinality(replacing) <= 1
      <3>1. \A x, y \in replacing : x = y
        BY <2>1, <2>2 DEF LinksOK
      <3> HIDE DEF replacing
      <3> QED
        BY <3>1, AtMostOne
    <2>6. replacing # {} => sent[c] = 0
      BY <2>1, <2>3 DEF DispatchInv, Undispatched
    <2> HIDE DEF replacing
    <2>7. /\ commands[c].failure = "SupersededBeforeDispatch" <=> replacing # {}
          /\ Cardinality(replacing) <= 1
          /\ replacing # {} => commands[c].state = "Cancelled" /\ sent[c] = 0
          /\ \A e \in replacing :
               e \in Stored /\ commands[e].req.device = commands[c].req.device
      BY <2>3, <2>4, <2>5, <2>6 DEF Stored
    <2> QED
      BY <2>7 DEF replacing
  <1> QED
    BY <1>1, GovernanceHolds, PTL

\* A Matter unlock is dispatched through exactly one consumed authorization of a
\* user, and an unused authorization never outlives its command's hold on the
\* slot (authorize_and_record_unlock_dispatch, replace_desired_slot).
THEOREM UnlocksAreAuthorized == Spec => []UnlockIsAuthorized
  <1>1. TypeInv /\ GovernanceInv => UnlockIsAuthorized
    <2> DEFINE Of(c, status) == {x \in AuthIds : /\ authorizations[x] # None
                                                 /\ authorizations[x].command = c
                                                 /\ authorizations[x].status = status}
    <2> SUFFICES ASSUME TypeInv, GovernanceInv, NEW c \in Stored
                 PROVE  /\ Cardinality(Of(c, "Consumed")) <= 1
                        /\ Of(c, "Consumed") # {} => WasDispatched(c)
                        /\ WasDispatched(c) /\ commands[c].payload = "Unlock"
                             /\ commands[c].req.device \in Managed
                             => \E x \in Of(c, "Consumed") : authorizations[x].approver \in Users
                        /\ Of(c, "Open") # {} => slots[commands[c].req.device].command = c
      BY DEF UnlockIsAuthorized
    <2>1. c \in CommandIds /\ commands[c] # None
      BY DEF Stored
    <2>2. AuthsOK(commands, audit, slots, authorizations)
      BY DEF GovernanceInv
    <2>3. \A x : x \in Of(c, "Consumed") <=> x \in AuthIds /\ ConsumedBy(authorizations, x, c)
      BY DEF ConsumedBy
    <2>4. Cardinality(Of(c, "Consumed")) <= 1
      <3>1. \A x, y \in Of(c, "Consumed") : x = y
        BY <2>1, <2>2, <2>3 DEF AuthsOK
      <3> HIDE DEF Of
      <3> QED
        BY <3>1, AtMostOne
    <2>5. Of(c, "Consumed") # {} => WasDispatched(c)
      BY <2>2, WasDispatchedIn DEF AuthsOK, AuthOK
    <2>6. WasDispatched(c) /\ commands[c].payload = "Unlock" /\ commands[c].req.device \in Managed
            => \E x \in Of(c, "Consumed") : authorizations[x].approver \in Users
      BY <2>1, <2>2, <2>3, WasDispatchedIn DEF AuthsOK
    <2>7. Of(c, "Open") # {} => slots[commands[c].req.device].command = c
      BY <2>2 DEF AuthsOK, AuthOK
    <2> QED
      BY <2>4, <2>5, <2>6, <2>7
  <1> QED
    BY <1>1, GovernanceHolds, PTL

-----------------------------------------------------------------------------
(* What a finished recovery has settled.                                    *)

\* A command that was open before the process started, past its deadline.
Late(row, at) ==
  /\ row # None
  /\ ~is_terminal(row)
  /\ row.updated < at
  /\ row.req.deadline <= at

\* The call r is bound to settle command id, or to end the process.
Settling(r, id) ==
  /\ r.pc = "write" \/ (r.pc = "confirm" /\ r.own.req.deadline <= r.now)
  /\ r.own.id = id

\* No call of this process knows an instant before its start, and until the
\* process serves each late command is still to be visited or being settled.
SettleInv ==
  /\ startedAt <= clock
  /\ \A t \in Threads : call[t].pc # "idle" => mode # "down" /\ startedAt <= call[t].now
  /\ \A i \in CommandIds : Late(commands[i], startedAt) =>
       /\ mode # "serving"
       /\ mode = "recovering" => (\E e \in page : e.id = i) \/ Settling(call[Recovery], i)

\* The row was written at or after the start of the process.
Written(row) == row.updated \in Nat /\ startedAt <= row.updated

\* A step of thread k: it writes rows as of now, ends its process or goes on,
\* and recovery leaves a late command only once it has written it.
Proceeds(k) ==
  /\ UNCHANGED <<startedAt, clock>>
  /\ \A i \in CommandIds : commands'[i] = commands[i] \/ Written(commands'[i])
  /\ \/ mode' = "down" /\ \A t \in Threads : call'[t].pc = "idle"
     \/ /\ UNCHANGED <<mode, page>>
        /\ \A t \in Threads : t # k => call'[t] = call[t]
        /\ call'[k].pc # "idle" => mode # "down" /\ startedAt <= call'[k].now
        /\ k = Recovery /\ call[k].pc = "write" => Written(commands'[call[k].own.id])
        /\ k = Recovery /\ call[k].pc = "confirm" /\ call[k].own.req.deadline <= call[k].now
             => call'[k].pc = "write" /\ call'[k].own = call[k].own

\* Such steps keep the invariant.
LEMMA ProceedsSettles ==
  ASSUME TypeInv, SettleInv, NEW k \in Threads, Proceeds(k)
  PROVE  SettleInv'
  <1>1. startedAt \in Nat /\ clock \in Nat /\ Recovery \in Threads
    BY Tables DEF Threads
  <1>2. ASSUME NEW i \in CommandIds, Late(commands'[i], startedAt)
        PROVE  commands'[i] = commands[i] /\ Late(commands[i], startedAt)
    BY <1>1, <1>2 DEF Proceeds, Written, Late
  <1>3. CASE mode' = "down" /\ \A t \in Threads : call'[t].pc = "idle"
    BY <1>3 DEF SettleInv, Proceeds
  <1>4. CASE /\ UNCHANGED <<mode, page>>
             /\ \A t \in Threads : t # k => call'[t] = call[t]
             /\ call'[k].pc # "idle" => mode # "down" /\ startedAt <= call'[k].now
             /\ k = Recovery /\ call[k].pc = "write" => Written(commands'[call[k].own.id])
             /\ k = Recovery /\ call[k].pc = "confirm"
                  /\ call[k].own.req.deadline <= call[k].now
                  => call'[k].pc = "write" /\ call'[k].own = call[k].own
    <2>1. startedAt' <= clock' /\ startedAt' = startedAt
      BY DEF SettleInv, Proceeds
    <2>2. \A t \in Threads : call'[t].pc # "idle" => mode' # "down" /\ startedAt' <= call'[t].now
      BY <1>4, <2>1 DEF SettleInv
    <2>3. ASSUME NEW i \in CommandIds, Late(commands'[i], startedAt)
          PROVE  /\ mode' # "serving"
                 /\ mode' = "recovering" =>
                      (\E e \in page' : e.id = i) \/ Settling(call'[Recovery], i)
      <3>1. /\ mode # "serving"
            /\ mode = "recovering" => (\E e \in page : e.id = i) \/ Settling(call[Recovery], i)
        BY <1>2, <2>3 DEF SettleInv
      <3>2. ASSUME Settling(call[Recovery], i) PROVE Settling(call'[Recovery], i)
        <4>1. CASE k # Recovery
          BY <1>1, <1>4, <3>2, <4>1
        <4>2. CASE k = Recovery
          <5>1. ~Written(commands'[i])
            BY <1>1, <2>3 DEF Late, Written
          <5> QED BY <1>4, <3>2, <4>2, <5>1 DEF Settling
        <4> QED BY <4>1, <4>2
      <3> QED BY <1>4, <3>1, <3>2
    <2> QED BY <2>1, <2>2, <2>3 DEF SettleInv
  <1> QED BY <1>3, <1>4 DEF Proceeds

\* Storing an aggregate that is dated by its caller's instant.
LEMMA StoreWrites ==
  ASSUME TypeInv, NEW next, next.id \in CommandIds, transition_command(next), Written(next)
  PROVE  /\ \A i \in CommandIds : commands'[i] = commands[i] \/ Written(commands'[i])
         /\ Written(commands'[next.id])
  <1>1. \A i \in CommandIds : commands'[i] = IF i = next.id THEN next ELSE commands[i]
    BY Tables DEF transition_command
  <1> QED BY <1>1 DEF Written

\* The aggregate a call stores is dated by the call's instant.
LEMMA TransitionedWritten ==
  ASSUME SettleInv, TypeInv, NEW k \in Threads, call[k].pc # "idle", NEW c \in Aggregate,
         NEW s, NEW f
  PROVE  /\ Written(transitioned(c, s, f, call[k].now))
         /\ transitioned(c, s, f, call[k].now).id \in CommandIds
         /\ transitioned(c, s, f, call[k].now).id = c.id
  <1>1. call[k].now \in Nat /\ startedAt <= call[k].now
    BY Tables, CallFields DEF SettleInv
  <1>2. /\ transitioned(c, s, f, call[k].now).updated = call[k].now
        /\ transitioned(c, s, f, call[k].now).id = c.id
    BY DEF transitioned, Aggregate
  <1> QED BY <1>1, <1>2, AggregateFields DEF Written

\* An error return.
LEMMA FailProceeds ==
  ASSUME TypeInv, SettleInv, NEW k \in Threads, Fail(k), UNCHANGED <<commands, clock>>
  PROVE  Proceeds(k)
  <1>1. Idle.pc = "idle"
    BY IdleType
  <1>2. CASE k = Recovery
    BY <1>1, <1>2 DEF Fail, Proceeds
  <1>3. CASE k # Recovery
    <2>1. \A t \in Threads : call'[t] = IF t = k THEN Idle ELSE call[t]
      BY <1>3, Tables DEF Fail, Return, Goto
    <2> QED BY <1>1, <1>3, <2>1 DEF Fail, Return, process, Proceeds
  <1> QED BY <1>2, <1>3

\* A call that goes on.
LEMMA GotoProceeds ==
  ASSUME TypeInv, SettleInv, NEW k \in Threads, NEW r, Goto(k, r), UNCHANGED <<process, clock>>,
         \A i \in CommandIds : commands'[i] = commands[i] \/ Written(commands'[i]),
         r.pc # "idle" => mode # "down" /\ startedAt <= r.now,
         call[k].pc = "write" => Written(commands'[call[k].own.id]),
         call[k].pc = "confirm" /\ call[k].own.req.deadline <= call[k].now
           => r.pc = "write" /\ r.own = call[k].own
  PROVE  Proceeds(k)
  <1>1. \A t \in Threads : call'[t] = IF t = k THEN r ELSE call[t]
    BY Tables DEF Goto
  <1> QED BY <1>1 DEF Proceeds, process

\* A call that goes on with the instant it has, other than by a write or after
\* a confirmation.
LEMMA OnProceeds ==
  ASSUME TypeInv, SettleInv, NEW k \in Threads, NEW r, Goto(k, r), UNCHANGED <<process, clock>>,
         call[k].pc \notin {"idle", "write", "confirm"},
         \A i \in CommandIds : commands'[i] = commands[i] \/ Written(commands'[i]),
         r.now \in {call[k].now, clock}
  PROVE  Proceeds(k)
  <1>1. mode # "down" /\ startedAt <= call[k].now /\ startedAt <= clock
    BY DEF SettleInv
  <1> QED BY <1>1, GotoProceeds

\* The call ends.
LEMMA ReturnProceeds ==
  ASSUME TypeInv, SettleInv, NEW k \in Threads, Return(k), UNCHANGED <<commands, clock>>,
         call[k].pc \notin {"write", "confirm"}
  PROVE  Proceeds(k)
  <1>1. Goto(k, Idle) /\ UNCHANGED process /\ Idle.pc = "idle"
    BY IdleType DEF Return
  <1> QED BY <1>1, GotoProceeds

\* What a call that is about to write keeps.
LEMMA WritingFields ==
  ASSUME TypeInv, NEW k \in Threads, NEW g, NEW f, NEW n
  PROVE  /\ Writing(k, g, f, n).pc = "write"
         /\ Writing(k, g, f, n).own = call[k].own
         /\ Writing(k, g, f, n).now = n
         /\ \A c : [Writing(k, g, f, n) EXCEPT !.own = c].now = n
  <1>1. call[k] \in Call
    BY Tables
  <1> QED BY <1>1 DEF Writing, Call

\* A failed registration attempt.
LEMMA AttemptProceeds ==
  ASSUME TypeInv, SettleInv, NEW k \in Threads, AttemptFailed(k), UNCHANGED <<commands, clock>>,
         call[k].pc \notin {"idle", "write", "confirm"}
  PROVE  Proceeds(k)
  <1> DEFINE r == [call[k] EXCEPT !.pc = "register", !.tries = @ + 1, !.view = NoView]
  <1>1. CASE Goto(k, r) /\ UNCHANGED process
    <2>1. call[k] \in Call
      BY Tables
    <2>2. r.now = call[k].now
      BY <2>1 DEF Call
    <2> HIDE DEF r
    <2> QED BY <1>1, <2>2, OnProceeds
  <1>2. CASE Fail(k)
    BY <1>2, FailProceeds
  <1> QED BY <1>1, <1>2 DEF AttemptFailed

\* What register_once reads.
LEMMA RegisterProceeds ==
  ASSUME TypeInv, SettleInv, NEW k \in Threads, register_once(k)
  PROVE  Proceeds(k)
  <1> DEFINE c == call[k].own
             slot == slots[c.req.device]
             superseding == slot # None /\ ~slot.dispatched
             prior == IF superseding THEN commands[slot.command] ELSE None
             revision == IF slot = None THEN 1 ELSE slot.revision + 1
             look == [NoView EXCEPT !.revision = revision, !.prior = prior,
                        !.projection = projections[c.req.device].revision]
             write == Writing(k, "Dispatched", "None", call[k].now)
             commit == [call[k] EXCEPT !.pc = "commit"]
             replace == [call[k] EXCEPT !.pc = "replace", !.view = look]
  <1>1. UNCHANGED commands /\ UNCHANGED clock
    <2>1. UNCHANGED durable /\ UNCHANGED world
      BY DEF register_once
    <2> QED BY <2>1 DEF durable, world
  <1>2. call[k].pc = "register" /\ call[k] \in Call
    BY Tables DEF register_once
  <1>3. \/ Goto(k, write) /\ UNCHANGED process
        \/ Goto(k, commit) /\ UNCHANGED process
        \/ AttemptFailed(k)
        \/ Goto(k, replace) /\ UNCHANGED process
    BY Zenon DEF register_once
  <1> HIDE DEF look
  <1>4. write.now = call[k].now /\ commit.now = call[k].now /\ replace.now = call[k].now
    BY <1>2, WritingFields DEF Call
  <1> HIDE DEF write, commit, replace
  <1> QED BY <1>1, <1>2, <1>3, <1>4, OnProceeds, AttemptProceeds

\* Storing an authorization.
LEMMA CreateProceeds ==
  ASSUME TypeInv, SettleInv, NEW k \in Threads, NEW x \in AuthIds,
         create_unlock_authorization(k, x)
  PROVE  Proceeds(k)
  <1> DEFINE v == [call[k].view EXCEPT !.auth = x]
             r == [call[k] EXCEPT !.pc = "unlock", !.view = v]
  <1>1. UNCHANGED <<commands, clock>>
    BY DEF create_unlock_authorization, world
  <1>2. call[k].pc = "authorize" /\ call[k] \in Call
    BY Tables DEF create_unlock_authorization
  <1>3. Fail(k) \/ (Goto(k, r) /\ UNCHANGED process)
    BY DEF create_unlock_authorization
  <1> HIDE DEF v
  <1>4. r.now = call[k].now
    BY <1>2 DEF Call
  <1> HIDE DEF r
  <1> QED BY <1>1, <1>2, <1>3, <1>4, OnProceeds, FailProceeds

\* The other steps that store nothing.
LEMMA QuietProceeds ==
  ASSUME TypeInv, SettleInv, NEW k \in Threads,
         \/ continue_received(k) \/ commit_dispatch(k) \/ adapter_dispatch(k)
         \/ dispatch_committed(k) \/ authorize_unlock(k)
  PROVE  Proceeds(k)
  <1>1. UNCHANGED <<commands, clock>> /\ call[k].pc \notin {"idle", "write", "confirm"}
    <2>1. CASE continue_received(k)
      BY <2>1 DEF continue_received, durable, world
    <2>2. CASE commit_dispatch(k)
      BY <2>2 DEF commit_dispatch, durable, world
    <2>3. CASE adapter_dispatch(k)
      BY <2>3 DEF adapter_dispatch, durable, world
    <2>4. CASE dispatch_committed(k)
      BY <2>4 DEF dispatch_committed, durable, world
    <2>5. CASE authorize_unlock(k)
      BY <2>5 DEF authorize_unlock, durable, world
    <2> QED BY <2>1, <2>2, <2>3, <2>4, <2>5
  <1>2. call[k] \in Call
    BY Tables
  <1>3. ASSUME NEW r, Goto(k, r), UNCHANGED process, r.now \in {call[k].now, clock}
        PROVE  Proceeds(k)
    BY <1>1, <1>3, OnProceeds
  <1>4. ASSUME Return(k) PROVE Proceeds(k)
    BY <1>1, <1>4, ReturnProceeds
  <1>5. CASE continue_received(k)
    <2>1. PICK r : Goto(k, r) /\ r.now = call[k].now
      <3> DEFINE now == call[k].now
                 denied == [call[k].own EXCEPT !.policy = "Denied"]
                 allowed == [call[k].own EXCEPT !.policy = "Allowed"]
      <3>1. \/ Goto(k, Writing(k, "Rejected", "InvalidTarget", now))
            \/ Goto(k, [Writing(k, "Rejected", "PolicyDenied", now) EXCEPT !.own = denied])
            \/ Goto(k, [Writing(k, "Validated", "None", now) EXCEPT !.own = allowed])
        BY <1>5 DEF continue_received
      <3> HIDE DEF denied, allowed
      <3>2. /\ Writing(k, "Rejected", "InvalidTarget", now).now = now
            /\ [Writing(k, "Rejected", "PolicyDenied", now) EXCEPT !.own = denied].now = now
            /\ [Writing(k, "Validated", "None", now) EXCEPT !.own = allowed].now = now
        BY WritingFields
      <3> QED BY <3>1, <3>2
    <2>2. UNCHANGED process
      BY <1>5 DEF continue_received
    <2> QED BY <1>3, <2>1, <2>2
  <1>6. CASE commit_dispatch(k)
    <2>1. \/ Return(k)
          \/ Goto(k, [call[k] EXCEPT !.pc = "record"]) /\ UNCHANGED process
      BY <1>6 DEF commit_dispatch
    <2>2. [call[k] EXCEPT !.pc = "record"].now = call[k].now
      BY <1>2 DEF Call
    <2> QED BY <1>3, <1>4, <2>1, <2>2
  <1>7. CASE adapter_dispatch(k) \/ dispatch_committed(k)
    <2>1. /\ UNCHANGED process
          /\ \/ Goto(k, [call[k] EXCEPT !.pc = "reply"])
             \/ Goto(k, Writing(k, "Failed", "AdapterFailure", clock))
             \/ Goto(k, Writing(k, "TimedOut", "DeadlineExceeded", clock))
             \/ Goto(k, Writing(k, "Acknowledged", "None", clock))
      BY <1>7 DEF adapter_dispatch, dispatch_committed
    <2>2. /\ [call[k] EXCEPT !.pc = "reply"].now = call[k].now
          /\ Writing(k, "Failed", "AdapterFailure", clock).now = clock
          /\ Writing(k, "TimedOut", "DeadlineExceeded", clock).now = clock
          /\ Writing(k, "Acknowledged", "None", clock).now = clock
      BY <1>2, WritingFields DEF Call
    <2> QED BY <1>3, <2>1, <2>2
  <1>8. CASE authorize_unlock(k)
    <2> DEFINE v == [call[k].view EXCEPT !.revision = slots[call[k].own.req.device].revision]
               r == [call[k] EXCEPT !.pc = "authorize", !.view = v]
    <2>1. Return(k) \/ (Goto(k, r) /\ UNCHANGED process)
      BY <1>2, <1>8 DEF authorize_unlock
    <2> HIDE DEF v
    <2>2. r.now = call[k].now
      BY <1>2 DEF Call
    <2> HIDE DEF r
    <2> QED BY <1>3, <1>4, <2>1, <2>2
  <1> QED BY <1>5, <1>6, <1>7, <1>8

\* A confirmation of a late command always ends in a write.
LEMMA ConfirmProceeds ==
  ASSUME TypeInv, SettleInv, NEW k \in Threads, confirm(k)
  PROVE  Proceeds(k)
  <1> DEFINE now == call[k].now
  <1>1. UNCHANGED <<commands, clock, process>> /\ call[k].pc = "confirm"
    BY DEF confirm, durable, world
  <1>2. mode # "down" /\ startedAt <= now
    BY <1>1 DEF SettleInv
  <1>3. ASSUME NEW g, NEW f, Goto(k, Writing(k, g, f, now)) PROVE Proceeds(k)
    <2> DEFINE r == Writing(k, g, f, now)
    <2>1. r.pc = "write" /\ r.own = call[k].own /\ r.now = now
      BY WritingFields
    <2>2. Goto(k, r)
      BY <1>3
    <2> HIDE DEF r
    <2> QED BY <1>1, <1>2, <2>1, <2>2, GotoProceeds
  <1>4. CASE Goto(k, Idle) /\ ~(call[k].own.req.deadline <= now)
    BY <1>1, <1>4, IdleType, GotoProceeds
  <1> QED BY <1>3, <1>4 DEF confirm

\* Every plain lifecycle write.
LEMMA TransitionProceeds ==
  ASSUME TypeInv, SettleInv, NEW k \in Threads, transition(k)
  PROVE  Proceeds(k)
  <1> DEFINE c == call[k].own
             next == transitioned(c, call[k].goal, call[k].failure, call[k].now)
  <1>1. UNCHANGED clock /\ call[k].pc = "write" /\ c \in Aggregate /\ call[k] \in Call
    BY Tables, CallFields DEF transition, world
  <1>2. CASE /\ transition_command(next)
             /\ Goto(k, AfterTransition(k, next))
             /\ UNCHANGED process
    <2>1. Written(next) /\ next.id \in CommandIds /\ next.id = c.id
      BY <1>1, TransitionedWritten
    <2> HIDE DEF next
    <2>2. /\ \A i \in CommandIds : commands'[i] = commands[i] \/ Written(commands'[i])
          /\ Written(commands'[c.id])
      BY <1>2, <2>1, StoreWrites
    <2>3. mode # "down" /\ startedAt <= call[k].now /\ startedAt <= clock
      BY <1>1 DEF SettleInv
    <2>4. /\ AfterTransition(k, next).pc = "idle"
               \/ AfterTransition(k, next).now \in {call[k].now, clock}
      <3>1. Idle.pc = "idle"
        BY IdleType
      <3>2. Dispatching(k, next).now = call[k].now
        BY <1>1 DEF Dispatching, Call
      <3>3. [call[k] EXCEPT !.pc = "adapter", !.own = next, !.goal = "None"].now = call[k].now
        BY <1>1 DEF Call
      <3>4. [call[k] EXCEPT !.pc = "confirm", !.own = next, !.goal = "None", !.now = clock].now
              = clock
        BY <1>1 DEF Call
      <3> QED BY <3>1, <3>2, <3>3, <3>4 DEF AfterTransition
    <2> DEFINE r == AfterTransition(k, next)
    <2>5. r.pc # "idle" => startedAt <= r.now
      BY <2>3, <2>4
    <2>6. Goto(k, r)
      BY <1>2
    <2> HIDE DEF r
    <2> QED BY <1>1, <1>2, <2>2, <2>3, <2>5, <2>6, GotoProceeds
  <1>3. CASE Fail(k) /\ UNCHANGED <<commands, audit>>
    BY <1>1, <1>3, FailProceeds
  <1> HIDE DEF next
  <1> QED BY <1>2, <1>3 DEF transition, next

\* The dispatch of a slot's command.
LEMMA RecordProceeds ==
  ASSUME TypeInv, SettleInv, NEW k \in Threads,
         record_matter_dispatch(k) \/ authorize_and_record_unlock_dispatch(k)
  PROVE  Proceeds(k)
  <1> DEFINE c == call[k].own
             next == transitioned(c, "Dispatched", "None", call[k].now)
  <1>1. /\ UNCHANGED clock /\ call[k].pc \in {"record", "unlock"} /\ c \in Aggregate
        /\ call[k] \in Call
    BY Tables, CallFields DEF record_matter_dispatch, authorize_and_record_unlock_dispatch, world
  <1>2. Written(next) /\ next.id \in CommandIds
    BY <1>1, TransitionedWritten
  <1>3. CASE /\ transition_command(next)
             /\ UNCHANGED process
             /\ \/ Goto(k, [call[k] EXCEPT !.pc = "adapter", !.own = next])
                \/ Goto(k, [call[k] EXCEPT !.pc = "adapter", !.own = next, !.view = NoView])
    <2> HIDE DEF next
    <2>1. \A i \in CommandIds : commands'[i] = commands[i] \/ Written(commands'[i])
      BY <1>2, <1>3, StoreWrites
    <2>2. /\ [call[k] EXCEPT !.pc = "adapter", !.own = next].now = call[k].now
          /\ [call[k] EXCEPT !.pc = "adapter", !.own = next, !.view = NoView].now = call[k].now
      BY <1>1 DEF Call
    <2>3. PICK r : Goto(k, r) /\ r.now = call[k].now
      BY <1>3, <2>2
    <2> QED BY <1>1, <1>3, <2>1, <2>3, OnProceeds
  <1>4. CASE Fail(k) /\ UNCHANGED commands
    BY <1>1, <1>4, FailProceeds
  <1> HIDE DEF next
  <1> QED BY <1>3, <1>4
      DEF record_matter_dispatch, authorize_and_record_unlock_dispatch, record_dispatch, next

\* The desired state of a device and the command it replaces.
LEMMA ReplaceProceeds ==
  ASSUME TypeInv, SettleInv, NEW k \in Threads, replace_matter_desired_state(k)
  PROVE  Proceeds(k)
  <1> DEFINE prior == call[k].view.prior
             old == superseded(prior, call[k].now)
             r == [call[k] EXCEPT !.pc = "commit", !.view = NoView]
  <1>1. /\ UNCHANGED clock /\ call[k].pc = "replace" /\ call[k] \in Call
        /\ prior \in Aggregate \cup {None}
    BY Tables, CallFields DEF replace_matter_desired_state, world
  <1>2. r.now = call[k].now
    BY <1>1 DEF Call
  <1>3. CASE /\ prior = None => UNCHANGED commands
             /\ prior # None => transition_command(old)
             /\ Goto(k, r)
             /\ UNCHANGED process
    <2>1. \A i \in CommandIds : commands'[i] = commands[i] \/ Written(commands'[i])
      <3>1. CASE prior = None
        BY <1>3, <3>1
      <3>2. CASE prior # None
        <4>1. Written(old) /\ old.id \in CommandIds
          BY <1>1, <3>2, TransitionedWritten DEF superseded
        <4> HIDE DEF old
        <4> QED BY <1>3, <3>2, <4>1, StoreWrites
      <3> QED BY <3>1, <3>2
    <2> HIDE DEF r
    <2> QED BY <1>1, <1>2, <1>3, <2>1, OnProceeds
  <1>4. CASE AttemptFailed(k) /\ UNCHANGED durable
    <2>1. UNCHANGED commands
      BY <1>4 DEF durable
    <2> DEFINE q == [call[k] EXCEPT !.pc = "register", !.tries = @ + 1, !.view = NoView]
    <2>2. CASE Goto(k, q) /\ UNCHANGED process
      <3>1. q.now = call[k].now
        BY <1>1 DEF Call
      <3> HIDE DEF q
      <3> QED BY <1>1, <2>1, <2>2, <3>1, OnProceeds
    <2>3. CASE Fail(k)
      BY <1>1, <2>1, <2>3, FailProceeds
    <2> QED BY <1>4, <2>2, <2>3 DEF AttemptFailed
  <1> HIDE DEF old
  <1> QED BY <1>3, <1>4 DEF replace_matter_desired_state, old

\* Every step of a running call.
LEMMA StepProceeds ==
  ASSUME TypeInv, SettleInv, NEW k \in Threads, Step(k)
  PROVE  Proceeds(k)
  BY RegisterProceeds, CreateProceeds, QuietProceeds, ConfirmProceeds, TransitionProceeds, RecordProceeds, ReplaceProceeds DEF Step

\* A new call starts at the present instant.
LEMMA BeginProceeds ==
  ASSUME TypeInv, SettleInv, NEW k \in Calls, Begin(k)
  PROVE  Proceeds(k)
  <1>1. k \in Threads /\ clock \in Nat /\ startedAt <= clock
    BY Tables DEF Threads, SettleInv
  <1>2. call[k] = Idle /\ mode = "serving" /\ UNCHANGED <<clock, process>> /\ Idle \in Call
        /\ Idle.pc = "idle"
    <2>1. CASE \E r \in Requests, id \in CommandIds :
                 \E payload \in effective_payloads(r.payload) : execute(k, r, id, payload)
      BY <2>1, IdleType DEF execute, world
    <2>2. CASE \E id \in CommandIds : cancel(k, id)
      BY <2>2, IdleType DEF cancel, world
    <2>3. CASE \E id \in CommandIds, a \in Actors : approve_unlock(k, id, a)
      BY <2>3, IdleType DEF approve_unlock, world
    <2> QED BY <2>1, <2>2, <2>3 DEF Begin
  <1>3. ASSUME NEW r, Goto(k, r), r.now = clock,
               \A i \in CommandIds : commands'[i] = commands[i] \/ Written(commands'[i])
        PROVE  Proceeds(k)
    BY <1>1, <1>2, <1>3, GotoProceeds
  <1>4. CASE \E r \in Requests, id \in CommandIds :
               \E payload \in effective_payloads(r.payload) : execute(k, r, id, payload)
    <2>1. PICK q \in Requests, id \in CommandIds :
            \E payload \in effective_payloads(q.payload) : execute(k, q, id, payload)
      BY <1>4
    <2>2. PICK payload \in effective_payloads(q.payload) : execute(k, q, id, payload)
      BY <2>1
    <2> DEFINE c == received(id, q, payload, clock)
    <2>3. c.updated = clock
      BY DEF received
    <2>4. commands' = [commands EXCEPT ![id] = c]
          /\ Goto(k, [Idle EXCEPT !.pc = "received", !.own = c, !.now = clock])
      BY <2>2 DEF execute
    <2> HIDE DEF c
    <2>5. \A i \in CommandIds : commands'[i] = commands[i] \/ Written(commands'[i])
      BY <1>1, <2>3, <2>4, Tables DEF Written
    <2>6. [Idle EXCEPT !.pc = "received", !.own = c, !.now = clock].now = clock
      BY <1>2 DEF Call
    <2> QED BY <1>3, <2>4, <2>5, <2>6
  <1>5. CASE \E id \in CommandIds : cancel(k, id)
    <2>1. PICK id \in CommandIds : cancel(k, id)
      BY <1>5
    <2> DEFINE r == [Idle EXCEPT !.pc = "write", !.own = commands[id], !.goal = "Cancelled",
                                 !.now = clock]
    <2>2. UNCHANGED commands /\ Goto(k, r)
      BY <2>1 DEF cancel, durable
    <2>3. r.now = clock
      BY <1>2 DEF Call
    <2> HIDE DEF r
    <2> QED BY <1>3, <2>2, <2>3
  <1>6. CASE \E id \in CommandIds, a \in Actors : approve_unlock(k, id, a)
    <2>1. PICK id \in CommandIds, a \in Actors : approve_unlock(k, id, a)
      BY <1>6
    <2> DEFINE v == [NoView EXCEPT !.approver = a]
               r == [Idle EXCEPT !.pc = "approve", !.own = commands[id], !.now = clock,
                                 !.view = v]
    <2>2. UNCHANGED commands /\ Goto(k, r)
      BY <2>1 DEF approve_unlock, durable
    <2> HIDE DEF v
    <2>3. r.now = clock
      BY <1>2 DEF Call
    <2> HIDE DEF r
    <2> QED BY <1>3, <2>2, <2>3
  <1> QED BY <1>4, <1>5, <1>6 DEF Begin

\* The page of recover covers the commands that are open.
PageCoversOpen ==
  LET open == {i \in Stored : ~is_terminal(commands[i])}
  IN  IsFiniteSet(open) /\ Cardinality(open) <= RecoveryPage

\* Then recover loads every open command.
LEMMA WholePage ==
  ASSUME PageCoversOpen, NEW S \in recoverable_commands
  PROVE  \A i \in Stored : ~is_terminal(commands[i]) => commands[i] \in S
  <1> DEFINE I == {i \in Stored : ~is_terminal(commands[i])}
             open == {commands[c] : c \in I}
             f == [c \in I |-> commands[c]]
  <1>1. /\ S \in SUBSET open
        /\ Cardinality(S) <= RecoveryPage
        /\ Cardinality(S) < RecoveryPage => S = open
    BY DEF recoverable_commands
  <1>2. IsFiniteSet(I) /\ Cardinality(I) <= RecoveryPage
    BY DEF PageCoversOpen
  <1>3. f \in Surjection(I, open)
    BY DEF Surjection
  <1> HIDE DEF f, open
  <1>4. IsFiniteSet(open) /\ Cardinality(open) <= Cardinality(I)
    <2> HIDE DEF I
    <2> QED BY <1>2, <1>3, FS_Surjection
  <1>5. /\ IsFiniteSet(S) /\ Cardinality(S) <= Cardinality(open)
        /\ Cardinality(open) = Cardinality(S) => open = S
    BY <1>1, <1>4, FS_Subset
  <1>6. Cardinality(S) \in Nat /\ Cardinality(open) \in Nat /\ Cardinality(I) \in Nat
    <2> HIDE DEF I
    <2> QED BY <1>2, <1>4, <1>5, FS_CardinalityType
  <1>7. S = open
    <2> HIDE DEF I
    <2> QED BY <1>1, <1>2, <1>4, <1>5, <1>6, BoundsAssumption
  <1> QED BY <1>7 DEF open

\* The start of a process: every late command is on the page.
LEMMA RecoverSettles ==
  ASSUME TypeInv, GovernanceInv, SettleInv, PageCoversOpen, recover
  PROVE  SettleInv'
  <1>1. /\ mode = "down" /\ mode' = "recovering" /\ startedAt' = clock
        /\ page' \in recoverable_commands /\ UNCHANGED <<commands, call, clock>>
    BY DEF recover, durable, world
  <1>2. \A t \in Threads : call[t].pc = "idle"
    BY <1>1 DEF SettleInv
  <1>3. clock \in Nat
    BY Tables
  <1>4. ASSUME NEW i \in CommandIds, Late(commands[i], clock)
        PROVE  \E e \in page' : e.id = i
    <2>1. i \in Stored /\ ~is_terminal(commands[i])
      BY <1>4 DEF Late, Stored
    <2>2. commands[i] \in page'
      <3> DEFINE S == page'
      <3>1. S \in recoverable_commands
        BY <1>1
      <3> HIDE DEF S
      <3>2. commands[i] \in S
        BY <2>1, <3>1, WholePage
      <3> QED BY <3>2 DEF S
    <2>3. commands[i].id = i
      BY <2>1 DEF GovernanceInv, RowsOK, RowOK, Stored
    <2> QED BY <2>2, <2>3
  <1>5. clock' >= startedAt'
    BY <1>1, <1>3
  <1> QED BY <1>1, <1>2, <1>4, <1>5 DEF SettleInv

\* recover_one takes one command off the page; a late one it settles.
LEMMA RecoverOneSettles ==
  ASSUME TypeInv, GovernanceInv, SettleInv, NEW c \in page, recover_one(c)
  PROVE  SettleInv'
  <1> DEFINE start == [Idle EXCEPT !.own = c, !.now = startedAt]
             timeout == [start EXCEPT !.pc = "write", !.goal = "TimedOut",
                                      !.failure = "DeadlineExceeded"]
             denied == [c EXCEPT !.policy = "Denied"]
             deny == [start EXCEPT !.pc = "write", !.goal = "Rejected",
                        !.failure = "PolicyDenied", !.own = denied]
             go(pc) == [start EXCEPT !.pc = pc]
  <1>1. c \in Aggregate /\ CopyOf(commands, c) /\ startedAt \in Nat /\ clock \in Nat
    BY Tables DEF GovernanceInv, PageSound
  <1>2. /\ Recovery \in Threads /\ page' = page \ {c} /\ mode = "recovering"
        /\ call[Recovery] = Idle /\ UNCHANGED <<commands, clock, mode, startedAt>>
    BY DEF recover_one, durable, world, Threads
  <1>3. \/ Goto(Recovery, timeout)
        \/ Goto(Recovery, go("confirm"))
        \/ /\ ~(c.req.deadline <= startedAt)
           /\ Goto(Recovery, deny) \/ Goto(Recovery, go("received"))
                \/ Goto(Recovery, go("register"))
    BY DEF recover_one
  <1> HIDE DEF denied
  <1>4. /\ timeout.pc = "write" /\ timeout.own = c /\ timeout.now = startedAt
        /\ deny.now = startedAt
    BY DEF Idle
  <1>5. \A pc : go(pc).pc = pc /\ go(pc).own = c /\ go(pc).now = startedAt
    BY DEF Idle
  <1> HIDE DEF timeout, deny, go
  <1>6. PICK r : /\ Goto(Recovery, r)
                 /\ r.now = startedAt
                 /\ c.req.deadline <= startedAt =>
                      r.own = c /\ (r.pc = "write" \/ r.pc = "confirm")
    BY <1>3, <1>4, <1>5
  <1>7. \A t \in Threads : call'[t] = IF t = Recovery THEN r ELSE call[t]
    BY <1>6, Tables DEF Goto
  <1>8. \A t \in Threads : call'[t].pc # "idle" => mode' # "down" /\ startedAt' <= call'[t].now
    BY <1>1, <1>2, <1>6, <1>7 DEF SettleInv
  <1>9. ASSUME NEW i \in CommandIds, Late(commands[i], startedAt)
        PROVE  (\E e \in page' : e.id = i) \/ Settling(call'[Recovery], i)
    <2>1. ~Settling(call[Recovery], i)
      BY <1>2, IdleType DEF Settling
    <2>2. PICK e \in page : e.id = i
      BY <1>2, <1>9, <2>1 DEF SettleInv
    <2>3. CASE e # c
      BY <1>2, <2>2, <2>3
    <2>4. CASE e = c
      <3>1. c.req.deadline <= startedAt
        BY <1>1, <1>9, <2>2, <2>4 DEF CopyOf, Late
      <3>2. call'[Recovery] = r
        BY <1>2, <1>7
      <3> QED BY <1>6, <2>2, <2>4, <3>1, <3>2 DEF Settling
    <2> QED BY <2>3, <2>4
  <1> QED BY <1>2, <1>8, <1>9 DEF SettleInv

\* serve, crashes, faults, grants, reports and time.
LEMMA AroundSettles ==
  ASSUME TypeInv, SettleInv, serve \/ Environment
  PROVE  SettleInv'
  <1>1. Idle.pc = "idle" /\ Recovery \in Threads /\ clock \in Nat /\ startedAt \in Nat
    BY IdleType, Tables DEF Threads
  <1>2. CASE serve
    <2>1. /\ mode = "recovering" /\ page = {} /\ call[Recovery] = Idle /\ mode' = "serving"
          /\ UNCHANGED <<commands, call, page, startedAt, clock>>
      BY <1>2 DEF serve, durable, world
    <2>2. \A i \in CommandIds : ~Late(commands[i], startedAt)
      BY <1>1, <2>1 DEF SettleInv, Settling
    <2> QED BY <2>1, <2>2 DEF SettleInv
  <1>3. CASE Crash
    <2>1. /\ mode' = "down" /\ \A t \in Threads : call'[t] = Idle
          /\ UNCHANGED <<commands, startedAt, clock>>
      BY <1>3 DEF Crash, durable
    <2> QED BY <1>1, <2>1 DEF SettleInv
  <1>4. ASSUME NEW k \in Threads, Fault(k) PROVE SettleInv'
    <2>1. Fail(k) /\ UNCHANGED <<commands, clock>>
      BY <1>4 DEF Fault, durable
    <2> QED BY <2>1, FailProceeds, ProceedsSettles
  <1>5. CASE \/ \E a \in Actors, g \in GrantSets : replace_actor_grants(a, g)
             \/ \E d \in Managed, fresh \in BOOLEAN : store_matter_projection(d, fresh)
    <2>1. UNCHANGED <<commands, call, mode, page, startedAt, clock>>
      BY <1>5 DEF replace_actor_grants, store_matter_projection, durable, world, process
    <2> QED BY <2>1 DEF SettleInv
  <1>6. CASE Tick
    <2>1. UNCHANGED <<commands, call, mode, page, startedAt>> /\ clock' = clock + 1
      BY <1>6 DEF Tick, durable, process
    <2>2. startedAt' <= clock'
      BY <1>1, <2>1 DEF SettleInv
    <2> QED BY <2>1, <2>2 DEF SettleInv
  <1> QED BY <1>2, <1>3, <1>4, <1>5, <1>6 DEF Environment

\* Every step keeps the invariant while the page covers the open commands.
LEMMA NextSettles ==
  ASSUME TypeInv, GovernanceInv, SettleInv, PageCoversOpen, [Next]_vars
  PROVE  SettleInv'
  <1>1. ASSUME NEW k \in Calls, Begin(k) PROVE SettleInv'
    <2>1. k \in Threads
      BY DEF Threads
    <2> QED BY <1>1, <2>1, BeginProceeds, ProceedsSettles
  <1>2. ASSUME NEW k \in Threads, Step(k) PROVE SettleInv'
    BY <1>2, StepProceeds, ProceedsSettles
  <1>3. CASE Startup
    BY <1>3, RecoverSettles, RecoverOneSettles, AroundSettles DEF Startup
  <1>4. CASE Environment
    BY <1>4, AroundSettles
  <1>5. CASE UNCHANGED vars
    BY <1>5 DEF SettleInv, vars
  <1> QED BY <1>1, <1>2, <1>3, <1>4, <1>5 DEF Next

\* As long as the page of recover covers the open commands, a process that
\* serves has settled every command that was open before its start and past
\* its deadline, however often startup crashed or failed on the way
\* (recover_one, confirm).
THEOREM RecoveryIsComplete == Spec /\ []PageCoversOpen => []RecoverySettles
  <1>1. Init => SettleInv
    <2> SUFFICES ASSUME Init PROVE SettleInv
      OBVIOUS
    <2>1. \A t \in Threads : call[t].pc = "idle"
      BY IdleType DEF Init
    <2> QED BY <2>1 DEF Init, SettleInv, Late
  <1>2. TypeInv /\ GovernanceInv /\ SettleInv /\ PageCoversOpen /\ [Next]_vars => SettleInv'
    BY NextSettles
  <1>3. TypeInv /\ SettleInv => RecoverySettles
    <2> SUFFICES ASSUME TypeInv, SettleInv, mode = "serving", NEW c \in Stored,
                        ~is_terminal(commands[c]), commands[c].updated < startedAt
                 PROVE  commands[c].req.deadline > startedAt
      BY DEF RecoverySettles
    <2>1. c \in CommandIds /\ commands[c] # None
      BY DEF Stored
    <2>2. commands[c] \in Aggregate /\ startedAt \in Nat
      BY <2>1, Tables
    <2>3. commands[c].req.deadline \in Nat
      BY <2>2, AggregateFields, RequestsAssumption DEF Request
    <2>4. ~(commands[c].req.deadline <= startedAt)
      BY <2>1 DEF SettleInv, Late
    <2> QED BY <2>2, <2>3, <2>4
  <1> QED
    BY <1>1, <1>2, <1>3, GovernanceHolds, PTL DEF Spec
=============================================================================
