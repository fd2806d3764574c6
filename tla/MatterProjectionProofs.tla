------------------------ MODULE MatterProjectionProofs ------------------------
(***************************************************************************)
(* Theorems about MatterProjection, for any nodes, commands, loads and     *)
(* recovery policy.                                                        *)
(*                                                                         *)
(* A command and the repair worker write the projection row from copies    *)
(* they took before they talked to the controller.  The invariant says     *)
(* what makes the check of the revision enough: a copy with the stored     *)
(* revision is the stored row (Fits), so a write that passes the check is  *)
(* an update of what is stored, and a report held with such a copy was     *)
(* read after the last gap began, because a gap takes a revision.          *)
(***************************************************************************)
EXTENDS MatterProjection, TLAPS

----------------------------------------------------------------------------
(* Types.                                                                  *)

Values == {"none", "on", "off", "locked", "unlocked", "not_fully_locked", "unknown"}
Report == [value : Values, version : Nat, seq : Nat, at : Nat, epoch : Nat]
State == [desired : [revision : Nat, value : Values], reported : Report, confirmed : Nat,
          freshness : {"unknown", "fresh", "stale"},
          convergence : {"no_desired", "pending", "confirmed", "diverged"},
          uncertainty : {"none", "report_gap", "read_failed"}]
Row == [state : State, revision : Nat]
Flow == [pc : {"idle", "registered", "dispatching", "invoking", "acknowledged", "reading",
               "storing", "confirmed", "mismatch", "failed"},
         value : Values, received : Nat, copy : Row \cup {NoRow}, report : Report, wrote : Nat]
Work(op) ==
        [pc : {"idle", "begin", "gap", "gap_commit", "retry", "call", "established", "lost",
               "ambiguous"},
         op : {op}, copy : Row \cup {NoRow}, report : Report]
Slot == [revision : Nat, cmd : Cmds \cup {None}, dispatched : BOOLEAN]

----------------------------------------------------------------------------
(* States, reports and copies.                                             *)

\* A copy of the row is an older one or the row itself.
Fits(copy, row) ==
    /\ copy.revision \in Nat /\ copy.revision <= row.revision
    /\ copy.revision = row.revision => copy = row

\* A report that was read, and when.
Read(report, e) == report \in Report /\ report.value # None /\ report.epoch = e

\* What a stored state satisfies when e gaps have begun.
Sound(state, e) ==
    /\ state \in State /\ state.reported.value # None
    /\ state.freshness = "fresh" => state.reported.epoch = e
    /\ state.convergence = "confirmed" =>
         /\ state.freshness = "fresh" /\ state.desired.revision > 0
         /\ state.reported.value = state.desired.value

FlowOK(f, row, e) ==
    /\ f \in Flow /\ Fits(f.copy, row)
    /\ f.pc = "storing" /\ f.copy.revision = row.revision => Read(f.report, e)

WorkOK(w, row, e) ==
    /\ w \in Work(w.op) /\ Fits(w.copy, row)
    /\ w.pc = "gap_commit" /\ w.report # NoReport => Read(w.report, e)

ProjInv ==
    /\ proj \in Row /\ proj.revision > 0 /\ Sound(proj.state, epoch)
    /\ flow = [c \in Cmds |-> flow[c]]
    /\ \A c \in Cmds : FlowOK(flow[c], proj, epoch)
    /\ WorkOK(wk, proj, epoch)
    /\ slot \in Slot /\ dev.version \in Nat /\ dev.seq \in Nat
    /\ epoch \in Nat /\ now \in Nat

\* The second report is the first or a later one.
Forward(old, new) == new.seq >= old.seq /\ (new.seq = old.seq => new.value = old.value)

\* A read of the controller is a report of the current epoch.
LEMMA ReadNow ==
  ASSUME dev.version \in Nat, dev.seq \in Nat, now \in Nat, epoch \in Nat
  PROVE  Read(read, epoch)
  <1>1. \A rule, raw : map_report_value(rule, raw) \in Values /\ map_report_value(rule, raw) # None
    <2> TAKE rule, raw
    <2>1. CASE rule = "on_off.v1"
      BY <2>1 DEF map_report_value, None, Values
    <2>2. CASE rule # "on_off.v1" /\ raw \in {1, 2, 3}
      BY <2>2 DEF map_report_value, None, Values
    <2>3. CASE rule # "on_off.v1" /\ raw \notin {1, 2, 3}
      BY <2>3 DEF map_report_value, None, Values
    <2> QED
      BY <2>1, <2>2, <2>3
  <1> QED
    BY <1>1 DEF Read, read, Report

\* What is marked stale is not fresh, and nothing stale is confirmed.
LEMMA MarkedStale ==
  ASSUME NEW s, NEW e, Sound(s, e), NEW why \in {"report_gap", "read_failed"}, NEW n
  PROVE  /\ Sound(mark_matter_projection_stale(s, why), n)
         /\ mark_matter_projection_stale(s, why).reported = s.reported
  <1> DEFINE m == mark_matter_projection_stale(s, why)
             x == IF s.convergence = "confirmed" /\ s.desired.revision > 0 THEN "pending"
                  ELSE s.convergence
  <1>1. s \in State /\ x \in {"no_desired", "pending", "diverged"}
    BY DEF Sound, State
  <1>2. m = [s EXCEPT !.freshness = "stale", !.uncertainty = why, !.convergence = x]
    BY <1>1 DEF mark_matter_projection_stale, State
  <1> HIDE DEF m, x
  <1>3. m \in State /\ m.freshness = "stale" /\ m.convergence = x /\ m.reported = s.reported
    BY <1>1, <1>2 DEF State
  <1> QED
    BY <1>1, <1>3 DEF Sound, m

\* An accepted report becomes the reported state.
LEMMA Advanced ==
  ASSUME NEW s \in State, NEW e, NEW r, Read(r, e), NEW cause
  PROVE  /\ Sound(advance_matter_projected_state(s, r, cause), e)
         /\ advance_matter_projected_state(s, r, cause).reported = r
  <1> DEFINE m == advance_matter_projected_state(s, r, cause)
             n == s.desired.revision
             matches == s.desired.value = r.value
             bound == matches /\ cause = n
             k == CASE n = 0 -> 0 [] n > 0 /\ bound -> n [] OTHER -> s.confirmed
             x == CASE n = 0 -> "no_desired" [] n > 0 /\ bound -> "confirmed"
                    [] n > 0 /\ matches /\ ~bound -> "pending" [] OTHER -> "diverged"
  <1>1. s \in State /\ r \in Report /\ n \in Nat /\ s.confirmed \in Nat
    BY DEF Sound, State, Read
  <1>2. m = [s EXCEPT !.reported = r, !.freshness = "fresh", !.uncertainty = None,
                      !.confirmed = k, !.convergence = x]
    BY <1>1 DEF advance_matter_projected_state, State
  <1>3. k \in Nat
    BY <1>1
  <1>4. x \in {"no_desired", "pending", "confirmed", "diverged"} /\ (x = "confirmed" => n > 0 /\ matches)
    <2>1. CASE n = 0
      BY <2>1
    <2>2. CASE n > 0 /\ bound
      BY <1>1, <2>2
    <2>3. CASE n > 0 /\ matches /\ ~bound
      BY <1>1, <2>3
    <2>4. CASE n > 0 /\ ~matches
      BY <1>1, <2>4
    <2> QED
      BY <1>1, <2>1, <2>2, <2>3, <2>4
  <1> HIDE DEF m, x, k
  <1>5. /\ m \in State /\ m.freshness = "fresh" /\ m.convergence = x /\ m.reported = r
        /\ m.desired = s.desired
    BY <1>1, <1>2, <1>3, <1>4 DEF State, None
  <1> QED
    BY <1>4, <1>5 DEF Sound, Read, m

\* A new desired revision leaves the report alone.
LEMMA Desired ==
  ASSUME NEW s, NEW e, Sound(s, e), NEW n \in Nat, NEW v \in Values
  PROVE  /\ Sound(advance_matter_desired_state(s, n + 1, v), e)
         /\ advance_matter_desired_state(s, n + 1, v).reported = s.reported
  <1> DEFINE d == [revision |-> n + 1, value |-> v]
             m == advance_matter_desired_state(s, n + 1, v)
  <1>1. s \in State /\ d \in [revision : Nat, value : Values]
    BY DEF Sound
  <1>2. m = [s EXCEPT !.desired = d, !.convergence = "pending"]
    BY DEF advance_matter_desired_state
  <1> HIDE DEF d, m
  <1>3. /\ m \in State /\ m.convergence = "pending" /\ m.reported = s.reported
        /\ m.freshness = s.freshness
    BY <1>1, <1>2 DEF State
  <1> QED
    BY <1>3 DEF Sound, m

\* A report changes a state only forward.
LEMMA AppliedForward ==
  ASSUME NEW s, NEW e \in Nat, Sound(s, e), NEW r, Read(r, e), NEW cause, NEW at \in Nat
  PROVE  /\ Sound(Applied(s, r, cause, at), e)
         /\ Forward(s.reported, Applied(s, r, cause, at).reported)
  <1>0. s \in State /\ s.reported \in Report /\ r \in Report
    BY DEF Sound, State, Read
  <1>1. CASE normalize_matter_report(s.reported, r, at) = "applied"
    <2>1. r.seq > s.reported.seq
      BY <1>0, <1>1 DEF normalize_matter_report, Sound, Report
    <2>2. Applied(s, r, cause, at) = advance_matter_projected_state(s, r, cause)
      BY <1>1 DEF Applied
    <2> QED
      BY <1>0, <2>1, <2>2, Advanced DEF Forward, Report
  <1>2. CASE normalize_matter_report(s.reported, r, at) = "duplicate"
    <2> DEFINE x == [s.reported EXCEPT !.epoch = r.epoch]
    <2>1. Read(x, e) /\ x.seq = s.reported.seq /\ x.value = s.reported.value
      BY <1>0 DEF Read, Report, Sound
    <2>2. Applied(s, r, cause, at) = advance_matter_projected_state(s, x, cause)
      BY <1>2 DEF Applied
    <2> HIDE DEF x
    <2> QED
      BY <1>0, <2>1, <2>2, Advanced DEF Forward, Report
  <1>3. CASE /\ normalize_matter_report(s.reported, r, at) # "applied"
             /\ normalize_matter_report(s.reported, r, at) # "duplicate"
    <2>1. Applied(s, r, cause, at) = s
      BY <1>3 DEF Applied
    <2> QED
      BY <1>0, <2>1 DEF Forward, Report
  <1> QED
    BY <1>1, <1>2, <1>3

----------------------------------------------------------------------------
(* Steps.                                                                  *)

\* A copy that passes the check of the revision is the stored row.
LEMMA CheckedCopy ==
  ASSUME NEW copy, Fits(copy, proj), store_projection(copy)
  PROVE  copy = proj
  BY DEF Fits, store_projection

\* The invalid copy fits every row.
LEMMA NoCopy ==
  ASSUME NEW row \in Row, row.revision > 0
  PROVE  Fits(NoRow, row) /\ NoRow \notin Row
  BY DEF Fits, NoRow, Row

\* What held for the stored row holds when a new revision is stored.
LEMMA NewRow ==
  ASSUME NEW row \in Row, NEW s, NEW e, NEW n
  PROVE  /\ \A f : FlowOK(f, row, e) => FlowOK(f, Stored(s, row), n)
         /\ \A w : WorkOK(w, row, e) => WorkOK(w, Stored(s, row), e)
  <1>1. Stored(s, row).revision = row.revision + 1 /\ row.revision \in Nat
    BY DEF Stored, Row
  <1>2. \A c : Fits(c, row) => Fits(c, Stored(s, row)) /\ c.revision # Stored(s, row).revision
    BY <1>1 DEF Fits
  <1> QED
    BY <1>2 DEF FlowOK, WorkOK

\* The row is stored again, or left alone, by a command.
LEMMA CommandStores ==
  ASSUME ProjInv, NEW c \in Cmds, NEW f, FlowOK(f, proj', epoch),
         flow' = [flow EXCEPT ![c] = f], UNCHANGED <<wk, epoch, now>>,
         slot' \in Slot, dev'.version \in Nat, dev'.seq \in Nat,
         \/ UNCHANGED proj
         \/ \E s : /\ proj' = Stored(s, proj) /\ Sound(s, epoch)
                   /\ Forward(proj.state.reported, s.reported)
  PROVE  ProjInv' /\ Forward(proj.state.reported, proj'.state.reported)
  <1>1. proj \in Row /\ proj.revision > 0 /\ proj.state \in State /\ proj.state.reported \in Report
    BY DEF ProjInv, Row, State
  <1>2. /\ proj' \in Row /\ proj'.revision > 0 /\ Sound(proj'.state, epoch)
        /\ Forward(proj.state.reported, proj'.state.reported)
    <2>1. CASE UNCHANGED proj
      BY <1>1, <2>1 DEF ProjInv, Forward, Report
    <2>2. CASE \E s : /\ proj' = Stored(s, proj) /\ Sound(s, epoch)
                      /\ Forward(proj.state.reported, s.reported)
      BY <1>1, <2>2 DEF Stored, Row, Sound
    <2> QED
      BY <2>1, <2>2
  <1>3. /\ flow' = [d \in Cmds |-> flow'[d]] /\ flow'[c] = f
        /\ \A d \in Cmds : d # c => flow'[d] = flow[d]
    BY DEF ProjInv
  <1>4. /\ \A d \in Cmds : FlowOK(flow[d], proj, epoch) => FlowOK(flow[d], proj', epoch)
        /\ WorkOK(wk, proj, epoch) => WorkOK(wk, proj', epoch)
    BY <1>1, NewRow
  <1>5. \A d \in Cmds : FlowOK(flow'[d], proj', epoch)
    BY <1>3, <1>4 DEF ProjInv
  <1>6. WorkOK(wk, proj', epoch)
    BY <1>4 DEF ProjInv
  <1> QED
    BY <1>2, <1>3, <1>5, <1>6 DEF ProjInv

\* The row is stored again, or left alone, by the worker.
LEMMA WorkerStores ==
  ASSUME ProjInv, NEW w, WorkOK(w, proj', epoch'), wk' = w,
         UNCHANGED <<flow, slot, dev, now>>,
         \/ UNCHANGED <<proj, epoch>>
         \/ \E s : /\ proj' = Stored(s, proj) /\ Sound(s, epoch') /\ epoch' \in Nat
                   /\ Forward(proj.state.reported, s.reported)
  PROVE  ProjInv' /\ Forward(proj.state.reported, proj'.state.reported)
  <1>1. proj \in Row /\ proj.revision > 0 /\ proj.state \in State /\ proj.state.reported \in Report
    BY DEF ProjInv, Row, State
  <1>2. /\ proj' \in Row /\ proj'.revision > 0 /\ Sound(proj'.state, epoch') /\ epoch' \in Nat
        /\ Forward(proj.state.reported, proj'.state.reported)
    <2>1. CASE UNCHANGED <<proj, epoch>>
      BY <1>1, <2>1 DEF ProjInv, Forward, Report
    <2>2. CASE \E s : /\ proj' = Stored(s, proj) /\ Sound(s, epoch') /\ epoch' \in Nat
                      /\ Forward(proj.state.reported, s.reported)
      BY <1>1, <2>2 DEF Stored, Row, Sound
    <2> QED
      BY <2>1, <2>2
  <1>3. \A d \in Cmds : FlowOK(flow[d], proj, epoch) => FlowOK(flow[d], proj', epoch')
    BY <1>1, NewRow
  <1> QED
    BY <1>2, <1>3 DEF ProjInv

\* The steps of a command.
LEMMA CommandSteps ==
  ASSUME ProjInv, CommandStep
  PROVE  ProjInv' /\ Forward(proj.state.reported, proj'.state.reported)
  <1>0. PICK c \in Cmds :
          \/ \E value \in expected_state(Rule) : register_desired(c, value)
          \/ commit_dispatch(c) \/ dispatch(c) \/ invoke(c) \/ dispatch_fails(c)
          \/ confirm(c) \/ confirm_read(c) \/ confirm_read_fails(c) \/ confirm_store(c)
    BY DEF CommandStep
  <1> DEFINE next(f) == flow' = [flow EXCEPT ![c] = f]
             Leaves == UNCHANGED <<wk, epoch, now, proj>>
  <1>1. /\ proj \in Row /\ proj.revision > 0 /\ proj.state \in State /\ Sound(proj.state, epoch)
        /\ flow = [d \in Cmds |-> flow[d]] /\ FlowOK(flow[c], proj, epoch) /\ flow[c] \in Flow
        /\ slot \in Slot /\ dev.version \in Nat /\ dev.seq \in Nat
        /\ epoch \in Nat /\ now \in Nat
        /\ Fits(NoRow, proj) /\ NoReport \in Report /\ proj.state.reported \in Report
    BY NoCopy DEF ProjInv, Row, FlowOK, NoReport, Report, Values, None, State
  <1>2. ASSUME NEW value \in expected_state(Rule), register_desired(c, value)
        PROVE  ProjInv' /\ Forward(proj.state.reported, proj'.state.reported)
    <2> DEFINE f == [IdleFlow EXCEPT !.pc = "registered", !.value = value, !.received = now]
               s == advance_matter_desired_state(proj.state, slot.revision + 1, value)
    <2>1. value \in Values
      BY DEF expected_state, Values
    <2>2. /\ next(f) /\ proj' = Stored(s, proj) /\ UNCHANGED <<wk, epoch, now, dev>>
          /\ slot' \in Slot /\ slot.revision \in Nat
      BY <1>1, <1>2 DEF register_desired, FlowOnly, Slot
    <2>3. Sound(s, epoch) /\ s.reported = proj.state.reported
      BY <1>1, <2>1, <2>2, Desired
    <2>4. f \in Flow /\ f.pc = "registered" /\ f.copy = NoRow
      BY <1>1, <2>1 DEF IdleFlow, Flow, None, Values
    <2>5. FlowOK(f, proj, epoch)
      BY <1>1, <2>4 DEF FlowOK
    <2>6. FlowOK(f, proj', epoch)
      BY <1>1, <2>2, <2>5, NewRow
    <2>7. Forward(proj.state.reported, s.reported)
      BY <1>1, <2>3 DEF Forward, Report
    <2> HIDE DEF f, s
    <2> QED
      BY <1>1, <2>2, <2>3, <2>6, <2>7, CommandStores
  <1>3. ASSUME NEW f \in Flow, next(f), Leaves, Fits(f.copy, proj),
               f.pc = "storing" => Read(f.report, epoch),
               slot' \in Slot, dev'.version \in Nat, dev'.seq \in Nat
        PROVE  ProjInv' /\ Forward(proj.state.reported, proj'.state.reported)
    <2>1. FlowOK(f, proj', epoch)
      BY <1>3 DEF FlowOK
    <2> QED
      BY <1>1, <1>3, <2>1, CommandStores
  <1>4. CASE commit_dispatch(c) \/ dispatch(c) \/ dispatch_fails(c)
    <2>1. PICK x \in {"dispatching", "invoking", "failed"} : flow' = [flow EXCEPT ![c].pc = x]
      BY <1>4 DEF commit_dispatch, dispatch, dispatch_fails
    <2> DEFINE f == [flow[c] EXCEPT !.pc = x]
    <2>2. f \in Flow /\ f.pc = x /\ f.copy = flow[c].copy /\ next(f)
      BY <1>1, <2>1 DEF Flow
    <2>3. UNCHANGED <<wk, epoch, now, proj, dev>> /\ slot' \in Slot
      <3>1. slot' \in Slot
        BY <1>1, <1>4 DEF commit_dispatch, dispatch, dispatch_fails, Slot
      <3> QED
        BY <1>4, <3>1 DEF commit_dispatch, dispatch, dispatch_fails, FlowOnly
    <2> HIDE DEF f
    <2> QED
      BY <1>1, <1>3, <2>2, <2>3 DEF FlowOK
  <1>5. CASE invoke(c)
    <2>1. UNCHANGED <<wk, epoch, now, proj, slot>> /\ dev'.version \in Nat /\ dev'.seq \in Nat
      BY <1>1, <1>5 DEF invoke, FlowOnly
    <2> DEFINE f == [flow[c] EXCEPT !.pc = "failed"]
               g == [flow[c] EXCEPT !.pc = "acknowledged", !.wrote = dev.seq + 1]
    <2>2. next(f) \/ next(g)
      BY <1>1, <1>5 DEF invoke
    <2>3. f \in Flow /\ f.pc = "failed" /\ f.copy = flow[c].copy
      BY <1>1 DEF Flow
    <2>4. g \in Flow /\ g.pc = "acknowledged" /\ g.copy = flow[c].copy
      <3>1. dev.seq + 1 \in Nat /\ flow[c] \in Flow
        BY <1>1
      <3> QED
        BY <3>1 DEF Flow
    <2> HIDE DEF f, g
    <2> QED
      BY <1>1, <1>3, <2>1, <2>2, <2>3, <2>4 DEF FlowOK
  <1>6. CASE confirm(c)
    <2> DEFINE f == [flow[c] EXCEPT !.pc = "confirmed"]
               g == [flow[c] EXCEPT !.pc = "reading", !.copy = proj]
    <2>1. UNCHANGED <<wk, epoch, now, proj, slot, dev>>
      BY <1>6 DEF confirm, FlowOnly
    <2>2. next(f) \/ next(g)
      BY <1>1, <1>6 DEF confirm
    <2>3. f \in Flow /\ f.pc = "confirmed" /\ f.copy = flow[c].copy
      BY <1>1 DEF Flow
    <2>4. g \in Flow /\ g.pc = "reading" /\ g.copy = proj
      BY <1>1 DEF Flow
    <2>5. Fits(proj, proj)
      BY <1>1 DEF Fits, Row
    <2> HIDE DEF f, g
    <2> QED
      BY <1>1, <1>3, <2>1, <2>2, <2>3, <2>4, <2>5 DEF FlowOK
  <1>7. CASE confirm_read(c)
    <2> DEFINE f == [flow[c] EXCEPT !.pc = "storing", !.report = read]
    <2>1. UNCHANGED <<wk, epoch, now, proj, slot, dev>> /\ next(f)
      BY <1>1, <1>7 DEF confirm_read, FlowOnly
    <2>2. Read(read, epoch)
      BY <1>1, ReadNow
    <2>3. f \in Flow /\ f.copy = flow[c].copy /\ f.report = read
      BY <1>1, <2>2 DEF Flow, Read
    <2> HIDE DEF f
    <2> QED
      BY <1>1, <1>3, <2>1, <2>2, <2>3 DEF FlowOK
  <1>8. CASE confirm_read_fails(c)
    <2> DEFINE f == [flow[c] EXCEPT !.pc = "failed", !.copy = NoRow]
    <2>1. UNCHANGED <<wk, epoch, now, proj, slot, dev>> /\ next(f)
      BY <1>1, <1>8 DEF confirm_read_fails, FlowOnly
    <2>2. f \in Flow /\ f.copy = NoRow /\ f.pc = "failed"
      BY <1>1 DEF Flow
    <2> HIDE DEF f
    <2> QED
      BY <1>1, <1>3, <2>1, <2>2
  <1>9. CASE confirm_store(c)
    <2> DEFINE cause == IF slot.cmd = c THEN slot.revision ELSE 0
               s == Applied(flow[c].copy.state, flow[c].report, cause, now)
               f(x) == [flow[c] EXCEPT !.pc = x, !.copy = NoRow, !.report = NoReport]
               Rejected == normalize_matter_report(flow[c].copy.state.reported,
                                                   flow[c].report, now) = "rejected"
    <2>1. flow[c].pc = "storing" /\ UNCHANGED <<wk, epoch, now, slot, dev>>
      BY <1>9 DEF confirm_store, FlowOnly
    <2>2. \/ next(f("mismatch")) /\ UNCHANGED proj
          \/ next(f("acknowledged")) /\ UNCHANGED proj
          \/ /\ next(f("mismatch")) \/ next(f("confirmed"))
             /\ store_projection(flow[c].copy) /\ proj' = Stored(s, flow[c].copy)
      BY <1>9 DEF confirm_store
    <2>3. \A x \in {"mismatch", "acknowledged", "confirmed"} :
            f(x) \in Flow /\ f(x).copy = NoRow /\ f(x).pc = x
      BY <1>1 DEF Flow
    <2> HIDE DEF f, s
    <2>4. CASE (next(f("mismatch")) \/ next(f("acknowledged"))) /\ UNCHANGED proj
      BY <1>1, <1>3, <2>1, <2>3, <2>4
    <2>5. CASE /\ next(f("mismatch")) \/ next(f("confirmed"))
               /\ store_projection(flow[c].copy) /\ proj' = Stored(s, flow[c].copy)
      <3>1. flow[c].copy = proj
        BY <1>1, <2>5, CheckedCopy DEF FlowOK
      <3>2. Read(flow[c].report, epoch)
        BY <1>1, <2>1, <3>1 DEF FlowOK
      <3>3. s = Applied(proj.state, flow[c].report, cause, now)
        BY <3>1 DEF s
      <3>4. Sound(s, epoch) /\ Forward(proj.state.reported, s.reported)
        BY <1>1, <3>2, <3>3, AppliedForward
      <3>5. \A x \in {"mismatch", "confirmed"} : FlowOK(f(x), proj, epoch)
        BY <1>1, <2>3 DEF FlowOK
      <3>6. \A x \in {"mismatch", "confirmed"} : FlowOK(f(x), proj', epoch)
        BY <1>1, <2>5, <3>1, <3>5, NewRow
      <3> QED
        BY <1>1, <2>1, <2>5, <3>1, <3>4, <3>6, CommandStores
    <2> QED
      BY <2>2, <2>4, <2>5
  <1> QED
    BY <1>0, <1>2, <1>4, <1>5, <1>6, <1>7, <1>8, <1>9

\* The worker commits a state derived from its copy, or gives up.
LEMMA Commits ==
  ASSUME ProjInv, NEW state, NEW phase, NEW subscription, NEW pc,
         commit(state, phase, subscription, pc), pc \in {"gap", "call"},
         UNCHANGED <<flow, slot, dev, now>>, epoch' \in Nat,
         wk'.pc = "idle" => UNCHANGED epoch,
         wk.copy = proj =>
           Sound(state, epoch') /\ Forward(proj.state.reported, state.reported)
  PROVE  ProjInv' /\ Forward(proj.state.reported, proj'.state.reported)
  <1>1. /\ proj \in Row /\ WorkOK(wk, proj, epoch) /\ wk \in Work(wk.op) /\ Fits(wk.copy, proj)
        /\ Fits(NoRow, proj) /\ NoReport \in Report
    BY NoCopy DEF ProjInv, WorkOK, NoReport, Report, Values, None
  <1>2. WorkOK(Free, proj, epoch) /\ Free.pc = "idle"
    BY <1>1 DEF Free, WorkOK, Work
  <1>3. CASE store_projection(wk.copy)
    <2> DEFINE w == [wk EXCEPT !.pc = pc, !.copy = NoRow, !.report = NoReport]
    <2>1. wk.copy = proj
      BY <1>1, <1>3, CheckedCopy
    <2>2. proj' = Stored(state, proj) /\ wk' = w
      BY <1>3, <2>1 DEF commit
    <2>3. w \in Work(w.op) /\ w.pc = pc /\ w.copy = NoRow
      BY <1>1 DEF Work
    <2> HIDE DEF w
    <2>4. WorkOK(w, proj, epoch')
      BY <1>1, <2>3 DEF WorkOK
    <2>5. WorkOK(w, proj', epoch')
      BY <1>1, <2>2, <2>4, NewRow
    <2> QED
      BY <2>1, <2>2, <2>5, WorkerStores
  <1>4. CASE ~store_projection(wk.copy)
    <2>1. wk' = Free /\ UNCHANGED <<proj, epoch>>
      BY <1>2, <1>4 DEF commit
    <2> QED
      BY <1>2, <2>1, WorkerStores
  <1> QED
    BY <1>3, <1>4

\* The steps of a repair.
LEMMA RepairSteps ==
  ASSUME ProjInv, RepairStep
  PROVE  ProjInv' /\ Forward(proj.state.reported, proj'.state.reported)
  <1>1. /\ proj \in Row /\ proj.revision > 0 /\ Sound(proj.state, epoch)
        /\ WorkOK(wk, proj, epoch) /\ wk \in Work(wk.op) /\ Fits(wk.copy, proj)
        /\ proj.state.reported \in Report
        /\ Fits(NoRow, proj) /\ NoReport \in Report /\ epoch \in Nat /\ now \in Nat
    BY NoCopy DEF ProjInv, WorkOK, NoReport, Report, Values, None, Row, State
  <1>2. WorkOK(Free, proj, epoch) /\ Free \in Work(0) /\ Free.copy = NoRow /\ Free.op = 0
    BY <1>1 DEF Free, WorkOK, Work
  <1>3. ASSUME NEW w, WorkOK(w, proj, epoch), wk' = w, WorkerOnly, UNCHANGED <<proj, epoch>>
        PROVE  ProjInv' /\ Forward(proj.state.reported, proj'.state.reported)
    BY <1>3, WorkerStores DEF WorkerOnly
  <1>4. ASSUME NEW x \in {"retry", "call", "established", "lost"},
               wk' = [wk EXCEPT !.pc = x], WorkerOnly, UNCHANGED <<proj, epoch>>
        PROVE  ProjInv' /\ Forward(proj.state.reported, proj'.state.reported)
    <2> DEFINE w == [wk EXCEPT !.pc = x]
    <2>1. w \in Work(w.op) /\ w.pc = x /\ w.copy = wk.copy
      BY <1>1 DEF Work
    <2>2. WorkOK(w, proj, epoch)
      BY <1>1, <2>1 DEF WorkOK
    <2> HIDE DEF w
    <2> QED
      BY <1>3, <1>4, <2>2 DEF w
  <1>5. ASSUME NEW i \in DOMAIN ops, run(i)
        PROVE  ProjInv' /\ Forward(proj.state.reported, proj'.state.reported)
    <2> DEFINE x == CASE ops[i] = "requested" -> "begin"
                      [] ops[i] = "reading_gap" -> "ambiguous"
                      [] OTHER -> IF sub.retryAt > 0 THEN "retry" ELSE "ambiguous"
               w == [Free EXCEPT !.op = i, !.pc = x]
    <2>1. x \in {"begin", "ambiguous", "retry"}
      BY Zenon
    <2>2. wk' = w /\ WorkerOnly /\ UNCHANGED <<proj, epoch>>
      BY <1>5 DEF run
    <2> HIDE DEF x
    <2>3. w \in Work(w.op) /\ w.pc = x /\ w.copy = NoRow
      BY <1>1, <2>1 DEF Free, Work
    <2>4. WorkOK(w, proj, epoch)
      BY <1>1, <2>1, <2>3 DEF WorkOK
    <2> HIDE DEF w
    <2> QED
      BY <1>3, <2>2, <2>4
  <1>6. CASE inventory
    <2> DEFINE w == [wk EXCEPT !.copy = proj]
    <2>1. /\ wk' = w /\ WorkerOnly /\ UNCHANGED <<proj, epoch>> /\ wk.pc \in {"begin", "gap"}
      BY <1>6 DEF inventory
    <2>2. w \in Work(w.op) /\ w.pc = wk.pc /\ w.copy = proj
      BY <1>1 DEF Work
    <2>3. Fits(proj, proj)
      BY <1>1 DEF Fits, Row
    <2>4. WorkOK(w, proj, epoch)
      BY <2>1, <2>2, <2>3 DEF WorkOK
    <2> HIDE DEF w
    <2> QED
      BY <1>3, <2>1, <2>4
  <1>7. CASE begin_gap
    <2> DEFINE s == mark_matter_projection_stale(wk.copy.state, "report_gap")
               t == [sub EXCEPT !.state = "repair_required", !.gapReads = 1, !.attempts = 0,
                                !.retryAt = 0]
    <2>1. commit(s, "reading_gap", t, "gap") /\ UNCHANGED <<flow, slot, dev, now>>
      BY <1>7 DEF begin_gap, WorkerOnly
    <2>2. epoch' \in Nat /\ (wk'.pc = "idle" => UNCHANGED epoch)
      BY <1>1, <1>7 DEF begin_gap
    <2>3. wk.copy = proj => Sound(s, epoch') /\ Forward(proj.state.reported, s.reported)
      <3>1. wk.copy = proj => Sound(s, epoch') /\ s.reported = proj.state.reported
        BY <1>1, MarkedStale
      <3> QED
        BY <1>1, <3>1 DEF Forward, Report
    <2> HIDE DEF s, t
    <2> QED
      BY <2>1, <2>2, <2>3, Commits
  <1>8. ASSUME NEW ok \in BOOLEAN, read_gap(ok)
        PROVE  ProjInv' /\ Forward(proj.state.reported, proj'.state.reported)
    <2> DEFINE r == IF ok THEN read ELSE NoReport
               w == [wk EXCEPT !.pc = "gap_commit", !.report = r]
    <2>1. wk' = w /\ WorkerOnly /\ UNCHANGED <<proj, epoch>>
      BY <1>8 DEF read_gap
    <2>2. r = NoReport \/ Read(r, epoch)
      BY <1>1, ReadNow DEF ProjInv
    <2>3. r \in Report
      BY <1>1, <2>2 DEF Read
    <2> HIDE DEF r
    <2>4. w \in Work(w.op) /\ w.pc = "gap_commit" /\ w.copy = wk.copy /\ w.report = r
      BY <1>1, <2>3 DEF Work
    <2>5. WorkOK(w, proj, epoch)
      BY <1>1, <2>2, <2>4 DEF WorkOK
    <2> HIDE DEF w
    <2> QED
      BY <1>3, <2>1, <2>5
  <1>9. CASE commit_gap
    <2> DEFINE s == IF wk.report = NoReport
                      THEN mark_matter_projection_stale(wk.copy.state, "read_failed")
                      ELSE Applied(wk.copy.state, wk.report, 0, now)
               t == [sub EXCEPT !.attempts = 1, !.retryAt = 0]
    <2>1. /\ wk.pc = "gap_commit" /\ commit(s, "subscribing", t, "call")
          /\ UNCHANGED <<flow, slot, dev, now, epoch>>
      BY <1>9 DEF commit_gap, WorkerOnly
    <2>2. wk.copy = proj => Sound(s, epoch) /\ Forward(proj.state.reported, s.reported)
      <3> SUFFICES ASSUME wk.copy = proj
                   PROVE  Sound(s, epoch) /\ Forward(proj.state.reported, s.reported)
        OBVIOUS
      <3>1. CASE wk.report = NoReport
        <4>1. Sound(s, epoch) /\ s.reported = proj.state.reported
          BY <1>1, <3>1, MarkedStale
        <4> QED
          BY <1>1, <4>1 DEF Forward, Report
      <3>2. CASE wk.report # NoReport
        <4>1. Read(wk.report, epoch) /\ s = Applied(proj.state, wk.report, 0, now)
          BY <1>1, <2>1, <3>2 DEF WorkOK
        <4> QED
          BY <1>1, <4>1, AppliedForward
      <3> QED
        BY <3>1, <3>2
    <2> HIDE DEF s, t
    <2> QED
      BY <1>1, <2>1, <2>2, Commits
  <1>10. CASE reserve
    <2>1. /\ wk' = Free \/ wk' = [wk EXCEPT !.pc = "call"]
          /\ WorkerOnly /\ UNCHANGED <<proj, epoch>>
      BY <1>10 DEF reserve
    <2> QED
      BY <1>2, <1>3, <1>4, <2>1
  <1>11. ASSUME NEW ok \in BOOLEAN, subscribe(ok)
         PROVE  ProjInv' /\ Forward(proj.state.reported, proj'.state.reported)
    <2>1. /\ wk' = [wk EXCEPT !.pc = "established"] \/ wk' = [wk EXCEPT !.pc = "lost"]
          /\ WorkerOnly /\ UNCHANGED <<proj, epoch>>
      BY <1>11 DEF subscribe
    <2> QED
      BY <1>4, <2>1
  <1>12. CASE record_established \/ record_subscribe_failure \/ record_ambiguous_dispatch
    <2>1. wk' = Free /\ WorkerOnly /\ UNCHANGED <<proj, epoch>>
      BY <1>12 DEF record_established, record_subscribe_failure, record_ambiguous_dispatch, Close
    <2> QED
      BY <1>2, <1>3, <2>1
  <1> QED
    BY <1>5, <1>6, <1>7, <1>8, <1>9, <1>10, <1>11, <1>12 DEF RepairStep

\* A crash drops every copy.
LEMMA CrashStep ==
  ASSUME ProjInv, Crash
  PROVE  ProjInv' /\ Forward(proj.state.reported, proj'.state.reported)
  <1>1. /\ proj \in Row /\ proj.state.reported \in Report /\ Fits(NoRow, proj)
        /\ NoReport \in Report /\ \A c \in Cmds : flow[c] \in Flow
    BY NoCopy DEF ProjInv, FlowOK, NoReport, Report, Values, None, Row, State
  <1> DEFINE x(c) == CASE flow[c].pc = "registered" -> "failed"
                       [] flow[c].pc \in {"dispatching", "invoking", "reading", "storing"}
                            -> "acknowledged"
                       [] OTHER -> flow[c].pc
             f(c) == [flow[c] EXCEPT !.copy = NoRow, !.report = NoReport, !.pc = x(c)]
  <1>2. flow' = [c \in Cmds |-> f(c)]
    BY DEF Crash
  <1>3. \A c \in Cmds : FlowOK(f(c), proj, epoch)
    <2> TAKE c \in Cmds
    <2>1. x(c) \in {"failed", "acknowledged", "idle", "confirmed", "mismatch"}
      BY <1>1 DEF Flow
    <2> HIDE DEF x
    <2>2. f(c) \in Flow /\ f(c).pc = x(c) /\ f(c).copy = NoRow
      BY <1>1, <2>1 DEF Flow
    <2> QED
      BY <1>1, <2>1, <2>2 DEF FlowOK
  <1> HIDE DEF f
  <1>4. flow' = [c \in Cmds |-> flow'[c]] /\ \A c \in Cmds : FlowOK(flow'[c], proj, epoch)
    BY <1>2, <1>3
  <1>5. WorkOK(Free, proj, epoch)
    BY <1>1 DEF Free, WorkOK, Work
  <1>6. wk' = Free /\ UNCHANGED <<proj, slot, dev, epoch, now>>
    BY DEF Crash, store
  <1> QED
    BY <1>1, <1>4, <1>5, <1>6 DEF ProjInv, Forward, Report

\* Every step keeps the invariant and moves reports forward.
LEMMA ProjStep ==
  ASSUME ProjInv, [Next]_vars
  PROVE  ProjInv' /\ Forward(proj.state.reported, proj'.state.reported)
  <1>1. CASE CommandStep
    BY <1>1, CommandSteps
  <1>2. CASE RepairStep
    BY <1>2, RepairSteps
  <1>3. CASE Crash
    BY <1>3, CrashStep
  <1>4. CASE start \/ Tick \/ lose_subscriptions \/ UNCHANGED vars
    <2>1. UNCHANGED <<proj, flow, wk, slot, dev, epoch>> /\ (UNCHANGED now \/ now' = now + 1)
      BY <1>4 DEF start, Tick, lose_subscriptions, vars, store
    <2>2. proj.state.reported \in Report
      BY DEF ProjInv, Row, State
    <2>3. now' \in Nat
      BY <2>1 DEF ProjInv
    <2> QED
      BY <2>1, <2>2, <2>3 DEF ProjInv, Forward, Report
  <1> QED
    BY <1>1, <1>2, <1>3, <1>4 DEF Next

\* The row as commissioning left it.
LEMMA ProjInit == Init => ProjInv
  <1> SUFFICES ASSUME Init PROVE ProjInv
    OBVIOUS
  <1> DEFINE s == [desired |-> NoDesired, reported |-> NoReport, confirmed |-> 0,
                   freshness |-> "unknown", convergence |-> "no_desired", uncertainty |-> None]
             m == advance_matter_projected_state(s, read, 0)
  <1>1. /\ dev.version = 0 /\ dev.seq = 0 /\ now = 1 /\ epoch = 0
        /\ proj = [state |-> m, revision |-> 1]
        /\ slot \in Slot /\ flow = [c \in Cmds |-> IdleFlow] /\ wk = Free
    BY DEF Init, Slot
  <1>2. Read(read, 0)
    BY <1>1, ReadNow
  <1>3. NoReport \in Report /\ s \in State
    BY DEF NoReport, Report, Values, None, State, NoDesired
  <1> HIDE DEF s
  <1>4. Sound(m, 0)
    BY <1>2, <1>3, Advanced
  <1> HIDE DEF m
  <1>5. proj \in Row /\ proj.revision > 0 /\ Sound(proj.state, epoch)
    BY <1>1, <1>4 DEF Row, Sound
  <1>6. Fits(NoRow, proj)
    BY <1>5, NoCopy
  <1>7. FlowOK(IdleFlow, proj, epoch)
    BY <1>3, <1>6 DEF FlowOK, IdleFlow, Flow, None, Values
  <1>8. WorkOK(Free, proj, epoch)
    BY <1>3, <1>6 DEF WorkOK, Free, Work
  <1> QED
    BY <1>1, <1>5, <1>7, <1>8 DEF ProjInv

\* Commands and repairs that store copies taken before they talked to the
\* controller never replace a report by an older one or by another value of
\* the same sequence: store_projection's check of the revision is enough.
THEOREM ReportsOnlyAdvance == Spec => ReportsAdvance
  <1>1. ProjInv /\ [Next]_vars =>
          ProjInv' /\ [LET old == proj.state.reported
                           new == proj'.state.reported
                       IN  new.seq >= old.seq /\ (new.seq = old.seq => new.value = old.value)]_proj
    BY ProjStep DEF Forward
  <1> QED
    BY <1>1, ProjInit, PTL DEF Spec, ReportsAdvance

\* A projection is fresh only if it was read after the last report gap began,
\* and confirmed only if it is fresh and reports what was desired, whatever
\* copies confirm and the repair worker held when the gap began.
THEOREM FreshIsReadAfterGap == Spec => []NoCachedFresh
  <1>1. ProjInv /\ [Next]_vars => ProjInv'
    BY ProjStep
  <1>2. ProjInv => NoCachedFresh
    BY DEF ProjInv, Sound, NoCachedFresh
  <1> QED
    BY <1>1, <1>2, ProjInit, PTL DEF Spec

----------------------------------------------------------------------------
(* The budget of a recovery cycle.                                         *)

Attempts == 0..MaxAttempts
Subscription(retryAt) ==
    [state : {"established", "repair_required"}, gapReads : {0, 1},
     attempts : Attempts, retryAt : {retryAt}]

\* The durable number of attempts counts every call before it is made.  It is
\* behind the calls only after the subscription is established, when no retry
\* is scheduled and the next call has a gap, and a new budget, before it.
Budget ==
    /\ sub \in Subscription(sub.retryAt) /\ calls \in Attempts
    /\ wk.pc \in {"gap", "gap_commit"} => calls = 0
    /\ wk.pc = "call" => calls < sub.attempts
    /\ wk.pc = "lost" => calls <= sub.attempts
    /\ wk.pc = "retry" => sub.retryAt > 0
    /\ sub.retryAt > 0 => calls <= sub.attempts /\ sub.attempts < MaxAttempts

\* Steps that leave the subscription to the worker.
LEMMA BudgetKept ==
  ASSUME Budget, UNCHANGED <<sub, calls>>, wk' = wk \/ wk'.pc = "idle"
  PROVE  Budget'
  BY DEF Budget

LEMMA BudgetStep ==
  ASSUME ProjInv, Budget, [Next]_vars
  PROVE  Budget'
  <1>1. /\ wk \in Work(wk.op) /\ Free.pc = "idle" /\ MaxAttempts \in Nat /\ MaxAttempts > 0
        /\ sub \in Subscription(sub.retryAt) /\ calls \in Nat /\ sub.attempts \in Nat
        /\ 0 \in Attempts /\ 1 \in Attempts
    BY RecoveryPolicy DEF ProjInv, WorkOK, Free, Budget, Subscription, Attempts
  <1>2. CASE CommandStep \/ start \/ Tick \/ Crash \/ lose_subscriptions \/ UNCHANGED vars
    <2>1. UNCHANGED <<sub, calls>> /\ (wk' = wk \/ wk' = Free)
      <3>1. CASE CommandStep
        BY <3>1 DEF CommandStep, register_desired, commit_dispatch, dispatch, invoke, dispatch_fails,
                    confirm, confirm_read, confirm_read_fails, confirm_store, FlowOnly
      <3>2. CASE start \/ Tick \/ Crash \/ lose_subscriptions \/ UNCHANGED vars
        BY <3>2 DEF start, Tick, Crash, lose_subscriptions, vars, store
      <3> QED
        BY <1>2, <3>1, <3>2
    <2> QED
      BY <1>1, <2>1, BudgetKept
  <1>3. ASSUME NEW i \in DOMAIN ops, run(i) PROVE Budget'
    <2> DEFINE x == CASE ops[i] = "requested" -> "begin"
                      [] ops[i] = "reading_gap" -> "ambiguous"
                      [] OTHER -> IF sub.retryAt > 0 THEN "retry" ELSE "ambiguous"
    <2>1. x \in {"begin", "ambiguous"} \/ (x = "retry" /\ sub.retryAt > 0)
      BY Zenon
    <2>2. wk' = [Free EXCEPT !.op = i, !.pc = x] /\ UNCHANGED <<sub, calls>>
      BY <1>3 DEF run
    <2> HIDE DEF x
    <2>3. wk'.pc = x
      BY <2>2 DEF Free
    <2> QED
      BY <2>1, <2>2, <2>3 DEF Budget
  <1>4. CASE inventory
    <2>1. wk' = [wk EXCEPT !.copy = proj] /\ UNCHANGED <<sub, calls>>
      BY <1>4 DEF inventory
    <2>2. wk'.pc = wk.pc
      BY <1>1, <2>1 DEF Work
    <2> QED
      BY <2>1, <2>2 DEF Budget
  <1>5. CASE begin_gap
    <2>1. CASE store_projection(wk.copy)
      <3>1. wk' = [wk EXCEPT !.pc = "gap", !.copy = NoRow, !.report = NoReport]
            /\ sub' = [sub EXCEPT !.state = "repair_required", !.gapReads = 1, !.attempts = 0,
                                  !.retryAt = 0]
        BY <1>5, <2>1 DEF begin_gap, commit
      <3>2. wk'.pc = "gap"
        BY <1>1, <3>1 DEF Work
      <3>3. calls' = 0
        BY <1>5, <3>2 DEF begin_gap
      <3>4. sub' \in Subscription(0) /\ sub'.attempts = 0 /\ sub'.retryAt = 0
        BY <1>1, <3>1 DEF Subscription
      <3> QED
        BY <1>1, <3>2, <3>3, <3>4 DEF Budget
    <2>2. CASE ~store_projection(wk.copy)
      <3>1. wk' = Free /\ UNCHANGED sub
        BY <1>5, <2>2 DEF begin_gap, commit
      <3>2. UNCHANGED calls
        BY <1>1, <1>5, <3>1 DEF begin_gap
      <3> QED
        BY <1>1, <3>1, <3>2, BudgetKept
    <2> QED
      BY <2>1, <2>2
  <1>6. ASSUME NEW ok \in BOOLEAN, read_gap(ok) PROVE Budget'
    <2>1. wk' = [wk EXCEPT !.pc = "gap_commit", !.report = IF ok THEN read ELSE NoReport]
          /\ UNCHANGED <<sub, calls>> /\ wk.pc = "gap"
      BY <1>6 DEF read_gap
    <2>2. wk'.pc = "gap_commit"
      BY <1>1, <2>1 DEF Work
    <2> QED
      BY <2>1, <2>2 DEF Budget
  <1>7. CASE commit_gap
    <2>1. CASE store_projection(wk.copy)
      <3>1. /\ wk.pc = "gap_commit" /\ UNCHANGED calls
            /\ wk' = [wk EXCEPT !.pc = "call", !.copy = NoRow, !.report = NoReport]
            /\ sub' = [sub EXCEPT !.attempts = 1, !.retryAt = 0]
        BY <1>7, <2>1 DEF commit_gap, commit
      <3>2. wk'.pc = "call"
        BY <1>1, <3>1 DEF Work
      <3>3. sub' \in Subscription(0) /\ sub'.attempts = 1 /\ sub'.retryAt = 0
        BY <1>1, <3>1 DEF Subscription
      <3> QED
        BY <1>1, <3>1, <3>2, <3>3 DEF Budget
    <2>2. CASE ~store_projection(wk.copy)
      <3>1. wk' = Free /\ UNCHANGED <<sub, calls>>
        BY <1>7, <2>2 DEF commit_gap, commit
      <3> QED
        BY <1>1, <3>1, BudgetKept
    <2> QED
      BY <2>1, <2>2
  <1>8. CASE reserve
    <2>1. CASE wk' = Free /\ UNCHANGED sub
      BY <1>1, <1>8, <2>1, BudgetKept DEF reserve
    <2>2. CASE /\ sub' = [sub EXCEPT !.attempts = @ + 1, !.retryAt = 0]
               /\ wk' = [wk EXCEPT !.pc = "call"]
      <3>1. wk.pc = "retry" /\ UNCHANGED calls
        BY <1>8 DEF reserve
      <3>2. calls <= sub.attempts /\ sub.attempts < MaxAttempts
        BY <3>1 DEF Budget
      <3>3. wk'.pc = "call"
        BY <1>1, <2>2 DEF Work
      <3>4. /\ sub' \in Subscription(0) /\ sub'.attempts = sub.attempts + 1 /\ sub'.retryAt = 0
        <4>1. sub.attempts + 1 \in Attempts
          BY <1>1, <3>2 DEF Attempts
        <4> QED
          BY <1>1, <2>2, <4>1 DEF Subscription
      <3> QED
        BY <1>1, <3>1, <3>2, <3>3, <3>4 DEF Budget
    <2> QED
      BY <1>8, <2>1, <2>2 DEF reserve
  <1>9. ASSUME NEW ok \in BOOLEAN, subscribe(ok) PROVE Budget'
    <2>1. /\ wk.pc = "call" /\ calls' = calls + 1 /\ UNCHANGED sub
          /\ wk' = [wk EXCEPT !.pc = "established"] \/ wk' = [wk EXCEPT !.pc = "lost"]
      BY <1>9 DEF subscribe
    <2>2. wk'.pc \in {"established", "lost"}
      BY <1>1, <2>1 DEF Work
    <2>3. calls < sub.attempts /\ sub.attempts <= MaxAttempts
      BY <1>1, <2>1 DEF Budget, Subscription, Attempts
    <2> QED
      BY <1>1, <2>1, <2>2, <2>3 DEF Budget, Attempts
  <1>10. CASE record_established \/ record_ambiguous_dispatch
    <2>1. /\ wk' = Free /\ UNCHANGED calls
          /\ \/ sub' = [sub EXCEPT !.state = "established", !.gapReads = 0, !.attempts = 0,
                                   !.retryAt = 0]
             \/ sub' = [sub EXCEPT !.state = "repair_required", !.retryAt = 0]
      BY <1>10 DEF record_established, record_ambiguous_dispatch, Close
    <2>2. sub' \in Subscription(0) /\ sub'.retryAt = 0
      BY <1>1, <2>1 DEF Subscription
    <2> QED
      BY <1>1, <2>1, <2>2 DEF Budget
  <1>11. CASE record_subscribe_failure
    <2>1. wk.pc = "lost" /\ wk' = Free /\ UNCHANGED calls
      BY <1>11 DEF record_subscribe_failure, Close
    <2>2. CASE sub.attempts >= MaxAttempts
      <3>1. sub' = [sub EXCEPT !.state = "repair_required", !.retryAt = 0]
        BY <1>11, <2>2 DEF record_subscribe_failure, Close
      <3>2. sub' \in Subscription(0) /\ sub'.retryAt = 0
        BY <1>1, <3>1 DEF Subscription
      <3> QED
        BY <1>1, <2>1, <3>2 DEF Budget
    <2>3. CASE ~(sub.attempts >= MaxAttempts)
      <3> DEFINE t == matter_subscription_retry_at(sub.attempts)
      <3>1. sub' = [sub EXCEPT !.retryAt = t]
        BY <1>11, <2>3 DEF record_subscribe_failure
      <3> HIDE DEF t
      <3>2. sub' \in Subscription(t) /\ sub'.retryAt = t /\ sub'.attempts = sub.attempts
        BY <1>1, <3>1 DEF Subscription
      <3>3. calls <= sub.attempts
        BY <2>1 DEF Budget
      <3> QED
        BY <1>1, <2>1, <2>3, <3>2, <3>3 DEF Budget
    <2> QED
      BY <2>2, <2>3
  <1> QED
    BY <1>2, <1>3, <1>4, <1>5, <1>6, <1>7, <1>8, <1>9, <1>10, <1>11 DEF Next, RepairStep

\* Crashes, retries and several repairs of one subscription never make the
\* worker ask the controller more often than maximum_subscribe_attempts since
\* the last gap began.
THEOREM BudgetIsKept == Spec => []AttemptsWithinBudget
  <1>1. Init => Budget
    BY RecoveryPolicy DEF Init, Budget, Subscription, Attempts, Free
  <1>2. ProjInv /\ Budget /\ [Next]_vars => ProjInv' /\ Budget'
    BY ProjStep, BudgetStep
  <1>3. Budget => AttemptsWithinBudget
    BY DEF Budget, Attempts, AttemptsWithinBudget
  <1> QED
    BY <1>1, <1>2, <1>3, ProjInit, PTL DEF Spec

----------------------------------------------------------------------------
(* What a command finds of its own invocation.                             *)

\* r is a report that device d, seen through the rule, produced by the time t.
\* One that tells of the invocation of a command is not older than the command.
Of(r, d, rule, t, fl) ==
    /\ r \in Report /\ r.value # None /\ r.version = r.seq /\ r.seq <= d.seq /\ r.at <= t
    /\ r.seq = d.seq => r.value = map_report_value(rule, d.raw)
    /\ \A c \in Cmds : fl[c].wrote > 0 /\ r.seq >= fl[c].wrote => r.at >= fl[c].received

\* What a command has done to the device and knows of it.
Wrote(f, d, rule, t, fl) ==
    /\ f.received <= t /\ f.wrote <= d.seq
    /\ f.wrote > 0 /\ f.wrote = d.seq => d.raw = mutate_for_invoke(f.value)
    /\ f.pc # "idle" => f.value \in expected_state(rule)
    /\ f.pc \in {"idle", "registered", "dispatching", "invoking"} => f.wrote = 0
    /\ f.pc \in {"reading", "storing"} =>
         f.copy \in Row /\ Of(f.copy.state.reported, d, rule, t, fl)
    /\ f.pc = "storing" => Of(f.report, d, rule, t, fl) /\ f.report.seq >= f.wrote

DeviceInv ==
    /\ project_matter_node(node) # {}
    /\ dev.version = dev.seq /\ dev.seq < VersionModulus
    /\ Of(proj.state.reported, dev, Rule, now, flow)
    /\ \A c \in Cmds : Wrote(flow[c], dev, Rule, now, flow)
    /\ wk.pc = "gap_commit" /\ wk.report # NoReport => Of(wk.report, dev, Rule, now, flow)
    /\ MismatchIsReal

\* The device has not gone through half of the range of its data version,
\* which is how far data_version_advances looks ahead.
WithinHalfRange == dev.seq < VersionModulus \div 2

\* A light is projected by the on/off rule.
LEMMA LightRule ==
  ASSUME project_matter_node(node) # {}, node.cluster = "on_off"
  PROVE  Rule = "on_off.v1"
  <1>1. project_matter_node(node) = {"on_off.v1"}
    BY DEF project_matter_node, project_access_control, eligible_server_cluster
  <1> QED
    BY <1>1 DEF Rule

\* What was said of a report or of a command remains true while the device,
\* the clock and the other commands move on.
LEMMA Remains ==
  ASSUME NEW d, NEW e, d.seq \in Nat, e = d \/ e.seq = d.seq + 1,
         NEW t \in Nat, NEW u \in Nat, t <= u, NEW fl, NEW gl,
         \A c \in Cmds : /\ fl[c] \in Flow /\ gl[c] \in Flow
                         /\ \/ gl[c].wrote = fl[c].wrote /\ gl[c].received = fl[c].received
                            \/ gl[c].wrote = 0 \/ gl[c].wrote > d.seq,
         NEW rule
  PROVE  /\ \A r : Of(r, d, rule, t, fl) => Of(r, e, rule, u, gl)
         /\ \A f \in Flow : Wrote(f, d, rule, t, fl) => Wrote(f, e, rule, u, gl)
  <1>1. ASSUME NEW r, Of(r, d, rule, t, fl) PROVE Of(r, e, rule, u, gl)
    <2>1. /\ r \in Report /\ r.value # None /\ r.version = r.seq /\ r.seq <= d.seq /\ r.at <= t
          /\ r.seq \in Nat /\ r.at \in Nat
      BY <1>1 DEF Of, Report
    <2>2. r.seq <= e.seq /\ r.at <= u
      BY <2>1
    <2>3. r.seq = e.seq => r.value = map_report_value(rule, e.raw)
      BY <1>1, <2>1 DEF Of
    <2>4. ASSUME NEW c \in Cmds, gl[c].wrote > 0, r.seq >= gl[c].wrote
          PROVE  r.at >= gl[c].received
      <3>1. gl[c].wrote \in Nat /\ fl[c].wrote \in Nat
        BY DEF Flow
      <3>2. gl[c].wrote = fl[c].wrote /\ gl[c].received = fl[c].received
        BY <2>1, <2>4, <3>1
      <3> QED
        BY <1>1, <2>4, <3>2 DEF Of
    <2> QED
      BY <2>1, <2>2, <2>3, <2>4 DEF Of
  <1>2. ASSUME NEW f \in Flow, Wrote(f, d, rule, t, fl) PROVE Wrote(f, e, rule, u, gl)
    <2>1. f.wrote \in Nat /\ f.received \in Nat
      BY DEF Flow
    <2>2. f.received <= u /\ f.wrote <= e.seq
      BY <1>2, <2>1 DEF Wrote
    <2>3. f.wrote > 0 /\ f.wrote = e.seq => e.raw = mutate_for_invoke(f.value)
      BY <1>2, <2>1 DEF Wrote
    <2>4. /\ f.pc \in {"reading", "storing"} =>
               f.copy \in Row /\ Of(f.copy.state.reported, e, rule, u, gl)
          /\ f.pc = "storing" => Of(f.report, e, rule, u, gl) /\ f.report.seq >= f.wrote
      BY <1>1, <1>2 DEF Wrote
    <2> QED
      BY <1>2, <2>2, <2>3, <2>4 DEF Wrote
  <1> QED
    BY <1>1, <1>2

\* A report that is applied, or found equal, comes from the device as well.
LEMMA AppliedOf ==
  ASSUME NEW s \in State, NEW r, NEW d, NEW rule, NEW t, NEW fl, NEW cause, NEW at,
         Of(s.reported, d, rule, t, fl), Of(r, d, rule, t, fl)
  PROVE  /\ Of(Applied(s, r, cause, at).reported, d, rule, t, fl)
         /\ normalize_matter_report(s.reported, r, at) = "applied" =>
              Applied(s, r, cause, at).reported = r
         /\ normalize_matter_report(s.reported, r, at) = "duplicate" =>
              /\ Applied(s, r, cause, at).reported.value = s.reported.value
              /\ Applied(s, r, cause, at).reported.at = s.reported.at
  <1>0. s.reported \in Report /\ r \in Report /\ s.reported.value # None /\ r.value # None
    BY DEF Of
  <1>1. CASE normalize_matter_report(s.reported, r, at) = "applied"
    <2>1. Read(r, r.epoch)
      BY <1>0 DEF Read
    <2>2. Applied(s, r, cause, at) = advance_matter_projected_state(s, r, cause)
      BY <1>1 DEF Applied
    <2>3. Applied(s, r, cause, at).reported = r
      BY <2>1, <2>2, Advanced
    <2> QED
      BY <1>1, <2>3
  <1>2. CASE normalize_matter_report(s.reported, r, at) = "duplicate"
    <2> DEFINE x == [s.reported EXCEPT !.epoch = r.epoch]
    <2>1. /\ x \in Report /\ x.seq = s.reported.seq /\ x.value = s.reported.value
          /\ x.at = s.reported.at /\ x.version = s.reported.version /\ x.epoch = r.epoch
      BY <1>0 DEF Report
    <2>2. Applied(s, r, cause, at) = advance_matter_projected_state(s, x, cause)
      BY <1>2 DEF Applied
    <2> HIDE DEF x
    <2>3. Read(x, r.epoch)
      BY <1>0, <2>1 DEF Read
    <2>4. Applied(s, r, cause, at).reported = x
      BY <2>2, <2>3, Advanced
    <2>5. Of(x, d, rule, t, fl)
      BY <2>1 DEF Of
    <2> QED
      BY <1>2, <2>1, <2>4, <2>5
  <1>3. CASE /\ normalize_matter_report(s.reported, r, at) # "applied"
             /\ normalize_matter_report(s.reported, r, at) # "duplicate"
    BY <1>3 DEF Applied
  <1> QED
    BY <1>1, <1>2, <1>3

\* A light that was last invoked by the command reports its value, and the
\* report is neither older than what the command holds nor too far ahead.
LEMMA OwnReport ==
  ASSUME NEW c \in Cmds, NEW f \in Flow, NEW d, NEW t \in Nat, NEW fl, fl[c] = f,
         d.seq \in Nat, d.seq < VersionModulus, d.seq < VersionModulus \div 2,
         f.pc = "storing", f.wrote > 0, f.wrote = d.seq, Wrote(f, d, "on_off.v1", t, fl)
  PROVE  /\ f.report.value = f.value /\ f.report.at >= f.received
         /\ LET cur == f.copy.state.reported
            IN  \/ normalize_matter_report(cur, f.report, t) = "applied"
                \/ /\ normalize_matter_report(cur, f.report, t) = "duplicate"
                   /\ cur.value = f.value /\ cur.at >= f.received
  <1> DEFINE r == f.report
             cur == f.copy.state.reported
  <1>1. Of(r, d, "on_off.v1", t, fl) /\ Of(cur, d, "on_off.v1", t, fl) /\ r.seq >= f.wrote
    BY DEF Wrote
  <1>2. /\ r.seq \in Nat /\ cur.seq \in Nat /\ r.seq <= d.seq /\ cur.seq <= d.seq
        /\ r.version = r.seq /\ cur.version = cur.seq /\ r.at <= t /\ r.at \in Nat
        /\ cur.value # None
    BY <1>1 DEF Of, Report
  <1>3. r.seq = d.seq
    BY <1>1, <1>2
  <1>4. f.value \in {"on", "off"} /\ d.raw = mutate_for_invoke(f.value)
    BY DEF Wrote, expected_state
  <1>5. map_report_value("on_off.v1", d.raw) = f.value
    <2>1. CASE f.value = "on"
      BY <1>4, <2>1 DEF mutate_for_invoke, map_report_value
    <2>2. CASE f.value = "off"
      BY <1>4, <2>2 DEF mutate_for_invoke, map_report_value
    <2> QED
      BY <1>4, <2>1, <2>2
  <1>6. r.value = f.value /\ r.at >= f.received
    BY <1>1, <1>3, <1>5 DEF Of
  <1>7. CASE cur.seq = d.seq
    <2>1. cur.value = f.value /\ cur.at >= f.received
      BY <1>1, <1>5, <1>7 DEF Of
    <2>2. normalize_matter_report(cur, r, t) = "duplicate"
      <3> HIDE DEF r, cur
      <3> QED
        BY <1>2, <1>3, <1>6, <1>7, <2>1 DEF normalize_matter_report
    <2> QED
      BY <1>6, <2>1, <2>2
  <1>8. CASE cur.seq < d.seq
    <2> HIDE DEF r, cur
    <2>1. VersionModulus \in Nat /\ VersionModulus > 0
      BY RecoveryPolicy
    <2>2. /\ r.version + VersionModulus - cur.version \in Nat
          /\ VersionModulus <= r.version + VersionModulus - cur.version
          /\ r.version + VersionModulus - cur.version < 2 * VersionModulus
      BY <1>2, <1>3, <1>8, <2>1
    <2>3. (r.version + VersionModulus - cur.version) % VersionModulus = r.seq - cur.seq
      <3>1. \A a, m \in Nat : 0 < m /\ m <= a /\ a < 2 * m => a % m = a - m
        OBVIOUS
      <3>2. (r.version + VersionModulus - cur.version) % VersionModulus
              = (r.version + VersionModulus - cur.version) - VersionModulus
        BY <2>1, <2>2, <3>1
      <3> QED
        BY <1>2, <2>1, <3>2
    <2> DEFINE half == VersionModulus \div 2
    <2>4. half \in Nat /\ d.seq < half
      BY <2>1
    <2>5. r.seq - cur.seq < half
      <3> HIDE DEF half
      <3> QED
        BY <1>2, <1>3, <2>4
    <2>6. data_version_advances(cur, r.version, r.value)
      BY <1>2, <1>3, <1>8, <2>3, <2>5 DEF data_version_advances
    <2>7. normalize_matter_report(cur, r, t) = "applied"
      BY <1>2, <1>3, <1>8, <2>6 DEF normalize_matter_report
    <2> QED
      BY <1>6, <2>7 DEF r, cur
  <1> QED
    BY <1>2, <1>7, <1>8

\* A read tells what the device is now.
LEMMA ReadOf ==
  ASSUME ProjInv, DeviceInv
  PROVE  Of(read, dev, Rule, now, flow) /\ read.seq = dev.seq
  <1>1. Read(read, epoch)
    BY ReadNow DEF ProjInv
  <1>2. /\ read.value = map_report_value(Rule, dev.raw) /\ read.version = dev.version
        /\ read.seq = dev.seq /\ read.at = now
    BY DEF read
  <1>3. dev.version = dev.seq /\ dev.seq \in Nat /\ now \in Nat
    BY DEF ProjInv, DeviceInv
  <1>4. \A c \in Cmds : now >= flow[c].received
    <2> TAKE c \in Cmds
    <2>1. flow[c].received \in Nat /\ flow[c].received <= now
      BY DEF ProjInv, FlowOK, Flow, DeviceInv, Wrote
    <2> QED
      BY <1>3, <2>1
  <1> HIDE DEF read
  <1> QED
    BY <1>1, <1>2, <1>3, <1>4 DEF Of, Read

\* A step of a command, whatever it stores.
LEMMA CommandKeeps ==
  ASSUME ProjInv, DeviceInv, NEW c \in Cmds, NEW f \in Flow,
         flow' = [flow EXCEPT ![c] = f], UNCHANGED <<node, wk, now>>,
         UNCHANGED dev \/ dev'.seq = dev.seq + 1,
         dev'.version = dev'.seq, dev'.seq < VersionModulus,
         \/ f.wrote = flow[c].wrote /\ f.received = flow[c].received
         \/ f.wrote = 0 \/ f.wrote > dev.seq,
         Of(proj'.state.reported, dev, Rule, now, flow),
         Wrote(f, dev, Rule, now, flow) \/ Wrote(f, dev', Rule, now, flow'),
         node.cluster = "on_off" /\ f.pc = "mismatch" /\ f.wrote > 0 => dev'.seq > f.wrote
  PROVE  DeviceInv'
  <1>1. /\ \A d \in Cmds : flow[d] \in Flow
        /\ flow'[c] = f /\ \A d \in Cmds : d # c => flow'[d] = flow[d]
    BY DEF ProjInv, FlowOK
  <1>2. dev.seq \in Nat /\ now \in Nat /\ now <= now /\ \A d \in Cmds : flow'[d] \in Flow
    BY <1>1 DEF ProjInv
  <1>3. \A d \in Cmds : /\ flow[d] \in Flow /\ flow'[d] \in Flow
                        /\ \/ flow'[d].wrote = flow[d].wrote /\ flow'[d].received = flow[d].received
                           \/ flow'[d].wrote = 0 \/ flow'[d].wrote > dev.seq
    BY <1>1, <1>2
  <1>4. /\ \A r : Of(r, dev, Rule, now, flow) => Of(r, dev', Rule, now, flow')
        /\ \A g \in Flow : Wrote(g, dev, Rule, now, flow) => Wrote(g, dev', Rule, now, flow')
    BY <1>2, <1>3, Remains
  <1>5. \A d \in Cmds : Wrote(flow'[d], dev', Rule, now, flow')
    BY <1>1, <1>4 DEF DeviceInv
  <1>6. Rule' = Rule /\ (project_matter_node(node) # {})'
    BY DEF DeviceInv, Rule
  <1>7. wk.pc = "gap_commit" /\ wk.report # NoReport => Of(wk.report, dev', Rule, now, flow')
    BY <1>4 DEF DeviceInv
  <1>8. MismatchIsReal'
    <2> SUFFICES ASSUME node.cluster = "on_off", NEW d \in Cmds,
                        flow'[d].pc = "mismatch", flow'[d].wrote > 0
                 PROVE  dev'.seq > flow'[d].wrote
      BY DEF MismatchIsReal
    <2>1. CASE d = c
      BY <1>1, <2>1
    <2>2. CASE d # c
      <3>1. flow'[d] = flow[d] /\ dev.seq > flow[d].wrote
        BY <1>1, <2>2 DEF DeviceInv, MismatchIsReal
      <3>2. flow[d].wrote \in Nat
        BY <1>1 DEF Flow
      <3> QED
        BY <1>2, <3>1, <3>2
    <2> QED
      BY <2>1, <2>2
  <1> QED
    BY <1>4, <1>5, <1>6, <1>7, <1>8 DEF DeviceInv

\* A step of the worker.
LEMMA WorkerKeeps ==
  ASSUME ProjInv, DeviceInv, WorkerOnly,
         UNCHANGED proj \/ Of(proj'.state.reported, dev, Rule, now, flow),
         \/ wk'.pc # "gap_commit"
         \/ wk'.report = NoReport \/ Of(wk'.report, dev, Rule, now, flow)
  PROVE  DeviceInv'
  <1>1. UNCHANGED <<node, dev, flow, now>>
    BY DEF WorkerOnly
  <1>2. Rule' = Rule /\ (project_matter_node(node) # {})' /\ MismatchIsReal'
    BY <1>1 DEF DeviceInv, Rule, MismatchIsReal
  <1> QED
    BY <1>1, <1>2 DEF DeviceInv

LEMMA DeviceCommandSteps ==
  ASSUME ProjInv, DeviceInv, WithinHalfRange, CommandStep
  PROVE  DeviceInv'
  <1>0. PICK c \in Cmds :
          \/ \E value \in expected_state(Rule) : register_desired(c, value)
          \/ commit_dispatch(c) \/ dispatch(c) \/ invoke(c) \/ dispatch_fails(c)
          \/ confirm(c) \/ confirm_read(c) \/ confirm_read_fails(c) \/ confirm_store(c)
    BY DEF CommandStep
  <1> DEFINE next(f) == flow' = [flow EXCEPT ![c] = f]
             old(f) == Wrote(f, dev, Rule, now, flow)
  <1>1. /\ flow = [d \in Cmds |-> flow[d]] /\ flow[c] \in Flow /\ old(flow[c])
        /\ proj \in Row /\ proj.state \in State /\ Sound(proj.state, epoch)
        /\ Of(proj.state.reported, dev, Rule, now, flow)
        /\ dev.version = dev.seq /\ dev.seq < VersionModulus /\ dev.seq \in Nat /\ now \in Nat
        /\ NoReport \in Report /\ Fits(flow[c].copy, proj)
    BY DEF ProjInv, DeviceInv, FlowOK, Sound, NoReport, Report, Values, None
  <1>2. ASSUME NEW f \in Flow, next(f), UNCHANGED <<node, wk, now, dev>>, old(f),
               (f.wrote = flow[c].wrote /\ f.received = flow[c].received) \/ f.wrote = 0,
               UNCHANGED proj \/ Of(proj'.state.reported, dev, Rule, now, flow),
               node.cluster = "on_off" /\ f.pc = "mismatch" /\ f.wrote > 0 => dev.seq > f.wrote
        PROVE  DeviceInv'
    BY <1>1, <1>2, CommandKeeps
  <1>3. ASSUME NEW value \in expected_state(Rule), register_desired(c, value) PROVE DeviceInv'
    <2> DEFINE f == [IdleFlow EXCEPT !.pc = "registered", !.value = value, !.received = now]
               s == advance_matter_desired_state(proj.state, slot.revision + 1, value)
    <2>1. value \in Values /\ slot.revision \in Nat
      BY DEF expected_state, Values, ProjInv, Slot
    <2>2. next(f) /\ proj' = Stored(s, proj) /\ UNCHANGED <<node, wk, now, dev>>
      BY <1>3 DEF register_desired, FlowOnly
    <2>3. proj'.state.reported = proj.state.reported
      BY <1>1, <2>1, <2>2, Desired DEF Stored
    <2>4. /\ f \in Flow /\ f.pc = "registered" /\ f.wrote = 0 /\ f.received = now
          /\ f.value = value
      BY <1>1, <2>1 DEF IdleFlow, Flow, None, Values
    <2> HIDE DEF f
    <2>5. old(f)
      BY <1>1, <2>4 DEF Wrote
    <2> QED
      BY <1>1, <1>2, <2>2, <2>3, <2>4, <2>5
  <1>4. CASE commit_dispatch(c) \/ dispatch(c) \/ dispatch_fails(c)
    <2>1. PICK x \in {"dispatching", "invoking", "failed"} : flow' = [flow EXCEPT ![c].pc = x]
      BY <1>4 DEF commit_dispatch, dispatch, dispatch_fails
    <2> DEFINE f == [flow[c] EXCEPT !.pc = x]
    <2>2. /\ f \in Flow /\ f.pc = x /\ f.wrote = flow[c].wrote /\ f.received = flow[c].received
          /\ f.value = flow[c].value /\ next(f)
      BY <1>1, <2>1 DEF Flow
    <2>3. UNCHANGED <<node, wk, now, dev, proj>> /\ flow[c].pc \in {"registered", "dispatching", "invoking"}
      BY <1>4 DEF commit_dispatch, dispatch, dispatch_fails, FlowOnly
    <2> HIDE DEF f
    <2>4. old(f)
      BY <1>1, <2>2, <2>3 DEF Wrote
    <2> QED
      BY <1>1, <1>2, <2>2, <2>3, <2>4
  <1>5. CASE invoke(c)
    <2>1. UNCHANGED <<node, wk, now, proj>> /\ flow[c].pc = "invoking"
      BY <1>5 DEF invoke, FlowOnly
    <2>2. CASE UNCHANGED dev /\ flow' = [flow EXCEPT ![c].pc = "failed"]
      <3> DEFINE f == [flow[c] EXCEPT !.pc = "failed"]
      <3>1. /\ f \in Flow /\ f.pc = "failed" /\ f.wrote = flow[c].wrote
            /\ f.received = flow[c].received /\ f.value = flow[c].value /\ next(f)
        BY <1>1, <2>2 DEF Flow
      <3> HIDE DEF f
      <3>2. old(f)
        BY <1>1, <2>1, <3>1 DEF Wrote
      <3> QED
        BY <1>1, <1>2, <2>1, <2>2, <3>1, <3>2
    <2>3. CASE /\ dev.version < VersionModulus - 1
               /\ dev' = [raw |-> mutate_for_invoke(flow[c].value),
                          version |-> dev.version + 1, seq |-> dev.seq + 1]
               /\ flow' = [flow EXCEPT ![c].pc = "acknowledged", ![c].wrote = dev.seq + 1]
      <3> DEFINE f == [flow[c] EXCEPT !.pc = "acknowledged", !.wrote = dev.seq + 1]
      <3>1. next(f)
        BY <1>1, <2>3
      <3>2. /\ f \in Flow /\ f.pc = "acknowledged" /\ f.wrote = dev.seq + 1
            /\ f.received = flow[c].received /\ f.value = flow[c].value
        <4>1. dev.seq + 1 \in Nat /\ flow[c] \in Flow
          BY <1>1
        <4> QED
          BY <4>1 DEF Flow
      <3>3. /\ dev'.seq = dev.seq + 1 /\ dev'.version = dev'.seq /\ dev'.seq < VersionModulus
            /\ dev'.raw = mutate_for_invoke(flow[c].value)
        BY <1>1, <2>3, RecoveryPolicy
      <3> HIDE DEF f
      <3>4. Wrote(f, dev', Rule, now, flow')
        BY <1>1, <2>1, <3>2, <3>3 DEF Wrote
      <3> QED
        BY <1>1, <2>1, <3>1, <3>2, <3>3, <3>4, CommandKeeps
    <2> QED
      BY <1>5, <2>2, <2>3 DEF invoke
  <1>6. CASE confirm(c)
    <2> DEFINE f == [flow[c] EXCEPT !.pc = "confirmed"]
               g == [flow[c] EXCEPT !.pc = "reading", !.copy = proj]
    <2>1. UNCHANGED <<node, wk, now, proj, dev>> /\ flow[c].pc = "acknowledged"
      BY <1>6 DEF confirm, FlowOnly
    <2>2. next(f) \/ next(g)
      BY <1>1, <1>6 DEF confirm
    <2>3. /\ f \in Flow /\ f.pc = "confirmed" /\ f.wrote = flow[c].wrote
          /\ f.received = flow[c].received /\ f.value = flow[c].value
      BY <1>1 DEF Flow
    <2>4. /\ g \in Flow /\ g.pc = "reading" /\ g.copy = proj /\ g.wrote = flow[c].wrote
          /\ g.received = flow[c].received /\ g.value = flow[c].value
      BY <1>1 DEF Flow
    <2> HIDE DEF f, g
    <2>5. old(f) /\ old(g)
      BY <1>1, <2>1, <2>3, <2>4 DEF Wrote
    <2> QED
      BY <1>1, <1>2, <2>1, <2>2, <2>3, <2>4, <2>5
  <1>7. CASE confirm_read(c)
    <2> DEFINE f == [flow[c] EXCEPT !.pc = "storing", !.report = read]
    <2>1. UNCHANGED <<node, wk, now, proj, dev>> /\ next(f) /\ flow[c].pc = "reading"
      BY <1>1, <1>7 DEF confirm_read, FlowOnly
    <2>2. Of(read, dev, Rule, now, flow) /\ read.seq = dev.seq /\ read \in Report
      BY ReadOf DEF Of
    <2>3. /\ f \in Flow /\ f.pc = "storing" /\ f.wrote = flow[c].wrote /\ f.copy = flow[c].copy
          /\ f.received = flow[c].received /\ f.value = flow[c].value /\ f.report = read
      BY <1>1, <2>2 DEF Flow
    <2>4. flow[c].wrote \in Nat
      BY <1>1 DEF Flow
    <2> HIDE DEF f
    <2>5. old(f)
      BY <1>1, <2>1, <2>2, <2>3, <2>4 DEF Wrote
    <2> QED
      BY <1>1, <1>2, <2>1, <2>3, <2>5
  <1>8. CASE confirm_read_fails(c)
    <2> DEFINE f == [flow[c] EXCEPT !.pc = "failed", !.copy = NoRow]
    <2>1. UNCHANGED <<node, wk, now, proj, dev>> /\ next(f) /\ flow[c].pc = "reading"
      BY <1>1, <1>8 DEF confirm_read_fails, FlowOnly
    <2>2. /\ f \in Flow /\ f.pc = "failed" /\ f.wrote = flow[c].wrote
          /\ f.received = flow[c].received /\ f.value = flow[c].value
      BY <1>1 DEF Flow
    <2> HIDE DEF f
    <2>3. old(f)
      BY <1>1, <2>1, <2>2 DEF Wrote
    <2> QED
      BY <1>1, <1>2, <2>1, <2>2, <2>3
  <1>9. CASE confirm_store(c)
    <2> DEFINE cause == IF slot.cmd = c THEN slot.revision ELSE 0
               cur == flow[c].copy.state.reported
               s == Applied(flow[c].copy.state, flow[c].report, cause, now)
               f(x) == [flow[c] EXCEPT !.pc = x, !.copy = NoRow, !.report = NoReport]
               verdict == normalize_matter_report(cur, flow[c].report, now)
               seen == s.reported.at >= flow[c].received /\ s.reported.value = flow[c].value
    <2>1. flow[c].pc = "storing" /\ UNCHANGED <<node, wk, now, dev>>
      BY <1>9 DEF confirm_store, FlowOnly
    <2>2. \/ next(f("mismatch")) /\ UNCHANGED proj /\ verdict = "rejected"
          \/ next(f("acknowledged")) /\ UNCHANGED proj
          \/ /\ \/ next(f("mismatch")) /\ ~seen
                \/ next(f("confirmed"))
             /\ proj' = Stored(s, flow[c].copy)
      BY <1>9 DEF confirm_store
    <2>3. \A x \in {"mismatch", "acknowledged", "confirmed"} :
            /\ f(x) \in Flow /\ f(x).pc = x /\ f(x).wrote = flow[c].wrote
            /\ f(x).received = flow[c].received /\ f(x).value = flow[c].value
      BY <1>1 DEF Flow
    <2> HIDE DEF f
    <2>4. \A x \in {"mismatch", "acknowledged", "confirmed"} : old(f(x))
      BY <1>1, <2>1, <2>3 DEF Wrote
    <2>5. /\ flow[c].copy \in Row /\ flow[c].copy.state \in State
          /\ Of(cur, dev, Rule, now, flow) /\ Of(flow[c].report, dev, Rule, now, flow)
      BY <1>1, <2>1 DEF Wrote, Row
    <2>6. /\ Of(s.reported, dev, Rule, now, flow)
          /\ verdict = "applied" => s.reported = flow[c].report
          /\ verdict = "duplicate" => s.reported.value = cur.value /\ s.reported.at = cur.at
      BY <2>5, AppliedOf
    <2>7. node.cluster = "on_off" /\ flow[c].wrote > 0 /\ ~(dev.seq > flow[c].wrote)
             => verdict # "rejected" /\ seen
      <3> SUFFICES ASSUME node.cluster = "on_off", flow[c].wrote > 0, ~(dev.seq > flow[c].wrote)
                   PROVE  verdict # "rejected" /\ seen
        OBVIOUS
      <3>1. Rule = "on_off.v1"
        BY LightRule DEF DeviceInv
      <3>2. flow[c].wrote \in Nat /\ flow[c].wrote <= dev.seq
        BY <1>1 DEF Flow, Wrote
      <3>3. flow[c].wrote = dev.seq
        BY <1>1, <3>2
      <3>4. /\ flow[c].report.value = flow[c].value /\ flow[c].report.at >= flow[c].received
            /\ \/ verdict = "applied"
               \/ verdict = "duplicate" /\ cur.value = flow[c].value /\ cur.at >= flow[c].received
        BY <1>1, <2>1, <3>1, <3>3, OwnReport DEF WithinHalfRange
      <3> HIDE DEF s, verdict, cur
      <3> QED
        BY <2>6, <3>4
    <2>8. UNCHANGED proj \/ Of(proj'.state.reported, dev, Rule, now, flow)
      BY <2>2, <2>6 DEF Stored
    <2> HIDE DEF s, verdict, cur, seen
    <2>9. \/ next(f("mismatch")) /\ (verdict = "rejected" \/ ~seen)
          \/ next(f("acknowledged")) \/ next(f("confirmed"))
      BY <2>2
    <2> QED
      BY <1>1, <1>2, <2>1, <2>3, <2>4, <2>7, <2>8, <2>9
  <1> QED
    BY <1>0, <1>3, <1>4, <1>5, <1>6, <1>7, <1>8, <1>9

LEMMA DeviceRepairSteps ==
  ASSUME ProjInv, DeviceInv, RepairStep
  PROVE  DeviceInv'
  <1>1. /\ wk \in Work(wk.op) /\ Fits(wk.copy, proj) /\ proj.state \in State
        /\ Sound(proj.state, epoch) /\ Of(proj.state.reported, dev, Rule, now, flow)
        /\ Free.pc = "idle"
    BY DEF ProjInv, WorkOK, Sound, DeviceInv, Free
  <1>2. ASSUME NEW state, NEW phase, NEW subscription, NEW pc \in {"gap", "call"},
               commit(state, phase, subscription, pc), WorkerOnly,
               wk.copy = proj => Of(state.reported, dev, Rule, now, flow)
        PROVE  DeviceInv'
    <2>1. CASE store_projection(wk.copy)
      <3>1. wk.copy = proj
        BY <1>1, <2>1, CheckedCopy
      <3>2. /\ proj' = Stored(state, proj)
            /\ wk' = [wk EXCEPT !.pc = pc, !.copy = NoRow, !.report = NoReport]
        BY <1>2, <2>1, <3>1 DEF commit
      <3>3. wk'.pc = pc
        BY <1>1, <3>2 DEF Work
      <3> QED
        BY <1>2, <3>1, <3>2, <3>3, WorkerKeeps DEF Stored
    <2>2. CASE ~store_projection(wk.copy)
      <3>1. wk' = Free /\ UNCHANGED proj
        BY <1>2, <2>2 DEF commit
      <3> QED
        BY <1>1, <1>2, <3>1, WorkerKeeps
    <2> QED
      BY <2>1, <2>2
  <1>3. ASSUME NEW i \in DOMAIN ops, run(i) PROVE DeviceInv'
    <2> DEFINE x == CASE ops[i] = "requested" -> "begin"
                      [] ops[i] = "reading_gap" -> "ambiguous"
                      [] OTHER -> IF sub.retryAt > 0 THEN "retry" ELSE "ambiguous"
    <2>1. x \in {"begin", "ambiguous", "retry"}
      BY Zenon
    <2>2. wk' = [Free EXCEPT !.op = i, !.pc = x] /\ UNCHANGED proj /\ WorkerOnly
      BY <1>3 DEF run
    <2> HIDE DEF x
    <2>3. wk'.pc = x
      BY <2>2 DEF Free
    <2> QED
      BY <2>1, <2>2, <2>3, WorkerKeeps
  <1>4. CASE inventory
    <2>1. /\ wk' = [wk EXCEPT !.copy = proj] /\ wk.pc \in {"begin", "gap"}
          /\ UNCHANGED proj /\ WorkerOnly
      BY <1>4 DEF inventory
    <2>2. wk'.pc = wk.pc
      BY <1>1, <2>1 DEF Work
    <2> QED
      BY <2>1, <2>2, WorkerKeeps
  <1>5. CASE begin_gap
    <2> DEFINE s == mark_matter_projection_stale(wk.copy.state, "report_gap")
               t == [sub EXCEPT !.state = "repair_required", !.gapReads = 1, !.attempts = 0,
                                !.retryAt = 0]
    <2>1. commit(s, "reading_gap", t, "gap") /\ WorkerOnly
      BY <1>5 DEF begin_gap
    <2>2. wk.copy = proj => Of(s.reported, dev, Rule, now, flow)
      BY <1>1, MarkedStale
    <2> HIDE DEF s, t
    <2> QED
      BY <1>2, <2>1, <2>2
  <1>6. ASSUME NEW ok \in BOOLEAN, read_gap(ok) PROVE DeviceInv'
    <2> DEFINE r == IF ok THEN read ELSE NoReport
    <2>1. /\ wk' = [wk EXCEPT !.pc = "gap_commit", !.report = r]
          /\ WorkerOnly /\ UNCHANGED proj
      BY <1>6 DEF read_gap
    <2>2. r = NoReport \/ Of(r, dev, Rule, now, flow)
      BY ReadOf
    <2> HIDE DEF r
    <2>3. wk'.report = r
      BY <1>1, <2>1 DEF Work
    <2> QED
      BY <2>1, <2>2, <2>3, WorkerKeeps
  <1>7. CASE commit_gap
    <2> DEFINE s == IF wk.report = NoReport
                      THEN mark_matter_projection_stale(wk.copy.state, "read_failed")
                      ELSE Applied(wk.copy.state, wk.report, 0, now)
               t == [sub EXCEPT !.attempts = 1, !.retryAt = 0]
    <2>1. wk.pc = "gap_commit" /\ commit(s, "subscribing", t, "call") /\ WorkerOnly
      BY <1>7 DEF commit_gap
    <2>2. ASSUME wk.copy = proj PROVE Of(s.reported, dev, Rule, now, flow)
      <3>1. CASE wk.report = NoReport
        BY <1>1, <2>2, <3>1, MarkedStale
      <3>2. CASE wk.report # NoReport
        <4>1. Of(wk.report, dev, Rule, now, flow)
          BY <2>1, <3>2 DEF DeviceInv
        <4> QED
          BY <1>1, <2>2, <3>2, <4>1, AppliedOf
      <3> QED
        BY <3>1, <3>2
    <2> HIDE DEF s, t
    <2> QED
      BY <1>2, <2>1, <2>2
  <1>8. CASE reserve
    <2>1. (wk' = Free \/ wk' = [wk EXCEPT !.pc = "call"]) /\ WorkerOnly /\ UNCHANGED proj
      BY <1>8 DEF reserve
    <2>2. wk'.pc # "gap_commit"
      BY <1>1, <2>1 DEF Work
    <2> QED
      BY <2>1, <2>2, WorkerKeeps
  <1>9. ASSUME NEW ok \in BOOLEAN, subscribe(ok) PROVE DeviceInv'
    <2>1. /\ wk' = [wk EXCEPT !.pc = "established"] \/ wk' = [wk EXCEPT !.pc = "lost"]
          /\ WorkerOnly /\ UNCHANGED proj
      BY <1>9 DEF subscribe
    <2>2. wk'.pc # "gap_commit"
      BY <1>1, <2>1 DEF Work
    <2> QED
      BY <2>1, <2>2, WorkerKeeps
  <1>10. CASE record_established \/ record_subscribe_failure \/ record_ambiguous_dispatch
    <2>1. wk' = Free /\ WorkerOnly /\ UNCHANGED proj
      BY <1>10 DEF record_established, record_subscribe_failure, record_ambiguous_dispatch, Close
    <2> QED
      BY <1>1, <2>1, WorkerKeeps
  <1> QED
    BY <1>3, <1>4, <1>5, <1>6, <1>7, <1>8, <1>9, <1>10 DEF RepairStep

\* The clock ticks, the process dies, or a step leaves commands and device alone.
LEMMA DeviceOtherSteps ==
  ASSUME ProjInv, DeviceInv,
         Crash \/ Tick \/ start \/ lose_subscriptions \/ UNCHANGED vars
  PROVE  DeviceInv'
  <1>1. /\ \A c \in Cmds : flow[c] \in Flow
        /\ now \in Nat /\ dev.seq \in Nat /\ now <= now /\ now <= now + 1 /\ now + 1 \in Nat
    BY DEF ProjInv, FlowOK
  <1>2. UNCHANGED <<node, dev, proj>>
    BY DEF Crash, Tick, start, lose_subscriptions, vars, store
  <1>3. Rule' = Rule /\ (project_matter_node(node) # {})'
    BY <1>2 DEF DeviceInv, Rule
  <1>4. CASE Tick
    <2>1. now' = now + 1 /\ UNCHANGED <<flow, wk>>
      BY <1>4 DEF Tick
    <2>2. /\ \A r : Of(r, dev, Rule, now, flow) => Of(r, dev, Rule, now + 1, flow)
          /\ \A f \in Flow : Wrote(f, dev, Rule, now, flow) => Wrote(f, dev, Rule, now + 1, flow)
      BY <1>1, Remains
    <2>3. MismatchIsReal'
      BY <1>2, <2>1 DEF DeviceInv, MismatchIsReal
    <2> QED
      BY <1>1, <1>2, <1>3, <2>1, <2>2, <2>3 DEF DeviceInv
  <1>5. CASE start \/ lose_subscriptions \/ UNCHANGED vars
    <2>1. UNCHANGED <<now, flow, wk>>
      BY <1>5 DEF start, lose_subscriptions, vars
    <2>2. MismatchIsReal'
      BY <1>2, <2>1 DEF DeviceInv, MismatchIsReal
    <2> QED
      BY <1>2, <1>3, <2>1, <2>2 DEF DeviceInv
  <1>6. CASE Crash
    <2> DEFINE x(c) == CASE flow[c].pc = "registered" -> "failed"
                         [] flow[c].pc \in {"dispatching", "invoking", "reading", "storing"}
                            -> "acknowledged"
                         [] OTHER -> flow[c].pc
               f(c) == [flow[c] EXCEPT !.copy = NoRow, !.report = NoReport, !.pc = x(c)]
    <2>1. flow' = [c \in Cmds |-> f(c)] /\ wk' = Free /\ UNCHANGED now
      BY <1>6 DEF Crash
    <2>2. ASSUME NEW c \in Cmds
          PROVE  /\ x(c) \in {"failed", "acknowledged", "idle", "confirmed", "mismatch"}
                 /\ x(c) = "mismatch" => flow[c].pc = "mismatch"
                 /\ x(c) = "idle" <=> flow[c].pc = "idle"
      BY <1>1 DEF Flow
    <2> HIDE DEF x
    <2>3. ASSUME NEW c \in Cmds
          PROVE  /\ f(c) \in Flow /\ f(c).pc = x(c) /\ f(c).wrote = flow[c].wrote
                 /\ f(c).received = flow[c].received /\ f(c).value = flow[c].value
      <3>1. NoReport \in Report
        BY DEF NoReport, Report, Values, None
      <3> QED
        BY <1>1, <2>2, <3>1 DEF Flow
    <2> HIDE DEF f
    <2>4. \A c \in Cmds : flow'[c] = f(c)
      BY <2>1
    <2>5. \A c \in Cmds : Wrote(f(c), dev, Rule, now, flow)
      BY <2>2, <2>3 DEF DeviceInv, Wrote
    <2>6. \A c \in Cmds : /\ flow[c] \in Flow /\ flow'[c] \in Flow
                          /\ \/ flow'[c].wrote = flow[c].wrote
                                /\ flow'[c].received = flow[c].received
                             \/ flow'[c].wrote = 0 \/ flow'[c].wrote > dev.seq
      BY <1>1, <2>3, <2>4
    <2>7. /\ \A r : Of(r, dev, Rule, now, flow) => Of(r, dev, Rule, now, flow')
          /\ \A g \in Flow : Wrote(g, dev, Rule, now, flow) => Wrote(g, dev, Rule, now, flow')
      BY <1>1, <2>6, Remains
    <2>8. \A c \in Cmds : Wrote(flow'[c], dev, Rule, now, flow')
      BY <2>3, <2>4, <2>5, <2>7
    <2>9. MismatchIsReal'
      BY <1>2, <2>2, <2>3, <2>4 DEF DeviceInv, MismatchIsReal
    <2>10. wk'.pc # "gap_commit"
      BY <2>1 DEF Free
    <2> QED
      BY <1>2, <1>3, <2>1, <2>7, <2>8, <2>9, <2>10 DEF DeviceInv
  <1> QED
    BY <1>4, <1>5, <1>6

\* A command to a light that took effect ends as a mismatch only if the light
\* was invoked again since, whatever commands, repairs and crashes interleave,
\* as long as the device stays within half the range of its data version.
THEOREM MismatchesAreReal == Spec /\ []WithinHalfRange => []MismatchIsReal
  <1>1. Init => DeviceInv
    <2> SUFFICES ASSUME Init PROVE DeviceInv
      OBVIOUS
    <2>1. ProjInv
      BY ProjInit
    <2>2. /\ dev.version = 0 /\ dev.seq = 0 /\ now = 1 /\ wk = Free
          /\ flow = [c \in Cmds |-> IdleFlow]
      BY DEF Init
    <2>3. proj.state.reported = read
      <3> DEFINE s == [desired |-> NoDesired, reported |-> NoReport, confirmed |-> 0,
                       freshness |-> "unknown", convergence |-> "no_desired",
                       uncertainty |-> None]
      <3>1. s \in State
        BY DEF NoReport, Report, Values, None, State, NoDesired
      <3>2. Read(read, epoch)
        BY <2>1, ReadNow DEF ProjInv
      <3>3. proj.state = advance_matter_projected_state(s, read, 0)
        BY DEF Init
      <3> HIDE DEF s
      <3> QED
        BY <3>1, <3>2, <3>3, Advanced
    <2>4. \A c \in Cmds : flow[c].wrote = 0 /\ flow[c].received = 0 /\ flow[c].pc = "idle"
      BY <2>2 DEF IdleFlow
    <2>5. Read(read, epoch)
      BY <2>1, ReadNow DEF ProjInv
    <2>6. /\ read.value = map_report_value(Rule, dev.raw) /\ read.version = 0
          /\ read.seq = 0 /\ read.at = 1
      BY <2>2 DEF read
    <2>7. Of(read, dev, Rule, now, flow)
      BY <2>2, <2>4, <2>5, <2>6 DEF Of, Read
    <2>8. \A c \in Cmds : Wrote(flow[c], dev, Rule, now, flow)
      BY <2>2, <2>4 DEF Wrote
    <2>9. project_matter_node(node) # {} /\ 0 < VersionModulus
      BY RecoveryPolicy DEF Init
    <2> QED
      BY <2>2, <2>3, <2>4, <2>7, <2>8, <2>9 DEF DeviceInv, MismatchIsReal, Free
  <1>2. ProjInv /\ DeviceInv /\ WithinHalfRange /\ [Next]_vars => ProjInv' /\ DeviceInv'
    BY ProjStep, DeviceCommandSteps, DeviceRepairSteps, DeviceOtherSteps DEF Next
  <1>3. DeviceInv => MismatchIsReal
    BY DEF DeviceInv
  <1> QED
    BY <1>1, <1>2, <1>3, ProjInit, PTL DEF Spec
=============================================================================
