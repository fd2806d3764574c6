-------------------------- MODULE AutomationProofs --------------------------
(***************************************************************************)
(* Theorems about AutomationRuntime and the lifecycle beside it, for any   *)
(* documents, plans, simulator, evaluator, callers and bounds.             *)
(*                                                                         *)
(* LifecycleInv says what the copies of the owner's calls may still do to  *)
(* a stored version: a Ready version never changes, so a call that saw it  *)
(* Ready may activate it later, and what is activated was simulated.       *)
(* RetryInv says what an attempt in the run, in a copy of it or in a step  *)
(* in flight knows of the command table, where a settled command stays as  *)
(* it is and a key stays used.                                             *)
(* TimerInv says which timers are open at a run's state and node, and that *)
(* a step or a cancellation in flight, if its revision is still the run's, *)
(* leaves exactly the timers open that the run it writes waits for.        *)
(***************************************************************************)
EXTENDS AutomationRuntime, WellFoundedInduction, TLAPS

-----------------------------------------------------------------------------
(* The lifecycle                                                           *)

VersionShape(v) == DOMAIN v = {"state", "doc", "plan", "validation", "simulation"}

IdentityShape(i) == DOMAIN i = {"state", "active", "revision"}

Succeeded(v) == v.simulation = [plan |-> v.plan, succeeded |-> TRUE]

\* What is stored, or carried by a call to be stored.
VersionOK(v) ==
  /\ VersionShape(v)
  /\ v.state \in {"Validated", "Simulated", "AwaitingApproval", "Ready", "Rejected"}
  /\ v.doc \in DocumentIds
  /\ v.plan[1] = v.doc /\ v.plan[2] \in DOMAIN Plans[v.doc] /\ PlanOf(v.plan).ok
  /\ v.state \notin {"Validated", "Simulated"} => Succeeded(v)

VersionsOK(table) ==
  /\ DOMAIN table = Versions
  /\ \A n \in Versions : table[n] = Absent \/ VersionOK(table[n])

IsReady(table, n) == n \in Versions /\ table[n].state = "Ready"

\* A lifecycle call with its copies.
CallOK(table, c) ==
  /\ c.at = "Compile" => c.doc \in DocumentIds
  /\ c.at = "Store" => VersionOK(c.copy) /\ c.copy.state = "Validated"
  /\ c.at = "Evidence" =>
       /\ c.n \in Versions /\ VersionOK(c.copy) /\ c.copy.state = "Simulated"
       /\ c.completed => Succeeded(c.copy)
  /\ c.at \in {"Record", "Advance"} =>
       /\ c.n \in Versions /\ VersionOK(c.copy)
       /\ c.copy.state \in {"AwaitingApproval", "Ready", "Rejected"}
  /\ c.at = "Record" =>
       c = [at |-> c.at, n |-> c.n, expected |-> c.expected, copy |-> c.copy]
  /\ c.at = "Activate" => IsReady(table, c.n)
  /\ c.at = "Operate" => IdentityShape(c.copy) /\ c.copy.state \in {"Disabled", "Retired"}

CallsOK(table, f) == DOMAIN f = Callers /\ \A k \in Callers : CallOK(table, f[k])

IdentityOK(table, decisions, i) ==
  /\ IdentityShape(i)
  /\ i.state = "Active" => i.active # 0
  /\ i.active # 0 =>
       /\ IsReady(table, i.active)
       /\ PlanOf(table[i.active].plan).approval = "ExplicitUserApproval" =>
            [version |-> i.active, plan |-> table[i.active].plan, state |-> "Approved"]
              \in decisions

LifecycleInv ==
  /\ load \in Loads
  /\ registry \in 1..load.registry
  /\ VersionsOK(versions)
  /\ CallsOK(versions, calls)
  /\ IdentityOK(versions, approvals, identity)

-----------------------------------------------------------------------------
(* The run                                                                 *)

RunFields == {"state", "revision", "version", "node", "variables", "continuations",
              "durations", "shared", "attempt", "created"}

IsCommand(plan, node) == node \in DOMAIN plan.nodes /\ plan.nodes[node].op = "command"

\* The attempt ended in an error that may be retried.
FailedAt(plan, table, node, i, number) ==
  LET key == CommandKey(node, i, number) IN
  /\ key \in DOMAIN table
  /\ table[key].state = "Failed"
  /\ table[key].error \in plan.nodes[node].retry.errors

AttemptOK(plan, table, node, a) ==
  /\ DOMAIN a = {"node", "number", "targets", "phase", "ready"}
  /\ a.phase \in {"None", "Dispatch", "Backoff", "AwaitingOutcome"}
  /\ a.number \in Nat /\ a.targets \subseteq Nat
  /\ a.phase = "None" => a = NoAttempt
  /\ a.phase # "None" => IsCommand(plan, node)
  /\ a.phase = "Dispatch" =>
       /\ a.number \in 1..plan.nodes[node].retry.maximum
       /\ \A i \in a.targets : FailedAt(plan, table, node, i, a.number - 1)
  /\ a.phase = "Backoff" =>
       /\ a.number < plan.nodes[node].retry.maximum
       /\ \A i \in a.targets : FailedAt(plan, table, node, i, a.number)
  /\ a.phase = "AwaitingOutcome" =>
       \A i \in a.targets : CommandKey(node, i, a.number) \in DOMAIN table

\* The run, or a copy of it.
RunOK(plan, table, version, r) ==
  /\ DOMAIN r = RunFields
  /\ r.version = version
  /\ AttemptOK(plan, table, r.node, r.attempt)

\* A result is the command as it was once; a settled one is as it is.
ResultsOK(table, node, number, results) ==
  /\ DOMAIN results \subseteq Nat
  /\ \A i \in DOMAIN results :
       /\ CommandKey(node, i, number) \in DOMAIN table
       /\ \/ results[i].state = "Dispatched"
          \/ results[i] = table[CommandKey(node, i, number)]

WorkerOK(plan, table, version, w) ==
  /\ w.at \in {"Idle", "Commit", "Dispatch"}
  /\ w.at = "Commit" => RunOK(plan, table, version, w.write.run)
  /\ w.at = "Dispatch" =>
       /\ DOMAIN w = {"at", "run", "number", "todo", "results"}
       /\ RunOK(plan, table, version, w.run)
       /\ IsCommand(plan, w.run.node)
       /\ w.todo \subseteq Nat
       /\ w.number \in 0..plan.nodes[w.run.node].retry.maximum
       /\ w.number > 0 =>
            \A i \in w.todo : FailedAt(plan, table, w.run.node, i, w.number - 1)
       /\ ResultsOK(table, w.run.node, w.number, w.results)

CancelOK(plan, table, version, c) ==
  /\ c.at = "ReadTimers" => RunOK(plan, table, version, c.run)
  /\ c.at = "CancelRun" => RunOK(plan, table, version, c.write.run)

CommandsOK(plan, table) ==
  \A k \in DOMAIN table :
    /\ k = CommandKey(k[1], k[2], k[3])
    /\ IsCommand(plan, k[1])
    /\ k[3] \in 0..plan.nodes[k[1]].retry.maximum
    /\ k[3] > 0 => FailedAt(plan, table, k[1], k[2], k[3] - 1)
    /\ table[k].state \in {"Confirmed", "Failed", "Dispatched"}

RetryInv ==
  /\ run = NoRun =>
       /\ DOMAIN commands = {} /\ worker = Idle
       /\ \A k \in Callers : calls[k].at \notin {"ReadTimers", "CancelRun"}
  /\ run # NoRun =>
       /\ IsReady(versions, run.version)
       /\ RunOK(Plan, commands, run.version, run)
       /\ WorkerOK(Plan, commands, run.version, worker)
       /\ \A k \in Callers : CancelOK(Plan, commands, run.version, calls[k])
       /\ CommandsOK(Plan, commands)

-----------------------------------------------------------------------------
(* Versions, calls and the active pointer                                  *)

KeepsReady(table, new) == \A n : IsReady(table, n) => new[n] = table[n]

LEMMA ReadyIsStored ==
  ASSUME NEW table, VersionsOK(table), NEW n, IsReady(table, n)
  PROVE  table[n] # Absent /\ VersionOK(table[n]) /\ Succeeded(table[n])
<1>1. table[n] # Absent
  BY DEF IsReady, Absent
<1>2. VersionOK(table[n])
  BY <1>1 DEF VersionsOK, IsReady
<1> QED BY <1>1, <1>2 DEF VersionOK, IsReady

LEMMA IdleOK ==
  ASSUME NEW table
  PROVE  Idle.at = "Idle" /\ CallOK(table, Idle)
BY DEF Idle, CallOK

LEMMA ReplaceKeeps ==
  ASSUME NEW table, VersionsOK(table), NEW v, VersionOK(v), NEW n \in Versions,
         ~IsReady(table, n)
  PROVE  /\ VersionsOK([table EXCEPT ![n] = v])
         /\ KeepsReady(table, [table EXCEPT ![n] = v])
BY DEF VersionsOK, KeepsReady, IsReady

LEMMA StoreKeeps ==
  ASSUME VersionsOK(versions), NEW v, VersionOK(v), store_version(v)
  PROVE  VersionsOK(versions') /\ KeepsReady(versions, versions')
<1> DEFINE n == Documents[v.doc].version
<1>1. n \in Versions
  BY DEF VersionOK, Versions
<1>2. CASE validate_version(v) /\ versions[n] = Absent
  <2>1. ~IsReady(versions, n)
    BY <1>2 DEF IsReady, Absent
  <2>2. versions' = [versions EXCEPT ![n] = v]
    BY <1>2 DEF store_version
  <2> QED BY <1>1, <2>1, <2>2, ReplaceKeeps
<1>3. CASE ~(validate_version(v) /\ versions[n] = Absent)
  BY <1>3 DEF store_version, KeepsReady
<1> QED BY <1>2, <1>3

\* A transition of a version that is Ready is refused: only Retired follows.
LEMMA TransitionKeeps ==
  ASSUME VersionsOK(versions), NEW v, VersionOK(v), NEW n \in Versions, NEW e,
         transition_version(n, v, e)
  PROVE  VersionsOK(versions') /\ KeepsReady(versions, versions')
<1>1. CASE may_transition_version(n, v, e)
  <2>1. version_allows(versions[n].state, v.state)
    BY <1>1 DEF may_transition_version
  <2>2. ~IsReady(versions, n)
    BY <2>1 DEF version_allows, VersionOK, IsReady
  <2>3. versions' = [versions EXCEPT ![n] = v]
    BY <1>1 DEF transition_version
  <2> QED BY <2>2, <2>3, ReplaceKeeps
<1>2. CASE ~may_transition_version(n, v, e)
  BY <1>2 DEF transition_version, KeepsReady
<1> QED BY <1>1, <1>2

LEMMA CallStable ==
  ASSUME NEW table, NEW new, KeepsReady(table, new), NEW c, CallOK(table, c)
  PROVE  CallOK(new, c)
BY DEF CallOK, KeepsReady, IsReady

LEMMA IdentityStable ==
  ASSUME NEW table, NEW new, KeepsReady(table, new), NEW old, NEW more, old \subseteq more,
         NEW i, IdentityOK(table, old, i)
  PROVE  IdentityOK(new, more, i)
BY DEF IdentityOK, KeepsReady, IsReady

\* One call moves on, the others keep their copies.
LEMMA GotoOK ==
  ASSUME CallsOK(versions, calls), KeepsReady(versions, versions'), NEW k \in Callers,
         NEW c, CallOK(versions', c), Goto(k, c)
  PROVE  CallsOK(versions', calls')
<1>1. DOMAIN calls' = Callers
  BY DEF Goto, CallsOK
<1>2. ASSUME NEW j \in Callers PROVE CallOK(versions', calls'[j])
  <2>1. CallOK(versions', calls[j])
    BY CallStable DEF CallsOK
  <2>2. calls'[j] = IF j = k THEN c ELSE calls[j]
    BY DEF Goto, CallsOK
  <2> QED BY <2>1, <2>2
<1> QED BY <1>1, <1>2 DEF CallsOK

\* A step that changes neither versions nor approvals nor the pointer.
LEMMA QuietLifecycle ==
  ASSUME LifecycleInv, NEW k \in Callers, NEW c, CallOK(versions, c), Goto(k, c),
         UNCHANGED <<load, registry, versions, approvals, identity>>
  PROVE  LifecycleInv'
<1>1. KeepsReady(versions, versions')
  BY DEF KeepsReady
<1>2. CallsOK(versions', calls')
  BY <1>1, GotoOK DEF LifecycleInv
<1> QED BY <1>2 DEF LifecycleInv

LEMMA UnchangedLifecycle ==
  ASSUME LifecycleInv, UNCHANGED <<load, registry, versions, approvals, identity, calls>>
  PROVE  LifecycleInv'
BY DEF LifecycleInv

\* A step that writes a version.
LEMMA WritingLifecycle ==
  ASSUME LifecycleInv, NEW k \in Callers, NEW c, CallOK(versions', c), Goto(k, c),
         VersionsOK(versions'), KeepsReady(versions, versions'),
         UNCHANGED <<load, registry, approvals, identity>>
  PROVE  LifecycleInv'
<1>1. CallsOK(versions', calls')
  BY GotoOK DEF LifecycleInv
<1>2. IdentityOK(versions', approvals', identity')
  BY IdentityStable DEF LifecycleInv
<1> QED BY <1>1, <1>2 DEF LifecycleInv

LEMMA AuthoringStep ==
  ASSUME LifecycleInv, NEW k \in Callers,
         PutDraft(k) \/ Validate(k) \/ CompileDraft(k) \/ StoreVersion(k)
  PROVE  LifecycleInv'
<1>1. CASE PutDraft(k)
  BY <1>1, UnchangedLifecycle DEF PutDraft
<1>2. CASE Validate(k)
  <2> DEFINE c == [at |-> "Compile", doc |-> draft.doc]
  <2>1. draft.doc \in DocumentIds
    BY <1>2, LoadsAssumption DEF Validate, LifecycleInv
  <2>2. CallOK(versions, c)
    BY <2>1 DEF CallOK
  <2>3. Goto(k, c) /\ UNCHANGED <<load, registry, versions, approvals, identity>>
    BY <1>2 DEF Validate
  <2> QED BY <2>2, <2>3, QuietLifecycle
<1>3. CASE CompileDraft(k)
  <2> DEFINE doc == calls[k].doc
             v == ValidatedVersion(doc, registry)
             c == [at |-> "Store", copy |-> v]
  <2>1. doc \in DocumentIds
    BY <1>3 DEF CompileDraft, Continues, LifecycleInv, CallsOK, CallOK
  <2>2. registry \in DOMAIN Plans[doc]
    BY <2>1, LoadsAssumption DEF LifecycleInv
  <2>3. Plans[doc][registry].ok => CallOK(versions, c)
    <3> SUFFICES ASSUME Plans[doc][registry].ok PROVE CallOK(versions, c)
      OBVIOUS
    <3>1. /\ v.state = "Validated" /\ v.doc = doc /\ v.plan = <<doc, registry>>
          /\ VersionShape(v)
      BY DEF ValidatedVersion, VersionShape
    <3> HIDE DEF v
    <3>2. PlanOf(v.plan).ok /\ v.plan[1] = doc /\ v.plan[2] = registry
      BY <3>1 DEF PlanOf
    <3>3. VersionOK(v)
      BY <2>1, <2>2, <3>1, <3>2 DEF VersionOK
    <3> QED BY <3>1, <3>3 DEF CallOK
  <2>4. UNCHANGED <<load, registry, versions, approvals, identity>>
    BY <1>3 DEF CompileDraft
  <2>5. Goto(k, IF Plans[doc][registry].ok THEN c ELSE Idle)
    BY <1>3 DEF CompileDraft
  <2> HIDE DEF c
  <2> QED BY <2>3, <2>4, <2>5, IdleOK, QuietLifecycle
<1>4. CASE StoreVersion(k)
  <2>1. VersionOK(calls[k].copy)
    BY <1>4 DEF StoreVersion, Continues, LifecycleInv, CallsOK, CallOK
  <2>2. VersionsOK(versions') /\ KeepsReady(versions, versions')
    BY <1>4, <2>1, StoreKeeps DEF StoreVersion, LifecycleInv
  <2>3. Goto(k, Idle) /\ UNCHANGED <<load, registry, approvals, identity>>
    BY <1>4 DEF StoreVersion
  <2> QED BY <2>2, <2>3, IdleOK, WritingLifecycle
<1> QED BY <1>1, <1>2, <1>3, <1>4

LEMMA EvidenceStep ==
  ASSUME LifecycleInv, NEW k \in Callers,
         Simulate(k) \/ StoreEvidence(k) \/ AdvanceVersion(k)
  PROVE  LifecycleInv'
<1>1. CASE Simulate(k)
  <2>1. PICK n \in Versions, input \in Inputs :
          /\ versions[n].state = "Validated"
          /\ LET v == versions[n]
                 result == Simulation(PlanOf(v.plan), input)
             IN Goto(k, IF result.status = "Error" THEN Idle
                   ELSE [at |-> "Evidence", n |-> n,
                         completed |-> result.status = "Completed",
                         copy |-> [v EXCEPT !.state = "Simulated",
                                     !.simulation = [plan |-> v.plan,
                                       succeeded |-> result.status = "Completed"]]])
    BY <1>1 DEF Simulate
  <2> DEFINE v == versions[n]
             done == Simulation(PlanOf(v.plan), input).status = "Completed"
             sim == [plan |-> v.plan, succeeded |-> done]
             w == [v EXCEPT !.state = "Simulated", !.simulation = sim]
             c == [at |-> "Evidence", n |-> n, completed |-> done, copy |-> w]
  <2>2. VersionOK(v)
    BY <2>1 DEF LifecycleInv, VersionsOK, Absent
  <2>3. /\ w.state = "Simulated" /\ w.doc = v.doc /\ w.plan = v.plan /\ VersionShape(w)
        /\ w.simulation = sim
    <3> HIDE DEF sim, v
    <3> QED BY <2>2 DEF VersionOK, VersionShape
  <2>4. c.at = "Evidence" /\ c.n = n /\ c.copy = w /\ c.completed = done
    OBVIOUS
  <2>5. Goto(k, Idle) \/ Goto(k, c)
    BY <2>1
  <2>6. UNCHANGED <<load, registry, versions, approvals, identity>>
    BY <1>1 DEF Simulate
  <2> HIDE DEF v, w, c, sim, done
  <2>7. VersionOK(w)
    BY <2>2, <2>3 DEF VersionOK
  <2>8. CASE done
    <3>1. w.simulation = [plan |-> w.plan, succeeded |-> TRUE]
      BY <2>3, <2>8 DEF sim
    <3>2. CallOK(versions, c)
      BY <2>3, <2>4, <2>7, <3>1 DEF CallOK, Succeeded
    <3> QED BY <2>5, <2>6, <3>2, IdleOK, QuietLifecycle
  <2>9. CASE ~done
    <3>1. ~c.completed
      BY <2>4, <2>9
    <3>2. CallOK(versions, c)
      BY <2>3, <2>4, <2>7, <3>1 DEF CallOK
    <3> QED BY <2>5, <2>6, <3>2, IdleOK, QuietLifecycle
  <2> QED BY <2>8, <2>9
<1>2. CASE StoreEvidence(k)
  <2> DEFINE c == calls[k]
             w == [c.copy EXCEPT !.state = ReadyState(c.copy.plan)]
             d == [at |-> "Advance", n |-> c.n, expected |-> "Simulated", copy |-> w]
  <2>1. /\ c.n \in Versions /\ VersionOK(c.copy)
        /\ c.completed => Succeeded(c.copy)
    BY <1>2 DEF StoreEvidence, Continues, LifecycleInv, CallsOK, CallOK
  <2>2. VersionsOK(versions') /\ KeepsReady(versions, versions')
    BY <1>2, <2>1, TransitionKeeps DEF StoreEvidence, LifecycleInv
  <2>3. c.completed => CallOK(versions', d)
    <3> SUFFICES ASSUME c.completed PROVE CallOK(versions', d)
      OBVIOUS
    <3>1. w.state \in {"AwaitingApproval", "Ready"}
      BY <2>1 DEF VersionOK, VersionShape, ReadyState
    <3>2. /\ w.doc = c.copy.doc /\ w.plan = c.copy.plan /\ VersionShape(w)
          /\ w.simulation = c.copy.simulation
      BY <2>1 DEF VersionOK, VersionShape
    <3>3. d.at = "Advance" /\ d.n = c.n /\ d.copy = w
      OBVIOUS
    <3> HIDE DEF w, d
    <3>4. VersionOK(w)
      BY <2>1, <3>1, <3>2 DEF VersionOK, Succeeded
    <3> QED BY <2>1, <3>1, <3>3, <3>4 DEF CallOK
  <2>4. Goto(k, Idle) \/ (c.completed /\ Goto(k, d))
    BY <1>2 DEF StoreEvidence
  <2>5. UNCHANGED <<load, registry, approvals, identity>>
    BY <1>2 DEF StoreEvidence
  <2> HIDE DEF d
  <2> QED BY <2>2, <2>3, <2>4, <2>5, IdleOK, WritingLifecycle
<1>3. CASE AdvanceVersion(k)
  <2>1. calls[k].n \in Versions /\ VersionOK(calls[k].copy)
    BY <1>3 DEF AdvanceVersion, Continues, LifecycleInv, CallsOK, CallOK
  <2>2. VersionsOK(versions') /\ KeepsReady(versions, versions')
    BY <1>3, <2>1, TransitionKeeps DEF AdvanceVersion, LifecycleInv
  <2>3. Goto(k, Idle) /\ UNCHANGED <<load, registry, approvals, identity>>
    BY <1>3 DEF AdvanceVersion
  <2> QED BY <2>2, <2>3, IdleOK, WritingLifecycle
<1> QED BY <1>1, <1>2, <1>3

LEMMA DecisionStep ==
  ASSUME LifecycleInv, NEW k \in Callers, Decide(k) \/ RecordDecision(k)
  PROVE  LifecycleInv'
<1>1. CASE Decide(k)
  <2>1. PICK n \in Versions, approved \in BOOLEAN :
          /\ versions[n].state = "AwaitingApproval"
          /\ Goto(k, [at |-> "Record", n |-> n, expected |-> "AwaitingApproval",
                      copy |-> [versions[n] EXCEPT
                                  !.state = IF approved THEN "Ready" ELSE "Rejected"]])
    BY <1>1 DEF Decide
  <2> DEFINE v == versions[n]
             w == [v EXCEPT !.state = IF approved THEN "Ready" ELSE "Rejected"]
             c == [at |-> "Record", n |-> n, expected |-> "AwaitingApproval", copy |-> w]
  <2>2. VersionOK(v) /\ Succeeded(v)
    BY <2>1 DEF LifecycleInv, VersionsOK, Absent, VersionOK
  <2>3. /\ w.state \in {"Ready", "Rejected"} /\ w.doc = v.doc /\ w.plan = v.plan
        /\ VersionShape(w) /\ w.simulation = v.simulation
    BY <2>2 DEF VersionOK, VersionShape
  <2>4. /\ c.at = "Record" /\ c.n = n /\ c.copy = w
        /\ c = [at |-> c.at, n |-> c.n, expected |-> c.expected, copy |-> c.copy]
    OBVIOUS
  <2>5. Goto(k, c) /\ UNCHANGED <<load, registry, versions, approvals, identity>>
    BY <1>1, <2>1 DEF Decide
  <2> HIDE DEF v, w, c
  <2>6. VersionOK(w)
    BY <2>2, <2>3 DEF VersionOK, Succeeded
  <2>7. CallOK(versions, c)
    BY <2>3, <2>4, <2>6 DEF CallOK
  <2> QED BY <2>5, <2>7, QuietLifecycle
<1>2. CASE RecordDecision(k)
  <2> DEFINE c == calls[k]
             d == [c EXCEPT !.at = "Advance"]
  <2>1. CallOK(versions, c) /\ c.at = "Record"
    BY <1>2 DEF RecordDecision, Continues, LifecycleInv, CallsOK
  <2>2. d.at = "Advance" /\ d.n = c.n /\ d.copy = c.copy
    BY <2>1 DEF CallOK
  <2>3. Goto(k, d) /\ approvals \subseteq approvals'
        /\ UNCHANGED <<load, registry, versions, identity>>
    BY <1>2 DEF RecordDecision, append_approval
  <2> HIDE DEF d
  <2>4. CallOK(versions, d)
    BY <2>1, <2>2 DEF CallOK
  <2>5. KeepsReady(versions, versions')
    BY <2>3 DEF KeepsReady
  <2>6. CallsOK(versions', calls')
    BY <2>3, <2>4, <2>5, GotoOK DEF LifecycleInv
  <2>7. IdentityOK(versions', approvals', identity')
    BY <2>3, <2>5, IdentityStable DEF LifecycleInv
  <2> QED BY <2>3, <2>6, <2>7 DEF LifecycleInv
<1> QED BY <1>1, <1>2

LEMMA PointerStep ==
  ASSUME LifecycleInv, NEW k \in Callers,
         Activate(k) \/ CommitActivation(k) \/ Operate(k) \/ CommitOperation(k)
  PROVE  LifecycleInv'
<1>1. CASE Activate(k)
  <2>1. PICK n \in Versions, expected \in {identity.revision, 0} :
          /\ versions[n].state = "Ready"
          /\ Goto(k, [at |-> "Activate", n |-> n, plan |-> versions[n].plan,
                      expected |-> expected])
    BY <1>1 DEF Activate
  <2>2. CallOK(versions, [at |-> "Activate", n |-> n, plan |-> versions[n].plan,
                          expected |-> expected])
    BY <2>1 DEF CallOK, IsReady
  <2>3. UNCHANGED <<load, registry, versions, approvals, identity>>
    BY <1>1 DEF Activate
  <2> QED BY <2>1, <2>2, <2>3, QuietLifecycle
<1>2. CASE CommitActivation(k)
  <2> DEFINE n == calls[k].n
             plan == calls[k].plan
             expected == calls[k].expected
  <2>1. IsReady(versions, n)
    BY <1>2 DEF CommitActivation, Continues, LifecycleInv, CallsOK, CallOK
  <2>2. n # 0
    BY <2>1, VersionsAssumption DEF IsReady
  <2>3. IdentityOK(versions, approvals, identity')
    <3>1. CASE may_activate(n, plan, expected)
      <4>1. identity' = [state |-> "Active", active |-> n,
                         revision |-> identity.revision + 1]
        BY <1>2, <3>1 DEF CommitActivation, activate
      <4>2. /\ identity'.active = n /\ identity'.state = "Active"
            /\ IdentityShape(identity')
        BY <4>1 DEF IdentityShape
      <4>3. versions[n].plan = plan
        BY <3>1 DEF may_activate
      <4>4. PlanOf(plan).approval = "ExplicitUserApproval" =>
              [version |-> n, plan |-> plan, state |-> "Approved"] \in approvals
        BY <3>1 DEF may_activate, has_exact_approval
      <4> HIDE DEF n, plan, expected
      <4> QED BY <2>1, <2>2, <4>2, <4>3, <4>4 DEF IdentityOK
    <3>2. CASE ~may_activate(n, plan, expected)
      BY <1>2, <3>2 DEF CommitActivation, activate, LifecycleInv
    <3> QED BY <3>1, <3>2
  <2>4. Goto(k, Idle) /\ UNCHANGED <<load, registry, versions, approvals>>
    BY <1>2 DEF CommitActivation
  <2>5. CallsOK(versions', calls')
    BY <2>4, IdleOK, GotoOK DEF LifecycleInv, KeepsReady
  <2> QED BY <2>3, <2>4, <2>5 DEF LifecycleInv
<1>3. CASE Operate(k)
  <2>1. PICK state \in {"Disabled", "Retired"} :
          Goto(k, [at |-> "Operate", expected |-> identity.revision,
                   copy |-> [identity EXCEPT !.state = state, !.revision = @ + 1]])
    BY <1>3 DEF Operate
  <2> DEFINE next == identity.revision + 1
             i == [identity EXCEPT !.state = state, !.revision = next]
  <2>2. IdentityShape(i) /\ i.state = state
    <3> HIDE DEF next
    <3> QED BY DEF LifecycleInv, IdentityOK, IdentityShape
  <2> HIDE DEF i
  <2>3. CallOK(versions, [at |-> "Operate", expected |-> identity.revision, copy |-> i])
    BY <2>2 DEF CallOK
  <2>4. Goto(k, [at |-> "Operate", expected |-> identity.revision, copy |-> i])
    BY <2>1 DEF i, next
  <2>5. UNCHANGED <<load, registry, versions, approvals, identity>>
    BY <1>3 DEF Operate
  <2> QED BY <2>3, <2>4, <2>5, QuietLifecycle
<1>4. CASE CommitOperation(k)
  <2> DEFINE copy == calls[k].copy
  <2>1. IdentityShape(copy) /\ copy.state \in {"Disabled", "Retired"}
    BY <1>4 DEF CommitOperation, Continues, LifecycleInv, CallsOK, CallOK
  <2>2. identity' = identity \/ (identity' = copy /\ copy.active = identity.active)
    BY <1>4 DEF CommitOperation, transition_identity
  <2>3. IdentityOK(versions, approvals, identity')
    BY <2>1, <2>2 DEF LifecycleInv, IdentityOK
  <2>4. Goto(k, Idle) /\ UNCHANGED <<load, registry, versions, approvals>>
    BY <1>4 DEF CommitOperation
  <2>5. CallsOK(versions', calls')
    BY <2>4, IdleOK, GotoOK DEF LifecycleInv, KeepsReady
  <2> QED BY <2>3, <2>4, <2>5 DEF LifecycleInv
<1> QED BY <1>1, <1>2, <1>3, <1>4

LEMMA LifecycleStep ==
  ASSUME LifecycleInv, LifecycleNext
  PROVE  LifecycleInv'
<1>1. ASSUME NEW k \in Callers, Abandon(k) PROVE LifecycleInv'
  BY <1>1, IdleOK, QuietLifecycle DEF Abandon
<1>2. CASE RegistryChanges
  <2>1. registry' \in 1..load.registry
    BY <1>2, LoadsAssumption DEF RegistryChanges, LifecycleInv
  <2> QED BY <1>2, <2>1 DEF RegistryChanges, LifecycleInv
<1> QED
  BY <1>1, <1>2, AuthoringStep, EvidenceStep, DecisionStep, PointerStep DEF LifecycleNext

\* The steps around the run do not touch what the lifecycle stores; a
\* cancellation uses a call, and a crash ends them all.
LEMMA RuntimeKeepsLifecycle ==
  ASSUME LifecycleInv,
         \/ WorkerNext \/ Crash
         \/ \E k \in Callers : CancelRun(k) \/ CancelTimers(k) \/ CommitCancel(k)
         \/ CreateRun \/ ReadyTimer \/ SettleCommand \/ Observe \/ Tick
         \/ UNCHANGED vars
  PROVE  LifecycleInv'
<1>1. CASE Crash
  <2>1. CallsOK(versions, calls')
    BY <1>1, IdleOK DEF Crash, CallsOK
  <2> QED BY <1>1, <2>1 DEF Crash, LifecycleInv
<1>2. ASSUME NEW k \in Callers, CancelRun(k) PROVE LifecycleInv'
  <2> DEFINE c == [at |-> "ReadTimers", run |-> run]
  <2>1. CallOK(versions, c)
    BY DEF CallOK
  <2> QED BY <1>2, <2>1, QuietLifecycle DEF CancelRun
<1>3. ASSUME NEW k \in Callers, CancelTimers(k) PROVE LifecycleInv'
  <2>1. PICK w : Goto(k, [at |-> "CancelRun", write |-> w])
    BY <1>3 DEF CancelTimers
  <2>2. CallOK(versions, [at |-> "CancelRun", write |-> w])
    BY DEF CallOK
  <2>3. UNCHANGED <<load, registry, versions, approvals, identity>>
    BY <1>3 DEF CancelTimers
  <2> QED BY <2>1, <2>2, <2>3, QuietLifecycle
<1>4. ASSUME NEW k \in Callers, CommitCancel(k) PROVE LifecycleInv'
  BY <1>4, IdleOK, QuietLifecycle DEF CommitCancel
<1>5. CASE \/ WorkerNext \/ CreateRun \/ ReadyTimer \/ SettleCommand \/ Observe \/ Tick
           \/ UNCHANGED vars
  BY <1>5, UnchangedLifecycle DEF WorkerNext, LoadRun, BeginDispatch, DispatchTarget,
     EndDispatch, CommitStep, CreateRun, ReadyTimer, SettleCommand, Observe, Tick,
     lifecycleVars, vars
<1> QED BY <1>1, <1>2, <1>3, <1>4, <1>5

LEMMA LifecycleNextInv == LifecycleInv /\ [Next]_vars => LifecycleInv'
<1> SUFFICES ASSUME LifecycleInv, [Next]_vars PROVE LifecycleInv'
  OBVIOUS
<1> QED BY LifecycleStep, RuntimeKeepsLifecycle DEF Next

LEMMA LifecycleInitInv == Init => LifecycleInv
<1> SUFFICES ASSUME Init PROVE LifecycleInv
  OBVIOUS
<1>1. load \in Loads /\ registry = 1 /\ registry \in 1..load.registry
  BY LoadsAssumption DEF Init, LifecycleInit
<1>2. CallsOK(versions, calls)
  BY IdleOK DEF Init, LifecycleInit, CallsOK
<1>3. CASE load.doc = 0
  <2>1. versions = [n \in Versions |-> Absent] /\ identity = FreshIdentity
    BY <1>3 DEF Init, LifecycleInit
  <2>2. VersionsOK(versions)
    BY <2>1 DEF VersionsOK
  <2>3. IdentityOK(versions, approvals, identity)
    BY <2>1 DEF IdentityOK, FreshIdentity, IdentityShape
  <2> QED BY <1>1, <1>2, <2>2, <2>3 DEF LifecycleInv
<1>4. CASE load.doc # 0
  <2> DEFINE doc == load.doc
             plan == <<doc, 1>>
             sim == [plan |-> plan, succeeded |-> TRUE]
             n == Documents[doc].version
             v == ValidatedVersion(doc, 1)
             ready == [v EXCEPT !.state = "Ready", !.simulation = sim]
  <2>1. doc \in DocumentIds /\ Plans[doc][1].ok /\ 1 \in DOMAIN Plans[doc]
    BY <1>1, <1>4, LoadsAssumption
  <2>2. n \in Versions /\ n # 0
    BY <2>1, VersionsAssumption DEF Versions
  <2>3. /\ ready.state = "Ready" /\ ready.doc = doc /\ ready.plan = plan
        /\ ready.simulation = sim /\ VersionShape(ready)
    <3>1. VersionShape(v) /\ v.doc = doc /\ v.plan = plan
      BY DEF ValidatedVersion, VersionShape
    <3> HIDE DEF sim, plan, v
    <3> QED BY <3>1 DEF VersionShape
  <2>4. versions = [m \in Versions |-> IF m = n THEN ready ELSE Absent]
    BY <1>4 DEF Init, LifecycleInit
  <2>5. identity = [state |-> "Active", active |-> n, revision |-> 1]
    BY <1>4 DEF Init, LifecycleInit
  <2>6. PlanOf(plan).approval = "ExplicitUserApproval" =>
          [version |-> n, plan |-> plan, state |-> "Approved"] \in approvals
    BY <1>4 DEF Init, LifecycleInit
  <2>7. VersionOK(ready)
    <3>1. plan[1] = doc /\ plan[2] = 1 /\ PlanOf(plan).ok
      BY <2>1 DEF PlanOf
    <3> HIDE DEF plan, ready
    <3> QED BY <2>1, <2>3, <3>1 DEF VersionOK, Succeeded
  <2> HIDE DEF ready, plan, n
  <2>8. VersionsOK(versions)
    BY <2>4, <2>7 DEF VersionsOK
  <2>9. IdentityOK(versions, approvals, identity)
    BY <2>2, <2>3, <2>4, <2>5, <2>6 DEF IdentityOK, IdentityShape, IsReady
  <2> QED BY <1>1, <1>2, <2>8, <2>9 DEF LifecycleInv
<1> QED BY <1>3, <1>4

\* Whatever documents, plans, simulations, callers and faults: the version an
\* automation runs is Ready, compiled without findings, successfully simulated
\* as exactly that plan and, if its document commands an access, flow or
\* security device, approved by the user as exactly that plan (activate,
\* store_version, transition_version), provided the compiler asks for an
\* approval of such documents.
THEOREM ActiveVersionsAreGoverned ==
  ASSUME CompilerIsSound
  PROVE  Spec => []ActiveIsGoverned
<1>1. LifecycleInv => ActiveIsGoverned
  <2> SUFFICES ASSUME LifecycleInv, identity.active # 0
               PROVE  LET v == versions[identity.active] IN
                      /\ v.state = "Ready"
                      /\ PlanOf(v.plan).ok
                      /\ v.simulation = [plan |-> v.plan, succeeded |-> TRUE]
                      /\ v.doc \in Governed => has_exact_approval(identity.active, v.plan)
    BY DEF ActiveIsGoverned
  <2> DEFINE v == versions[identity.active]
  <2>1. IsReady(versions, identity.active)
    BY DEF LifecycleInv, IdentityOK
  <2>2. VersionOK(v) /\ Succeeded(v)
    BY <2>1, ReadyIsStored DEF LifecycleInv
  <2>3. v.doc \in Governed => PlanOf(v.plan).approval = "ExplicitUserApproval"
    BY <2>2 DEF VersionOK, CompilerIsSound, PlanOf
  <2>4. v.doc \in Governed => has_exact_approval(identity.active, v.plan)
    BY <2>3 DEF LifecycleInv, IdentityOK, has_exact_approval
  <2> QED BY <2>1, <2>2, <2>4 DEF IsReady, VersionOK, Succeeded
<1> QED BY <1>1, LifecycleInitInv, LifecycleNextInv, PTL DEF Spec

-----------------------------------------------------------------------------
(* The writes of a step                                                    *)

\* The write moves the run but leaves its attempt alone.
Quiet(s, r) == DOMAIN s = RunFields /\ s.version = r.version /\ s.attempt = r.attempt

LEMMA WriteRun ==
  ASSUME NEW r, NEW next, NEW step, NEW create, NEW consume, NEW cancel
  PROVE  LET w == Write(r, next, step, create, consume, cancel) IN
         w.run = next /\ \A s : [w EXCEPT !.sequence = s].run = next
BY DEF Write

\* What is written is in the write.
Writes(r, next, w) ==
  \E step, create, consume, cancel : w = Write(r, next, step, create, consume, cancel)

LEMMA WritesRun ==
  ASSUME NEW r, NEW next, NEW w, Writes(r, next, w)
  PROVE  w.run = next
BY WriteRun DEF Writes

LEMMA CheckpointQuiet ==
  ASSUME NEW r, DOMAIN r = RunFields
  PROVE  Quiet(checkpoint(r), r)
BY DEF checkpoint, Quiet, RunFields

LEMMA FailureQuiet ==
  ASSUME NEW r, DOMAIN r = RunFields, NEW policy, NEW following
  PROVE  Quiet(apply_failure(r, policy, following), r)
BY DEF apply_failure, Quiet, RunFields

LEMMA PendingQuiet ==
  ASSUME NEW r, DOMAIN r = RunFields, NEW w \in step_pending(r)
  PROVE  Quiet(w.run, r)
<1> DEFINE c == checkpoint(r)
<1>1. w.run = [c EXCEPT !.state = "Running"]
  BY WriteRun DEF step_pending
<1>2. Quiet(c, r)
  BY CheckpointQuiet
<1> HIDE DEF c
<1> QED BY <1>1, <1>2 DEF Quiet, RunFields

LEMMA CompleteQuiet ==
  ASSUME NEW r, DOMAIN r = RunFields, NEW w \in step_complete(r)
  PROVE  Quiet(w.run, r)
<1> DEFINE c == checkpoint(r)
<1>1. w.run = [c EXCEPT !.state = "Completed", !.node = 0]
  BY WriteRun DEF step_complete
<1>2. Quiet(c, r)
  BY CheckpointQuiet
<1> HIDE DEF c
<1> QED BY <1>1, <1>2 DEF Quiet, RunFields

LEMMA DelayQuiet ==
  ASSUME NEW r, DOMAIN r = RunFields, NEW n, NEW w \in step_delay(r, n)
  PROVE  Quiet(w.run, r)
<1> DEFINE c == checkpoint(r)
           a == [c EXCEPT !.state = "Waiting"]
           b == [c EXCEPT !.state = "Running", !.node = n.next]
<1>1. w.run = a \/ w.run = b
  <2>1. Writes(r, a, w) \/ Writes(r, b, w)
    <3>1. CASE r.state = "Running"
      <4>1. w = Write(r, a, Step("Timer", r.node),
                      {TimerId(r.node, "Delay", clock + n.duration)}, {}, {})
        BY <3>1 DEF step_delay
      <4> HIDE DEF a
      <4> QED BY <4>1 DEF Writes
    <3>2. CASE r.state # "Running"
      <4>1. PICK s : w = Write(r, b, Step("Timer", r.node), {}, {s}, {})
        BY <3>2 DEF step_delay
      <4> HIDE DEF b
      <4> QED BY <4>1 DEF Writes
    <3> QED BY <3>1, <3>2
  <2> HIDE DEF a, b
  <2> QED BY <2>1, WritesRun
<1>2. Quiet(c, r)
  BY CheckpointQuiet
<1> HIDE DEF c
<1> QED BY <1>1, <1>2 DEF Quiet, RunFields

LEMMA SetQuiet ==
  ASSUME NEW r, DOMAIN r = RunFields, NEW n, NEW w \in step_set(r, n)
  PROVE  Quiet(w.run, r)
<1> DEFINE c == checkpoint(r)
           v == evaluate_automation_expression(n.value, RuntimeContext(r))
           x == (n.name :> v) @@ c.variables
           a == [c EXCEPT !.node = n.next, !.variables = x]
<1>1. w.run = a
  <2>1. w = Write(r, a, Step("Variable", r.node), {}, {}, {})
    BY DEF step_set
  <2> HIDE DEF a
  <2> QED BY <2>1, WriteRun
<1>2. Quiet(c, r)
  BY CheckpointQuiet
<1> HIDE DEF c
<1> QED BY <1>1, <1>2 DEF Quiet, RunFields

LEMMA DurationQuiet ==
  ASSUME NEW r, DOMAIN r = RunFields, NEW request, NEW kept, NEW reset
  PROVE  Quiet(duration_write(r, request, kept, reset).run, r)
<1> DEFINE c == checkpoint(r)
           next == [c EXCEPT !.state = "Waiting", !.durations = kept]
           w == duration_write(r, request, kept, reset)
           timer == TimerId(r.node, "StateDuration", request.ready)
           x == kept \cup {[hash |-> request.hash, ready |-> request.ready,
                             timer |-> timer, phase |-> "Pending"]}
           y == {IF d.hash = request.hash THEN [d EXCEPT !.phase = "Mature"] ELSE d : d \in kept}
           z == r.shared \cup ({timer} \cap {d.timer : d \in r.durations})
           a == [next EXCEPT !.durations = x, !.shared = z]
           b == [next EXCEPT !.durations = y]
<1>1. Quiet(c, r)
  BY CheckpointQuiet
<1>2. Quiet(next, r)
  <2> HIDE DEF c
  <2> QED BY <1>1 DEF Quiet, RunFields
<1>3. w.run = a \/ w.run = next \/ w.run = b
  <2> DEFINE step == Step("Timer", r.node)
  <2>1. \/ w = Write(r, a, step, {timer}, {}, reset)
        \/ w = Write(r, next, step, {}, {}, reset)
        \/ w = Write(r, b, step, {}, {timer}, reset)
    BY DEF duration_write
  <2> HIDE DEF w, a, b, next, step, timer
  <2> QED BY <2>1, WriteRun
<1>4. Quiet(w.run, r)
  <2> HIDE DEF c, next, w, x, y, z
  <2> QED BY <1>2, <1>3 DEF Quiet, RunFields
<1> QED BY <1>4

\* The checkpoints of a condition that cannot be answered yet.
LEMMA ConditionQuiet ==
  ASSUME NEW r, DOMAIN r = RunFields, NEW condition,
         NEW w \in evaluate_runtime_condition(r, condition).writes
  PROVE  Quiet(w.run, r)
<1>1. \E request, kept, reset : w = duration_write(r, request, kept, reset)
  BY DEF evaluate_runtime_condition, prepared_condition
<1> QED BY <1>1, DurationQuiet

LEMMA BranchQuiet ==
  ASSUME NEW r, DOMAIN r = RunFields, NEW n, NEW w \in step_branch(r, n)
  PROVE  Quiet(w.run, r)
<1> DEFINE c == checkpoint(r)
           e == evaluate_runtime_condition(r, n.condition)
           x == OrElse(IF e.out = "yes" THEN n.then_node ELSE n.else_node, n.join)
           a == [c EXCEPT !.state = "Running", !.durations = {}, !.node = x]
<1>1. \/ w \in e.writes
      \/ w.run = a
  <2>1. CASE e.out \notin {"yes", "no"}
    BY <2>1 DEF step_branch
  <2>2. CASE e.out \in {"yes", "no"}
    <3>1. w = Write(r, a, Step("Branch", r.node), {},
                    {}, e.reset \cup e.active)
      BY <2>2 DEF step_branch
    <3> HIDE DEF a, e
    <3> QED BY <3>1, WriteRun
  <2> QED BY <2>1, <2>2
<1>2. Quiet(c, r)
  BY CheckpointQuiet
<1>3. w \in e.writes => Quiet(w.run, r)
  BY ConditionQuiet
<1> HIDE DEF c, e, x
<1> QED BY <1>1, <1>2, <1>3 DEF Quiet, RunFields

LEMMA WaitQuiet ==
  ASSUME NEW r, DOMAIN r = RunFields, NEW n, NEW w \in step_wait(r, n)
  PROVE  Quiet(w.run, r)
<1> DEFINE c == checkpoint(r)
           e == evaluate_runtime_condition(r, n.condition)
           left == [c EXCEPT !.durations = {}]
<1>1. Quiet(c, r)
  BY CheckpointQuiet
<1>2. Quiet(left, r)
  <2> HIDE DEF c
  <2> QED BY <1>1 DEF Quiet, RunFields
<1>3. CASE w \in wait_start(r, n)
  <2>1. w.run = [c EXCEPT !.state = "Waiting"]
    BY <1>3, WriteRun DEF wait_start
  <2> HIDE DEF c
  <2> QED BY <1>1, <2>1 DEF Quiet, RunFields
<1>4. CASE w \in wait_resume(r, n, e)
  <2>1. \/ w \in e.writes
        \/ w.run = [left EXCEPT !.state = "Running", !.node = n.next]
        \/ w.run = [c EXCEPT !.durations = e.durations]
        \/ w.run = apply_failure(left, n.on_timeout, n.next)
    <3> HIDE DEF e
    <3> QED BY <1>4, WriteRun DEF wait_resume
  <2>2. w \in e.writes => Quiet(w.run, r)
    BY ConditionQuiet
  <2>3. Quiet(apply_failure(left, n.on_timeout, n.next), r)
    <3> HIDE DEF left
    <3> QED BY <1>2, FailureQuiet DEF Quiet
  <2> HIDE DEF c, e, left
  <2> QED BY <1>1, <1>2, <2>1, <2>2, <2>3 DEF Quiet, RunFields
<1> QED BY <1>3, <1>4 DEF step_wait

LEMMA GroupQuiet ==
  ASSUME NEW r, DOMAIN r = RunFields, NEW n, NEW w \in enter_group(r, n)
  PROVE  Quiet(w.run, r)
<1> DEFINE c == checkpoint(r)
           x == Append(c.continuations,
                  [group |-> r.node, kind |-> n.op, join |-> n.join,
                   remaining |-> Tail(n.branches), failed |-> FALSE])
           a == [c EXCEPT !.node = Head(n.branches), !.continuations = x]
<1>1. w.run = a
  <2>1. w = Write(r, a, Step("Branch", r.node), {}, {}, {})
    BY DEF enter_group
  <2> HIDE DEF a
  <2> QED BY <2>1, WriteRun
<1>2. Quiet(c, r)
  BY CheckpointQuiet
<1> HIDE DEF c, x
<1> QED BY <1>1, <1>2 DEF Quiet, RunFields

LEMMA JoinQuiet ==
  ASSUME NEW r, DOMAIN r = RunFields, NEW n, NEW w \in step_join(r, n)
  PROVE  Quiet(w.run, r)
<1> DEFINE c == checkpoint(r)
           popped == [c EXCEPT !.continuations = Front(@)]
<1>1. Quiet(c, r)
  BY CheckpointQuiet
<1>2. Quiet(popped, r)
  <2> HIDE DEF c
  <2> QED BY <1>1 DEF Quiet, RunFields
<1> DEFINE frame == Last(r.continuations)
           rest == [frame EXCEPT !.remaining = Tail(@), !.failed = FALSE]
           a == [c EXCEPT !.node = n.next]
           b == [popped EXCEPT !.node = n.next]
           f == [popped EXCEPT !.state = "Failed", !.node = 0]
           g == [c EXCEPT !.node = Head(frame.remaining),
                          !.continuations[Len(r.continuations)] = rest]
<1>3. w.run = a \/ w.run = b \/ w.run = f \/ w.run = g
  <2> DEFINE step == Step("Branch", r.node)
  <2>1. \/ w = Write(r, a, step, {}, {}, {})
        \/ w = Write(r, b, step, {}, {}, {})
        \/ w = Write(r, f, step, {}, {}, {})
        \/ w = Write(r, g, step, {}, {}, {})
    BY DEF step_join
  <2> HIDE DEF a, b, f, g, step
  <2> QED BY <2>1, WriteRun
<1> HIDE DEF c, popped, frame, rest
<1> QED BY <1>1, <1>2, <1>3 DEF Quiet, RunFields

-----------------------------------------------------------------------------
(* Attempts                                                                *)

LEMMA NoAttemptOK ==
  ASSUME NEW plan, NEW table, NEW node
  PROVE  AttemptOK(plan, table, node, NoAttempt)
BY DEF AttemptOK, NoAttempt

\* Outside a command node a run has no attempt, and a quiet write gives it none.
LEMMA QuietOK ==
  ASSUME NEW plan, NEW table, NEW version, NEW r, RunOK(plan, table, version, r),
         ~IsCommand(plan, r.node), NEW s, Quiet(s, r)
  PROVE  RunOK(plan, table, version, s)
<1>1. s.attempt = NoAttempt
  BY DEF RunOK, AttemptOK, Quiet
<1>2. AttemptOK(plan, table, s.node, s.attempt)
  BY <1>1, NoAttemptOK
<1> QED BY <1>2 DEF RunOK, Quiet

\* A quiet write that stays at its node keeps the attempt.
LEMMA StayingOK ==
  ASSUME NEW plan, NEW table, NEW version, NEW r, RunOK(plan, table, version, r),
         NEW s, Quiet(s, r), s.node = r.node
  PROVE  RunOK(plan, table, version, s)
BY DEF RunOK, Quiet

\* What the checkpoint of a command node writes, given results that are those
\* of the table where they are settled.
LEMMA ResultWrites ==
  ASSUME NEW plan, NEW table, NEW version, NEW r, DOMAIN r = RunFields,
         r.version = version, IsCommand(plan, r.node), CommandsOK(plan, table),
         NEW number \in Nat, NEW results, ResultsOK(table, r.node, number, results),
         NEW w \in checkpoint_command_result(r, plan.nodes[r.node], number, results)
  PROVE  /\ RunOK(plan, table, version, w.run)
         /\ \A s : [w EXCEPT !.sequence = s].run = w.run
<1> DEFINE n == plan.nodes[r.node]
           c == checkpoint(r)
           outcome == AttemptOutcome(n, results)
           step == [Step("Command", r.node) EXCEPT !.attempt = number, !.outcome = outcome]
           attempt == [node |-> r.node, number |-> number, targets |-> DOMAIN results,
                       phase |-> "AwaitingOutcome", ready |-> 0]
           retry == retry_plan(n, number, results)
           Backoff(p) == [attempt EXCEPT !.targets = p.targets, !.phase = "Backoff",
                                         !.ready = p.ready]
           confirmed == [c EXCEPT !.state = "Running", !.node = n.next,
                                  !.attempt = NoAttempt]
           waiting == [c EXCEPT !.state = "Waiting", !.attempt = attempt]
           Again(p) == [c EXCEPT !.state = "Waiting", !.attempt = Backoff(p)]
           given == [c EXCEPT !.attempt = NoAttempt]
           failed == apply_failure(given, n.on_failure, n.next)
<1>1. /\ DOMAIN c = RunFields /\ c.version = version /\ c.node = r.node
  BY DEF checkpoint, RunFields
<1>2. outcome \in {"Confirmed", "Dispatched", "Retryable", "Failed"}
  BY DEF AttemptOutcome
<1>3. CASE outcome = "Confirmed"
  <2>1. w = Write(r, confirmed, step, {}, {}, {})
    BY <1>3 DEF checkpoint_command_result
  <2>2. /\ DOMAIN confirmed = RunFields /\ confirmed.version = version
        /\ confirmed.attempt = NoAttempt
    <3> HIDE DEF c
    <3> QED BY <1>1 DEF RunFields
  <2> HIDE DEF confirmed, step
  <2>3. RunOK(plan, table, version, confirmed)
    BY <2>2, NoAttemptOK DEF RunOK
  <2> QED BY <2>1, <2>3, WriteRun
<1>4. CASE outcome = "Dispatched"
  <2>1. w = Write(r, waiting, step, {}, {}, {})
    BY <1>4 DEF checkpoint_command_result
  <2>2. AttemptOK(plan, table, r.node, attempt)
    BY DEF AttemptOK, ResultsOK
  <2>3. /\ DOMAIN waiting = RunFields /\ waiting.version = version
        /\ waiting.attempt = attempt /\ waiting.node = r.node
    <3> HIDE DEF c, attempt
    <3> QED BY <1>1 DEF RunFields
  <2> HIDE DEF waiting, step, attempt
  <2>4. RunOK(plan, table, version, waiting)
    BY <2>2, <2>3 DEF RunOK
  <2> QED BY <2>1, <2>4, WriteRun
<1>5. CASE outcome \in {"Retryable", "Failed"} /\ retry # {}
  <2>1. PICK p \in retry : w = Write(r, Again(p), step,
                                     {TimerId(r.node, "CommandRetry", p.ready)}, {}, {})
    BY <1>5 DEF checkpoint_command_result
  <2> DEFINE bad == {i \in DOMAIN results : results[i].state # "Confirmed"}
  <2>2. /\ number < n.retry.maximum /\ p.targets = bad
        /\ \A i \in bad : results[i].error \in n.retry.errors
    BY <1>5, <2>1 DEF retry_plan
  <2>3. \A i \in bad : IsTerminal(results[i])
    <3> DEFINE pending == {i \in bad : ~IsTerminal(results[i])}
    <3>1. pending # {} => outcome \in {"Confirmed", "Dispatched"}
      <4> HIDE DEF n
      <4> QED BY DEF AttemptOutcome
    <3> QED BY <1>5, <3>1
  <2>4. ASSUME NEW i \in bad PROVE FailedAt(plan, table, r.node, i, number)
    <3> DEFINE key == CommandKey(r.node, i, number)
    <3>1. key \in DOMAIN table /\ results[i] = table[key]
      BY <2>3 DEF ResultsOK, IsTerminal
    <3>2. table[key].state \in {"Confirmed", "Failed", "Dispatched"}
      BY <3>1 DEF CommandsOK
    <3>3. table[key].state = "Failed"
      BY <2>3, <3>1, <3>2 DEF IsTerminal
    <3> QED BY <2>2, <3>1, <3>3 DEF FailedAt
  <2>5. AttemptOK(plan, table, r.node, Backoff(p))
    <3> DEFINE a == Backoff(p)
    <3>1. /\ DOMAIN a = {"node", "number", "targets", "phase", "ready"}
          /\ a.number = number /\ a.phase = "Backoff" /\ a.targets = p.targets
      OBVIOUS
    <3> HIDE DEF a
    <3>2. p.targets \subseteq Nat
      BY <2>2 DEF ResultsOK
    <3>3. AttemptOK(plan, table, r.node, a)
      BY <2>2, <2>4, <3>1, <3>2 DEF AttemptOK
    <3> QED BY <3>3 DEF a
  <2>6. /\ DOMAIN Again(p) = RunFields /\ Again(p).version = version
        /\ Again(p).attempt = Backoff(p) /\ Again(p).node = r.node
    <3> HIDE DEF c, Backoff
    <3> QED BY <1>1 DEF RunFields
  <2> HIDE DEF Again, Backoff, step
  <2>7. RunOK(plan, table, version, Again(p))
    BY <2>5, <2>6 DEF RunOK
  <2> QED BY <2>1, <2>7, WriteRun
<1>6. CASE outcome \in {"Retryable", "Failed"} /\ retry = {}
  <2>1. w = Write(r, failed, step, {}, {}, {})
    BY <1>6 DEF checkpoint_command_result
  <2>2. DOMAIN given = RunFields /\ given.version = version /\ given.attempt = NoAttempt
    <3> HIDE DEF c
    <3> QED BY <1>1 DEF RunFields
  <2>3. Quiet(failed, given)
    <3> HIDE DEF given
    <3> QED BY <2>2, FailureQuiet
  <2> HIDE DEF failed, given, step
  <2>4. RunOK(plan, table, version, failed)
    BY <2>2, <2>3, NoAttemptOK DEF RunOK, Quiet
  <2> QED BY <2>1, <2>4, WriteRun
<1> HIDE DEF outcome, retry
<1> QED BY <1>2, <1>3, <1>4, <1>5, <1>6

\* A backoff that ends becomes the next attempt of the targets that failed.
LEMMA BackoffWrites ==
  ASSUME NEW plan, NEW table, NEW version, NEW r, RunOK(plan, table, version, r),
         r.attempt.phase = "Backoff",
         \A i \in DOMAIN plan.nodes : plan.nodes[i].op = "command" =>
                                        plan.nodes[i].retry.maximum \in Nat,
         NEW w \in resume_command_backoff(r)
  PROVE  RunOK(plan, table, version, w.run)
<1> DEFINE c == checkpoint(r)
           b == r.attempt
           number == b.number + 1
           a == [b EXCEPT !.number = number, !.phase = "Dispatch", !.ready = 0]
           s == [c EXCEPT !.state = "Running", !.attempt = a]
           timer == TimerId(r.node, "CommandRetry", r.attempt.ready)
<1>1. DOMAIN c = RunFields /\ c.version = version /\ c.node = r.node
  BY DEF checkpoint, RunFields, RunOK
<1>2. w = Write(r, s, Step("Timer", r.node), {}, {timer}, {})
  BY DEF resume_command_backoff
<1>3. DOMAIN s = RunFields /\ s.version = version /\ s.node = r.node /\ s.attempt = a
  <2> HIDE DEF c, a
  <2> QED BY <1>1 DEF RunFields
<1>4. AttemptOK(plan, table, r.node, b) /\ b.phase = "Backoff"
  BY DEF RunOK
<1>5. /\ DOMAIN a = {"node", "number", "targets", "phase", "ready"}
      /\ a.number = number /\ a.phase = "Dispatch" /\ a.targets = b.targets
  <2> HIDE DEF number, b
  <2>1. DOMAIN b = {"node", "number", "targets", "phase", "ready"}
    BY <1>4 DEF AttemptOK
  <2> QED BY <2>1
<1>6. number \in 1..plan.nodes[r.node].retry.maximum /\ number - 1 = b.number
      /\ IsCommand(plan, r.node)
  BY <1>4 DEF AttemptOK, IsCommand
<1>7. AttemptOK(plan, table, r.node, a)
  <2> HIDE DEF a, b, number
  <2> QED BY <1>4, <1>5, <1>6 DEF AttemptOK
<1> HIDE DEF s, a, b, c
<1> QED BY <1>2, <1>3, <1>7, WriteRun DEF RunOK

-----------------------------------------------------------------------------
(* The command table only grows, and what is settled stays                 *)

Grows(table, new) ==
  \A k \in DOMAIN table :
    k \in DOMAIN new /\ (table[k].state = "Dispatched" \/ new[k] = table[k])

LEMMA FailedStable ==
  ASSUME NEW plan, NEW table, NEW new, Grows(table, new), NEW node, NEW i, NEW number,
         FailedAt(plan, table, node, i, number)
  PROVE  FailedAt(plan, new, node, i, number)
BY DEF FailedAt, Grows

LEMMA RunStable ==
  ASSUME NEW plan, NEW table, NEW new, Grows(table, new), NEW version, NEW r,
         RunOK(plan, table, version, r)
  PROVE  RunOK(plan, new, version, r)
<1>1. AttemptOK(plan, table, r.node, r.attempt) => AttemptOK(plan, new, r.node, r.attempt)
  BY FailedStable DEF AttemptOK, Grows
<1> QED BY <1>1 DEF RunOK

LEMMA ResultsStable ==
  ASSUME NEW table, NEW new, Grows(table, new), NEW node, NEW number, NEW results,
         ResultsOK(table, node, number, results)
  PROVE  ResultsOK(new, node, number, results)
BY DEF ResultsOK, Grows

LEMMA WorkerStable ==
  ASSUME NEW plan, NEW table, NEW new, Grows(table, new), NEW version, NEW w,
         WorkerOK(plan, table, version, w)
  PROVE  WorkerOK(plan, new, version, w)
<1>1. w.at = "Commit" => RunOK(plan, new, version, w.write.run)
  BY RunStable DEF WorkerOK
<1>2. w.at = "Dispatch" =>
        /\ RunOK(plan, new, version, w.run)
        /\ ResultsOK(new, w.run.node, w.number, w.results)
        /\ w.number > 0 => \A i \in w.todo : FailedAt(plan, new, w.run.node, i, w.number - 1)
  BY RunStable, ResultsStable, FailedStable DEF WorkerOK
<1> QED BY <1>1, <1>2 DEF WorkerOK

LEMMA CancelStable ==
  ASSUME NEW plan, NEW table, NEW new, Grows(table, new), NEW version, NEW c,
         CancelOK(plan, table, version, c)
  PROVE  CancelOK(plan, new, version, c)
BY RunStable DEF CancelOK

LEMMA GrowsReflexive == \A table : Grows(table, table)
BY DEF Grows

-----------------------------------------------------------------------------
(* The steps of the run                                                    *)

\* No call and no step changes a version that is Ready.
LEMMA ReadyNeverChanges ==
  ASSUME LifecycleInv, [Next]_vars
  PROVE  KeepsReady(versions, versions')
<1>1. CASE versions' = versions
  BY <1>1 DEF KeepsReady
<1>2. ASSUME NEW k \in Callers, StoreVersion(k) PROVE KeepsReady(versions, versions')
  <2>1. VersionOK(calls[k].copy)
    BY <1>2 DEF StoreVersion, Continues, LifecycleInv, CallsOK, CallOK
  <2> QED BY <1>2, <2>1, StoreKeeps DEF StoreVersion, LifecycleInv
<1>3. ASSUME NEW k \in Callers, StoreEvidence(k) \/ AdvanceVersion(k)
      PROVE  KeepsReady(versions, versions')
  <2>1. calls[k].n \in Versions /\ VersionOK(calls[k].copy)
    BY <1>3 DEF StoreEvidence, AdvanceVersion, Continues, LifecycleInv, CallsOK, CallOK
  <2>2. \E e : transition_version(calls[k].n, calls[k].copy, e)
    BY <1>3 DEF StoreEvidence, AdvanceVersion
  <2> QED BY <2>1, <2>2, TransitionKeeps DEF LifecycleInv
<1>4. CASE LifecycleNext
  <2>1. ASSUME NEW k \in Callers,
               \/ PutDraft(k) \/ Validate(k) \/ CompileDraft(k) \/ Simulate(k)
               \/ Decide(k) \/ RecordDecision(k) \/ Activate(k) \/ CommitActivation(k)
               \/ Operate(k) \/ CommitOperation(k) \/ Abandon(k)
        PROVE  versions' = versions
    BY <2>1 DEF PutDraft, Validate, CompileDraft, Simulate, Decide, RecordDecision,
       Activate, CommitActivation, Operate, CommitOperation, Abandon
  <2>2. RegistryChanges => versions' = versions
    BY DEF RegistryChanges
  <2> QED BY <1>1, <1>2, <1>3, <1>4, <2>1, <2>2 DEF LifecycleNext
<1>5. CASE ~LifecycleNext
  <2>1. versions' = versions
    BY <1>5 DEF Next, WorkerNext, LoadRun, BeginDispatch, DispatchTarget, EndDispatch,
       CommitStep, Crash, CancelRun, CancelTimers, CommitCancel, CreateRun, ReadyTimer,
       SettleCommand, Observe, Tick, lifecycleVars, vars
  <2> QED BY <1>1, <2>1
<1> QED BY <1>4, <1>5

Cancels(c) == c.at \in {"ReadTimers", "CancelRun"}

\* A lifecycle step starts no cancellation.
LEMMA LifecycleCalls ==
  ASSUME LifecycleInv, LifecycleNext
  PROVE  \A j \in Callers : calls'[j] = calls[j] \/ ~Cancels(calls'[j])
<1>1. \A j, k \in Callers : \A c : Goto(k, c) => calls'[j] = IF j = k THEN c ELSE calls[j]
  BY DEF Goto, LifecycleInv, CallsOK
<1>2. ASSUME NEW k \in Callers, NEW c, Goto(k, c), ~Cancels(c)
      PROVE  \A j \in Callers : calls'[j] = calls[j] \/ ~Cancels(calls'[j])
  BY <1>1, <1>2
<1>3. ~Cancels(Idle)
  BY DEF Cancels, Idle
<1>4. ASSUME NEW k \in Callers,
             StoreVersion(k) \/ AdvanceVersion(k) \/ CommitActivation(k)
               \/ CommitOperation(k) \/ Abandon(k)
      PROVE  Goto(k, Idle)
  BY <1>4 DEF StoreVersion, AdvanceVersion, CommitActivation, CommitOperation, Abandon
<1>5. ASSUME NEW k \in Callers, PutDraft(k) PROVE calls' = calls
  BY <1>5 DEF PutDraft
<1>6. ASSUME NEW k \in Callers,
             Validate(k) \/ CompileDraft(k) \/ Simulate(k) \/ StoreEvidence(k)
      PROVE  \E c : Goto(k, c) /\ ~Cancels(c)
  <2>1. CASE Validate(k)
    <3> DEFINE c == [at |-> "Compile", doc |-> draft.doc]
    <3>1. Goto(k, c) /\ ~Cancels(c)
      BY <2>1 DEF Validate, Cancels
    <3> QED BY <3>1
  <2>2. CASE CompileDraft(k)
    <3> DEFINE v == ValidatedVersion(calls[k].doc, registry)
               c == [at |-> "Store", copy |-> v]
    <3>1. Goto(k, c) \/ Goto(k, Idle)
      BY <2>2 DEF CompileDraft
    <3>2. ~Cancels(c)
      BY DEF Cancels
    <3> HIDE DEF c
    <3> QED BY <1>3, <3>1, <3>2
  <2>3. CASE Simulate(k)
    <3>1. Goto(k, Idle) \/ \E n, b, v : Goto(k, [at |-> "Evidence", n |-> n,
                                                completed |-> b, copy |-> v])
      BY <2>3 DEF Simulate
    <3>2. \A n, b, v : ~Cancels([at |-> "Evidence", n |-> n, completed |-> b, copy |-> v])
      BY DEF Cancels
    <3> QED BY <1>3, <3>1, <3>2
  <2>4. CASE StoreEvidence(k)
    <3>1. Goto(k, Idle) \/ \E n, v : Goto(k, [at |-> "Advance", n |-> n,
                                             expected |-> "Simulated", copy |-> v])
      BY <2>4 DEF StoreEvidence
    <3>2. \A n, v : ~Cancels([at |-> "Advance", n |-> n, expected |-> "Simulated",
                              copy |-> v])
      BY DEF Cancels
    <3> QED BY <1>3, <3>1, <3>2
  <2> QED BY <1>6, <2>1, <2>2, <2>3, <2>4
<1>7. ASSUME NEW k \in Callers,
             Decide(k) \/ RecordDecision(k) \/ Activate(k) \/ Operate(k)
      PROVE  \E c : Goto(k, c) /\ ~Cancels(c)
  <2>1. CASE Decide(k)
    <3>1. \E n, v : Goto(k, [at |-> "Record", n |-> n, expected |-> "AwaitingApproval",
                             copy |-> v])
      BY <2>1 DEF Decide
    <3> QED BY <3>1 DEF Cancels
  <2>2. CASE RecordDecision(k)
    <3> DEFINE c == [calls[k] EXCEPT !.at = "Advance"]
    <3>1. calls[k] = [at |-> calls[k].at, n |-> calls[k].n,
                      expected |-> calls[k].expected, copy |-> calls[k].copy]
      BY <2>2 DEF RecordDecision, Continues, LifecycleInv, CallsOK, CallOK
    <3>2. c.at = "Advance" /\ Goto(k, c)
      BY <2>2, <3>1 DEF RecordDecision
    <3> QED BY <3>2 DEF Cancels
  <2>3. CASE Activate(k)
    <3>1. \E n, p, e : Goto(k, [at |-> "Activate", n |-> n, plan |-> p, expected |-> e])
      BY <2>3 DEF Activate
    <3> QED BY <3>1 DEF Cancels
  <2>4. CASE Operate(k)
    <3>1. \E i, e : Goto(k, [at |-> "Operate", expected |-> e, copy |-> i])
      BY <2>4 DEF Operate
    <3> QED BY <3>1 DEF Cancels
  <2> QED BY <1>7, <2>1, <2>2, <2>3, <2>4
<1>8. RegistryChanges => calls' = calls
  BY DEF RegistryChanges
<1> QED BY <1>2, <1>3, <1>4, <1>5, <1>6, <1>7, <1>8 DEF LifecycleNext

\* What a step has to show while there is a run.
LEMMA RetryKept ==
  ASSUME RetryInv, run # NoRun, KeepsReady(versions, versions'),
         RunOK(Plan, commands', run.version, run'),
         WorkerOK(Plan, commands', run.version, worker'),
         \A k \in Callers : CancelOK(Plan, commands', run.version, calls'[k]),
         CommandsOK(Plan, commands')
  PROVE  RetryInv'
<1>1. run' # NoRun
  BY DEF RunOK, RunFields, NoRun
<1>2. run'.version = run.version
  BY DEF RunOK
<1>3. IsReady(versions, run.version) /\ versions'[run.version] = versions[run.version]
  BY DEF RetryInv, KeepsReady
<1>4. Plan' = Plan
  BY <1>2, <1>3 DEF Plan
<1>5. IsReady(versions', run'.version)
  BY <1>2, <1>3 DEF IsReady
<1> QED BY <1>1, <1>2, <1>4, <1>5 DEF RetryInv

\* What a step has to show that leaves the run, its copies and the table alone.
LEMMA RetryUnchanged ==
  ASSUME LifecycleInv, RetryInv, [Next]_vars, UNCHANGED <<run, commands, worker>>,
         \A j \in Callers : calls'[j] = calls[j] \/ ~Cancels(calls'[j])
  PROVE  RetryInv'
<1>1. CASE run = NoRun
  BY <1>1 DEF RetryInv, Cancels
<1>2. CASE run # NoRun
  <2>1. ASSUME NEW k \in Callers PROVE CancelOK(Plan, commands', run.version, calls'[k])
    <3>1. CancelOK(Plan, commands, run.version, calls[k])
      BY <1>2 DEF RetryInv
    <3>2. ~Cancels(calls'[k]) => CancelOK(Plan, commands', run.version, calls'[k])
      BY DEF Cancels, CancelOK
    <3> QED BY <3>1, <3>2
  <2>2. /\ RunOK(Plan, commands', run.version, run')
        /\ WorkerOK(Plan, commands', run.version, worker')
        /\ CommandsOK(Plan, commands')
    BY <1>2 DEF RetryInv
  <2> QED BY <1>2, <2>1, <2>2, RetryKept, ReadyNeverChanges
<1> QED BY <1>1, <1>2

\* The plan of a run is one the compiler made.
LEMMA PlanShape ==
  ASSUME LifecycleInv, IsReady(versions, run.version)
  PROVE  \A i \in DOMAIN Plan.nodes :
           /\ Plan.nodes[i].op \in NodeKinds
           /\ Plan.nodes[i].op = "command" =>
                /\ Plan.nodes[i].retry.maximum \in Nat
                /\ DOMAIN Plan.nodes[i].targets \subseteq Nat
<1> DEFINE v == versions[run.version]
<1>1. VersionOK(v)
  BY ReadyIsStored DEF LifecycleInv
<1>2. v.plan[1] \in DocumentIds /\ v.plan[2] \in DOMAIN Plans[v.plan[1]]
  BY <1>1 DEF VersionOK
<1> QED BY <1>2, NodesAssumption DEF Plan, PlanOf

LEMMA StepWritesOK ==
  ASSUME LifecycleInv, RetryInv, run # NoRun, NEW w \in StepWrites(run)
  PROVE  RunOK(Plan, commands, run.version, w.run)
<1> DEFINE n == Plan.nodes[run.node]
<1>1. /\ IsReady(versions, run.version) /\ RunOK(Plan, commands, run.version, run)
      /\ CommandsOK(Plan, commands)
  BY DEF RetryInv
<1>2. DOMAIN run = RunFields
  BY <1>1 DEF RunOK
<1>3. CASE run.state = "Pending"
  <2>1. w \in step_pending(run)
    BY <1>3 DEF StepWrites
  <2>2. Quiet(w.run, run)
    BY <1>2, <2>1, PendingQuiet
  <2>3. w.run.node = run.node
    <3> DEFINE c == checkpoint(run)
    <3>1. w.run = [c EXCEPT !.state = "Running"]
      BY <2>1, WriteRun DEF step_pending
    <3>2. c.node = run.node /\ DOMAIN c = RunFields
      BY <1>2 DEF checkpoint, RunFields
    <3> HIDE DEF c
    <3> QED BY <3>1, <3>2 DEF RunFields
  <2> QED BY <1>1, <2>2, <2>3, StayingOK
<1>4. CASE run.state # "Pending"
  <2>1. run.node \in DOMAIN Plan.nodes /\ w \in NodeWrites(run, n)
    BY <1>4 DEF StepWrites, AtNode
  <2>2. n.op \in NodeKinds
    BY <1>1, <2>1, PlanShape
  <2>3. CASE n.op # "command"
    <3>1. ~IsCommand(Plan, run.node)
      BY <2>3 DEF IsCommand
    <3>2. \/ w \in step_complete(run) \/ w \in step_delay(run, n) \/ w \in step_set(run, n)
          \/ w \in step_branch(run, n) \/ w \in step_join(run, n) \/ w \in step_wait(run, n)
          \/ w \in enter_group(run, n)
      <4> HIDE DEF n
      <4> QED BY <2>1, <2>2, <2>3 DEF NodeWrites, NodeKinds
    <3>3. Quiet(w.run, run)
      <4> HIDE DEF n
      <4> QED BY <1>2, <3>2, CompleteQuiet, DelayQuiet, SetQuiet, BranchQuiet, JoinQuiet,
                 WaitQuiet, GroupQuiet
    <3> QED BY <1>1, <3>1, <3>3, QuietOK
  <2>4. CASE n.op = "command"
    <3>1. w \in step_command(run, n)
      <4> HIDE DEF n
      <4> QED BY <2>1, <2>4 DEF NodeWrites
    <3>2. IsCommand(Plan, run.node)
      BY <2>1, <2>4 DEF IsCommand
    <3>3. CASE run.attempt.phase = "Backoff"
      <4>1. w \in resume_command_backoff(run)
        BY <3>1, <3>3 DEF step_command
      <4>2. \A i \in DOMAIN Plan.nodes : Plan.nodes[i].op = "command" =>
                                           Plan.nodes[i].retry.maximum \in Nat
        BY <1>1, PlanShape
      <4> QED BY <1>1, <3>3, <4>1, <4>2, BackoffWrites
    <3>4. CASE run.attempt.phase = "AwaitingOutcome"
      <4> DEFINE results == load_attempt_commands(run)
                 number == run.attempt.number
      <4>1. w \in checkpoint_command_result(run, n, number, results)
        BY <3>1, <3>4 DEF step_command
      <4>2. /\ number \in Nat /\ run.attempt.targets \subseteq Nat
            /\ \A i \in run.attempt.targets : CommandKey(run.node, i, number) \in DOMAIN commands
        BY <1>1, <3>4 DEF RunOK, AttemptOK
      <4>3. ResultsOK(commands, run.node, number, results)
        BY <4>2 DEF ResultsOK, load_attempt_commands
      <4> HIDE DEF results, number
      <4> QED BY <1>1, <1>2, <3>2, <4>1, <4>2, <4>3, ResultWrites
    <3>5. run.attempt.phase \in {"Backoff", "AwaitingOutcome"}
      BY <3>1 DEF step_command
    <3> QED BY <3>3, <3>4, <3>5
  <2> QED BY <2>3, <2>4
<1> QED BY <1>3, <1>4

\* A step that leaves the table as it is and changes the run or its copies.
LEMMA RetrySameTable ==
  ASSUME LifecycleInv, RetryInv, run # NoRun, [Next]_vars, commands' = commands,
         RunOK(Plan, commands, run.version, run'),
         WorkerOK(Plan, commands, run.version, worker'),
         \A k \in Callers : CancelOK(Plan, commands, run.version, calls'[k])
  PROVE  RetryInv'
<1>1. CommandsOK(Plan, commands')
  BY DEF RetryInv
<1> QED BY <1>1, RetryKept, ReadyNeverChanges

LEMMA IdleCopies ==
  ASSUME NEW plan, NEW table, NEW version
  PROVE  WorkerOK(plan, table, version, Idle) /\ CancelOK(plan, table, version, Idle)
BY DEF WorkerOK, CancelOK, Idle

LEMMA BusyMeansRun ==
  ASSUME RetryInv, worker # Idle \/ run.state \in Open
                     \/ \E k \in Callers : Cancels(calls[k])
  PROVE  run # NoRun
BY DEF RetryInv, Cancels, NoRun, Open

LEMMA LoadRunStep ==
  ASSUME LifecycleInv, RetryInv, LoadRun
  PROVE  RetryInv'
<1>1. run # NoRun
  BY BusyMeansRun DEF LoadRun, MayStep
<1>2. PICK w \in StepWrites(run) : worker' = [at |-> "Commit", write |-> w]
  BY DEF LoadRun
<1>3. UNCHANGED <<run, commands, calls>>
  BY DEF LoadRun, lifecycleVars
<1>4. RunOK(Plan, commands, run.version, w.run)
  BY <1>1, StepWritesOK
<1>5. WorkerOK(Plan, commands, run.version, worker')
  BY <1>2, <1>4 DEF WorkerOK
<1> QED BY <1>1, <1>3, <1>5, RetrySameTable DEF RetryInv, Next, WorkerNext

LEMMA BeginDispatchStep ==
  ASSUME LifecycleInv, RetryInv, BeginDispatch
  PROVE  RetryInv'
<1> DEFINE n == Plan.nodes[run.node]
           a == run.attempt
           todo == IF a.phase = "Dispatch" THEN a.targets ELSE DOMAIN n.targets
           results == [i \in {} |-> Confirmed]
<1>1. run # NoRun
  BY BusyMeansRun DEF BeginDispatch, MayStep
<1>2. /\ IsReady(versions, run.version) /\ RunOK(Plan, commands, run.version, run)
  BY <1>1 DEF RetryInv
<1>3. worker' = [at |-> "Dispatch", run |-> run, number |-> a.number, todo |-> todo,
                 results |-> results]
  BY DEF BeginDispatch
<1>4. IsCommand(Plan, run.node) /\ a.phase \in {"None", "Dispatch"}
  BY DEF BeginDispatch, AtNode, IsCommand
<1>5. n.retry.maximum \in Nat /\ DOMAIN n.targets \subseteq Nat
  BY <1>2, <1>4, PlanShape DEF IsCommand
<1>6. AttemptOK(Plan, commands, run.node, a)
  BY <1>2 DEF RunOK
<1>7. /\ todo \subseteq Nat /\ a.number \in 0..n.retry.maximum
      /\ a.number > 0 => \A i \in todo : FailedAt(Plan, commands, run.node, i, a.number - 1)
  <2>1. CASE a.phase = "None"
    <3>1. a.number = 0 /\ todo = DOMAIN n.targets
      BY <1>6, <2>1 DEF AttemptOK, NoAttempt
    <3> QED BY <1>5, <3>1
  <2>2. CASE a.phase = "Dispatch"
    <3>1. a.number \in 1..n.retry.maximum /\ todo = a.targets /\ a.targets \subseteq Nat
      BY <1>6, <2>2 DEF AttemptOK
    <3>2. \A i \in a.targets : FailedAt(Plan, commands, run.node, i, a.number - 1)
      BY <1>6, <2>2 DEF AttemptOK
    <3> HIDE DEF a, n, todo
    <3> QED BY <1>5, <3>1, <3>2
  <2> QED BY <1>4, <2>1, <2>2
<1>8. ResultsOK(commands, run.node, a.number, results)
  BY DEF ResultsOK
<1>9. WorkerOK(Plan, commands, run.version, worker')
  <2> HIDE DEF a, todo, results
  <2> QED BY <1>2, <1>3, <1>4, <1>7, <1>8 DEF WorkerOK
<1>10. UNCHANGED <<run, commands, calls>>
  BY DEF BeginDispatch, lifecycleVars
<1> QED BY <1>1, <1>9, <1>10, RetrySameTable DEF RetryInv, Next, WorkerNext

LEMMA EndDispatchStep ==
  ASSUME LifecycleInv, RetryInv, EndDispatch
  PROVE  RetryInv'
<1> DEFINE r == worker.run
<1>1. run # NoRun /\ worker.at = "Dispatch"
  BY BusyMeansRun DEF EndDispatch, Idle
<1>2. /\ IsReady(versions, run.version) /\ WorkerOK(Plan, commands, run.version, worker)
      /\ CommandsOK(Plan, commands)
  BY <1>1 DEF RetryInv
<1>3. PICK w \in checkpoint_command_result(r, Plan.nodes[r.node], worker.number,
                                           worker.results) :
        worker' = [at |-> "Commit", write |-> [w EXCEPT !.sequence = r.revision]]
  BY DEF EndDispatch
<1>4. /\ RunOK(Plan, commands, run.version, r) /\ IsCommand(Plan, r.node)
      /\ worker.number \in Nat
      /\ ResultsOK(commands, r.node, worker.number, worker.results)
  BY <1>1, <1>2 DEF WorkerOK
<1>5. DOMAIN r = RunFields /\ r.version = run.version
  BY <1>4 DEF RunOK
<1>6. /\ RunOK(Plan, commands, run.version, w.run)
      /\ \A s : [w EXCEPT !.sequence = s].run = w.run
  <2> DEFINE number == worker.number
             results == worker.results
  <2>1. /\ number \in Nat /\ ResultsOK(commands, r.node, number, results)
        /\ w \in checkpoint_command_result(r, Plan.nodes[r.node], number, results)
    BY <1>3, <1>4
  <2> HIDE DEF r, number, results
  <2>2. RunOK(Plan, commands, run.version, w.run)
    BY <1>2, <1>4, <1>5, <2>1, ResultWrites
  <2>3. \A s : [w EXCEPT !.sequence = s].run = w.run
    BY <1>2, <1>4, <1>5, <2>1, ResultWrites
  <2> QED BY <2>2, <2>3
<1>7. worker'.at = "Commit" /\ worker'.write.run = w.run
  <2> DEFINE x == [w EXCEPT !.sequence = r.revision]
  <2>1. x.run = w.run
    BY <1>6
  <2> HIDE DEF x
  <2>2. worker' = [at |-> "Commit", write |-> x]
    BY <1>3 DEF x
  <2> QED BY <2>1, <2>2
<1>8. WorkerOK(Plan, commands, run.version, worker')
  BY <1>6, <1>7 DEF WorkerOK
<1>9. UNCHANGED <<run, commands, calls>>
  BY DEF EndDispatch, lifecycleVars
<1> QED BY <1>1, <1>8, <1>9, RetrySameTable DEF RetryInv, Next, WorkerNext

LEMMA CommittedRun ==
  ASSUME NEW w, commit_step(w)
  PROVE  run' = w.run \/ run' = run
BY DEF commit_step

LEMMA CommitStepStep ==
  ASSUME LifecycleInv, RetryInv, CommitStep
  PROVE  RetryInv'
<1>1. run # NoRun /\ worker.at = "Commit"
  BY BusyMeansRun DEF CommitStep, Idle
<1>2. RunOK(Plan, commands, run.version, worker.write.run)
  BY <1>1 DEF RetryInv, WorkerOK
<1>3. run' = worker.write.run \/ run' = run
  BY CommittedRun DEF CommitStep
<1>4. RunOK(Plan, commands, run.version, run')
  BY <1>1, <1>2, <1>3 DEF RetryInv
<1>5. worker' = Idle /\ UNCHANGED <<commands, calls>>
  BY DEF CommitStep, lifecycleVars
<1> QED BY <1>1, <1>4, <1>5, IdleCopies, RetrySameTable DEF RetryInv, Next, WorkerNext

LEMMA CrashStep ==
  ASSUME LifecycleInv, RetryInv, Crash
  PROVE  RetryInv'
<1>1. run # NoRun
  BY BusyMeansRun DEF Crash
<1>2. /\ worker' = Idle /\ UNCHANGED <<run, commands>>
      /\ \A k \in Callers : calls'[k] = Idle
  BY DEF Crash
<1> QED BY <1>1, <1>2, IdleCopies, RetrySameTable DEF RetryInv, Next

\* A cancellation that moves on.
LEMMA CancelStep ==
  ASSUME LifecycleInv, RetryInv, NEW k \in Callers,
         CancelRun(k) \/ CancelTimers(k) \/ CommitCancel(k)
  PROVE  RetryInv'
<1>1. run # NoRun
  BY BusyMeansRun DEF CancelRun, CancelTimers, CommitCancel, Continues, Cancels
<1>2. /\ RunOK(Plan, commands, run.version, run)
      /\ WorkerOK(Plan, commands, run.version, worker)
      /\ \A j \in Callers : CancelOK(Plan, commands, run.version, calls[j])
  BY <1>1 DEF RetryInv
<1>3. ASSUME NEW c, Goto(k, c), CancelOK(Plan, commands, run.version, c)
      PROVE  \A j \in Callers : CancelOK(Plan, commands, run.version, calls'[j])
  <2>1. \A j \in Callers : calls'[j] = IF j = k THEN c ELSE calls[j]
    BY <1>3 DEF Goto, LifecycleInv, CallsOK
  <2> QED BY <1>2, <1>3, <2>1
<1>4. CASE CancelRun(k)
  <2> DEFINE c == [at |-> "ReadTimers", run |-> run]
  <2>1. CancelOK(Plan, commands, run.version, c)
    BY <1>2 DEF CancelOK
  <2>2. Goto(k, c) /\ UNCHANGED <<run, commands, worker>>
    BY <1>4 DEF CancelRun, runtimeVars
  <2>3. Next
    BY <1>4 DEF Next
  <2> HIDE DEF c
  <2> QED BY <1>1, <1>2, <1>3, <2>1, <2>2, <2>3, RetrySameTable
<1>5. CASE CancelTimers(k)
  <2> DEFINE r == calls[k].run
             d == checkpoint(r)
             s == [d EXCEPT !.state = "Cancelled"]
             w == Write(r, s, Step("Outcome", r.node), {}, {}, OpenTimers)
             c == [at |-> "CancelRun", write |-> w]
  <2>1. RunOK(Plan, commands, run.version, r)
    BY <1>2, <1>5 DEF CancelTimers, Continues, CancelOK
  <2>2. DOMAIN r = RunFields
    BY <2>1 DEF RunOK
  <2>3. Quiet(d, r) /\ d.node = r.node
    BY <2>2, CheckpointQuiet DEF checkpoint, RunFields
  <2>4. Quiet(s, r) /\ s.node = r.node
    <3> HIDE DEF d, r
    <3> QED BY <2>3 DEF Quiet, RunFields
  <2>5. Goto(k, c)
    BY <1>5 DEF CancelTimers
  <2>6. RunOK(Plan, commands, run.version, s)
    <3> HIDE DEF s, r
    <3> QED BY <2>1, <2>4, StayingOK
  <2>7. w.run = s
    <3> HIDE DEF s
    <3> QED BY WriteRun
  <2>8. CancelOK(Plan, commands, run.version, c)
    <3> HIDE DEF w, s
    <3> QED BY <2>6, <2>7 DEF CancelOK
  <2>9. Next /\ UNCHANGED <<run, commands, worker>>
    BY <1>5 DEF Next, CancelTimers, runtimeVars
  <2> HIDE DEF c
  <2> QED BY <1>1, <1>2, <1>3, <2>5, <2>8, <2>9, RetrySameTable
<1>6. CASE CommitCancel(k)
  <2>1. RunOK(Plan, commands, run.version, calls[k].write.run)
    BY <1>2, <1>6 DEF CommitCancel, Continues, CancelOK
  <2>2. run' = calls[k].write.run \/ run' = run
    BY <1>6, CommittedRun DEF CommitCancel
  <2>3. Goto(k, Idle) /\ UNCHANGED <<commands, worker>>
    BY <1>6 DEF CommitCancel
  <2>4. Next
    BY <1>6 DEF Next
  <2> QED BY <1>1, <1>2, <1>3, <2>1, <2>2, <2>3, <2>4, IdleCopies, RetrySameTable
<1> QED BY <1>4, <1>5, <1>6

LEMMA CreateRunStep ==
  ASSUME LifecycleInv, RetryInv, CreateRun
  PROVE  RetryInv'
<1> DEFINE n == identity.active
           plan == PlanOf(versions[n].plan)
           variables == InitialVariables(plan)
<1>1. /\ run' = [state |-> "Pending", revision |-> 0, version |-> n, node |-> plan.entry,
                 variables |-> variables, continuations |-> <<>>, durations |-> {},
                 shared |-> {}, attempt |-> NoAttempt, created |-> clock]
      /\ run = NoRun /\ identity.state = "Active"
      /\ UNCHANGED <<versions, calls, commands, worker>>
  BY DEF CreateRun, lifecycleVars
<1>2. IsReady(versions, n)
  BY <1>1 DEF LifecycleInv, IdentityOK
<1>3. /\ DOMAIN run' = RunFields /\ run'.version = n /\ run'.attempt = NoAttempt
  <2> HIDE DEF n, plan, variables
  <2> QED BY <1>1 DEF RunFields
<1>4. run' # NoRun
  BY <1>3 DEF RunFields, NoRun
<1>5. DOMAIN commands = {} /\ worker = Idle /\ \A k \in Callers : ~Cancels(calls[k])
  BY <1>1 DEF RetryInv, Cancels
<1>6. RunOK(Plan', commands', run'.version, run')
  BY <1>3, NoAttemptOK DEF RunOK
<1>7. WorkerOK(Plan', commands', run'.version, worker')
  BY <1>1, <1>5, IdleCopies
<1>8. \A k \in Callers : CancelOK(Plan', commands', run'.version, calls'[k])
  BY <1>1, <1>5 DEF CancelOK, Cancels
<1>9. CommandsOK(Plan', commands')
  BY <1>1, <1>5 DEF CommandsOK
<1>10. IsReady(versions', run'.version)
  BY <1>1, <1>2, <1>3 DEF IsReady
<1> QED BY <1>4, <1>6, <1>7, <1>8, <1>9, <1>10 DEF RetryInv

LEMMA NatMin ==
  ASSUME NEW S, S \subseteq Nat, S # {}
  PROVE  Min(S) \in S
<1> DEFINE less == OpToRel(<, Nat)
<1>1. IsWellFoundedOn(less, Nat)
  BY NatLessThanWellFounded
<1>2. \A x, y \in Nat : x < y => <<x, y>> \in less
  BY DEF OpToRel
<1> HIDE DEF less
<1>3. PICK x \in S : \A y \in S : ~ (<<y, x>> \in less)
  BY <1>1, WFMin
<1>4. ASSUME NEW y \in S PROVE x <= y
  <2>1. x \in Nat /\ y \in Nat /\ ~(y < x)
    BY <1>2, <1>3
  <2> QED BY <2>1
<1> QED BY <1>4 DEF Min

\* A step that adds to the table or settles a command.
LEMMA RetryGrows ==
  ASSUME LifecycleInv, RetryInv, run # NoRun, [Next]_vars, Grows(commands, commands'),
         UNCHANGED <<run, calls>>, CommandsOK(Plan, commands'),
         WorkerOK(Plan, commands', run.version, worker')
  PROVE  RetryInv'
<1>1. RunOK(Plan, commands', run.version, run')
  BY RunStable DEF RetryInv
<1>2. \A k \in Callers : CancelOK(Plan, commands', run.version, calls'[k])
  BY CancelStable DEF RetryInv
<1> QED BY <1>1, <1>2, RetryKept, ReadyNeverChanges

LEMMA SettleStep ==
  ASSUME LifecycleInv, RetryInv, SettleCommand
  PROVE  RetryInv'
<1>1. PICK key \in DOMAIN commands, outcome \in load.outcomes :
        /\ commands[key].state = "Dispatched"
        /\ commands' = [commands EXCEPT ![key] = [state |-> outcome.state,
                                                  error |-> outcome.error, at |-> clock]]
  BY DEF SettleCommand
<1>2. run # NoRun
  BY <1>1 DEF RetryInv
<1>3. UNCHANGED <<run, calls, worker>>
  BY DEF SettleCommand, lifecycleVars
<1>4. outcome.state \in {"Confirmed", "Failed", "Dispatched"}
  BY <1>1, OutcomesAssumption DEF LifecycleInv
<1>5. /\ DOMAIN commands' = DOMAIN commands
      /\ \A k \in DOMAIN commands : k # key => commands'[k] = commands[k]
      /\ commands'[key].state = outcome.state
  BY <1>1
<1>6. Grows(commands, commands')
  BY <1>1, <1>5 DEF Grows
<1>7. CommandsOK(Plan, commands)
  BY <1>2 DEF RetryInv
<1>8. CommandsOK(Plan, commands')
  <2> SUFFICES ASSUME NEW k \in DOMAIN commands'
               PROVE  /\ k = CommandKey(k[1], k[2], k[3])
                      /\ IsCommand(Plan, k[1])
                      /\ k[3] \in 0..Plan.nodes[k[1]].retry.maximum
                      /\ k[3] > 0 => FailedAt(Plan, commands', k[1], k[2], k[3] - 1)
                      /\ commands'[k].state \in {"Confirmed", "Failed", "Dispatched"}
    BY DEF CommandsOK
  <2>1. /\ k = CommandKey(k[1], k[2], k[3])
        /\ IsCommand(Plan, k[1])
        /\ k[3] \in 0..Plan.nodes[k[1]].retry.maximum
        /\ k[3] > 0 => FailedAt(Plan, commands, k[1], k[2], k[3] - 1)
        /\ commands[k].state \in {"Confirmed", "Failed", "Dispatched"}
    BY <1>5, <1>7 DEF CommandsOK
  <2>2. k[3] > 0 => FailedAt(Plan, commands', k[1], k[2], k[3] - 1)
    BY <1>6, <2>1, FailedStable
  <2>3. commands'[k].state \in {"Confirmed", "Failed", "Dispatched"}
    BY <1>4, <1>5, <2>1
  <2> QED BY <2>1, <2>2, <2>3
<1>9. WorkerOK(Plan, commands', run.version, worker')
  BY <1>2, <1>3, <1>6, WorkerStable DEF RetryInv
<1> QED BY <1>2, <1>3, <1>6, <1>8, <1>9, RetryGrows DEF Next

\* The command of a target, under the key of this attempt.
LEMMA DispatchStep ==
  ASSUME LifecycleInv, RetryInv, DispatchTarget
  PROVE  RetryInv'
<1> DEFINE node == worker.run.node
           number == worker.number
           i == Min(worker.todo)
           key == CommandKey(node, i, number)
<1>1. run # NoRun /\ worker.at = "Dispatch"
  BY BusyMeansRun DEF DispatchTarget, Idle
<1>2. WorkerOK(Plan, commands, run.version, worker) /\ CommandsOK(Plan, commands)
  BY <1>1 DEF RetryInv
<1>3. /\ DOMAIN worker = {"at", "run", "number", "todo", "results"}
      /\ RunOK(Plan, commands, run.version, worker.run)
      /\ IsCommand(Plan, node)
      /\ worker.todo \subseteq Nat
      /\ number \in 0..Plan.nodes[node].retry.maximum
      /\ number > 0 => \A j \in worker.todo : FailedAt(Plan, commands, node, j, number - 1)
      /\ ResultsOK(commands, node, number, worker.results)
  BY <1>1, <1>2 DEF WorkerOK
<1>4. i \in worker.todo
  BY <1>3, NatMin DEF DispatchTarget
<1>5. PICK outcome \in load.outcomes :
        /\ execute(key, outcome)
        /\ worker' = [worker EXCEPT !.todo = @ \ {i}, !.results = Put(@, i, commands'[key])]
  BY DEF DispatchTarget
<1>6. UNCHANGED <<run, calls>>
  BY DEF DispatchTarget, lifecycleVars
<1>7. outcome.state \in {"Confirmed", "Failed", "Dispatched"}
  BY OutcomesAssumption DEF LifecycleInv
<1> DEFINE command == [state |-> outcome.state, error |-> outcome.error, at |-> clock]
<1>8. /\ DOMAIN commands' = {key} \cup DOMAIN commands
      /\ \A k \in DOMAIN commands : commands'[k] = commands[k]
      /\ key \notin DOMAIN commands => commands'[key] = command
  <2>1. CASE key \in DOMAIN commands
    BY <1>5, <2>1 DEF execute
  <2>2. CASE key \notin DOMAIN commands
    <3>1. commands' = Put(commands, key, command)
      BY <1>5, <2>2 DEF execute
    <3> HIDE DEF command, key
    <3> QED BY <2>2, <3>1 DEF Put
  <2> QED BY <2>1, <2>2
<1>9. Grows(commands, commands')
  BY <1>8 DEF Grows
<1>10. ASSUME number > 0 PROVE FailedAt(Plan, commands', node, i, number - 1)
  BY <1>3, <1>4, <1>9, <1>10, FailedStable
<1>11. CommandsOK(Plan, commands')
  <2> SUFFICES ASSUME NEW k \in DOMAIN commands'
               PROVE  /\ k = CommandKey(k[1], k[2], k[3])
                      /\ IsCommand(Plan, k[1])
                      /\ k[3] \in 0..Plan.nodes[k[1]].retry.maximum
                      /\ k[3] > 0 => FailedAt(Plan, commands', k[1], k[2], k[3] - 1)
                      /\ commands'[k].state \in {"Confirmed", "Failed", "Dispatched"}
    BY DEF CommandsOK
  <2>1. CASE k \in DOMAIN commands
    <3>1. /\ k = CommandKey(k[1], k[2], k[3])
          /\ IsCommand(Plan, k[1])
          /\ k[3] \in 0..Plan.nodes[k[1]].retry.maximum
          /\ k[3] > 0 => FailedAt(Plan, commands, k[1], k[2], k[3] - 1)
          /\ commands[k].state \in {"Confirmed", "Failed", "Dispatched"}
      BY <1>2, <2>1 DEF CommandsOK
    <3>2. k[3] > 0 => FailedAt(Plan, commands', k[1], k[2], k[3] - 1)
      BY <1>9, <3>1, FailedStable
    <3> QED BY <1>8, <2>1, <3>1, <3>2
  <2>2. CASE k \notin DOMAIN commands
    <3>1. k = key /\ commands'[k] = command
      BY <1>8, <2>2
    <3>2. k[1] = node /\ k[2] = i /\ k[3] = number
      BY <3>1 DEF CommandKey
    <3>3. k = CommandKey(k[1], k[2], k[3])
      BY <3>1, <3>2
    <3>4. commands'[k].state \in {"Confirmed", "Failed", "Dispatched"}
      BY <1>7, <3>1
    <3> QED BY <1>3, <1>10, <3>2, <3>3, <3>4
  <2> QED BY <2>1, <2>2
<1>12. WorkerOK(Plan, commands', run.version, worker')
  <2> DEFINE results == Put(worker.results, i, commands'[key])
             todo == worker.todo \ {i}
  <2>1. /\ DOMAIN worker' = {"at", "run", "number", "todo", "results"}
        /\ worker'.at = "Dispatch" /\ worker'.run = worker.run /\ worker'.number = number
        /\ worker'.todo = todo /\ worker'.results = results
    <3>1. worker' = [worker EXCEPT !.todo = todo, !.results = results]
      BY <1>5
    <3> HIDE DEF todo, results
    <3> QED BY <1>1, <1>3, <3>1
  <2>2. WorkerOK(Plan, commands', run.version, worker)
    BY <1>2, <1>9, WorkerStable
  <2>3. ResultsOK(commands', node, number, worker.results)
    BY <1>1, <2>2 DEF WorkerOK
  <2>4. /\ DOMAIN results = {i} \cup DOMAIN worker.results
        /\ results[i] = commands'[key]
        /\ \A j \in DOMAIN worker.results : j # i => results[j] = worker.results[j]
    <3> HIDE DEF i, key
    <3> QED BY DEF Put
  <2>5. ResultsOK(commands', node, number, results)
    <3>1. DOMAIN results \subseteq Nat
      BY <1>3, <1>4, <2>3, <2>4 DEF ResultsOK
    <3>2. key \in DOMAIN commands'
      BY <1>8
    <3> HIDE DEF results, i
    <3> QED BY <2>3, <2>4, <3>1, <3>2 DEF ResultsOK
  <2>6. /\ todo \subseteq Nat
        /\ RunOK(Plan, commands', run.version, worker.run)
        /\ number > 0 => \A j \in todo : FailedAt(Plan, commands', node, j, number - 1)
    BY <1>1, <2>2 DEF WorkerOK
  <2> HIDE DEF results, todo, i
  <2> QED BY <1>3, <2>1, <2>5, <2>6 DEF WorkerOK
<1> QED BY <1>1, <1>6, <1>9, <1>11, <1>12, RetryGrows DEF Next, WorkerNext

LEMMA RetryNextInv == LifecycleInv /\ RetryInv /\ [Next]_vars => RetryInv'
<1> SUFFICES ASSUME LifecycleInv, RetryInv, [Next]_vars PROVE RetryInv'
  OBVIOUS
<1>1. CASE LifecycleNext /\ UNCHANGED runtimeVars
  BY <1>1, LifecycleCalls, RetryUnchanged DEF runtimeVars
<1>2. CASE WorkerNext
  BY <1>2, LoadRunStep, BeginDispatchStep, DispatchStep, EndDispatchStep, CommitStepStep
     DEF WorkerNext
<1>3. CASE ReadyTimer \/ Observe \/ Tick \/ UNCHANGED vars
  <2>1. UNCHANGED <<run, commands, worker, calls>>
    BY <1>3 DEF ReadyTimer, Observe, Tick, lifecycleVars, runtimeVars, vars
  <2> QED BY <2>1, RetryUnchanged
<1> QED BY <1>1, <1>2, <1>3, CrashStep, CancelStep, CreateRunStep, SettleStep DEF Next

LEMMA RetryInitInv == Init => RetryInv
BY DEF Init, LifecycleInit, RetryInv, Idle

\* Whatever plans, evaluator, outcomes, crashes and cancellations: a target is
\* commanded again only because its last attempt ended in an error the policy
\* of its node names, and no more often than the policy allows
\* (dispatch_command_attempt, checkpoint_command_result, resume_command_backoff).
THEOREM RetriesFollowFailures == Spec => []OnlyFailuresAreRetried
<1>1. RetryInv => OnlyFailuresAreRetried
  <2> SUFFICES ASSUME RetryInv, NEW k \in DOMAIN commands
               PROVE  LET retry == Plan.nodes[k[1]].retry
                          before == CommandKey(k[1], k[2], k[3] - 1)
                      IN /\ k[3] <= retry.maximum
                         /\ k[3] > 0 => /\ before \in DOMAIN commands
                                        /\ commands[before].state = "Failed"
                                        /\ commands[before].error \in retry.errors
    BY DEF OnlyFailuresAreRetried
  <2>1. run # NoRun
    BY DEF RetryInv
  <2>2. CommandsOK(Plan, commands)
    BY <2>1 DEF RetryInv
  <2> QED BY <2>2 DEF CommandsOK, FailedAt
<1> QED BY <1>1, LifecycleInitInv, LifecycleNextInv, RetryInitInv, RetryNextInv, PTL DEF Spec

-----------------------------------------------------------------------------
(* Timers                                                                  *)

\* The intervals of a run that is at a node: two of them have different
\* conditions, and different timers unless the timer is one of the shared.
IntervalsOK(node, durations, shared) ==
  /\ \A d \in durations : /\ DOMAIN d = {"hash", "ready", "timer", "phase"}
                          /\ d.timer = TimerId(node, "StateDuration", d.ready)
                          /\ d.phase \in {"Pending", "Mature"}
  /\ \A d, e \in durations : /\ d.hash = e.hash => d = e
                             /\ d.timer = e.timer => d = e \/ d.timer \in shared

\* Open are the timers in base and those of the pending intervals; only a
\* shared one may be missing.
OpenFor(base, durations, shared, open) ==
  /\ base \subseteq open
  /\ open \subseteq base \cup PendingTimers(durations)
  /\ PendingTimers(durations) \ shared \subseteq open

\* What is open while a run waits, by the kind of its node.
WaitsFor(plan, r, open) ==
  LET op == plan.nodes[r.node].op IN
  /\ r.node \in DOMAIN plan.nodes
  /\ \/ /\ op = "delay" /\ r.durations = {}
        /\ \E t \in open : t = TimerId(r.node, "Delay", t[3]) /\ open = {t}
     \/ /\ op = "command" /\ r.durations = {}
        /\ \/ r.attempt.phase = "AwaitingOutcome" /\ open = {}
           \/ /\ r.attempt.phase = "Backoff"
              /\ open = {TimerId(r.node, "CommandRetry", r.attempt.ready)}
     \/ /\ op = "wait"
        /\ \E t \in open : /\ t = TimerId(r.node, "WaitTimeout", t[3])
                           /\ OpenFor({t}, r.durations, r.shared, open)
     \/ /\ op = "branch" /\ r.durations # {}
        /\ OpenFor({}, r.durations, r.shared, open)

\* The run and the timers that are open agree.
TimersOK(plan, r, open) ==
  /\ r.state \in Open => IntervalsOK(r.node, r.durations, r.shared)
  /\ r.state \in {"Pending", "Running"} =>
       r.durations = {} /\ r.attempt.phase \in {"None", "Dispatch"}
  /\ r.state = "Waiting" => WaitsFor(plan, r, open)
  /\ r.state # "Waiting" => open = {}

\* A copy of the run r is the run unless the run has moved on.
CopyOK(r, copy) == /\ copy.revision \in Nat /\ copy.revision <= r.revision
                   /\ copy.revision = r.revision => copy = r

NextRevision(r, w) == /\ w.expected \in Nat /\ w.expected <= r.revision
                      /\ w.run.revision = w.expected + 1

\* The timers that are open after a write.
OpenAfter(open, w) == (open \cup w.create) \ (w.consume \cup w.cancel)

\* What is about to be written agrees, unless the run has moved on.
WriteOK(plan, r, open, w) ==
  /\ NextRevision(r, w)
  /\ w.expected = r.revision => TimersOK(plan, w.run, OpenAfter(open, w))

\* The step in flight, and a cancellation: a timer may have become ready since
\* it was read, and stays open.
WorkerFits(plan, r, open, w) ==
  /\ w.at = "Dispatch" => CopyOK(r, w.run) /\ w.run.state = "Running"
  /\ w.at = "Commit" => WriteOK(plan, r, open, w.write)

CancelFits(r, open, c) ==
  /\ c.at = "ReadTimers" => CopyOK(r, c.run)
  /\ c.at = "CancelRun" =>
       /\ NextRevision(r, c.write) /\ c.write.run.state = "Cancelled"
       /\ c.write.create = {}
       /\ c.write.expected = r.revision => open \subseteq c.write.cancel

TimerInv ==
  /\ run = NoRun => OpenTimers = {}
  /\ run # NoRun =>
       /\ run.revision \in Nat
       /\ TimersOK(Plan, run, OpenTimers)
       /\ WorkerFits(Plan, run, OpenTimers, worker)
       /\ \A k \in Callers : CancelFits(run, OpenTimers, calls[k])

LEMMA WriteFields ==
  ASSUME NEW r, NEW next, NEW step, NEW create, NEW consume, NEW cancel
  PROVE  LET w == Write(r, next, step, create, consume, cancel) IN
         /\ w.run = next /\ w.expected = r.revision
         /\ w.create = create /\ w.consume = consume /\ w.cancel = cancel
BY DEF Write

LEMMA CheckpointRun ==
  ASSUME NEW r, DOMAIN r = RunFields
  PROVE  LET c == checkpoint(r) IN
         /\ DOMAIN c = RunFields /\ c.revision = r.revision + 1 /\ c.state = r.state
         /\ c.node = r.node /\ c.durations = r.durations /\ c.attempt = r.attempt
         /\ c.shared = r.shared
         /\ c.continuations = r.continuations
BY DEF checkpoint, RunFields

\* What a write says, with the run it was made of.
Says(w, next, create, consume, cancel) ==
  /\ w.run = next /\ w.expected = run.revision
  /\ w.create = create /\ w.consume = consume /\ w.cancel = cancel

\* A write after which no timer is open and the run goes on or ends.
LEMMA MovesOn ==
  ASSUME run.revision \in Nat, NEW w, NEW next, NEW create, NEW consume, NEW cancel,
         Says(w, next, create, consume, cancel), next.revision = run.revision + 1,
         next.state \in {"Running", "Completed", "Failed"},
         next.state = "Running" =>
           next.durations = {} /\ next.attempt.phase \in {"None", "Dispatch"},
         OpenTimers \cup create \subseteq consume \cup cancel
  PROVE  WriteOK(Plan, run, OpenTimers, w)
<1>1. NextRevision(run, w)
  BY DEF NextRevision, Says
<1>2. OpenAfter(OpenTimers, w) = {}
  BY DEF OpenAfter, Says
<1>3. next.state = "Running" => IntervalsOK(next.node, next.durations, next.shared)
  BY DEF IntervalsOK
<1>4. TimersOK(Plan, w.run, OpenAfter(OpenTimers, w))
  BY <1>2, <1>3 DEF TimersOK, Says, Open
<1> QED BY <1>1, <1>4 DEF WriteOK

\* A write after which the run waits for what is then open.
LEMMA WaitsOn ==
  ASSUME run.revision \in Nat, NEW w, NEW next, NEW create, NEW consume, NEW cancel,
         Says(w, next, create, consume, cancel), next.revision = run.revision + 1,
         next.state = "Waiting", IntervalsOK(next.node, next.durations, next.shared),
         WaitsFor(Plan, next, (OpenTimers \cup create) \ (consume \cup cancel))
  PROVE  WriteOK(Plan, run, OpenTimers, w)
<1>1. NextRevision(run, w)
  BY DEF NextRevision, Says
<1>2. OpenAfter(OpenTimers, w) = (OpenTimers \cup create) \ (consume \cup cancel)
  BY DEF OpenAfter, Says
<1>3. WaitsFor(Plan, w.run, OpenAfter(OpenTimers, w))
  BY <1>2 DEF Says
<1>4. TimersOK(Plan, w.run, OpenAfter(OpenTimers, w))
  BY <1>3 DEF TimersOK, Says
<1> QED BY <1>1, <1>4 DEF WriteOK

\* The run, and what is open at its node.
AtRest == /\ run.revision \in Nat /\ DOMAIN run = RunFields
          /\ "phase" \in DOMAIN run.attempt
          /\ TimersOK(Plan, run, OpenTimers)
          /\ ~IsCommand(Plan, run.node) => run.attempt = NoAttempt

LEMMA RunningClean ==
  ASSUME AtRest, run.state \in {"Pending", "Running"}
  PROVE  OpenTimers = {} /\ run.durations = {} /\ run.attempt.phase \in {"None", "Dispatch"}
BY DEF AtRest, TimersOK

\* A run waits only at a node that makes it wait.
LEMMA RunningAt ==
  ASSUME AtRest, run.state \in Open \ {"Pending"},
         Plan.nodes[run.node].op \notin {"delay", "command", "wait", "branch"}
  PROVE  run.state = "Running"
BY DEF AtRest, TimersOK, WaitsFor, Open

LEMMA FailureRun ==
  ASSUME NEW r, DOMAIN r = RunFields, NEW policy, NEW following
  PROVE  LET s == apply_failure(r, policy, following) IN
         /\ s.revision = r.revision /\ s.durations = r.durations /\ s.attempt = r.attempt
         /\ s.state \in {"Running", "Failed"}
BY DEF apply_failure, RunFields

LEMMA PendingTimersOK ==
  ASSUME AtRest, run.state = "Pending", NEW w \in step_pending(run)
  PROVE  WriteOK(Plan, run, OpenTimers, w)
<1> DEFINE c == checkpoint(run)
           s == [c EXCEPT !.state = "Running"]
<1>1. w = Write(run, s, Step("Trigger", 0), {}, {}, {})
  BY DEF step_pending
<1>2. DOMAIN c = RunFields /\ c.revision = run.revision + 1 /\ c.durations = run.durations
      /\ c.attempt = run.attempt
  BY CheckpointRun DEF AtRest
<1>3. s.revision = run.revision + 1 /\ s.durations = run.durations /\ s.attempt = run.attempt
      /\ s.state = "Running"
  <2> HIDE DEF c
  <2> QED BY <1>2 DEF RunFields
<1> HIDE DEF s
<1>4. Says(w, s, {}, {}, {})
  BY <1>1, WriteFields DEF Says
<1> QED BY <1>3, <1>4, RunningClean, MovesOn DEF AtRest

LEMMA CompleteTimersOK ==
  ASSUME AtRest, run.state = "Running", NEW w \in step_complete(run)
  PROVE  WriteOK(Plan, run, OpenTimers, w)
<1> DEFINE c == checkpoint(run)
           s == [c EXCEPT !.state = "Completed", !.node = 0]
<1>1. w = Write(run, s, Step("Outcome", run.node), {}, {}, {})
  BY DEF step_complete
<1>2. DOMAIN c = RunFields /\ c.revision = run.revision + 1
  BY CheckpointRun DEF AtRest
<1>3. s.revision = run.revision + 1 /\ s.state = "Completed"
  <2> HIDE DEF c
  <2> QED BY <1>2 DEF RunFields
<1> HIDE DEF s
<1>4. Says(w, s, {}, {}, {})
  BY <1>1, WriteFields DEF Says
<1> QED BY <1>3, <1>4, RunningClean, MovesOn DEF AtRest

LEMMA SetTimersOK ==
  ASSUME AtRest, run.state = "Running", NEW n, NEW w \in step_set(run, n)
  PROVE  WriteOK(Plan, run, OpenTimers, w)
<1> DEFINE c == checkpoint(run)
           v == evaluate_automation_expression(n.value, RuntimeContext(run))
           x == (n.name :> v) @@ c.variables
           s == [c EXCEPT !.node = n.next, !.variables = x]
<1>1. w = Write(run, s, Step("Variable", run.node), {}, {}, {})
  BY DEF step_set
<1>2. DOMAIN c = RunFields /\ c.revision = run.revision + 1 /\ c.durations = run.durations
      /\ c.attempt = run.attempt /\ c.state = "Running"
  BY CheckpointRun DEF AtRest
<1>3. s.revision = run.revision + 1 /\ s.durations = run.durations /\ s.attempt = run.attempt
      /\ s.state = "Running"
  <2> HIDE DEF c, x
  <2> QED BY <1>2 DEF RunFields
<1> HIDE DEF s
<1>4. Says(w, s, {}, {}, {})
  BY <1>1, WriteFields DEF Says
<1> QED BY <1>3, <1>4, RunningClean, MovesOn DEF AtRest

LEMMA GroupTimersOK ==
  ASSUME AtRest, run.state = "Running", NEW n, NEW w \in enter_group(run, n)
  PROVE  WriteOK(Plan, run, OpenTimers, w)
<1> DEFINE c == checkpoint(run)
           x == Append(c.continuations,
                  [group |-> run.node, kind |-> n.op, join |-> n.join,
                   remaining |-> Tail(n.branches), failed |-> FALSE])
           s == [c EXCEPT !.node = Head(n.branches), !.continuations = x]
<1>1. w = Write(run, s, Step("Branch", run.node), {}, {}, {})
  BY DEF enter_group
<1>2. DOMAIN c = RunFields /\ c.revision = run.revision + 1 /\ c.durations = run.durations
      /\ c.attempt = run.attempt /\ c.state = "Running"
  BY CheckpointRun DEF AtRest
<1>3. s.revision = run.revision + 1 /\ s.durations = run.durations /\ s.attempt = run.attempt
      /\ s.state = "Running"
  <2> HIDE DEF c, x
  <2> QED BY <1>2 DEF RunFields
<1> HIDE DEF s
<1>4. Says(w, s, {}, {}, {})
  BY <1>1, WriteFields DEF Says
<1> QED BY <1>3, <1>4, RunningClean, MovesOn DEF AtRest

LEMMA JoinTimersOK ==
  ASSUME AtRest, run.state = "Running", NEW n, NEW w \in step_join(run, n)
  PROVE  WriteOK(Plan, run, OpenTimers, w)
<1> DEFINE c == checkpoint(run)
           popped == [c EXCEPT !.continuations = Front(@)]
           frame == Last(run.continuations)
           rest == [frame EXCEPT !.remaining = Tail(@), !.failed = FALSE]
           a == [c EXCEPT !.node = n.next]
           b == [popped EXCEPT !.node = n.next]
           f == [popped EXCEPT !.state = "Failed", !.node = 0]
           g == [c EXCEPT !.node = Head(frame.remaining),
                          !.continuations[Len(run.continuations)] = rest]
           step == Step("Branch", run.node)
           Kept(s) == s.revision = run.revision + 1 /\ s.durations = run.durations
                      /\ s.attempt = run.attempt /\ s.state \in {"Running", "Failed"}
<1>1. \/ w = Write(run, a, step, {}, {}, {})
      \/ w = Write(run, b, step, {}, {}, {})
      \/ w = Write(run, f, step, {}, {}, {})
      \/ w = Write(run, g, step, {}, {}, {})
  BY DEF step_join
<1>2. DOMAIN c = RunFields /\ Kept(c)
  BY CheckpointRun DEF AtRest
<1>3. DOMAIN popped = RunFields /\ Kept(popped)
  <2> HIDE DEF c
  <2> QED BY <1>2 DEF RunFields
<1>4. Kept(a) /\ Kept(b) /\ Kept(f) /\ Kept(g)
  <2> HIDE DEF c, popped, frame, rest
  <2> QED BY <1>2, <1>3 DEF RunFields
<1> HIDE DEF a, b, f, g, step, Kept
<1>5. PICK s : Kept(s) /\ w = Write(run, s, step, {}, {}, {})
  BY <1>1, <1>4
<1>6. Says(w, s, {}, {}, {})
  BY <1>5, WriteFields DEF Says
<1> QED BY <1>5, <1>6, RunningClean, MovesOn DEF AtRest, Kept

LEMMA DelayTimersOK ==
  ASSUME AtRest, run.state \in {"Running", "Waiting"}, run.node \in DOMAIN Plan.nodes,
         Plan.nodes[run.node].op = "delay", NEW n, NEW w \in step_delay(run, n)
  PROVE  WriteOK(Plan, run, OpenTimers, w)
<1> DEFINE c == checkpoint(run)
           a == [c EXCEPT !.state = "Waiting"]
           b == [c EXCEPT !.state = "Running", !.node = n.next]
           timer == TimerId(run.node, "Delay", clock + n.duration)
<1>1. DOMAIN c = RunFields /\ c.revision = run.revision + 1 /\ c.durations = run.durations
      /\ c.attempt = run.attempt /\ c.node = run.node
  BY CheckpointRun DEF AtRest
<1>2. /\ a.revision = run.revision + 1 /\ a.durations = run.durations /\ a.node = run.node
      /\ a.state = "Waiting"
      /\ b.revision = run.revision + 1 /\ b.durations = run.durations
      /\ b.attempt = run.attempt /\ b.state = "Running"
  <2> HIDE DEF c
  <2> QED BY <1>1 DEF RunFields
<1>3. CASE run.state = "Running"
  <2>1. w = Write(run, a, Step("Timer", run.node), {timer}, {}, {})
    BY <1>3 DEF step_delay
  <2>2. timer = TimerId(run.node, "Delay", timer[3])
    BY DEF TimerId
  <2> HIDE DEF a, timer
  <2>3. Says(w, a, {timer}, {}, {})
    BY <2>1, WriteFields DEF Says
  <2>4. OpenTimers = {} /\ run.durations = {}
    BY <1>3, RunningClean
  <2>5. IntervalsOK(a.node, a.durations, a.shared)
    BY <1>2, <2>4 DEF IntervalsOK
  <2>6. WaitsFor(Plan, a, (OpenTimers \cup {timer}) \ ({} \cup {}))
    <3>1. (OpenTimers \cup {timer}) \ ({} \cup {}) = {timer}
      BY <2>4
    <3>2. WaitsFor(Plan, a, {timer})
      BY <1>2, <2>2, <2>4 DEF WaitsFor
    <3> QED BY <3>1, <3>2
  <2> QED BY <1>2, <2>3, <2>5, <2>6, WaitsOn DEF AtRest
<1>4. CASE run.state = "Waiting"
  <2>1. PICK t \in {u \in OpenTimers : u[1] = run.node /\ u[2] = "Delay"} :
          w = Write(run, b, Step("Timer", run.node), {}, {t}, {})
    BY <1>4 DEF step_delay
  <2> HIDE DEF b
  <2>2. Says(w, b, {}, {t}, {})
    BY <2>1, WriteFields DEF Says
  <2>3. OpenTimers = {t} /\ run.durations = {}
    BY <1>4, <2>1 DEF AtRest, TimersOK, WaitsFor
  <2>4. run.attempt.phase \in {"None", "Dispatch"}
    BY DEF AtRest, IsCommand, NoAttempt
  <2> QED BY <1>2, <2>2, <2>3, <2>4, MovesOn DEF AtRest
<1> QED BY <1>3, <1>4


\* What the checkpoint of a command node writes.
ResultShape(r, w) ==
  /\ w.expected = r.revision /\ w.consume = {} /\ w.cancel = {}
  /\ w.run.revision = r.revision + 1 /\ w.run.durations = r.durations
  /\ \/ w.run.state \in {"Running", "Failed"} /\ w.run.attempt = NoAttempt /\ w.create = {}
     \/ /\ w.run.state = "Waiting" /\ w.run.node = r.node /\ w.create = {}
        /\ w.run.attempt.phase = "AwaitingOutcome"
     \/ /\ w.run.state = "Waiting" /\ w.run.node = r.node
        /\ w.run.attempt.phase = "Backoff"
        /\ w.create = {TimerId(r.node, "CommandRetry", w.run.attempt.ready)}

LEMMA ShapeOfWrite ==
  ASSUME NEW r, NEW next, NEW step, NEW create, NEW w,
         w = Write(r, next, step, create, {}, {}), ResultShape(r, w)
  PROVE  \A s : ResultShape(r, [w EXCEPT !.sequence = s])
<1> TAKE s
<1> DEFINE v == [w EXCEPT !.sequence = s]
<1>1. /\ v.run = w.run /\ v.expected = w.expected /\ v.create = w.create
      /\ v.consume = w.consume /\ v.cancel = w.cancel
  BY DEF Write
<1> HIDE DEF v
<1>2. ResultShape(r, v)
  BY <1>1 DEF ResultShape
<1> QED BY <1>2 DEF v

LEMMA ResultShapes ==
  ASSUME NEW r, DOMAIN r = RunFields, NEW n, NEW number, NEW results,
         NEW w \in checkpoint_command_result(r, n, number, results)
  PROVE  ResultShape(r, w) /\ \A s : ResultShape(r, [w EXCEPT !.sequence = s])
<1> DEFINE c == checkpoint(r)
           outcome == AttemptOutcome(n, results)
           step == [Step("Command", r.node) EXCEPT !.attempt = number, !.outcome = outcome]
           attempt == [node |-> r.node, number |-> number, targets |-> DOMAIN results,
                       phase |-> "AwaitingOutcome", ready |-> 0]
           retry == retry_plan(n, number, results)
           Backoff(p) == [attempt EXCEPT !.targets = p.targets, !.phase = "Backoff",
                                         !.ready = p.ready]
           confirmed == [c EXCEPT !.state = "Running", !.node = n.next,
                                  !.attempt = NoAttempt]
           waiting == [c EXCEPT !.state = "Waiting", !.attempt = attempt]
           Again(p) == [c EXCEPT !.state = "Waiting", !.attempt = Backoff(p)]
           given == [c EXCEPT !.attempt = NoAttempt]
           failed == apply_failure(given, n.on_failure, n.next)
<1>1. /\ DOMAIN c = RunFields /\ c.revision = r.revision + 1 /\ c.node = r.node
      /\ c.durations = r.durations
  BY CheckpointRun
<1>2. outcome \in {"Confirmed", "Dispatched", "Retryable", "Failed"}
  BY DEF AttemptOutcome
<1>3. CASE outcome = "Confirmed"
  <2>1. w = Write(r, confirmed, step, {}, {}, {})
    BY <1>3 DEF checkpoint_command_result
  <2>2. /\ confirmed.revision = r.revision + 1 /\ confirmed.durations = r.durations
        /\ confirmed.attempt = NoAttempt /\ confirmed.state = "Running"
    <3> HIDE DEF c
    <3> QED BY <1>1 DEF RunFields
  <2> HIDE DEF confirmed, step
  <2>3. ResultShape(r, w)
    BY <2>1, <2>2, WriteFields DEF ResultShape
  <2> QED BY <2>1, <2>3, ShapeOfWrite
<1>4. CASE outcome = "Dispatched"
  <2>1. w = Write(r, waiting, step, {}, {}, {})
    BY <1>4 DEF checkpoint_command_result
  <2>2. /\ waiting.revision = r.revision + 1 /\ waiting.durations = r.durations
        /\ waiting.attempt = attempt /\ waiting.state = "Waiting" /\ waiting.node = r.node
    <3> HIDE DEF c, attempt
    <3> QED BY <1>1 DEF RunFields
  <2>3. attempt.phase = "AwaitingOutcome"
    OBVIOUS
  <2> HIDE DEF waiting, step, attempt
  <2>4. ResultShape(r, w)
    BY <2>1, <2>2, <2>3, WriteFields DEF ResultShape
  <2> QED BY <2>1, <2>4, ShapeOfWrite
<1>5. CASE outcome \in {"Retryable", "Failed"} /\ retry # {}
  <2>1. PICK p \in retry : w = Write(r, Again(p), step,
                                     {TimerId(r.node, "CommandRetry", p.ready)}, {}, {})
    BY <1>5 DEF checkpoint_command_result
  <2> DEFINE a == Backoff(p)
             s == Again(p)
  <2>2. a.phase = "Backoff" /\ a.ready = p.ready
    OBVIOUS
  <2>3. /\ s.revision = r.revision + 1 /\ s.durations = r.durations
        /\ s.attempt = a /\ s.state = "Waiting" /\ s.node = r.node
    <3> HIDE DEF c, Backoff, a
    <3>1. s = [c EXCEPT !.state = "Waiting", !.attempt = a]
      BY DEF a
    <3> HIDE DEF s
    <3> QED BY <1>1, <3>1 DEF RunFields
  <2>4. w = Write(r, s, step, {TimerId(r.node, "CommandRetry", a.ready)}, {}, {})
    <3> HIDE DEF step, a
    <3> QED BY <2>1, <2>2
  <2> HIDE DEF a, s, step
  <2>5. ResultShape(r, w)
    BY <2>2, <2>3, <2>4, WriteFields DEF ResultShape
  <2> QED BY <2>4, <2>5, ShapeOfWrite
<1>6. CASE outcome \in {"Retryable", "Failed"} /\ retry = {}
  <2>1. w = Write(r, failed, step, {}, {}, {})
    BY <1>6 DEF checkpoint_command_result
  <2>2. /\ DOMAIN given = RunFields /\ given.revision = r.revision + 1
        /\ given.durations = r.durations /\ given.attempt = NoAttempt
    <3> HIDE DEF c
    <3> QED BY <1>1 DEF RunFields
  <2>3. /\ failed.revision = r.revision + 1 /\ failed.durations = r.durations
        /\ failed.attempt = NoAttempt /\ failed.state \in {"Running", "Failed"}
    <3> HIDE DEF given
    <3> QED BY <2>2, FailureRun
  <2> HIDE DEF failed, step
  <2>4. ResultShape(r, w)
    BY <2>1, <2>3, WriteFields DEF ResultShape
  <2> QED BY <2>1, <2>4, ShapeOfWrite
<1> HIDE DEF outcome, retry
<1> QED BY <1>2, <1>3, <1>4, <1>5, <1>6

LEMMA ShapeTimersOK ==
  ASSUME AtRest, IsCommand(Plan, run.node), OpenTimers = {}, run.durations = {},
         NEW w, ResultShape(run, w)
  PROVE  WriteOK(Plan, run, OpenTimers, w)
<1> DEFINE next == w.run
<1>1. Says(w, next, w.create, {}, {}) /\ next.revision = run.revision + 1
  BY DEF ResultShape, Says
<1>2. CASE next.state \in {"Running", "Failed"}
  <2>1. next.attempt.phase = "None" /\ next.durations = {} /\ w.create = {}
    BY <1>2 DEF ResultShape, NoAttempt
  <2> HIDE DEF next
  <2> QED BY <1>1, <1>2, <2>1, MovesOn DEF AtRest
<1>3. CASE next.state = "Waiting"
  <2>1. IntervalsOK(next.node, next.durations, next.shared)
    BY DEF ResultShape, IntervalsOK
  <2> DEFINE open == (OpenTimers \cup w.create) \ ({} \cup {})
  <2>2. open = w.create
    OBVIOUS
  <2>3. WaitsFor(Plan, next, w.create)
    BY <1>3 DEF ResultShape, WaitsFor, IsCommand
  <2>4. WaitsFor(Plan, next, open)
    <3> HIDE DEF open
    <3> QED BY <2>2, <2>3
  <2> HIDE DEF next
  <2> QED BY <1>1, <1>3, <2>1, <2>4, WaitsOn DEF AtRest
<1> QED BY <1>2, <1>3 DEF ResultShape

LEMMA BackoffTimersOK ==
  ASSUME AtRest, run.state = "Waiting", IsCommand(Plan, run.node),
         run.attempt.phase = "Backoff", NEW w \in resume_command_backoff(run)
  PROVE  WriteOK(Plan, run, OpenTimers, w)
<1> DEFINE c == checkpoint(run)
           b == run.attempt
           number == b.number + 1
           a == [b EXCEPT !.number = number, !.phase = "Dispatch", !.ready = 0]
           s == [c EXCEPT !.state = "Running", !.attempt = a]
           timer == TimerId(run.node, "CommandRetry", run.attempt.ready)
<1>1. /\ DOMAIN c = RunFields /\ c.revision = run.revision + 1
      /\ c.durations = run.durations
  BY CheckpointRun DEF AtRest
<1>2. w = Write(run, s, Step("Timer", run.node), {}, {timer}, {})
  BY DEF resume_command_backoff
<1>3. /\ s.revision = run.revision + 1 /\ s.durations = run.durations /\ s.attempt = a
      /\ s.state = "Running"
  <2> HIDE DEF c, a
  <2> QED BY <1>1 DEF RunFields
<1>4. a.phase = "Dispatch"
  <2>1. "phase" \in DOMAIN b
    BY DEF AtRest
  <2> HIDE DEF b, number
  <2> QED BY <2>1
<1>5. OpenTimers = {timer} /\ run.durations = {}
  BY DEF AtRest, TimersOK, WaitsFor, IsCommand
<1> HIDE DEF s, a, timer
<1>6. Says(w, s, {}, {timer}, {})
  BY <1>2, WriteFields DEF Says
<1> QED BY <1>3, <1>4, <1>5, <1>6, MovesOn DEF AtRest

\* The intervals with the one of a condition mature, and their timers.
Matured(durations, hash) ==
  {IF d.hash = hash THEN [d EXCEPT !.phase = "Mature"] ELSE d : d \in durations}
TimersOf(durations) == {d.timer : d \in durations}

\* The interval that begins at a node, and its timer.
TimerAt(node, q) == TimerId(node, "StateDuration", q.ready)
Begun(node, q) == [hash |-> q.hash, ready |-> q.ready, timer |-> TimerAt(node, q),
                   phase |-> "Pending"]

\* An interval found broken takes its timer along, and no other but a shared
\* one.
LEMMA KeptIntervals ==
  ASSUME NEW node, NEW D, NEW S, IntervalsOK(node, D, S), NEW B \in SUBSET D
  PROVE  /\ IntervalsOK(node, D \ B, S)
         /\ PendingTimers(D) \ TimersOf(B) \subseteq PendingTimers(D \ B)
         /\ PendingTimers(D \ B) \ S \subseteq PendingTimers(D) \ TimersOf(B)
<1>1. IntervalsOK(node, D \ B, S)
  BY DEF IntervalsOK
<1>2. ASSUME NEW t \in PendingTimers(D) \ TimersOf(B) PROVE t \in PendingTimers(D \ B)
  BY <1>2 DEF PendingTimers, TimersOf
<1>3. ASSUME NEW t \in PendingTimers(D \ B) \ S PROVE t \in PendingTimers(D) \ TimersOf(B)
  <2>1. PICK d \in D \ B : d.phase = "Pending" /\ t = d.timer
    BY <1>3 DEF PendingTimers
  <2>2. t \in PendingTimers(D)
    BY <2>1 DEF PendingTimers
  <2>3. ASSUME NEW b \in B PROVE b.timer # t
    BY <1>3, <2>1 DEF IntervalsOK
  <2> QED BY <2>2, <2>3 DEF TimersOf
<1> QED BY <1>1, <1>2, <1>3

\* The shared timers once an interval has begun beside those in D.
SharedBy(D, S, timer) == S \cup ({timer} \cap TimersOf(D))

LEMMA StartedInterval ==
  ASSUME NEW node, NEW D, NEW S, NEW kept \in SUBSET D, IntervalsOK(node, kept, S),
         NEW q, \A d \in D : d.hash # q.hash
  PROVE  /\ IntervalsOK(node, kept \cup {Begun(node, q)}, SharedBy(D, S, TimerAt(node, q)))
         /\ PendingTimers(kept \cup {Begun(node, q)})
              = PendingTimers(kept) \cup {TimerAt(node, q)}
<1> DEFINE i == Begun(node, q)
           timer == TimerAt(node, q)
           T == SharedBy(D, S, timer)
<1>1. /\ DOMAIN i = {"hash", "ready", "timer", "phase"} /\ i.hash = q.hash
      /\ i.timer = timer /\ i.phase = "Pending" /\ i.ready = q.ready
  BY DEF Begun
<1>2. /\ timer = TimerId(node, "StateDuration", i.ready)
      /\ \A d \in kept : d.hash # i.hash
  BY <1>1 DEF TimerAt
<1>3. S \subseteq T /\ \A d \in kept : d.timer = timer => timer \in T
  BY DEF SharedBy, TimersOf
<1> HIDE DEF i, timer, T
<1>4. IntervalsOK(node, kept \cup {i}, T)
  BY <1>1, <1>2, <1>3 DEF IntervalsOK
<1>5. PendingTimers(kept \cup {i}) = PendingTimers(kept) \cup {timer}
  BY <1>1 DEF PendingTimers
<1> QED BY <1>4, <1>5 DEF i, timer, T

LEMMA MaturedInterval ==
  ASSUME NEW node, NEW D, NEW S, IntervalsOK(node, D, S), NEW i \in D, i.phase = "Pending"
  PROVE  LET M == Matured(D, i.hash) IN
         /\ IntervalsOK(node, M, S) /\ M # {}
         /\ PendingTimers(D) \ {i.timer} \subseteq PendingTimers(M)
         /\ PendingTimers(M) \ S \subseteq PendingTimers(D) \ {i.timer}
<1> DEFINE j == [i EXCEPT !.phase = "Mature"]
           M == Matured(D, i.hash)
<1>1. \A d \in D : d.hash = i.hash => d = i
  BY DEF IntervalsOK
<1>2. M = (D \ {i}) \cup {j}
  BY <1>1 DEF Matured
<1>3. /\ DOMAIN j = {"hash", "ready", "timer", "phase"} /\ j.hash = i.hash
      /\ j.ready = i.ready /\ j.timer = i.timer /\ j.phase = "Mature"
  BY DEF IntervalsOK
<1> HIDE DEF j, M
<1>4. IntervalsOK(node, M, S)
  BY <1>2, <1>3 DEF IntervalsOK
<1>5. PendingTimers(M) = PendingTimers(D \ {i})
  BY <1>2, <1>3 DEF PendingTimers
<1>6. /\ PendingTimers(D) \ {i.timer} \subseteq PendingTimers(D \ {i})
      /\ PendingTimers(D \ {i}) \ S \subseteq PendingTimers(D) \ {i.timer}
  <2>1. TimersOf({i}) = {i.timer}
    BY DEF TimersOf
  <2>2. /\ PendingTimers(D) \ TimersOf({i}) \subseteq PendingTimers(D \ {i})
        /\ PendingTimers(D \ {i}) \ S \subseteq PendingTimers(D) \ TimersOf({i})
    BY KeptIntervals
  <2> QED BY <2>1, <2>2
<1> QED BY <1>2, <1>4, <1>5, <1>6 DEF M

\* What the checkpoint of an interval writes.
DurationShape(r, q, kept, reset, w) ==
  /\ w.expected = r.revision /\ w.run.revision = r.revision + 1
  /\ w.run.state = "Waiting" /\ w.run.node = r.node /\ w.cancel = reset
  /\ w.run.shared = IF q.kind = "Start"
                    THEN SharedBy(r.durations, r.shared, TimerAt(r.node, q)) ELSE r.shared
  /\ q.kind = "Start" => /\ w.create = {TimerAt(r.node, q)} /\ w.consume = {}
                         /\ w.run.durations = kept \cup {Begun(r.node, q)}
  /\ q.kind = "Pending" => /\ w.create = {} /\ w.consume = {}
                           /\ w.run.durations = kept
  /\ q.kind = "Mature" => /\ w.create = {} /\ w.consume = {TimerAt(r.node, q)}
                          /\ w.run.durations = Matured(kept, q.hash)

LEMMA DurationFields ==
  ASSUME NEW r, DOMAIN r = RunFields, NEW q, NEW kept, NEW reset, NEW w,
         w = duration_write(r, q, kept, reset)
  PROVE  DurationShape(r, q, kept, reset, w)
<1> DEFINE c == checkpoint(r)
           next == [c EXCEPT !.state = "Waiting", !.durations = kept]
           timer == TimerAt(r.node, q)
           i == Begun(r.node, q)
           x == kept \cup {i}
           y == Matured(kept, q.hash)
           z == SharedBy(r.durations, r.shared, timer)
           a == [next EXCEPT !.durations = x, !.shared = z]
           b == [next EXCEPT !.durations = y]
           step == Step("Timer", r.node)
           Stays(s, durations, shared) ==
             s.revision = r.revision + 1 /\ s.state = "Waiting" /\ s.node = r.node
               /\ s.durations = durations /\ s.shared = shared
<1>1. DOMAIN c = RunFields /\ c.revision = r.revision + 1 /\ c.node = r.node
      /\ c.shared = r.shared
  BY CheckpointRun
<1>2. DOMAIN next = RunFields /\ Stays(next, kept, r.shared)
  <2> HIDE DEF c
  <2> QED BY <1>1 DEF RunFields
<1>3. Stays(a, x, z) /\ Stays(b, y, r.shared)
  <2> HIDE DEF next, x, y, z
  <2> QED BY <1>2 DEF RunFields
<1>4. CASE q.kind = "Start"
  <2>1. w = Write(r, a, step, {timer}, {}, reset)
    BY <1>4 DEF duration_write, Begun, TimerAt, SharedBy, TimersOf
  <2> HIDE DEF a, x, z, step, timer
  <2>2. /\ w.run = a /\ w.expected = r.revision /\ w.create = {timer} /\ w.consume = {}
        /\ w.cancel = reset
    BY <2>1, WriteFields
  <2> QED BY <1>3, <1>4, <2>2 DEF DurationShape, x, z, timer
<1>5. CASE q.kind = "Pending"
  <2>1. w = Write(r, next, step, {}, {}, reset)
    BY <1>5 DEF duration_write
  <2> HIDE DEF next, step
  <2>2. /\ w.run = next /\ w.expected = r.revision /\ w.create = {} /\ w.consume = {}
        /\ w.cancel = reset
    BY <2>1, WriteFields
  <2> QED BY <1>2, <1>5, <2>2 DEF DurationShape
<1>6. CASE q.kind \notin {"Start", "Pending"}
  <2>1. w = Write(r, b, step, {}, {timer}, reset)
    BY <1>6 DEF duration_write, Matured, TimerAt
  <2> HIDE DEF b, y, step, timer
  <2>2. /\ w.run = b /\ w.expected = r.revision /\ w.create = {} /\ w.consume = {timer}
        /\ w.cancel = reset
    BY <2>1, WriteFields
  <2> QED BY <1>3, <1>6, <2>2 DEF DurationShape, y, timer
<1> QED BY <1>4, <1>5, <1>6

\* A write after which the run waits at its node for the intervals it holds.
Holds(w, base) ==
  /\ w.expected = run.revision /\ w.run.revision = run.revision + 1
  /\ w.run.state = "Waiting" /\ w.run.node = run.node /\ w.run.durations # {}
  /\ IntervalsOK(run.node, w.run.durations, w.run.shared)
  /\ OpenFor(base, w.run.durations, w.run.shared,
             (OpenTimers \cup w.create) \ (w.consume \cup w.cancel))

\* The request starts an interval the run does not hold, or names a pending
\* one that is kept.
SoundAnswer(q, D, kept) ==
  \/ q.kind = "Start" /\ \A d \in D : d.hash # q.hash
  \/ /\ q.kind \in {"Pending", "Mature"}
     /\ \E d \in kept : d.hash = q.hash /\ d.ready = q.ready /\ d.phase = "Pending"

NoIntervals(base) == \A t \in base : t[2] # "StateDuration"

\* The intervals and the timers of the run, and what is kept of them.
KeepsIntervals(D, S, kept, reset) ==
  /\ kept \subseteq D /\ IntervalsOK(run.node, D, S) /\ IntervalsOK(run.node, kept, S)
  /\ reset \subseteq PendingTimers(D) /\ PendingTimers(D) \ reset \subseteq PendingTimers(kept)
  /\ PendingTimers(kept) \ S \subseteq PendingTimers(D) \ reset

\* The checkpoint of an interval, from intervals and timers that agree.
LEMMA DurationHolds ==
  ASSUME NEW base, NoIntervals(base), NEW D, D = run.durations, NEW S, S = run.shared,
         OpenFor(base, D, S, OpenTimers),
         NEW kept, NEW reset, KeepsIntervals(D, S, kept, reset),
         NEW q, SoundAnswer(q, D, kept),
         NEW w, DurationShape(run, q, kept, reset, w)
  PROVE  Holds(w, base)
<1> DEFINE node == run.node
           timer == TimerAt(node, q)
           i == Begun(node, q)
           M == Matured(kept, q.hash)
           T == SharedBy(D, S, timer)
<1>1. /\ kept \subseteq D /\ IntervalsOK(node, D, S) /\ IntervalsOK(node, kept, S)
      /\ reset \subseteq PendingTimers(D)
      /\ PendingTimers(D) \ reset \subseteq PendingTimers(kept)
      /\ PendingTimers(kept) \ S \subseteq PendingTimers(D) \ reset
  BY DEF KeepsIntervals
<1>2. /\ \A t \in PendingTimers(D) : t[2] = "StateDuration"
      /\ \A t \in base : t[2] # "StateDuration"
  BY <1>1 DEF PendingTimers, IntervalsOK, TimerId, NoIntervals
<1>3. /\ w.expected = run.revision /\ w.run.revision = run.revision + 1
      /\ w.run.state = "Waiting" /\ w.run.node = node /\ w.cancel = reset
      /\ q.kind = "Start" => /\ w.create = {timer} /\ w.consume = {}
                             /\ w.run.durations = kept \cup {i} /\ w.run.shared = T
      /\ q.kind = "Pending" => /\ w.create = {} /\ w.consume = {}
                               /\ w.run.durations = kept /\ w.run.shared = S
      /\ q.kind = "Mature" => /\ w.create = {} /\ w.consume = {timer}
                              /\ w.run.durations = M /\ w.run.shared = S
  BY DEF DurationShape
<1>4. /\ base \subseteq OpenTimers /\ OpenTimers \subseteq base \cup PendingTimers(D)
      /\ PendingTimers(D) \ S \subseteq OpenTimers
  BY DEF OpenFor
<1>5. CASE q.kind = "Start"
  <2>1. /\ IntervalsOK(node, kept \cup {i}, T)
        /\ PendingTimers(kept \cup {i}) = PendingTimers(kept) \cup {timer}
    <3>1. \A d \in D : d.hash # q.hash
      BY <1>5 DEF SoundAnswer
    <3> QED BY <1>1, <3>1, StartedInterval
  <2>2. S \subseteq T /\ (timer \in reset => timer \in T)
    <3>1. PendingTimers(D) \subseteq TimersOf(D)
      BY DEF PendingTimers, TimersOf
    <3> HIDE DEF timer
    <3> QED BY <1>1, <3>1 DEF SharedBy
  <2>3. timer[2] = "StateDuration"
    BY DEF TimerAt, TimerId
  <2> HIDE DEF timer, i, T
  <2>4. OpenFor(base, kept \cup {i}, T, (OpenTimers \cup {timer}) \ ({} \cup reset))
    BY <1>1, <1>2, <1>4, <2>1, <2>2, <2>3 DEF OpenFor
  <2> QED BY <1>3, <1>5, <2>1, <2>4 DEF Holds
<1>6. CASE q.kind = "Pending"
  <2>1. kept # {}
    BY <1>6 DEF SoundAnswer
  <2>2. OpenFor(base, kept, S, (OpenTimers \cup {}) \ ({} \cup reset))
    BY <1>1, <1>2, <1>4 DEF OpenFor
  <2> QED BY <1>1, <1>3, <1>6, <2>1, <2>2 DEF Holds
<1>7. CASE q.kind = "Mature"
  <2>1. PICK d \in kept : d.hash = q.hash /\ d.ready = q.ready /\ d.phase = "Pending"
    BY <1>7 DEF SoundAnswer
  <2>2. d.timer = timer
    BY <1>1, <2>1 DEF IntervalsOK, TimerAt
  <2>3. /\ IntervalsOK(node, M, S) /\ M # {}
        /\ PendingTimers(kept) \ {timer} \subseteq PendingTimers(M)
        /\ PendingTimers(M) \ S \subseteq PendingTimers(kept) \ {timer}
    <3> HIDE DEF timer
    <3> QED BY <1>1, <2>1, <2>2, MaturedInterval
  <2>4. timer[2] = "StateDuration"
    BY DEF TimerAt, TimerId
  <2> HIDE DEF M, timer
  <2>5. OpenFor(base, M, S, (OpenTimers \cup {}) \ ({timer} \cup reset))
    BY <1>1, <1>2, <1>4, <2>3, <2>4 DEF OpenFor
  <2> QED BY <1>3, <1>7, <2>3, <2>5 DEF Holds
<1> QED BY <1>5, <1>6, <1>7 DEF SoundAnswer

\* What is left of a condition's evaluation.
BrokenIn(r, e) == {d \in r.durations : d.hash \in e.x.invalid}

LEMMA PreparedCondition ==
  ASSUME NEW r, NEW condition
  PROVE  LET e == Evaluate(condition, RuntimeContext(r))
             p == evaluate_runtime_condition(r, condition)
         IN /\ p.out = e.out /\ p.durations = r.durations \ BrokenIn(r, e)
            /\ p.reset = PendingTimers(r.durations) \cap TimersOf(BrokenIn(r, e))
            /\ p.active = PendingTimers(r.durations) \ p.reset
            /\ \A w \in p.writes :
                 /\ e.out = "durable"
                 /\ w = duration_write(r, e.x.request, p.durations, p.reset)
BY DEF evaluate_runtime_condition, prepared_condition, TimersOf, BrokenIn

LEMMA ConditionKeeps ==
  ASSUME IntervalsOK(run.node, run.durations, run.shared), NEW condition
  PROVE  LET p == evaluate_runtime_condition(run, condition) IN
         /\ KeepsIntervals(run.durations, run.shared, p.durations, p.reset)
         /\ p.active = PendingTimers(run.durations) \ p.reset
<1> DEFINE e == Evaluate(condition, RuntimeContext(run))
           D == run.durations
           S == run.shared
           B == BrokenIn(run, e)
           p == evaluate_runtime_condition(run, condition)
<1>1. /\ p.durations = D \ B /\ p.reset = PendingTimers(D) \cap TimersOf(B)
      /\ p.active = PendingTimers(D) \ p.reset
  BY PreparedCondition
<1>2. B \in SUBSET D
  BY DEF BrokenIn
<1> HIDE DEF B, p
<1>3. /\ IntervalsOK(run.node, D \ B, S)
      /\ PendingTimers(D) \ TimersOf(B) \subseteq PendingTimers(D \ B)
      /\ PendingTimers(D \ B) \ S \subseteq PendingTimers(D) \ TimersOf(B)
  BY <1>2, KeptIntervals
<1>4. KeepsIntervals(D, S, p.durations, p.reset)
  BY <1>1, <1>2, <1>3 DEF KeepsIntervals
<1> QED BY <1>1, <1>4 DEF p

\* The evaluator's answer is one the runtime can act on.
LEMMA SoundRequest ==
  ASSUME EvaluatesCondition, EvaluatorIsSound, Evaluation.out = "durable"
  PROVE  SoundAnswer(Evaluation.x.request, run.durations,
                     run.durations \ BrokenIn(run, Evaluation))
BY DEF EvaluatorIsSound, SoundAnswer, BrokenIn

LEMMA ConditionHolds ==
  ASSUME DOMAIN run = RunFields, IntervalsOK(run.node, run.durations, run.shared),
         EvaluatesCondition, EvaluatorIsSound, NEW base, NoIntervals(base),
         OpenFor(base, run.durations, run.shared, OpenTimers),
         NEW w \in evaluate_runtime_condition(run, Plan.nodes[run.node].condition).writes
  PROVE  Holds(w, base)
<1> DEFINE condition == Plan.nodes[run.node].condition
           e == Evaluate(condition, RuntimeContext(run))
           q == e.x.request
           D == run.durations
           S == run.shared
           B == BrokenIn(run, e)
           p == evaluate_runtime_condition(run, condition)
           kept == p.durations
           reset == p.reset
<1>1. /\ p.durations = D \ B /\ e.out = "durable"
      /\ w = duration_write(run, q, p.durations, p.reset)
  BY PreparedCondition
<1>2. KeepsIntervals(D, S, kept, reset)
  <2> HIDE DEF condition
  <2> QED BY ConditionKeeps
<1>3. SoundAnswer(q, D, kept)
  <2>1. e = Evaluation
    BY DEF Evaluation
  <2>2. SoundAnswer(q, D, D \ B)
    BY <1>1, <2>1, SoundRequest
  <2> HIDE DEF e, p, q, D, B
  <2> QED BY <1>1, <2>2
<1>4. DurationShape(run, q, kept, reset, w)
  <2> HIDE DEF e, p
  <2> QED BY <1>1, DurationFields
<1>5. OpenFor(base, D, S, OpenTimers) /\ D = run.durations /\ S = run.shared
  OBVIOUS
<1> HIDE DEF e, q, D, S, B, p, kept, reset, condition
<1> QED BY <1>2, <1>3, <1>4, <1>5, DurationHolds

\* What is open at a node that looks at a condition, beside its intervals.
BaseOK(base) ==
  /\ run.node \in DOMAIN Plan.nodes
  /\ \/ Plan.nodes[run.node].op = "branch" /\ base = {}
     \/ /\ Plan.nodes[run.node].op = "wait"
        /\ \E t : t = TimerId(run.node, "WaitTimeout", t[3]) /\ base = {t}

LEMMA BaseApart ==
  ASSUME NEW base, BaseOK(base)
  PROVE  NoIntervals(base)
BY DEF BaseOK, NoIntervals, TimerId

LEMMA HoldsOK ==
  ASSUME AtRest, NEW base, BaseOK(base), NEW w, Holds(w, base)
  PROVE  WriteOK(Plan, run, OpenTimers, w)
<1> DEFINE next == w.run
           open == (OpenTimers \cup w.create) \ (w.consume \cup w.cancel)
<1>1. /\ Says(w, next, w.create, w.consume, w.cancel) /\ next.revision = run.revision + 1
      /\ next.state = "Waiting" /\ next.node = run.node /\ next.durations # {}
      /\ IntervalsOK(next.node, next.durations, next.shared)
      /\ OpenFor(base, next.durations, next.shared, open)
  BY DEF Holds, Says
<1> HIDE DEF next, open
<1>2. base \subseteq open
  BY <1>1 DEF OpenFor
<1>3. WaitsFor(Plan, next, open)
  BY <1>1, <1>2 DEF BaseOK, WaitsFor
<1> QED BY <1>1, <1>3, WaitsOn DEF AtRest, open

LEMMA BranchTimersOK ==
  ASSUME AtRest, EvaluatorIsSound, run.state \in {"Running", "Waiting"},
         run.node \in DOMAIN Plan.nodes, NEW n, n = Plan.nodes[run.node], n.op = "branch",
         NEW w \in step_branch(run, n)
  PROVE  WriteOK(Plan, run, OpenTimers, w)
<1> DEFINE c == checkpoint(run)
           p == evaluate_runtime_condition(run, n.condition)
           x == OrElse(IF p.out = "yes" THEN n.then_node ELSE n.else_node, n.join)
           a == [c EXCEPT !.state = "Running", !.durations = {}, !.node = x]
           open == PendingTimers(run.durations)
           cancel == p.reset \cup p.active
<1>1. IntervalsOK(run.node, run.durations, run.shared)
  BY DEF AtRest, TimersOK, Open
<1>2. OpenFor({}, run.durations, run.shared, OpenTimers)
  <2>1. CASE run.state = "Running"
    <3>1. OpenTimers = {} /\ run.durations = {}
      BY <2>1, RunningClean
    <3> QED BY <3>1 DEF PendingTimers, OpenFor
  <2>2. CASE run.state = "Waiting"
    BY <2>2 DEF AtRest, TimersOK, WaitsFor
  <2> QED BY <2>1, <2>2
<1>3. CASE p.out \notin {"yes", "no"}
  <2>1. w \in evaluate_runtime_condition(run, Plan.nodes[run.node].condition).writes
    BY <1>3 DEF step_branch
  <2>2. BaseOK({}) /\ EvaluatesCondition
    BY DEF BaseOK, EvaluatesCondition, AtNode
  <2>3. Holds(w, {})
    <3> HIDE DEF p
    <3> QED BY <1>1, <1>2, <2>1, <2>2, BaseApart, ConditionHolds DEF AtRest
  <2> QED BY <2>2, <2>3, HoldsOK
<1>4. CASE p.out \in {"yes", "no"}
  <2>1. w = Write(run, a, Step("Branch", run.node), {}, {}, cancel)
    BY <1>4 DEF step_branch
  <2>2. DOMAIN c = RunFields /\ c.revision = run.revision + 1 /\ c.attempt = run.attempt
    BY CheckpointRun DEF AtRest
  <2>3. /\ a.revision = run.revision + 1 /\ a.durations = {} /\ a.attempt = run.attempt
        /\ a.state = "Running"
    <3> HIDE DEF c, x
    <3> QED BY <2>2 DEF RunFields
  <2>4. a.attempt.phase = "None"
    <3> HIDE DEF a
    <3> QED BY <2>3 DEF AtRest, IsCommand, NoAttempt
  <2>5. cancel = open
    <3>1. KeepsIntervals(run.durations, run.shared, p.durations, p.reset)
          /\ p.active = PendingTimers(run.durations) \ p.reset
      <4> DEFINE k == n.condition
      <4> HIDE DEF k
      <4> QED BY <1>1, ConditionKeeps DEF k
    <3> HIDE DEF p
    <3> QED BY <3>1 DEF KeepsIntervals
  <2> HIDE DEF a, cancel, open
  <2>6. Says(w, a, {}, {}, cancel)
    BY <2>1, WriteFields DEF Says
  <2>7. OpenTimers \cup {} \subseteq {} \cup cancel
    BY <1>2, <2>5 DEF OpenFor, open
  <2> QED BY <2>3, <2>4, <2>6, <2>7, MovesOn DEF AtRest
<1> QED BY <1>3, <1>4

LEMMA WaitStartOK ==
  ASSUME AtRest, run.state = "Running", run.node \in DOMAIN Plan.nodes, NEW n,
         n = Plan.nodes[run.node], n.op = "wait", NEW w \in wait_start(run, n)
  PROVE  WriteOK(Plan, run, OpenTimers, w)
<1> DEFINE c == checkpoint(run)
           a == [c EXCEPT !.state = "Waiting"]
           timer == TimerId(run.node, "WaitTimeout", clock + n.timeout)
<1>1. w = Write(run, a, Step("Timer", run.node), {timer}, {}, {})
  BY DEF wait_start
<1>2. DOMAIN c = RunFields /\ c.revision = run.revision + 1 /\ c.durations = run.durations
      /\ c.node = run.node
  BY CheckpointRun DEF AtRest
<1>3. /\ a.revision = run.revision + 1 /\ a.durations = run.durations /\ a.node = run.node
      /\ a.state = "Waiting"
  <2> HIDE DEF c
  <2> QED BY <1>2 DEF RunFields
<1>4. timer = TimerId(run.node, "WaitTimeout", timer[3])
  BY DEF TimerId
<1>5. OpenTimers = {} /\ run.durations = {}
  BY RunningClean
<1> HIDE DEF a, timer
<1>6. Says(w, a, {timer}, {}, {})
  BY <1>1, WriteFields DEF Says
<1>7. IntervalsOK(a.node, a.durations, a.shared) /\ PendingTimers(a.durations) = {}
  BY <1>3, <1>5 DEF IntervalsOK, PendingTimers
<1>8. (OpenTimers \cup {timer}) \ ({} \cup {}) = {timer}
  BY <1>5
<1>9. WaitsFor(Plan, a, {timer})
  <2>1. OpenFor({timer}, a.durations, a.shared, {timer})
    BY <1>7 DEF OpenFor
  <2> QED BY <1>3, <1>4, <2>1 DEF WaitsFor
<1>10. WaitsFor(Plan, a, (OpenTimers \cup {timer}) \ ({} \cup {}))
  BY <1>8, <1>9
<1> QED BY <1>3, <1>6, <1>7, <1>10, WaitsOn DEF AtRest

\* The timeout of a wait is the one timer of its kind.
LEMMA WaitTimer ==
  ASSUME AtRest, run.state = "Waiting", Plan.nodes[run.node].op = "wait"
  PROVE  \E t : /\ t = TimerId(run.node, "WaitTimeout", t[3])
                /\ OpenFor({t}, run.durations, run.shared, OpenTimers)
                /\ {u \in OpenTimers : u[1] = run.node /\ u[2] = "WaitTimeout"} = {t}
<1>1. IntervalsOK(run.node, run.durations, run.shared) /\ WaitsFor(Plan, run, OpenTimers)
  BY DEF AtRest, TimersOK, Open
<1>2. PICK t \in OpenTimers : /\ t = TimerId(run.node, "WaitTimeout", t[3])
                              /\ OpenFor({t}, run.durations, run.shared, OpenTimers)
  BY <1>1 DEF WaitsFor
<1>3. \A u \in PendingTimers(run.durations) : u[2] = "StateDuration"
  BY <1>1 DEF PendingTimers, IntervalsOK, TimerId
<1>4. t[1] = run.node /\ t[2] = "WaitTimeout"
  BY <1>2 DEF TimerId
<1>5. {u \in OpenTimers : u[1] = run.node /\ u[2] = "WaitTimeout"} = {t}
  BY <1>2, <1>3, <1>4 DEF OpenFor
<1> QED BY <1>2, <1>5

LEMMA WaitResumeOK ==
  ASSUME AtRest, EvaluatorIsSound, run.state = "Waiting", run.node \in DOMAIN Plan.nodes,
         NEW n, n = Plan.nodes[run.node], n.op = "wait",
         NEW w \in wait_resume(run, n, evaluate_runtime_condition(run, n.condition))
  PROVE  WriteOK(Plan, run, OpenTimers, w)
<1> DEFINE c == checkpoint(run)
           p == evaluate_runtime_condition(run, n.condition)
           mine == {t \in OpenTimers : t[1] = run.node /\ t[2] = "WaitTimeout"}
           timer == CHOOSE t \in mine : TRUE
           left == [c EXCEPT !.durations = {}]
           cancel == p.reset \cup p.active
           next == n.next
           a == [left EXCEPT !.state = "Running", !.node = next]
           b == [c EXCEPT !.durations = p.durations]
           f == apply_failure(left, n.on_timeout, next)
<1>1. PICK t : /\ t = TimerId(run.node, "WaitTimeout", t[3])
               /\ OpenFor({t}, run.durations, run.shared, OpenTimers)
               /\ mine = {t}
  BY WaitTimer
<1>2. timer = t
  BY <1>1
<1>3. IntervalsOK(run.node, run.durations, run.shared) /\ BaseOK({t}) /\ EvaluatesCondition
  BY <1>1 DEF AtRest, TimersOK, Open, BaseOK, EvaluatesCondition, AtNode
<1>4. \/ /\ p.out \notin {"yes", "no"} /\ w \in p.writes
      \/ w = Write(run, a, Step("Condition", run.node), {}, {}, {timer} \cup cancel)
      \/ w = Write(run, b, Step("Condition", run.node), {}, {}, p.reset)
      \/ w = Write(run, f, Step("Timer", run.node), {}, {timer}, cancel)
  <2> HIDE DEF p
  <2>1. w \in wait_resume(run, n, p)
    BY DEF p
  <2> QED BY <2>1 DEF wait_resume
<1>5. KeepsIntervals(run.durations, run.shared, p.durations, p.reset)
      /\ p.active = PendingTimers(run.durations) \ p.reset
  <2> DEFINE k == n.condition
  <2> HIDE DEF k
  <2> QED BY <1>3, ConditionKeeps DEF k
<1>6. cancel = PendingTimers(run.durations)
  <2> HIDE DEF p
  <2> QED BY <1>5 DEF KeepsIntervals
<1>7. /\ DOMAIN c = RunFields /\ c.revision = run.revision + 1 /\ c.node = run.node
      /\ c.attempt = run.attempt /\ c.state = "Waiting" /\ c.shared = run.shared
  BY CheckpointRun DEF AtRest
<1>8. /\ DOMAIN left = RunFields /\ left.revision = run.revision + 1
      /\ left.attempt = run.attempt /\ left.durations = {}
  <2> HIDE DEF c
  <2> QED BY <1>7 DEF RunFields
<1>9. /\ a.revision = run.revision + 1 /\ a.attempt = run.attempt /\ a.durations = {}
      /\ a.state = "Running"
  <2> HIDE DEF left, next
  <2> QED BY <1>8 DEF RunFields
<1>10. /\ f.revision = run.revision + 1 /\ f.attempt = run.attempt /\ f.durations = {}
       /\ f.state \in {"Running", "Failed"}
  <2> HIDE DEF left, next
  <2> QED BY <1>8, FailureRun
<1>11. run.attempt.phase = "None"
  BY DEF AtRest, IsCommand, NoAttempt
<1>12. CASE p.out \notin {"yes", "no"} /\ w \in p.writes
  <2>1. w \in evaluate_runtime_condition(run, Plan.nodes[run.node].condition).writes
    BY <1>12
  <2>2. Holds(w, {t})
    <3> HIDE DEF p, mine
    <3> QED BY <1>1, <1>3, <2>1, BaseApart, ConditionHolds DEF AtRest
  <2> QED BY <1>3, <2>2, HoldsOK
<1>13. CASE w = Write(run, a, Step("Condition", run.node), {}, {}, {timer} \cup cancel)
  <2> HIDE DEF a, cancel, timer, p, mine, f, b
  <2>1. Says(w, a, {}, {}, {timer} \cup cancel)
    BY <1>13, WriteFields DEF Says
  <2>2. OpenTimers \cup {} \subseteq {} \cup ({timer} \cup cancel)
    BY <1>1, <1>2, <1>6 DEF OpenFor
  <2> QED BY <1>9, <1>11, <2>1, <2>2, MovesOn DEF AtRest
<1>14. CASE w = Write(run, f, Step("Timer", run.node), {}, {timer}, cancel)
  <2> HIDE DEF a, cancel, timer, p, mine, f, b
  <2>1. Says(w, f, {}, {timer}, cancel)
    BY <1>14, WriteFields DEF Says
  <2>2. OpenTimers \cup {} \subseteq {timer} \cup cancel
    BY <1>1, <1>2, <1>6 DEF OpenFor
  <2> QED BY <1>10, <1>11, <2>1, <2>2, MovesOn DEF AtRest
<1>15. CASE w = Write(run, b, Step("Condition", run.node), {}, {}, p.reset)
  <2> DEFINE D == p.durations
             reset == p.reset
             open == (OpenTimers \cup {}) \ ({} \cup reset)
  <2>1. /\ b.revision = run.revision + 1 /\ b.durations = D /\ b.state = "Waiting"
        /\ b.node = run.node /\ b.shared = run.shared
    <3> HIDE DEF c, D, p
    <3>1. b = [c EXCEPT !.durations = D]
      BY DEF D
    <3> HIDE DEF b
    <3> QED BY <1>7, <3>1 DEF RunFields
  <2>2. IntervalsOK(run.node, D, run.shared) /\ reset \subseteq PendingTimers(run.durations)
        /\ PendingTimers(run.durations) \ reset \subseteq PendingTimers(D)
        /\ PendingTimers(D) \ run.shared \subseteq PendingTimers(run.durations) \ reset
    <3> HIDE DEF p
    <3> QED BY <1>5 DEF KeepsIntervals
  <2>3. Says(w, b, {}, {}, reset)
    <3> HIDE DEF b, p
    <3> QED BY <1>15, WriteFields DEF Says
  <2> HIDE DEF b, D, reset, p, mine, timer, cancel, a, f
  <2>4. t \notin PendingTimers(run.durations)
    <3>1. \A u \in PendingTimers(run.durations) : u[2] = "StateDuration"
      BY <1>3 DEF PendingTimers, IntervalsOK, TimerId
    <3>2. t[2] = "WaitTimeout"
      BY <1>1 DEF TimerId
    <3> QED BY <3>1, <3>2
  <2>5. OpenFor({t}, D, run.shared, open) /\ t \in open
    BY <1>1, <2>2, <2>4 DEF OpenFor
  <2> HIDE DEF open
  <2>6. WaitsFor(Plan, b, open)
    BY <1>1, <2>1, <2>5 DEF WaitsFor
  <2> QED BY <2>1, <2>2, <2>3, <2>6, WaitsOn DEF AtRest, open
<1> HIDE DEF p, a, b, f, timer, cancel
<1> QED BY <1>4, <1>12, <1>13, <1>14, <1>15

\* What a step of the worker is about to write.
LEMMA StepTimersOK ==
  ASSUME AtRest, EvaluatorIsSound, run.state \in Open,
         run.node \in DOMAIN Plan.nodes => Plan.nodes[run.node].op \in NodeKinds,
         NEW w \in StepWrites(run)
  PROVE  WriteOK(Plan, run, OpenTimers, w)
<1> DEFINE n == Plan.nodes[run.node]
<1>1. CASE run.state = "Pending"
  BY <1>1, PendingTimersOK DEF StepWrites
<1>2. CASE run.state # "Pending"
  <2>1. run.node \in DOMAIN Plan.nodes /\ w \in NodeWrites(run, n)
    BY <1>2 DEF StepWrites, AtNode
  <2>2. run.state \in {"Running", "Waiting"} /\ n.op \in NodeKinds
    BY <1>2, <2>1 DEF Open
  <2>3. n = Plan.nodes[run.node]
    OBVIOUS
  <2>4. n.op \notin {"delay", "command", "wait", "branch"} => run.state = "Running"
    BY <1>2, RunningAt
  <2> HIDE DEF n
  <2>5. CASE n.op = "complete"
    BY <2>1, <2>4, <2>5, CompleteTimersOK DEF NodeWrites
  <2>6. CASE n.op = "delay"
    BY <2>1, <2>2, <2>3, <2>6, DelayTimersOK DEF NodeWrites
  <2>7. CASE n.op = "set"
    BY <2>1, <2>4, <2>7, SetTimersOK DEF NodeWrites
  <2>8. CASE n.op = "branch"
    BY <2>1, <2>2, <2>3, <2>8, BranchTimersOK DEF NodeWrites
  <2>9. CASE n.op = "join"
    BY <2>1, <2>4, <2>9, JoinTimersOK DEF NodeWrites
  <2>10. CASE n.op = "command"
    <3>1. w \in step_command(run, n) /\ IsCommand(Plan, run.node)
      BY <2>1, <2>3, <2>10 DEF NodeWrites, IsCommand
    <3>2. run.attempt.phase \in {"Backoff", "AwaitingOutcome"}
      BY <3>1 DEF step_command
    <3>3. run.state = "Waiting"
      BY <2>2, <3>2, RunningClean
    <3>4. CASE run.attempt.phase = "Backoff"
      <4>1. w \in resume_command_backoff(run)
        BY <3>1, <3>4 DEF step_command
      <4> QED BY <3>1, <3>3, <3>4, <4>1, BackoffTimersOK
    <3>5. CASE run.attempt.phase = "AwaitingOutcome"
      <4> DEFINE results == load_attempt_commands(run)
                 number == run.attempt.number
      <4>1. w \in checkpoint_command_result(run, n, number, results)
        BY <3>1, <3>5 DEF step_command
      <4> HIDE DEF results, number
      <4>2. ResultShape(run, w)
        BY <4>1, ResultShapes DEF AtRest
      <4>3. OpenTimers = {} /\ run.durations = {}
        BY <2>3, <2>10, <3>3, <3>5 DEF AtRest, TimersOK, WaitsFor
      <4> QED BY <3>1, <4>2, <4>3, ShapeTimersOK
    <3> QED BY <3>2, <3>4, <3>5
  <2>11. CASE n.op = "wait"
    <3>1. w \in step_wait(run, n)
      BY <2>1, <2>11 DEF NodeWrites
    <3>2. CASE run.state = "Running"
      <4>1. w \in wait_start(run, n)
        BY <3>1, <3>2 DEF step_wait
      <4> QED BY <2>1, <2>3, <2>11, <3>2, <4>1, WaitStartOK
    <3>3. CASE run.state = "Waiting"
      <4>1. w \in wait_resume(run, n, evaluate_runtime_condition(run, n.condition))
        BY <3>1, <3>3 DEF step_wait
      <4> QED BY <2>1, <2>3, <2>11, <3>3, <4>1, WaitResumeOK
    <3> QED BY <2>2, <3>2, <3>3
  <2>12. CASE n.op \in {"parallel", "race"}
    BY <2>1, <2>4, <2>12, GroupTimersOK DEF NodeWrites
  <2> QED BY <2>2, <2>5, <2>6, <2>7, <2>8, <2>9, <2>10, <2>11, <2>12 DEF NodeKinds
<1> QED BY <1>1, <1>2

-----------------------------------------------------------------------------
(* The steps of the timers                                                 *)

LEMMA RunAtRest ==
  ASSUME RetryInv, TimerInv, run # NoRun
  PROVE  AtRest
<1>1. RunOK(Plan, commands, run.version, run)
  BY DEF RetryInv
<1>2. DOMAIN run = RunFields /\ AttemptOK(Plan, commands, run.node, run.attempt)
  BY <1>1 DEF RunOK
<1>3. /\ "phase" \in DOMAIN run.attempt
      /\ ~IsCommand(Plan, run.node) => run.attempt = NoAttempt
  BY <1>2 DEF AttemptOK
<1> QED BY <1>2, <1>3 DEF AtRest, TimerInv

\* The plan of a run stays.
LEMMA PlanStays ==
  ASSUME LifecycleInv, RetryInv, run # NoRun, [Next]_vars, run'.version = run.version
  PROVE  Plan' = Plan
<1>1. IsReady(versions, run.version) /\ KeepsReady(versions, versions')
  BY ReadyNeverChanges DEF RetryInv
<1>2. versions'[run.version] = versions[run.version]
  BY <1>1 DEF KeepsReady
<1> QED BY <1>2 DEF Plan

\* What a step has to show that leaves the run and the open timers alone.
LEMMA TimersKept ==
  ASSUME LifecycleInv, RetryInv, TimerInv, [Next]_vars, run' = run,
         OpenTimers' = OpenTimers,
         run # NoRun => worker' = worker \/ WorkerFits(Plan, run, OpenTimers, worker'),
         run # NoRun => \A k \in Callers : \/ calls'[k] = calls[k] \/ ~Cancels(calls'[k])
                                           \/ CancelFits(run, OpenTimers, calls'[k])
  PROVE  TimerInv'
<1>1. CASE run = NoRun
  BY <1>1 DEF TimerInv
<1>2. CASE run # NoRun
  <2>1. Plan' = Plan
    BY <1>2, PlanStays
  <2>2. /\ run.revision \in Nat /\ TimersOK(Plan, run, OpenTimers)
        /\ WorkerFits(Plan, run, OpenTimers, worker)
        /\ \A k \in Callers : CancelFits(run, OpenTimers, calls[k])
    BY <1>2 DEF TimerInv
  <2>3. WorkerFits(Plan, run, OpenTimers, worker')
    BY <1>2, <2>2
  <2>4. ASSUME NEW k \in Callers PROVE CancelFits(run, OpenTimers, calls'[k])
    <3>1. ~Cancels(calls'[k]) => CancelFits(run, OpenTimers, calls'[k])
      BY DEF Cancels, CancelFits
    <3> QED BY <1>2, <2>2, <3>1
  <2> QED BY <1>2, <2>1, <2>2, <2>3, <2>4 DEF TimerInv
<1> QED BY <1>1, <1>2

\* What a step has to show that moves the run on: the copies are behind it.
LEMMA TimersMoved ==
  ASSUME LifecycleInv, RetryInv, TimerInv, run # NoRun, [Next]_vars,
         DOMAIN run' = RunFields, run'.version = run.version,
         run'.revision = run.revision + 1, TimersOK(Plan, run', OpenTimers'),
         worker' \in {worker, Idle},
         \A k \in Callers : calls'[k] = calls[k] \/ ~Cancels(calls'[k])
  PROVE  TimerInv'
<1>1. Plan' = Plan
  BY PlanStays
<1>2. /\ run.revision \in Nat /\ WorkerFits(Plan, run, OpenTimers, worker)
      /\ \A k \in Callers : CancelFits(run, OpenTimers, calls[k])
  BY DEF TimerInv
<1>3. run' # NoRun
  BY DEF RunFields, NoRun
<1>4. ASSUME NEW c, CopyOK(run, c) PROVE CopyOK(run', c)
  BY <1>2, <1>4 DEF CopyOK
<1>5. ASSUME NEW w, NextRevision(run, w)
      PROVE  NextRevision(run', w) /\ w.expected # run'.revision
  BY <1>2, <1>5 DEF NextRevision
<1>6. WorkerFits(Plan, run', OpenTimers', worker')
  <2>1. CASE worker' = worker
    BY <1>2, <1>4, <1>5, <2>1 DEF WorkerFits, WriteOK
  <2>2. CASE worker' = Idle
    BY <2>2 DEF WorkerFits, Idle
  <2> QED BY <2>1, <2>2
<1>7. ASSUME NEW k \in Callers PROVE CancelFits(run', OpenTimers', calls'[k])
  <2>1. CASE calls'[k] = calls[k]
    BY <1>2, <1>4, <1>5, <2>1 DEF CancelFits
  <2>2. CASE ~Cancels(calls'[k])
    BY <2>2 DEF CancelFits, Cancels
  <2> QED BY <2>1, <2>2
<1> QED BY <1>1, <1>2, <1>3, <1>6, <1>7 DEF TimerInv

LEMMA LoadRunTimers ==
  ASSUME LifecycleInv, RetryInv, TimerInv, EvaluatorIsSound, LoadRun
  PROVE  TimerInv'
<1>1. run # NoRun
  BY BusyMeansRun DEF LoadRun, MayStep
<1>2. PICK w \in StepWrites(run) : worker' = [at |-> "Commit", write |-> w]
  BY DEF LoadRun
<1>3. UNCHANGED <<run, timers, calls>> /\ run.state \in Open
  BY DEF LoadRun, MayStep, lifecycleVars
<1>4. worker'.at = "Commit" /\ worker'.write = w
  BY <1>2
<1>5. run.node \in DOMAIN Plan.nodes => Plan.nodes[run.node].op \in NodeKinds
  BY <1>1, PlanShape DEF RetryInv
<1>6. WriteOK(Plan, run, OpenTimers, w)
  BY <1>1, <1>3, <1>5, RunAtRest, StepTimersOK
<1>7. WorkerFits(Plan, run, OpenTimers, worker')
  BY <1>4, <1>6 DEF WorkerFits
<1>8. OpenTimers' = OpenTimers /\ [Next]_vars
  BY <1>3 DEF OpenTimers, Next, WorkerNext
<1> QED BY <1>3, <1>7, <1>8, TimersKept

LEMMA DispatchTimers ==
  ASSUME LifecycleInv, RetryInv, TimerInv, BeginDispatch \/ DispatchTarget \/ EndDispatch
  PROVE  TimerInv'
<1>1. run # NoRun
  BY BusyMeansRun DEF BeginDispatch, MayStep, DispatchTarget, EndDispatch, Idle
<1>2. UNCHANGED <<run, timers, calls>>
  BY DEF BeginDispatch, DispatchTarget, EndDispatch, lifecycleVars
<1>3. OpenTimers' = OpenTimers /\ [Next]_vars
  BY <1>2 DEF OpenTimers, Next, WorkerNext
<1>4. /\ WorkerFits(Plan, run, OpenTimers, worker) /\ run.revision \in Nat
      /\ WorkerOK(Plan, commands, run.version, worker)
  BY <1>1 DEF TimerInv, RetryInv
<1>5. CASE BeginDispatch
  <2>1. worker'.at = "Dispatch" /\ worker'.run = run /\ run.state = "Running"
    BY <1>5 DEF BeginDispatch
  <2>2. CopyOK(run, run)
    BY <1>4 DEF CopyOK
  <2>3. WorkerFits(Plan, run, OpenTimers, worker')
    BY <2>1, <2>2 DEF WorkerFits
  <2> QED BY <1>2, <1>3, <2>3, TimersKept
<1>6. CASE DispatchTarget
  <2>1. /\ worker.at = "Dispatch"
        /\ DOMAIN worker = {"at", "run", "number", "todo", "results"}
    BY <1>4, <1>6 DEF DispatchTarget, WorkerOK
  <2>2. \E todo, results : worker' = [worker EXCEPT !.todo = todo, !.results = results]
    BY <1>6 DEF DispatchTarget
  <2>3. worker'.at = "Dispatch" /\ worker'.run = worker.run
    BY <2>1, <2>2
  <2>4. WorkerFits(Plan, run, OpenTimers, worker')
    BY <1>4, <2>1, <2>3 DEF WorkerFits
  <2> QED BY <1>2, <1>3, <2>4, TimersKept
<1>7. CASE EndDispatch
  <2> DEFINE r == worker.run
             number == worker.number
             results == worker.results
             n == Plan.nodes[worker.run.node]
  <2>1. PICK w \in checkpoint_command_result(r, n, number, results) :
          worker' = [at |-> "Commit", write |-> [w EXCEPT !.sequence = r.revision]]
    BY <1>7 DEF EndDispatch
  <2>2. worker.at = "Dispatch"
    BY <1>7 DEF EndDispatch
  <2>3. CopyOK(run, r) /\ r.state = "Running"
    BY <1>4, <2>2 DEF WorkerFits
  <2>4. DOMAIN r = RunFields /\ IsCommand(Plan, r.node)
    BY <1>4, <2>2 DEF WorkerOK, RunOK
  <2> HIDE DEF r, number, results, n
  <2>5. \A s : ResultShape(r, [w EXCEPT !.sequence = s])
    BY <2>1, <2>4, ResultShapes
  <2> DEFINE v == [w EXCEPT !.sequence = r.revision]
  <2>6. ResultShape(r, v)
    BY <2>5
  <2>7. worker' = [at |-> "Commit", write |-> v]
    BY <2>1
  <2> HIDE DEF v
  <2>8. WriteOK(Plan, run, OpenTimers, v)
    <3>1. CASE r.revision = run.revision
      <4>1. r = run
        BY <2>3, <3>1 DEF CopyOK
      <4>2. OpenTimers = {} /\ run.durations = {} /\ AtRest
        BY <1>1, <2>3, <4>1, RunAtRest, RunningClean
      <4> QED BY <2>4, <2>6, <4>1, <4>2, ShapeTimersOK
    <3>2. CASE r.revision # run.revision
      <4>1. NextRevision(run, v) /\ v.expected # run.revision
        BY <2>3, <2>6, <3>2 DEF NextRevision, ResultShape, CopyOK
      <4> QED BY <4>1 DEF WriteOK
    <3> QED BY <3>1, <3>2
  <2>9. WorkerFits(Plan, run, OpenTimers, worker')
    BY <2>7, <2>8 DEF WorkerFits
  <2> QED BY <1>2, <1>3, <2>9, TimersKept
<1> QED BY <1>5, <1>6, <1>7

\* The timers that are open once a write is stored.
LEMMA StoredOpen ==
  ASSUME NEW w, w.consume \cap w.cancel = {}, timers' = StoredTimers(w)
  PROVE  OpenTimers' = OpenAfter(OpenTimers, w)
<1> DEFINE Value(t) == CASE t \in w.consume -> "Consumed"
                         [] t \in w.cancel -> "Cancelled"
                         [] t \in w.create \ (w.consume \cup w.cancel) -> "Pending"
                         [] OTHER -> timers[t]
<1>1. DOMAIN timers' = DOMAIN timers \cup w.create
  BY DEF StoredTimers
<1>2. \A t \in DOMAIN timers' : timers'[t] = Value(t)
  BY DEF StoredTimers
<1>3. ASSUME NEW t \in DOMAIN timers'
      PROVE  timers'[t] \in {"Pending", "Ready"} <=> t \in OpenAfter(OpenTimers, w)
  <2>1. CASE t \in w.consume
    BY <1>2, <2>1 DEF OpenAfter
  <2>2. CASE t \in w.cancel
    BY <1>2, <2>2 DEF OpenAfter
  <2>3. CASE t \in w.create \ (w.consume \cup w.cancel)
    BY <1>2, <2>3 DEF OpenAfter
  <2>4. CASE t \notin w.create \cup w.consume \cup w.cancel
    <3>1. timers'[t] = timers[t] /\ t \in DOMAIN timers
      BY <1>1, <1>2, <2>4
    <3> QED BY <2>4, <3>1 DEF OpenTimers, OpenAfter
  <2> QED BY <2>1, <2>2, <2>3, <2>4
<1>4. OpenAfter(OpenTimers, w) \subseteq DOMAIN timers'
  BY <1>1 DEF OpenTimers, OpenAfter
<1> QED BY <1>3, <1>4 DEF OpenTimers

LEMMA Committed ==
  ASSUME NEW w, commit_step(w)
  PROVE  \/ run' = run /\ OpenTimers' = OpenTimers
         \/ /\ w.expected = run.revision /\ run' = w.run
            /\ OpenTimers' = OpenAfter(OpenTimers, w)
<1>1. CASE may_commit(w)
  <2>1. w.expected = run.revision /\ w.consume \cap w.cancel = {}
    BY <1>1 DEF may_commit
  <2>2. run' = w.run /\ timers' = StoredTimers(w)
    BY <1>1 DEF commit_step
  <2> QED BY <2>1, <2>2, StoredOpen
<1>2. CASE ~may_commit(w)
  BY <1>2 DEF commit_step, OpenTimers
<1> QED BY <1>1, <1>2

LEMMA CommitTimers ==
  ASSUME LifecycleInv, RetryInv, TimerInv, CommitStep
  PROVE  TimerInv'
<1> DEFINE w == worker.write
<1>1. run # NoRun /\ worker.at = "Commit"
  BY BusyMeansRun DEF CommitStep, Idle
<1>2. RunOK(Plan, commands, run.version, w.run) /\ WriteOK(Plan, run, OpenTimers, w)
  BY <1>1 DEF RetryInv, WorkerOK, TimerInv, WorkerFits
<1>3. worker' = Idle /\ calls' = calls /\ commit_step(w) /\ [Next]_vars
  BY DEF CommitStep, lifecycleVars, Next, WorkerNext
<1> HIDE DEF w
<1>4. CASE run' = run /\ OpenTimers' = OpenTimers
  <2>1. WorkerFits(Plan, run, OpenTimers, worker')
    BY <1>3 DEF WorkerFits, Idle
  <2> QED BY <1>3, <1>4, <2>1, TimersKept
<1>5. CASE /\ w.expected = run.revision /\ run' = w.run
           /\ OpenTimers' = OpenAfter(OpenTimers, w)
  <2>1. DOMAIN run' = RunFields /\ run'.version = run.version
    BY <1>2, <1>5 DEF RunOK
  <2>2. run'.revision = run.revision + 1 /\ TimersOK(Plan, run', OpenTimers')
    BY <1>2, <1>5 DEF WriteOK, NextRevision
  <2> QED BY <1>1, <1>3, <2>1, <2>2, TimersMoved
<1> QED BY <1>3, <1>4, <1>5, Committed

\* A cancellation that moves on.
LEMMA CancelTimersStep ==
  ASSUME LifecycleInv, RetryInv, TimerInv, NEW k \in Callers,
         CancelRun(k) \/ CancelTimers(k) \/ CommitCancel(k)
  PROVE  TimerInv'
<1>1. run # NoRun
  BY BusyMeansRun DEF CancelRun, CancelTimers, CommitCancel, Continues, Cancels
<1>2. /\ run.revision \in Nat /\ CancelFits(run, OpenTimers, calls[k])
      /\ CancelOK(Plan, commands, run.version, calls[k])
  BY <1>1 DEF TimerInv, RetryInv
<1>3. ASSUME NEW c, Goto(k, c)
      PROVE  \A j \in Callers : calls'[j] = IF j = k THEN c ELSE calls[j]
  BY <1>3 DEF Goto, LifecycleInv, CallsOK
<1>4. [Next]_vars
  BY DEF Next
<1>5. CASE CancelRun(k)
  <2> DEFINE c == [at |-> "ReadTimers", run |-> run]
  <2>1. Goto(k, c) /\ UNCHANGED <<run, timers, worker>>
    BY <1>5 DEF CancelRun, runtimeVars
  <2>2. CancelFits(run, OpenTimers, c)
    BY <1>2 DEF CancelFits, CopyOK
  <2> HIDE DEF c
  <2>3. \A j \in Callers : calls'[j] = calls[j] \/ CancelFits(run, OpenTimers, calls'[j])
    BY <1>3, <2>1, <2>2
  <2>4. OpenTimers' = OpenTimers
    BY <2>1 DEF OpenTimers
  <2> QED BY <1>4, <2>1, <2>3, <2>4, TimersKept
<1>6. CASE CancelTimers(k)
  <2> DEFINE r == calls[k].run
             d == checkpoint(r)
             s == [d EXCEPT !.state = "Cancelled"]
             w == Write(r, s, Step("Outcome", r.node), {}, {}, OpenTimers)
             c == [at |-> "CancelRun", write |-> w]
  <2>1. Goto(k, c) /\ UNCHANGED <<run, timers, worker>>
    BY <1>6 DEF CancelTimers, runtimeVars
  <2>2. CopyOK(run, r) /\ DOMAIN r = RunFields
    BY <1>2, <1>6 DEF CancelTimers, Continues, CancelFits, CancelOK, RunOK
  <2> HIDE DEF r
  <2>3. DOMAIN d = RunFields /\ d.revision = r.revision + 1
    BY <2>2, CheckpointRun
  <2>4. s.revision = r.revision + 1 /\ s.state = "Cancelled"
    <3> HIDE DEF d
    <3> QED BY <2>3 DEF RunFields
  <2> HIDE DEF s
  <2>5. /\ w.run = s /\ w.expected = r.revision /\ w.create = {} /\ w.cancel = OpenTimers
    BY WriteFields
  <2> HIDE DEF w
  <2>6. c.at = "CancelRun" /\ c.write = w
    OBVIOUS
  <2> HIDE DEF c
  <2>7. CancelFits(run, OpenTimers, c)
    BY <2>2, <2>4, <2>5, <2>6 DEF CancelFits, NextRevision, CopyOK
  <2>8. \A j \in Callers : calls'[j] = calls[j] \/ CancelFits(run, OpenTimers, calls'[j])
    BY <1>3, <2>1, <2>7
  <2>9. OpenTimers' = OpenTimers
    BY <2>1 DEF OpenTimers
  <2> QED BY <1>4, <2>1, <2>8, <2>9, TimersKept
<1>7. CASE CommitCancel(k)
  <2> DEFINE w == calls[k].write
  <2>1. Goto(k, Idle) /\ worker' = worker /\ commit_step(w)
    BY <1>7 DEF CommitCancel
  <2>2. \A j \in Callers : calls'[j] = calls[j] \/ ~Cancels(calls'[j])
    BY <1>3, <2>1 DEF Cancels, Idle
  <2>3. /\ RunOK(Plan, commands, run.version, w.run) /\ NextRevision(run, w)
        /\ w.run.state = "Cancelled" /\ w.create = {}
        /\ w.expected = run.revision => OpenTimers \subseteq w.cancel
    BY <1>2, <1>7 DEF CommitCancel, Continues, CancelFits, CancelOK
  <2> HIDE DEF w
  <2>4. CASE run' = run /\ OpenTimers' = OpenTimers
    BY <1>4, <2>1, <2>2, <2>4, TimersKept
  <2>5. CASE /\ w.expected = run.revision /\ run' = w.run
             /\ OpenTimers' = OpenAfter(OpenTimers, w)
    <3>1. DOMAIN run' = RunFields /\ run'.version = run.version
      BY <2>3, <2>5 DEF RunOK
    <3>2. OpenTimers' = {} /\ run'.state = "Cancelled" /\ run'.revision = run.revision + 1
      BY <2>3, <2>5 DEF OpenAfter, NextRevision
    <3>3. TimersOK(Plan, run', OpenTimers')
      BY <3>2 DEF TimersOK, Open
    <3> QED BY <1>1, <1>4, <2>1, <2>2, <3>1, <3>2, <3>3, TimersMoved
  <2> QED BY <2>1, <2>4, <2>5, Committed
<1> QED BY <1>5, <1>6, <1>7

LEMMA CreateRunTimers ==
  ASSUME LifecycleInv, RetryInv, TimerInv, CreateRun
  PROVE  TimerInv'
<1> DEFINE n == identity.active
           plan == PlanOf(versions[n].plan)
           entry == plan.entry
           variables == InitialVariables(plan)
<1>1. /\ run' = [state |-> "Pending", revision |-> 0, version |-> n, node |-> entry,
                 variables |-> variables, continuations |-> <<>>, durations |-> {},
                 shared |-> {}, attempt |-> NoAttempt, created |-> clock]
      /\ run = NoRun /\ UNCHANGED <<timers, calls, worker>>
  BY DEF CreateRun, lifecycleVars
<1> HIDE DEF n, plan, variables, entry
<1>2. /\ run'.state = "Pending" /\ run'.revision = 0 /\ run'.durations = {}
      /\ run'.attempt = NoAttempt
  BY <1>1
<1>3. OpenTimers' = {}
  BY <1>1 DEF TimerInv, OpenTimers
<1>4. TimersOK(Plan', run', OpenTimers')
  BY <1>2, <1>3 DEF TimersOK, IntervalsOK, NoAttempt
<1>5. worker' = Idle /\ \A k \in Callers : ~Cancels(calls'[k])
  BY <1>1 DEF RetryInv, Cancels
<1>6. /\ WorkerFits(Plan', run', OpenTimers', worker')
      /\ \A k \in Callers : CancelFits(run', OpenTimers', calls'[k])
  BY <1>5 DEF WorkerFits, CancelFits, Cancels, Idle
<1>7. run' # NoRun
  BY <1>2 DEF NoRun
<1> QED BY <1>2, <1>4, <1>6, <1>7 DEF TimerInv

LEMMA ReadyTimers ==
  ASSUME ReadyTimer
  PROVE  OpenTimers' = OpenTimers
<1>1. PICK t \in DOMAIN timers : timers[t] = "Pending" /\ timers' = [timers EXCEPT ![t] = "Ready"]
  BY DEF ReadyTimer
<1>2. /\ DOMAIN timers' = DOMAIN timers
      /\ \A u \in DOMAIN timers : timers'[u] = IF u = t THEN "Ready" ELSE timers[u]
  BY <1>1
<1> QED BY <1>1, <1>2 DEF OpenTimers

LEMMA TimerNextInv ==
  LifecycleInv /\ RetryInv /\ TimerInv /\ EvaluatorIsSound /\ [Next]_vars => TimerInv'
<1> SUFFICES ASSUME LifecycleInv, RetryInv, TimerInv, EvaluatorIsSound, [Next]_vars
             PROVE  TimerInv'
  OBVIOUS
<1>1. CASE LifecycleNext /\ UNCHANGED runtimeVars
  <2>1. UNCHANGED <<run, timers, worker>> /\ OpenTimers' = OpenTimers
    BY <1>1 DEF runtimeVars, OpenTimers
  <2>2. \A j \in Callers : calls'[j] = calls[j] \/ ~Cancels(calls'[j])
    BY <1>1, LifecycleCalls
  <2> QED BY <2>1, <2>2, TimersKept
<1>2. CASE WorkerNext
  BY <1>2, LoadRunTimers, DispatchTimers, CommitTimers DEF WorkerNext
<1>3. CASE Crash
  <2>1. UNCHANGED <<run, timers>> /\ worker' = Idle
    BY <1>3 DEF Crash
  <2>2. \A j \in Callers : ~Cancels(calls'[j])
    BY <1>3 DEF Crash, Cancels, Idle
  <2>3. WorkerFits(Plan, run, OpenTimers, worker') /\ OpenTimers' = OpenTimers
    BY <2>1 DEF WorkerFits, Idle, OpenTimers
  <2> QED BY <2>1, <2>2, <2>3, TimersKept
<1>4. CASE ReadyTimer
  <2>1. UNCHANGED <<run, worker, calls>>
    BY <1>4 DEF ReadyTimer, lifecycleVars
  <2> QED BY <1>4, <2>1, ReadyTimers, TimersKept
<1>5. CASE SettleCommand \/ Observe \/ Tick \/ UNCHANGED vars
  <2>1. UNCHANGED <<run, timers, worker, calls>>
    BY <1>5 DEF SettleCommand, Observe, Tick, lifecycleVars, runtimeVars, vars
  <2>2. OpenTimers' = OpenTimers
    BY <2>1 DEF OpenTimers
  <2> QED BY <2>1, <2>2, TimersKept
<1> QED BY <1>1, <1>2, <1>3, <1>4, <1>5, CancelTimersStep, CreateRunTimers DEF Next

LEMMA TimerInitInv == Init => TimerInv
BY DEF Init, TimerInv, OpenTimers

LEMMA AgreeingTimers == RetryInv /\ TimerInv => TimersMatchRun
<1> SUFFICES ASSUME RetryInv, TimerInv PROVE TimersMatchRun
  OBVIOUS
<1>1. CASE run = NoRun
  BY <1>1 DEF TimerInv, TimersMatchRun, NoRun, Open
<1>2. CASE run # NoRun
  <2>1. TimersOK(Plan, run, OpenTimers)
    BY <1>2 DEF TimerInv
  <2>2. run.state = "Waiting" => /\ IntervalsOK(run.node, run.durations, run.shared)
                                 /\ WaitsFor(Plan, run, OpenTimers)
    BY <2>1 DEF TimersOK, Open
  <2>3. run.state = "Waiting" =>
          \A t \in PendingTimers(run.durations) : t[1] = run.node
    BY <2>2 DEF PendingTimers, IntervalsOK, TimerId
  <2>4. OpenTimers # {} => run.state = "Waiting" /\ \A t \in OpenTimers : t[1] = run.node
    BY <2>1, <2>2, <2>3 DEF TimersOK, WaitsFor, OpenFor, TimerId
  <2>5. run.state = "Waiting" =>
          \/ OpenTimers # {}
          \/ run.attempt.phase = "AwaitingOutcome"
          \/ \E d \in run.durations : d.phase = "Mature"
          \/ LostTimers # {}
    <3>1. ASSUME NEW d \in run.durations, d.phase # "Mature", run.state = "Waiting"
          PROVE  d.timer \in PendingTimers(run.durations)
      BY <2>2, <3>1 DEF IntervalsOK, PendingTimers
    <3> QED BY <2>2, <3>1 DEF WaitsFor, LostTimers
  <2>6. run.state \in Open => LostTimers \subseteq run.shared
    <3>1. CASE run.state = "Waiting"
      <4>1. WaitsFor(Plan, run, OpenTimers)
        BY <2>2, <3>1
      <4>2. run.durations = {} => PendingTimers(run.durations) = {}
        BY DEF PendingTimers
      <4> QED BY <4>1, <4>2 DEF WaitsFor, OpenFor, LostTimers
    <3>2. CASE run.state \in {"Pending", "Running"}
      <4>1. run.durations = {}
        BY <2>1, <3>2 DEF TimersOK
      <4> QED BY <4>1 DEF LostTimers, PendingTimers
    <3> QED BY <3>1, <3>2 DEF Open
  <2> QED BY <2>4, <2>5, <2>6 DEF TimersMatchRun
<1> QED BY <1>1, <1>2

\* Whatever plans, observations, outcomes, crashes and cancellations: as long
\* as the evaluator answers for the intervals the run holds, an open timer
\* belongs to the node its run waits at, a waiting run has something that will
\* wake it, and only an interval that ended at the instant of another one waits
\* for a timer that is gone (commit_step, evaluate_runtime_condition,
\* wait_resume, cancel_run).
THEOREM TimersAreKept == Spec /\ []EvaluatorIsSound => []TimersMatchRun
BY AgreeingTimers, LifecycleInitInv, LifecycleNextInv, RetryInitInv, RetryNextInv,
   TimerInitInv, TimerNextInv, PTL DEF Spec
=============================================================================
