------------------------ MODULE AutomationLifecycle ------------------------
(***************************************************************************)
(* The authored life of one automation: draft, immutable versions with     *)
(* their validation and simulation evidence, approval decisions and the    *)
(* operational identity, through the calls of AutomationLifecycleService.  *)
(*                                                                         *)
(* A call reads, decides on its copy and writes in one transaction or in   *)
(* two; calls interleave between these steps and any of them may be        *)
(* abandoned.  All calls are those of the owner.                           *)
(*                                                                         *)
(* Abstractions: a document is named by its index in Documents, a registry *)
(* snapshot by its revision; the compiler is a function of both, so the    *)
(* pair stands for the plan and for its hash.  The instants kept in the    *)
(* evidence are left out.                                                  *)
(***************************************************************************)
EXTENDS AutomationPlans

CONSTANTS
  Plans,        \* what the compiler makes of them: document -> revision -> plan
  Documents,    \* sequence of authored documents of this automation
  Governed,     \* those that command an access, flow or security device
  Simulation(_, _),  \* what the simulator makes of a plan and an input
  Inputs,       \* simulation inputs the owner may submit
  Callers,      \* lifecycle calls in flight at a time
  Loads         \* bounds of an instance: [doc, docs (authored), calls, faults,
                \*   registry, runs, outcomes, observes, time]

DocumentIds == DOMAIN Documents
Versions == {Documents[d].version : d \in DocumentIds}

PlanOf(hash) == Plans[hash[1]][hash[2]]

VersionStates == {"Validated", "Simulated", "AwaitingApproval", "Ready",
                  "Rejected", "Retired"}
OperationalStates == {"Inactive", "Active", "Disabled", "Retired"}

ASSUME VersionsAssumption == 0 \notin Versions

\* What is authored are documents; every revision the registry reaches has
\* its plan; a version that is active at the start was compiled.
ASSUME LoadsAssumption ==
  /\ 0 \notin DocumentIds
  /\ \A l \in Loads :
       /\ l.docs \subseteq DocumentIds
       /\ l.registry \in Nat \ {0}
       /\ \A d \in DocumentIds : 1..l.registry \subseteq DOMAIN Plans[d]
       /\ l.doc # 0 => l.doc \in DocumentIds /\ Plans[l.doc][1].ok

VARIABLES
  load,       \* the bounds this behaviour was given
  registry,   \* revision of the foundation snapshot
  draft,      \* [revision, doc], revision -1 while there is none
  versions,   \* automation_versions
  approvals,  \* automation_approvals
  identity,   \* [state, active, revision]
  calls,      \* lifecycle calls in flight with their copies
  spent       \* calls, faults and observations so far

lifecycleVars == <<load, registry, draft, versions, approvals, identity, calls,
                   spent>>

Absent == [state |-> "Absent"]
Idle == [at |-> "Idle"]
NoSimulation == [plan |-> <<0, 0>>, succeeded |-> FALSE]
NoDraft == [revision |-> -1, doc |-> 0]
FreshIdentity == [state |-> "Inactive", active |-> 0, revision |-> 0]

\* A version as validate stores it.
ValidatedVersion(doc, revision) ==
  [state |-> "Validated", doc |-> doc, plan |-> <<doc, revision>>,
   validation |-> <<doc, revision>>, simulation |-> NoSimulation]

version_allows(from, to) ==
  <<from, to>> \in
    {<<"Validated", "Simulated">>, <<"Simulated", "AwaitingApproval">>,
     <<"Simulated", "Ready">>, <<"AwaitingApproval", "Ready">>,
     <<"AwaitingApproval", "Rejected">>}
      \cup ((VersionStates \ {"Retired"}) \X {"Retired"})

identity_allows(from, to) ==
  <<from, to>> \in ({"Inactive", "Disabled"} \X {"Active", "Retired"})
                     \cup ({"Active"} \X {"Disabled", "Retired"})

-----------------------------------------------------------------------------
(* The repository                                                          *)

validate_version(v) ==
  /\ v.plan[1] = v.doc
  /\ v.validation = v.plan
  /\ v.simulation # NoSimulation => v.simulation.plan = v.plan

store_draft(doc, expected) ==
  IF draft.revision = expected
  THEN draft' = [revision |-> expected + 1, doc |-> doc]
  ELSE UNCHANGED draft

\* INSERT OR IGNORE: a stored version is never replaced.
store_version(v) ==
  LET n == Documents[v.doc].version
  IN versions' = IF validate_version(v) /\ versions[n] = Absent
                 THEN [versions EXCEPT ![n] = v] ELSE versions

may_transition_version(n, v, expected) ==
  LET current == versions[n] IN
  /\ validate_version(v)
  /\ current.state = expected
  /\ version_allows(current.state, v.state)
  /\ current.doc = v.doc /\ current.plan = v.plan
  /\ current.validation = v.validation
  /\ current.simulation \in {NoSimulation, v.simulation}

transition_version(n, v, expected) ==
  versions' = IF may_transition_version(n, v, expected)
              THEN [versions EXCEPT ![n] = v] ELSE versions

append_approval(n, plan, decision) ==
  approvals' = IF versions[n] # Absent /\ versions[n].plan = plan
               THEN approvals \cup {[version |-> n, plan |-> plan,
                                     state |-> decision]}
               ELSE approvals

has_exact_approval(n, plan) ==
  [version |-> n, plan |-> plan, state |-> "Approved"] \in approvals

may_activate(n, plan, expected) ==
  LET v == versions[n] IN
  /\ v # Absent /\ v.plan = plan
  /\ v.simulation.succeeded /\ v.simulation.plan = plan
  /\ PlanOf(plan).approval = "ExplicitUserApproval" => has_exact_approval(n, plan)
  /\ identity.state # "Retired"
  /\ identity.revision = expected

activate(n, plan, expected) ==
  identity' = IF may_activate(n, plan, expected)
              THEN [state |-> "Active", active |-> n,
                    revision |-> identity.revision + 1]
              ELSE identity

transition_identity(copy, expected) ==
  identity' = IF /\ identity.revision = expected
                 /\ copy.revision = expected + 1
                 /\ identity_allows(identity.state, copy.state)
                 /\ identity.active = copy.active
              THEN copy ELSE identity

-----------------------------------------------------------------------------
(* The service                                                             *)

Begins(k) ==
  /\ calls[k].at = "Idle"
  /\ spent.calls < load.calls
  /\ spent' = [spent EXCEPT !.calls = @ + 1]

Continues(k, at) == calls[k].at = at /\ UNCHANGED spent

Goto(k, call) == calls' = [calls EXCEPT ![k] = call]

\* create_draft and put_draft: one transaction.
PutDraft(k) ==
  /\ Begins(k)
  /\ \E doc \in load.docs, expected \in {-1, draft.revision} :
       store_draft(doc, expected)
  /\ UNCHANGED <<load, registry, versions, approvals, identity, calls>>

Validate(k) ==
  /\ Begins(k)
  /\ draft.doc \in load.docs
  /\ Goto(k, [at |-> "Compile", doc |-> draft.doc])
  /\ UNCHANGED <<load, registry, draft, versions, approvals, identity>>

CompileDraft(k) ==
  /\ Continues(k, "Compile")
  /\ LET doc == calls[k].doc
     IN Goto(k, IF Plans[doc][registry].ok
                THEN [at |-> "Store", copy |-> ValidatedVersion(doc, registry)]
                ELSE Idle)
  /\ UNCHANGED <<load, registry, draft, versions, approvals, identity>>

StoreVersion(k) ==
  /\ Continues(k, "Store")
  /\ store_version(calls[k].copy)
  /\ Goto(k, Idle)
  /\ UNCHANGED <<load, registry, draft, approvals, identity>>

\* The version and its simulation; nothing is stored yet.
Simulate(k) ==
  /\ Begins(k)
  /\ \E n \in Versions, input \in Inputs :
       /\ versions[n].state = "Validated"
       /\ LET v == versions[n]
              result == Simulation(PlanOf(v.plan), input)
          IN Goto(k, IF result.status = "Error" THEN Idle
                ELSE [at |-> "Evidence", n |-> n,
                      completed |-> result.status = "Completed",
                      copy |-> [v EXCEPT !.state = "Simulated",
                                  !.simulation = [plan |-> v.plan,
                                    succeeded |-> result.status = "Completed"]]])
  /\ UNCHANGED <<load, registry, draft, versions, approvals, identity>>

ReadyState(plan) ==
  IF PlanOf(plan).approval = "ActivationGrant" THEN "Ready" ELSE "AwaitingApproval"

StoreEvidence(k) ==
  /\ Continues(k, "Evidence")
  /\ LET c == calls[k] IN
     /\ transition_version(c.n, c.copy, "Validated")
     /\ Goto(k, IF may_transition_version(c.n, c.copy, "Validated") /\ c.completed
                THEN [at |-> "Advance", n |-> c.n, expected |-> "Simulated",
                      copy |-> [c.copy EXCEPT !.state = ReadyState(c.copy.plan)]]
                ELSE Idle)
  /\ UNCHANGED <<load, registry, draft, approvals, identity>>

\* The second transition of simulate and of decide.
AdvanceVersion(k) ==
  /\ Continues(k, "Advance")
  /\ transition_version(calls[k].n, calls[k].copy, calls[k].expected)
  /\ Goto(k, Idle)
  /\ UNCHANGED <<load, registry, draft, approvals, identity>>

Decide(k) ==
  /\ Begins(k)
  /\ \E n \in Versions, approved \in BOOLEAN :
       /\ versions[n].state = "AwaitingApproval"
       /\ Goto(k, [at |-> "Record", n |-> n, expected |-> "AwaitingApproval",
                   copy |-> [versions[n] EXCEPT
                               !.state = IF approved THEN "Ready" ELSE "Rejected"]])
  /\ UNCHANGED <<load, registry, draft, versions, approvals, identity>>

RecordDecision(k) ==
  /\ Continues(k, "Record")
  /\ LET c == calls[k] IN
     /\ append_approval(c.n, c.copy.plan,
                        IF c.copy.state = "Ready" THEN "Approved" ELSE "Rejected")
     /\ Goto(k, [c EXCEPT !.at = "Advance"])
  /\ UNCHANGED <<load, registry, draft, versions, identity>>

\* activate and rollback.
Activate(k) ==
  /\ Begins(k)
  /\ \E n \in Versions, expected \in {identity.revision, 0} :
       /\ versions[n].state = "Ready"
       /\ Goto(k, [at |-> "Activate", n |-> n, plan |-> versions[n].plan,
                   expected |-> expected])
  /\ UNCHANGED <<load, registry, draft, versions, approvals, identity>>

CommitActivation(k) ==
  /\ Continues(k, "Activate")
  /\ activate(calls[k].n, calls[k].plan, calls[k].expected)
  /\ Goto(k, Idle)
  /\ UNCHANGED <<load, registry, draft, versions, approvals>>

\* disable and retire.
Operate(k) ==
  /\ Begins(k)
  /\ \E state \in {"Disabled", "Retired"} :
       /\ draft # NoDraft
       /\ identity_allows(identity.state, state)
       /\ Goto(k, [at |-> "Operate", expected |-> identity.revision,
                   copy |-> [identity EXCEPT !.state = state, !.revision = @ + 1]])
  /\ UNCHANGED <<load, registry, draft, versions, approvals, identity>>

CommitOperation(k) ==
  /\ Continues(k, "Operate")
  /\ transition_identity(calls[k].copy, calls[k].expected)
  /\ Goto(k, Idle)
  /\ UNCHANGED <<load, registry, draft, versions, approvals>>

\* A repository error, a dropped connection or the end of the process.
Abandon(k) ==
  /\ calls[k].at # "Idle"
  /\ spent.faults < load.faults
  /\ spent' = [spent EXCEPT !.faults = @ + 1]
  /\ Goto(k, Idle)
  /\ UNCHANGED <<load, registry, draft, versions, approvals, identity>>

\* The registry moves on: a new snapshot with a new revision.
RegistryChanges ==
  /\ registry < load.registry
  /\ registry' = registry + 1
  /\ UNCHANGED <<load, draft, versions, approvals, identity, calls, spent>>

LifecycleNext ==
  \/ \E k \in Callers :
       \/ PutDraft(k) \/ Validate(k) \/ CompileDraft(k) \/ StoreVersion(k)
       \/ Simulate(k) \/ StoreEvidence(k) \/ AdvanceVersion(k)
       \/ Decide(k) \/ RecordDecision(k)
       \/ Activate(k) \/ CommitActivation(k)
       \/ Operate(k) \/ CommitOperation(k)
       \/ Abandon(k)
  \/ RegistryChanges

\* A fresh automation, or (load.doc # 0) one whose version went through the
\* whole process and is active.
LifecycleInit ==
  /\ load \in Loads
  /\ registry = 1
  /\ spent = [calls |-> 0, faults |-> 0, observes |-> 0]
  /\ calls = [k \in Callers |-> Idle]
  /\ \/ /\ load.doc = 0
        /\ draft = NoDraft
        /\ versions = [n \in Versions |-> Absent]
        /\ approvals = {}
        /\ identity = FreshIdentity
     \/ LET doc == load.doc
            plan == <<doc, 1>>
            ready == [ValidatedVersion(doc, 1) EXCEPT !.state = "Ready",
                        !.simulation = [plan |-> plan, succeeded |-> TRUE]]
        IN /\ doc # 0
           /\ draft = [revision |-> 0, doc |-> doc]
           /\ versions = [n \in Versions |->
                            IF n = Documents[doc].version THEN ready ELSE Absent]
           /\ approvals =
                IF PlanOf(plan).approval = "ActivationGrant" THEN {}
                ELSE {[version |-> Documents[doc].version, plan |-> plan,
                       state |-> "Approved"]}
           /\ identity = [state |-> "Active", active |-> Documents[doc].version,
                          revision |-> 1]

-----------------------------------------------------------------------------
(* Properties                                                              *)

\* The compiler's part: the plan of a governed document asks for approval.
CompilerIsSound ==
  \A d \in Governed : \A r \in DOMAIN Plans[d] :
    Plans[d][r].ok => Plans[d][r].approval = "ExplicitUserApproval"

\* Whatever calls interleave or fail half-way, the version an automation runs
\* is Ready, compiled without findings, successfully simulated as exactly that
\* plan and, when its document commands an access, flow or security device
\* anywhere, approved by the user as exactly that plan.
ActiveIsGoverned ==
  identity.active # 0 =>
    LET v == versions[identity.active] IN
    /\ v.state = "Ready"
    /\ PlanOf(v.plan).ok
    /\ v.simulation = [plan |-> v.plan, succeeded |-> TRUE]
    /\ v.doc \in Governed => has_exact_approval(identity.active, v.plan)
=============================================================================
