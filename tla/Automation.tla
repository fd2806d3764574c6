----------------------------- MODULE Automation -----------------------------
(***************************************************************************)
(* The automation engine as a whole: the lifecycle and the runtime work    *)
(* with the plans the compiler makes of the documents, and what the        *)
(* simulator says of a plan is compared with what a run of it does.        *)
(***************************************************************************)
EXTENDS AutomationPrograms, AutomationRuntime

CONSTANT Registries   \* registry snapshots by revision (event cursor)

\* Every plan the compiler can produce here; a constant of its own, so that
\* TLC computes it once.
CompiledPlans ==
  [d \in DocumentIds |->
     [r \in DOMAIN Registries |-> compile(Documents[d], Registries[r])]]

ASSUME PlansAssumption == Plans = CompiledPlans

\* Every command an action tree may ever issue.
RECURSIVE CommandsIn(_)
CommandsIn(actions) ==
  LET In(a) ==
        CASE a.op = "command" ->
               {a} \cup (IF a.on_failure.policy = "Fallback"
                         THEN CommandsIn(a.on_failure.actions) ELSE {})
          [] a.op = "sequence" -> CommandsIn(a.actions)
          [] a.op = "if" -> CommandsIn(a.then_actions) \cup CommandsIn(a.else_actions)
          [] a.op \in {"parallel", "race"} ->
               UNION {CommandsIn(a.branches[b]) : b \in DOMAIN a.branches}
          [] a.op = "wait" -> IF a.on_timeout.policy = "Fallback"
                              THEN CommandsIn(a.on_timeout.actions) ELSE {}
          [] OTHER -> {}
  IN UNION {In(actions[i]) : i \in DOMAIN actions}

GovernedWords == {"lock", "door", "valve", "flow", "camera", "security"}

\* A document that commands a lock, a valve, a camera... anywhere in its tree.
IsGoverned(doc) ==
  \E a \in CommandsIn(Documents[doc].actions) :
     Words[a.target.capability] \cap GovernedWords # {}

ASSUME GovernedAssumption == Governed = {doc \in DocumentIds : IsGoverned(doc)}

-----------------------------------------------------------------------------
(* Properties                                                              *)

RECURSIVE ReadsWorld(_)
\* Does a condition look at observations, the wall clock or the past?
ReadsWorld(k) ==
  CASE k.kind = "literal" -> FALSE
    [] k.kind = "compare" -> "observation" \in {k.left.kind, k.right.kind}
    [] k.kind \in {"all", "any"} -> \E i \in DOMAIN k.parts : ReadsWorld(k.parts[i])
    [] k.kind = "not" -> ReadsWorld(k.inner)
    [] k.kind \in {"window", "duration"} -> TRUE

\* The plan's course depends on the outcomes of its commands alone.
Predictable(plan) ==
  /\ plan.condition = None
  /\ \A i \in DOMAIN plan.nodes :
       LET n == plan.nodes[i] IN
       /\ n.op # "wait"
       /\ n.op = "branch" => ~ReadsWorld(n.condition)
       /\ n.op = "set" => n.value.kind # "observation"

\* The attempts of the run that have an outcome, in order.
Attempts == SelectSeq(trace, LAMBDA s : s.kind = "Command" /\ s.outcome # "Dispatched")

\* What a user would declare to the simulator having seen this run.
FixtureOfRun(plan) ==
  LET Outcome(s) ==
        CASE s.outcome = "Confirmed" -> Confirmed
          [] s.outcome = "Retryable" ->
               [state |-> "Failed",
                error |-> CHOOSE e \in plan.nodes[s.node].retry.errors : TRUE]
          [] s.outcome = "Failed" -> [state |-> "Failed", error |-> "final"]
  IN [trigger |-> [kind |-> "catch_up", catch_up |-> TRUE, accepted |-> 0,
                   window_end |-> 0, active |-> 0, queued |-> 0, caused_by |-> 0,
                   same_correlation |-> FALSE],
      state |-> InitialObservations, changes |-> <<>>,
      outcomes |-> [i \in DOMAIN Attempts |-> Outcome(Attempts[i])]]

AgreesWith(result) ==
  /\ result.status = run.state
  /\ [i \in DOMAIN result.intents |->
        <<result.intents[i].node, result.intents[i].attempt>>]
     = [i \in DOMAIN Attempts |-> <<Attempts[i].node, Attempts[i].attempt>>]
  /\ result.variables = run.variables

\* A run that has ended went the way its plan goes in the simulator when the
\* simulated commands have the outcomes the real ones had: the same attempts
\* at the same nodes in the same order, the same end and the same variables,
\* whatever crashes and delays the run met.  The approval of a version rests
\* on its simulation, so this is what makes that evidence mean something.
SimulationPredictsRun ==
  LET Predicted(plan) == Predictable(plan) => AgreesWith(simulate(plan,
                                                           FixtureOfRun(plan)))
  IN run.state \in {"Completed", "Failed"} => Predicted(Plan)
=============================================================================
