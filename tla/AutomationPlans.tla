-------------------------- MODULE AutomationPlans ---------------------------
(***************************************************************************)
(* What the compiler, the simulator and the runtime share of a compiled    *)
(* plan: absent values, initial variables, expressions and successors.     *)
(***************************************************************************)
EXTENDS Integers, Sequences, SequencesExt, FiniteSetsExt, TLC

None == [kind |-> "none"]
Missing == [type |-> "missing", n |-> 0]

\* The variables of a fresh run or simulation: those with an initial value.
InitialVariables(plan) ==
  [name \in {v \in DOMAIN plan.variables : plan.variables[v].initial # Missing}
     |-> plan.variables[name].initial]

\* A context x holds the variables and the observations.
evaluate_automation_expression(e, x) ==
  CASE e.kind = "literal" -> e.value
    [] e.kind = "variable" ->
         IF e.name \in DOMAIN x.vars THEN x.vars[e.name] ELSE Missing
    [] e.kind = "observation" ->
         LET key == <<Head(e.targets), e.field>>
         IN IF key \in DOMAIN x.state THEN x.state[key] ELSE Missing

\* The outcome of a command that did what it was told.
Confirmed == [state |-> "Confirmed", error |-> "none"]

\* The successor of a node, or another one when there is none.
OrElse(node, other) == IF node = 0 THEN other ELSE node
=============================================================================
