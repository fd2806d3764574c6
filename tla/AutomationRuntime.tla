------------------------- MODULE AutomationRuntime -------------------------
(***************************************************************************)
(* The durable interpreter of one run (AutomationRuntime::step) beside the *)
(* lifecycle calls of AutomationLifecycle, the command service, the timers *)
(* of the scheduler, the observations and the clock.                       *)
(*                                                                         *)
(* A step of the interpreter reads the run and what its node needs, and    *)
(* later commits one revision of the run with its timers and its trace; a  *)
(* command node calls the command service for its targets one by one in    *)
(* between.  The process may die and the owner may cancel at any point.    *)
(*                                                                         *)
(* Abstractions: the run's occurrence and its admission are those of       *)
(* AutomationScheduling; a command is known by its idempotency key (node,  *)
(* target, attempt) and settles once; an interval's hash is its condition; *)
(* the page of recoverable timers covers the run's timers.                 *)
(***************************************************************************)
EXTENDS AutomationLifecycle

CONSTANTS
  Evaluate(_, _),       \* the evaluator: a condition in a runtime context
  InitialObservations,  \* observations at the start: key -> value
  Observable            \* the values an observation may take: key -> set

VARIABLES
  clock,
  observations,  \* the foundation's observations
  run,           \* automation_runs: the one run
  timers,        \* automation_timers: identity -> state
  trace,         \* automation_trace
  commands,      \* the command table: idempotency key -> command
  worker         \* the interpreter step in flight with its copies

runtimeVars == <<clock, observations, run, timers, trace, commands, worker>>
vars == <<lifecycleVars, runtimeVars>>

Open == {"Pending", "Running", "Waiting"}
TerminalStates == {"Completed", "Failed", "Cancelled"}

NoAttempt == [node |-> 0, number |-> 0, targets |-> {}, phase |-> "None",
              ready |-> 0]
NoRun == [state |-> "Absent", revision |-> 0]

run_allows(from, to) ==
  \/ from = to /\ from \in Open
  \/ <<from, to>> \in ({"Pending"} \X {"Running", "Cancelled"})
       \cup ({"Running"} \X {"Waiting", "Completed", "Failed", "Cancelled"})
       \cup ({"Waiting"} \X {"Running", "Failed", "Cancelled"})

timer_allows(from, to) ==
  <<from, to>> \in ({"Pending"} \X {"Ready", "Cancelled"})
                     \cup ({"Ready"} \X {"Consumed", "Cancelled"})

NodeKinds == {"complete", "delay", "set", "branch", "join", "command", "wait",
              "parallel", "race"}

\* The shape of a compiled plan.
ASSUME NodesAssumption ==
  \A d \in DocumentIds : \A r \in DOMAIN Plans[d] :
    \A i \in DOMAIN Plans[d][r].nodes :
      /\ Plans[d][r].nodes[i].op \in NodeKinds
      /\ Plans[d][r].nodes[i].op = "command" =>
           /\ Plans[d][r].nodes[i].retry.maximum \in Nat
           /\ DOMAIN Plans[d][r].nodes[i].targets \subseteq Nat

\* The states of a command the model tells apart.
ASSUME OutcomesAssumption ==
  \A l \in Loads : \A o \in l.outcomes :
    o.state \in {"Confirmed", "Failed", "Dispatched"}

\* AutomationTimerId::from_scoped_key, and the instant it is derived from.
TimerId(node, kind, ready) == <<node, kind, ready>>
OpenTimers == {t \in DOMAIN timers : timers[t] \in {"Pending", "Ready"}}

Plan == PlanOf(versions[run.version].plan)

-----------------------------------------------------------------------------
(* One revision of the run: AutomationStepWrite                            *)

checkpoint(r) == [r EXCEPT !.revision = @ + 1]

Step(kind, node) == [kind |-> kind, node |-> node, attempt |-> 0,
                     outcome |-> "none"]

\* A revision with the timers it creates, consumes and cancels.
Write(r, next, step, create, consume, cancel) ==
  [run |-> next, expected |-> r.revision, sequence |-> Len(trace), step |-> step,
   create |-> create, consume |-> consume, cancel |-> cancel]

\* What commit_step demands before it changes anything.
may_commit(w) ==
  /\ run.revision = w.expected
  /\ run_allows(run.state, w.run.state)
  /\ \A t \in w.create : t \notin DOMAIN timers \/ timers[t] = "Pending"
  /\ \A t \in w.consume : timer_allows(timers[t], "Consumed")
  /\ \A t \in w.cancel : timer_allows(timers[t], "Cancelled")
  /\ w.consume \cap w.cancel = {}   \* the second transition would be refused
  /\ Len(trace) = w.sequence

\* The timers created first, then the transitions.
StoredTimers(w) ==
  [t \in DOMAIN timers \cup w.create |->
     CASE t \in w.consume -> "Consumed"
       [] t \in w.cancel -> "Cancelled"
       [] t \in w.create \ (w.consume \cup w.cancel) -> "Pending"
       [] OTHER -> timers[t]]

commit_step(w) ==
  IF may_commit(w)
  THEN /\ run' = w.run
       /\ timers' = StoredTimers(w)
       /\ trace' = Append(trace, w.step)
  ELSE UNCHANGED <<run, timers, trace>>

-----------------------------------------------------------------------------
(* The nodes.  Each operator gives the set of writes of its step: none     *)
(* when the run waits or the step fails, otherwise one.                    *)

apply_failure(r, policy, following) ==
  CASE policy.policy = "Continue" ->
         [r EXCEPT !.state = "Running", !.node = following]
    [] policy.policy = "Fallback" ->
         [r EXCEPT !.state = "Running", !.node = OrElse(policy.entry, following)]
    [] policy.policy = "StopBranch" /\ r.continuations # <<>> ->
         [r EXCEPT !.state = "Running", !.node = Last(r.continuations).join,
                   !.continuations[Len(r.continuations)].failed = TRUE]
    [] OTHER -> [r EXCEPT !.state = "Failed", !.node = 0]

step_pending(r) ==
  {Write(r, [checkpoint(r) EXCEPT !.state = "Running"], Step("Trigger", 0), {},
         {}, {})}

step_complete(r) ==
  {Write(r, [checkpoint(r) EXCEPT !.state = "Completed", !.node = 0],
         Step("Outcome", r.node), {}, {}, {})}

step_delay(r, n) ==
  LET mine == {t \in OpenTimers : t[1] = r.node /\ t[2] = "Delay"} IN
  IF r.state = "Running"
  THEN {Write(r, [checkpoint(r) EXCEPT !.state = "Waiting"], Step("Timer", r.node),
              {TimerId(r.node, "Delay", clock + n.duration)}, {}, {})}
  ELSE {Write(r, [checkpoint(r) EXCEPT !.state = "Running", !.node = n.next],
              Step("Timer", r.node), {}, {t}, {}) :
          t \in {m \in mine : timers[m] = "Ready"}}

\* Mutant: the evaluator is not told of the intervals that began.
RuntimeContext_without_intervals(r) ==
  [host |-> "runtime", now |-> clock, vars |-> r.variables,
   state |-> observations, durations |-> {}, timers |-> timers,
   request |-> None, invalid |-> {}]

RuntimeContext(r) ==
  [host |-> "runtime", now |-> clock, vars |-> r.variables,
   state |-> observations, durations |-> r.durations, timers |-> timers,
   request |-> None, invalid |-> {}]

step_set(r, n) ==
  LET v == evaluate_automation_expression(n.value, RuntimeContext(r)) IN
  IF v = Missing THEN {}
  ELSE {Write(r, [checkpoint(r) EXCEPT !.node = n.next,
                    !.variables = (n.name :> v) @@ @],
              Step("Variable", r.node), {}, {}, {})}

PendingTimers(durations) ==
  {d.timer : d \in {e \in durations : e.phase = "Pending"}}

\* The checkpoint of an interval that starts, matures or was reset while
\* another one is pending.  An interval that starts is not kept from the timer
\* of another one that ends at the same instant; shared, which no step of the
\* run looks at, remembers those timers.
duration_write(r, request, kept, reset) ==
  LET next == [checkpoint(r) EXCEPT !.state = "Waiting", !.durations = kept]
      timer == TimerId(r.node, "StateDuration", request.ready)
      step == Step("Timer", r.node)
  IN CASE request.kind = "Start" ->
            Write(r, [next EXCEPT !.durations = kept \cup
                        {[hash |-> request.hash, ready |-> request.ready,
                          timer |-> timer, phase |-> "Pending"]},
                        !.shared = r.shared \cup
                                     ({timer} \cap {d.timer : d \in r.durations})],
                  step, {timer}, {}, reset)
       [] request.kind = "Pending" -> Write(r, next, step, {}, {}, reset)
       [] OTHER ->   \* "Mature"
            Write(r, [next EXCEPT !.durations =
                        {IF d.hash = request.hash THEN [d EXCEPT !.phase = "Mature"]
                                                  ELSE d : d \in kept}],
                  step, {}, {timer}, reset)

\* e is what the evaluator answers: the intervals it found broken are dropped
\* and their timers cancelled; writes is the checkpoint of a pending answer.
prepared_condition(r, e, kept, reset) ==
  [out |-> e.out, durations |-> kept, reset |-> reset,
   active |-> PendingTimers(r.durations) \ reset,
   writes |-> IF e.out # "durable" \/ (e.x.request.kind = "Pending" /\ reset = {})
              THEN {} ELSE {duration_write(r, e.x.request, kept, reset)}]

evaluate_runtime_condition(r, condition) ==
  LET Broken(e) == {d \in r.durations : d.hash \in e.x.invalid}
      Evaluated(e) ==
        prepared_condition(r, e, r.durations \ Broken(e),
                           PendingTimers(r.durations) \cap {d.timer : d \in Broken(e)})
  IN Evaluated(Evaluate(condition, RuntimeContext(r)))

step_branch(r, n) ==
  LET Take(e) ==
        IF e.out \notin {"yes", "no"} THEN e.writes
        ELSE {Write(r, [checkpoint(r) EXCEPT !.state = "Running", !.durations = {},
                          !.node = OrElse(IF e.out = "yes" THEN n.then_node
                                          ELSE n.else_node, n.join)],
                    Step("Branch", r.node), {},
                    {}, e.reset \cup e.active)}
  IN Take(evaluate_runtime_condition(r, n.condition))

wait_start(r, n) ==
  {Write(r, [checkpoint(r) EXCEPT !.state = "Waiting"], Step("Timer", r.node),
         {TimerId(r.node, "WaitTimeout", clock + n.timeout)}, {}, {})}

\* Mutant: a wait that ends leaves the timers of its intervals behind.
wait_resume_keeping_intervals(r, n, e) ==
  LET mine == {t \in OpenTimers : t[1] = r.node /\ t[2] = "WaitTimeout"}
      timer == CHOOSE t \in mine : TRUE
      left == [checkpoint(r) EXCEPT !.durations = {}]
      cancel == e.reset
  IN CASE e.out \notin {"yes", "no"} -> e.writes
       [] e.out \in {"yes", "no"} /\ mine = {} -> {}
       [] e.out = "yes" /\ mine # {} ->
            {Write(r, [left EXCEPT !.state = "Running", !.node = n.next],
                   Step("Condition", r.node), {}, {}, {timer} \cup cancel)}
       [] e.out = "no" /\ mine # {} /\ timers[timer] # "Ready" ->
            IF e.reset = {} /\ e.durations = r.durations THEN {}
            ELSE {Write(r, [checkpoint(r) EXCEPT !.durations = e.durations],
                        Step("Condition", r.node), {}, {}, e.reset)}
       [] e.out = "no" /\ mine # {} /\ timers[timer] = "Ready" ->
            {Write(r, apply_failure(left, n.on_timeout, n.next),
                   Step("Timer", r.node), {}, {timer}, cancel)}

\* The timeout is looked at only once the condition has an answer, e.
wait_resume(r, n, e) ==
  LET mine == {t \in OpenTimers : t[1] = r.node /\ t[2] = "WaitTimeout"}
      timer == CHOOSE t \in mine : TRUE
      left == [checkpoint(r) EXCEPT !.durations = {}]
      cancel == e.reset \cup e.active
  IN CASE e.out \notin {"yes", "no"} -> e.writes
       [] e.out \in {"yes", "no"} /\ mine = {} -> {}
       [] e.out = "yes" /\ mine # {} ->
            {Write(r, [left EXCEPT !.state = "Running", !.node = n.next],
                   Step("Condition", r.node), {}, {}, {timer} \cup cancel)}
       [] e.out = "no" /\ mine # {} /\ timers[timer] # "Ready" ->
            IF e.reset = {} /\ e.durations = r.durations THEN {}
            ELSE {Write(r, [checkpoint(r) EXCEPT !.durations = e.durations],
                        Step("Condition", r.node), {}, {}, e.reset)}
       [] e.out = "no" /\ mine # {} /\ timers[timer] = "Ready" ->
            {Write(r, apply_failure(left, n.on_timeout, n.next),
                   Step("Timer", r.node), {}, {timer}, cancel)}

step_wait(r, n) ==
  IF r.state = "Running" THEN wait_start(r, n)
  ELSE wait_resume(r, n, evaluate_runtime_condition(r, n.condition))

enter_group(r, n) ==
  IF n.branches = <<>> THEN {}
  ELSE {Write(r, [checkpoint(r) EXCEPT !.node = Head(n.branches),
                    !.continuations = Append(@,
                       [group |-> r.node, kind |-> n.op, join |-> n.join,
                        remaining |-> Tail(n.branches), failed |-> FALSE])],
              Step("Branch", r.node), {}, {}, {})}

\* Mutant: the next branch of a race inherits the failure of the last one.
step_join_still_failed(r, n) ==
  LET next == checkpoint(r)
      frame == Last(r.continuations)
      popped == [next EXCEPT !.continuations = Front(@)]
      top == Len(r.continuations)
      after ==
        CASE r.continuations = <<>> -> [next EXCEPT !.node = n.next]
          [] r.continuations # <<>> /\ frame.join # r.node ->
               [next EXCEPT !.node = n.next]
          [] OTHER ->
               CASE frame.kind = "race" /\ ~frame.failed ->
                      [popped EXCEPT !.node = n.next]
                 [] (frame.kind = "parallel" \/ frame.failed)
                      /\ frame.remaining # <<>> ->
                      [next EXCEPT !.node = Head(frame.remaining),
                         !.continuations[top] = [frame EXCEPT
                            !.remaining = Tail(@)]]
                 [] frame.kind = "race" /\ frame.failed /\ frame.remaining = <<>> ->
                      [popped EXCEPT !.state = "Failed", !.node = 0]
                 [] OTHER ->   \* the last branch of a parallel group
                      [popped EXCEPT !.node = n.next]
  IN {Write(r, after, Step("Branch", r.node), {}, {}, {})}

step_join(r, n) ==
  LET next == checkpoint(r)
      frame == Last(r.continuations)
      popped == [next EXCEPT !.continuations = Front(@)]
      top == Len(r.continuations)
      after ==
        CASE r.continuations = <<>> -> [next EXCEPT !.node = n.next]
          [] r.continuations # <<>> /\ frame.join # r.node ->
               [next EXCEPT !.node = n.next]
          [] OTHER ->
               CASE frame.kind = "race" /\ ~frame.failed ->
                      [popped EXCEPT !.node = n.next]
                 [] (frame.kind = "parallel" \/ frame.failed)
                      /\ frame.remaining # <<>> ->
                      [next EXCEPT !.node = Head(frame.remaining),
                         !.continuations[top] = [frame EXCEPT
                            !.remaining = Tail(@), !.failed = FALSE]]
                 [] frame.kind = "race" /\ frame.failed /\ frame.remaining = <<>> ->
                      [popped EXCEPT !.state = "Failed", !.node = 0]
                 [] OTHER ->   \* the last branch of a parallel group
                      [popped EXCEPT !.node = n.next]
  IN {Write(r, after, Step("Branch", r.node), {}, {}, {})}

-----------------------------------------------------------------------------
(* Command nodes                                                           *)

CommandKey(node, target, attempt) == <<node, target, attempt>>
\* Mutant: only a confirmation ends a command.
IsConfirmed(command) == command.state = "Confirmed"
IsTerminal(command) == command.state # "Dispatched"

\* Mutant: a retry commands every target again.
retry_plan_all(n, number, results) ==
  LET failed == {i \in DOMAIN results : results[i].state # "Confirmed"}
      latest == Max({results[i].at : i \in failed})
  IN IF /\ number < n.retry.maximum
        /\ \A i \in failed : results[i].error \in n.retry.errors
     THEN {[targets |-> DOMAIN results, ready |-> latest + n.retry.backoff]} ELSE {}

\* Retry the targets that failed, if every failure may be retried.
retry_plan(n, number, results) ==
  LET failed == {i \in DOMAIN results : results[i].state # "Confirmed"}
      latest == Max({results[i].at : i \in failed})
  IN IF /\ number < n.retry.maximum
        /\ \A i \in failed : results[i].error \in n.retry.errors
     THEN {[targets |-> failed, ready |-> latest + n.retry.backoff]} ELSE {}

\* The one word the trace keeps of the targets' states.
AttemptOutcome(n, results) ==
  LET failed == {i \in DOMAIN results : results[i].state # "Confirmed"}
      pending == {i \in failed : ~IsTerminal(results[i])}
      mayRetry == \A i \in failed : results[i].error \in n.retry.errors
  IN CASE failed = {} -> "Confirmed"
       [] pending # {} -> "Dispatched"
       [] failed # {} /\ pending = {} /\ mayRetry -> "Retryable"
       [] OTHER -> "Failed"

checkpoint_command_result(r, n, number, results) ==
  LET next == checkpoint(r)
      outcome == AttemptOutcome(n, results)
      step == [Step("Command", r.node) EXCEPT !.attempt = number,
                                               !.outcome = outcome]
      attempt == [node |-> r.node, number |-> number,
                  targets |-> DOMAIN results, phase |-> "AwaitingOutcome",
                  ready |-> 0]
      retry == retry_plan(n, number, results)
  IN CASE outcome = "Confirmed" ->
            {Write(r, [next EXCEPT !.state = "Running", !.node = n.next,
                                   !.attempt = NoAttempt], step, {}, {}, {})}
       [] outcome = "Dispatched" ->
            {Write(r, [next EXCEPT !.state = "Waiting", !.attempt = attempt],
                   step, {}, {}, {})}
       [] outcome \in {"Retryable", "Failed"} /\ retry # {} ->
            {Write(r, [next EXCEPT !.state = "Waiting",
                         !.attempt = [attempt EXCEPT !.targets = p.targets,
                                        !.phase = "Backoff", !.ready = p.ready]],
                   step, {TimerId(r.node, "CommandRetry", p.ready)}, {}, {}) :
               p \in retry}
       [] outcome \in {"Retryable", "Failed"} /\ retry = {} ->
            {Write(r, apply_failure([next EXCEPT !.attempt = NoAttempt],
                                    n.on_failure, n.next), step, {}, {}, {})}

resume_command_backoff(r) ==
  LET timer == TimerId(r.node, "CommandRetry", r.attempt.ready)
      next == [r.attempt EXCEPT !.number = @ + 1, !.phase = "Dispatch", !.ready = 0]
  IN IF timers[timer] # "Ready" THEN {}
     ELSE {Write(r, [checkpoint(r) EXCEPT !.state = "Running", !.attempt = next],
                 Step("Timer", r.node), {}, {timer}, {})}

load_attempt_commands(r) ==
  [i \in r.attempt.targets |-> commands[CommandKey(r.node, i, r.attempt.number)]]

\* The phases of a command node that need no dispatch.
step_command(r, n) ==
  CASE r.attempt.phase = "Backoff" -> resume_command_backoff(r)
    [] r.attempt.phase = "AwaitingOutcome" ->
         LET results == load_attempt_commands(r) IN
         IF \E i \in DOMAIN results : ~IsTerminal(results[i]) THEN {}
         ELSE checkpoint_command_result(r, n, r.attempt.number, results)
    [] OTHER -> {}

NodeWrites(r, n) ==
  CASE n.op = "complete" -> step_complete(r)
    [] n.op = "delay" -> step_delay(r, n)
    [] n.op = "set" -> step_set(r, n)
    [] n.op = "branch" -> step_branch(r, n)
    [] n.op = "join" -> step_join(r, n)
    [] n.op = "command" -> step_command(r, n)
    [] n.op = "wait" -> step_wait(r, n)
    [] n.op \in {"parallel", "race"} -> enter_group(r, n)

\* A run at a node its plan does not have is an error (InvalidPlan).
AtNode(r) == r.node \in DOMAIN Plan.nodes

StepWrites(r) ==
  CASE r.state = "Pending" -> step_pending(r)
    [] r.state # "Pending" /\ AtNode(r) -> NodeWrites(r, Plan.nodes[r.node])
    [] OTHER -> {}

-----------------------------------------------------------------------------
(* The worker                                                              *)

\* The run is open, its version is the active one and its budget is left;
\* otherwise a step does nothing or reports an error.
MayStep ==
  /\ run.state \in Open
  /\ identity.active = run.version
  /\ LET Within(budget) == /\ Len(trace) < budget.trace
                           /\ clock - run.created <= budget.run
     IN Within(Plan.budget)

LoadRun ==
  /\ worker.at = "Idle"
  /\ MayStep
  /\ \E w \in StepWrites(run) : worker' = [at |-> "Commit", write |-> w]
  /\ UNCHANGED <<lifecycleVars, clock, observations, run, timers, trace, commands>>

\* dispatch_command_attempt up to the first call.
BeginDispatch ==
  /\ worker.at = "Idle"
  /\ MayStep
  /\ run.state = "Running"
  /\ AtNode(run)
  /\ Plan.nodes[run.node].op = "command"
  /\ run.attempt.phase \in {"None", "Dispatch"}
  /\ worker' =
       [at |-> "Dispatch", run |-> run, number |-> run.attempt.number,
        todo |-> IF run.attempt.phase = "Dispatch" THEN run.attempt.targets
                 ELSE DOMAIN Plan.nodes[run.node].targets,
        results |-> [i \in {} |-> Confirmed]]
  /\ UNCHANGED <<lifecycleVars, clock, observations, run, timers, trace, commands>>

\* A table with one entry more.
Put(table, key, value) ==
  [k \in {key} \cup DOMAIN table |-> IF k = key THEN value ELSE table[k]]

\* CommandService::execute under the key of this target and attempt: a key
\* that was used before answers with its command.
execute(key, outcome) ==
  commands' = IF key \in DOMAIN commands THEN commands
              ELSE Put(commands, key, [state |-> outcome.state, error |-> outcome.error,
                                       at |-> clock])

DispatchTarget ==
  /\ worker.at = "Dispatch"
  /\ worker.todo # {}
  /\ LET i == Min(worker.todo)
         key == CommandKey(worker.run.node, i, worker.number)
     IN \E outcome \in load.outcomes :
          /\ execute(key, outcome)
          /\ worker' = [worker EXCEPT !.todo = @ \ {i},
                          !.results = Put(@, i, commands'[key])]
  /\ UNCHANGED <<lifecycleVars, clock, observations, run, timers, trace>>

\* The attempt is checkpointed when every target answered.  An error of execute
\* or of the repository on the way leaves the run where Crash leaves it.
EndDispatch ==
  /\ worker.at = "Dispatch"
  /\ worker.todo = {}
  /\ \E w \in checkpoint_command_result(worker.run, Plan.nodes[worker.run.node],
                                        worker.number, worker.results) :
       worker' = [at |-> "Commit",
                  write |-> [w EXCEPT !.sequence = worker.run.revision]]
  /\ UNCHANGED <<lifecycleVars, clock, observations, run, timers, trace, commands>>

CommitStep ==
  /\ worker.at = "Commit"
  /\ commit_step(worker.write)
  /\ worker' = Idle
  /\ UNCHANGED <<lifecycleVars, clock, observations, commands>>

\* The process dies: the step in flight and every call are gone.
Crash ==
  /\ worker # Idle
  /\ spent.faults < load.faults
  /\ spent' = [spent EXCEPT !.faults = @ + 1]
  /\ worker' = Idle
  /\ calls' = [k \in Callers |-> Idle]
  /\ UNCHANGED <<load, registry, draft, versions, approvals, identity, clock,
                 observations, run, timers, trace, commands>>

-----------------------------------------------------------------------------
(* cancel_run, and what else happens around the run                        *)

CancelRun(k) ==
  /\ Begins(k)
  /\ run.state \in Open
  /\ Goto(k, [at |-> "ReadTimers", run |-> run])
  /\ UNCHANGED <<load, registry, draft, versions, approvals, identity, runtimeVars>>

CancelTimers(k) ==
  /\ Continues(k, "ReadTimers")
  /\ LET r == calls[k].run
     IN Goto(k, [at |-> "CancelRun",
                 write |-> Write(r, [checkpoint(r) EXCEPT !.state = "Cancelled"],
                                 Step("Outcome", r.node), {},
                                 {}, OpenTimers)])
  /\ UNCHANGED <<load, registry, draft, versions, approvals, identity, runtimeVars>>

CommitCancel(k) ==
  /\ Continues(k, "CancelRun")
  /\ commit_step(calls[k].write)
  /\ Goto(k, Idle)
  /\ UNCHANGED <<load, registry, draft, versions, approvals, identity, clock,
                 observations, commands, worker>>

\* The scheduler's pass: an accepted occurrence of the active version gets
\* its run, and timers that are due become ready.
CreateRun ==
  /\ worker.at = "Idle"
  /\ run = NoRun
  /\ load.runs
  /\ identity.state = "Active"
  /\ LET plan == PlanOf(versions[identity.active].plan)
     IN run' = [state |-> "Pending", revision |-> 0, version |-> identity.active,
                node |-> plan.entry, variables |-> InitialVariables(plan),
                continuations |-> <<>>, durations |-> {}, shared |-> {},
                attempt |-> NoAttempt, created |-> clock]
  /\ UNCHANGED <<lifecycleVars, clock, observations, timers, trace, commands, worker>>

ReadyTimer ==
  /\ worker.at = "Idle"
  /\ \E t \in DOMAIN timers :
       /\ timers[t] = "Pending"
       /\ t[3] <= clock
       /\ timers' = [timers EXCEPT ![t] = "Ready"]
  /\ UNCHANGED <<lifecycleVars, clock, observations, run, trace, commands, worker>>

\* CommandService stores the terminal state of a dispatched command.
SettleCommand ==
  /\ \E key \in DOMAIN commands, outcome \in load.outcomes :
       /\ commands[key].state = "Dispatched"
       /\ outcome.state # "Dispatched"
       /\ commands' = [commands EXCEPT ![key] =
                         [state |-> outcome.state, error |-> outcome.error,
                          at |-> clock]]
  /\ UNCHANGED <<lifecycleVars, clock, observations, run, timers, trace, worker>>

\* A session or a refresh commits an observation to the foundation snapshot.
Observe ==
  /\ spent.observes < load.observes
  /\ spent' = [spent EXCEPT !.observes = @ + 1]
  /\ \E key \in DOMAIN Observable :
       \E value \in Observable[key] \ {observations[key]} :
         observations' = [observations EXCEPT ![key] = value]
  /\ UNCHANGED <<load, registry, draft, versions, approvals, identity, calls, clock,
                 run, timers, trace, commands, worker>>

\* Time passes up to the bound, and beyond it as far as a timer reaches.
Tick ==
  /\ clock < load.time \/ \E t \in DOMAIN timers : t[3] > clock
  /\ clock' = clock + 1
  /\ UNCHANGED <<lifecycleVars, observations, run, timers, trace, commands, worker>>

WorkerNext ==
  LoadRun \/ BeginDispatch \/ DispatchTarget \/ EndDispatch \/ CommitStep

Init ==
  /\ LifecycleInit
  /\ clock = 0
  /\ observations = InitialObservations
  /\ run = NoRun
  /\ timers = [t \in {} |-> "Pending"]
  /\ trace = <<>>
  /\ commands = [key \in {} |-> Confirmed]
  /\ worker = Idle

Next ==
  \/ LifecycleNext /\ UNCHANGED runtimeVars
  \/ WorkerNext
  \/ Crash
  \/ \E k \in Callers : CancelRun(k) \/ CancelTimers(k) \/ CommitCancel(k)
  \/ CreateRun
  \/ ReadyTimer
  \/ SettleCommand
  \/ Observe
  \/ Tick

Spec == Init /\ [][Next]_vars

\* The worker keeps stepping, timers that are due are made ready, commands
\* settle and time passes; nothing is assumed of the owner.
FairSpec ==
  /\ Spec
  /\ WF_vars(WorkerNext)
  /\ WF_vars(CreateRun) /\ WF_vars(ReadyTimer)
  /\ WF_vars(SettleCommand) /\ WF_vars(Tick)

-----------------------------------------------------------------------------
(* Properties                                                              *)

\* A target is commanded again only because its last attempt ended in an
\* error the policy names, never after a confirmation and never beside an
\* attempt still under way, however often the step that dispatches is cut off
\* and repeated.
OnlyFailuresAreRetried ==
  \A k \in DOMAIN commands :
    LET retry == Plan.nodes[k[1]].retry
        before == CommandKey(k[1], k[2], k[3] - 1)
    IN /\ k[3] <= retry.maximum
       /\ k[3] > 0 => /\ before \in DOMAIN commands
                      /\ commands[before].state = "Failed"
                      /\ commands[before].error \in retry.errors

\* The timers that pending intervals of the run wait for in vain: a shared
\* timer that was consumed or cancelled for the other interval.
LostTimers == PendingTimers(run.durations) \ OpenTimers

\* An open timer belongs to the node its run waits at, a waiting run has
\* something that will wake it, and the timer of a pending interval is open:
\* what a crash, a cancellation or a reset leaves is neither a run that sleeps
\* for ever nor a timer that fires into another node.  Only an interval that
\* ends at the instant another one ends can lose its timer, because the two
\* have one (AutomationTimerId::from_scoped_key).
TimersMatchRun ==
  /\ OpenTimers # {} => /\ run.state = "Waiting"
                        /\ \A t \in OpenTimers : t[1] = run.node
  /\ run.state = "Waiting" =>
       \/ OpenTimers # {}
       \/ run.attempt.phase = "AwaitingOutcome"
       \/ \E d \in run.durations : d.phase = "Mature"
       \/ LostTimers # {}
  /\ run.state \in Open => LostTimers \subseteq run.shared

\* The worker may look at a condition now, and this is what it is told.
EvaluatesCondition ==
  /\ run.state \in {"Running", "Waiting"}
  /\ AtNode(run)
  /\ Plan.nodes[run.node].op \in {"branch", "wait"}
Evaluation == Evaluate(Plan.nodes[run.node].condition, RuntimeContext(run))

\* What the runtime relies on when the evaluator asks it to wait
\* (state_duration): the answer starts an interval the run does not hold, or
\* names one it holds, did not find broken in the same evaluation and has seen
\* the timer of, as it stands.
EvaluatorIsSound ==
  LET Named(q, broken) ==
        {d \in run.durations : /\ d.hash = q.hash /\ d.ready = q.ready
                               /\ d.phase = "Pending" /\ d.hash \notin broken}
      Sound(e) ==
        e.out = "durable" =>
          \/ /\ e.x.request.kind = "Start"
             /\ \A d \in run.durations : d.hash # e.x.request.hash
          \/ /\ e.x.request.kind = "Pending"
             /\ \E d \in Named(e.x.request, e.x.invalid) : timers[d.timer] = "Pending"
          \/ /\ e.x.request.kind = "Mature"
             /\ \E d \in Named(e.x.request, e.x.invalid) : timers[d.timer] = "Ready"
  IN EvaluatesCondition => Sound(Evaluation)

\* A run of the active version that is inside its budget ends: whatever is
\* observed, however the commands settle, and after crashes in the middle of
\* a step.  What keeps one from ending is an interval whose timer went with
\* another interval's (state_duration: DurationTimerMissing), for that is an
\* error of every later step.
RunEnds ==
  run.state \in Open ~>
    \/ run.state \in TerminalStates
    \/ /\ run.state \in Open
       /\ \/ Len(trace) >= Plan.budget.trace
          \/ clock - run.created > Plan.budget.run
          \/ identity.active # run.version
          \/ LostTimers # {}
=============================================================================
