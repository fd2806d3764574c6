------------------------- MODULE AutomationPrograms -------------------------
(***************************************************************************)
(* What an automation document means: the compiler that turns it into a    *)
(* plan of numbered nodes, the evaluator of conditions that the simulator  *)
(* and the runtime share, and the deterministic simulator.                 *)
(*                                                                         *)
(* These are functions of their arguments; a compilation or a simulation   *)
(* is threaded through a record where the code mutates `self'.             *)
(* AutomationLifecycle and AutomationRuntime take simulate and             *)
(* evaluate_automation_condition as parameters; Automation joins them.     *)
(*                                                                         *)
(* Abstractions: a document is a tree of records; names, aliases, spaces   *)
(* and fields are small values; whether a text (cron, time zone, decimal,  *)
(* payload) is well formed is a Boolean of the record that holds it; a     *)
(* value is its type and a number that orders it; findings are the set of  *)
(* their codes; absent options are 0 or a record of kind "none".           *)
(***************************************************************************)
EXTENDS AutomationPlans

CONSTANTS
  Limits,   \* absolute engine bounds: [nodes, depth, width, queue, retries,
            \*   timer, run, trace]
  Words,    \* the words that classify a capability, found in its name
  Fields,   \* capability -> field -> type of the observed value
  Day       \* clock units of a day

-----------------------------------------------------------------------------
(* The compiler                                                            *)

Compiler(doc, reg) ==
  [doc |-> doc, reg |-> reg, nodes |-> <<>>, findings |-> {},
   profiles |-> {}, requirements |-> {}, triggers |-> {}, guard |-> None,
   entry |-> 0]

Out(c, x) == [c |-> c, out |-> x]

finding(c, bad, code) ==
  IF bad THEN [c EXCEPT !.findings = @ \cup {code}] ELSE c

required(c, bad) == finding(c, bad, "RequiredValueMissing")
bound(c, bad) == finding(c, bad, "ResourceBoundExceeded")
incompatible(c, bad) == finding(c, bad, "CapabilityIncompatible")
type_mismatch(c, bad) == finding(c, bad, "TypeMismatch")
invalid_schedule(c, bad) == finding(c, bad, "InvalidSchedule")

push_node(c, node) ==
  Out([c EXCEPT !.nodes = Append(@, node)], Len(c.nodes) + 1)

validate_timer(c, duration) == bound(c, duration \notin 1..Limits.timer)

validate_value(c, value, plain) ==
  LET d == finding(c, value.type = "decimal" /\ ~plain, "InvalidDecimal")
  IN IF value.type = "duration" THEN validate_timer(d, value.n) ELSE d

\* AutomationResourceBudget::validate.
BudgetIsValid(b) ==
  /\ b.nodes \in 1..Limits.nodes
  /\ b.depth \in 1..Limits.depth
  /\ b.width \in 1..Limits.width
  /\ b.queue \in 1..Limits.queue
  /\ b.trace \in 1..Limits.trace
  /\ b.run \in 1..Limits.run

validate_structure(c) ==
  LET doc == c.doc
      c1 == finding(c, doc.oversized, "DocumentTooLarge")
      c2 == required(c1, doc.blank \/ doc.triggers = <<>> \/ doc.actions = <<>>)
      c3 == bound(c2, ~BudgetIsValid(doc.budget))
      c4 == bound(c3, \/ /\ doc.mode.kind = "Queued"
                         /\ doc.mode.limit \notin 1..doc.budget.queue
                      \/ /\ doc.mode.kind = "Parallel"
                         /\ doc.mode.limit \notin 1..doc.budget.width)
      Initial(acc, name) ==
        LET def == doc.variables[name] IN
        IF def.initial = Missing THEN acc
        ELSE type_mismatch(validate_value(acc, def.initial, def.plain),
                           def.initial.type # def.type)
  IN FoldLeft(Initial, c4, SetToSeq(DOMAIN doc.variables))

Selected(reg, target) ==
  SelectSeq(reg.devices,
    LAMBDA d : \/ target.by = "device" /\ d.id = target.ref
               \/ target.by = "alias" /\ target.ref \in d.aliases
               \/ target.by = "space" /\ target.ref \in d.spaces)

EndpointsFor(device, target) ==
  {e \in DOMAIN device.endpoints :
     /\ target.endpoint \in {0, e}
     /\ target.capability \in DOMAIN device.endpoints[e]}

ResolutionCode(target, devices, found) ==
  LET bad == {i \in DOMAIN devices :
                \/ found[i] = {}
                \/ target.endpoint = 0 /\ Cardinality(found[i]) > 1}
  IN CASE devices = <<>> -> "ReferenceMissing"
       [] target.by = "alias" /\ Len(devices) > 1 -> "ReferenceAmbiguous"
       [] \E i \in DOMAIN devices : devices[i].lifecycle # "Enrolled" ->
            "ReferenceStale"
       [] bad # {} -> IF found[Min(bad)] = {} THEN "CapabilityIncompatible"
                                              ELSE "ReferenceAmbiguous"
       [] OTHER -> "Resolved"

\* Every device the selector names must be usable; the endpoints of all of
\* them, in the order of their identities, are the targets.
resolve_target(c, target) ==
  LET Earlier(s, t) == s[1] < t[1] \/ (s[1] = t[1] /\ s[2] < t[2])
      Targets(devices, found) ==
        UNION {{<<devices[i].id, e, target.capability>> : e \in found[i]} :
                 i \in DOMAIN devices}
      Answer(code, targets) ==
        [c |-> finding(c, code # "Resolved", code), ok |-> code = "Resolved",
         targets |-> SetToSortSeq(targets, Earlier)]
      Among(devices, found) == Answer(ResolutionCode(target, devices, found),
                                      Targets(devices, found))
      Search(devices) == Among(devices, [i \in DOMAIN devices |->
                                           EndpointsFor(devices[i], target)])
  IN Search(Selected(c.reg, target))

FieldIsDefined(capability, field) ==
  capability \in DOMAIN Fields /\ field \in DOMAIN Fields[capability]

validate_observation_field(c, capability, field) ==
  incompatible(c, ~FieldIsDefined(capability, field))

compile_expression(c, e) ==
  LET Fail(d) == [c |-> d, ok |-> FALSE, expr |-> None, type |-> "missing"]
      Typed(d, expr, type) == [c |-> d, ok |-> TRUE, expr |-> expr, type |-> type]
      defined == FieldIsDefined(e.target.capability, e.field)
      Observed(r) ==
        IF r.ok /\ defined /\ Len(r.targets) = 1
        THEN Typed(r.c, [kind |-> "observation", targets |-> r.targets,
                         field |-> e.field],
                   Fields[e.target.capability][e.field])
        ELSE Fail(type_mismatch(r.c, r.ok /\ defined))
  IN CASE e.kind = "literal" ->
            Typed(validate_value(c, e.value, e.plain), e, e.value.type)
       [] e.kind = "variable" ->
            IF e.name \in DOMAIN c.doc.variables
            THEN Typed(c, e, c.doc.variables[e.name].type)
            ELSE Fail(type_mismatch(c, TRUE))
       [] e.kind = "observation" ->
            Observed(resolve_target(
              validate_observation_field(c, e.target.capability, e.field), e.target))

RECURSIVE compile_condition(_, _, _)
compile_condition_list(c, conditions, depth) ==
  LET Add(parts, r) == Out(r.c, Append(parts, r.out))
  IN FoldLeft(LAMBDA acc, k : Add(acc.out, compile_condition(acc.c, k, depth + 1)),
              Out(required(c, conditions = <<>>), <<>>), conditions)

\* Both sides of a comparison compiled.
compile_comparison(k, l, r) ==
  Out(type_mismatch(r.c, l.ok /\ r.ok /\
        (\/ l.type # r.type
         \/ k.op \notin {"eq", "ne"} /\ l.type \in {"null", "boolean"})),
      IF l.ok /\ r.ok THEN [k EXCEPT !.left = l.expr, !.right = r.expr] ELSE None)

compile_condition(c, k, depth) ==
  LET Right(l) == compile_comparison(k, l, compile_expression(l.c, k.right))
      Parts(r) == Out(r.c, IF None \in ToSet(r.out) THEN None
                           ELSE [k EXCEPT !.parts = r.out])
      Inner(r) == Out(r.c, IF r.out = None THEN None ELSE [k EXCEPT !.inner = r.out])
  IN IF depth > c.doc.budget.depth THEN Out(bound(c, TRUE), None)
     ELSE CASE k.kind = "literal" -> Out(c, k)
       [] k.kind = "compare" -> Right(compile_expression(c, k.left))
       [] k.kind \in {"all", "any"} -> Parts(compile_condition_list(c, k.parts, depth))
       [] k.kind = "window" -> Out(invalid_schedule(c, ~k.valid), k)
       [] k.kind \in {"not", "duration"} ->
            Inner(compile_condition(IF k.kind = "not" THEN c
                                    ELSE validate_timer(c, k.duration),
                                    k.inner, depth + 1))

validate_schedule(c, s) ==
  bound(invalid_schedule(c, ~s.valid), s.window \notin 1..Limits.timer)

compile_trigger(c, t) ==
  LET Resolved(r) == Out(r.c, IF r.ok THEN [t EXCEPT !.target = ToSet(r.targets)]
                                      ELSE None)
      Checked == CASE t.kind = "observation" ->
                        IF t.field = "any" THEN c
                        ELSE validate_observation_field(c, t.target.capability,
                                                        t.field)
                   [] t.kind = "event" -> required(c, t.event = "")
                   [] t.kind = "outcome" -> required(c, t.states = {})
  IN CASE t.kind = "schedule" -> Out(validate_schedule(c, t), t)
       [] t.kind = "outcome" /\ t.target = None ->
            Out(required(c, t.states = {}), t)
       [] OTHER -> Resolved(resolve_target(Checked, t.target))

compile_triggers(c) ==
  LET Keep(d, r) == [r.c EXCEPT !.triggers = d.triggers \cup ({r.out} \ {None})]
  IN FoldLeft(LAMBDA d, t : Keep(d, compile_trigger(d, t)), c, c.doc.triggers)

\* The risk of the first target that has a descriptor (find_map).
resolved_risk(c, targets) ==
  LET Descriptors(t) ==
        UNION {{d.endpoints[e][t[3]] : e \in {t[2]} \cap EndpointsFor(d,
                                        [endpoint |-> t[2], capability |-> t[3]])} :
                 d \in {x \in ToSet(c.reg.devices) : x.id = t[1]}}
      described == {i \in DOMAIN targets : Descriptors(targets[i]) # {}}
  IN IF described = {} THEN "none"
     ELSE (CHOOSE d \in Descriptors(targets[Min(described)]) : TRUE).risk

position_is_calibrated(c, target) ==
  \E d \in ToSet(Selected(c.reg, target)) :
     /\ target.endpoint \in DOMAIN d.endpoints
     /\ \E capability \in DOMAIN d.endpoints[target.endpoint] :
          d.endpoints[target.endpoint][capability].position

safety_profile(c, target, targets, payload) ==
  LET words == Words[target.capability] IN
  CASE words \cap {"lock", "door"} # {} -> "access_control"
    [] words \cap {"valve", "flow"} # {} -> "flow_control"
    [] \/ words \cap {"camera", "security"} # {}
       \/ resolved_risk(c, targets) = "Security" -> "security"
    [] payload.position # "none" -> "comfort_motion"
    [] OTHER -> "comfort"

classify_command(c, target, targets, payload) ==
  LET As(profile, absolute) ==
        [finding(c, absolute /\ ~position_is_calibrated(c, target),
                 "SafetyConstraintUnavailable")
           EXCEPT !.profiles = @ \cup {profile},
                  !.requirements = @
                    \cup (IF profile = "comfort_motion"
                          THEN {"fresh_state", "stop_support"} ELSE {})
                    \cup (IF absolute THEN {"calibration", "position"} ELSE {})]
      Profiled(profile) ==
        As(profile, profile = "comfort_motion" /\ payload.position = "go_to")
  IN Profiled(safety_profile(c, target, targets, payload))

RECURSIVE reduce_actions(_)
reduce_failure(policy) ==
  IF policy.policy = "Fallback"
  THEN [policy EXCEPT !.actions = reduce_actions(@)] ELSE policy

reduce_nested(a) ==
  CASE a.op = "sequence" -> [a EXCEPT !.actions = reduce_actions(@)]
    [] a.op = "if" -> [a EXCEPT !.then_actions = reduce_actions(@),
                                !.else_actions = reduce_actions(@)]
    [] a.op \in {"parallel", "race"} ->
         [a EXCEPT !.branches = [b \in DOMAIN @ |-> reduce_actions(@[b])]]
    [] a.op = "wait" -> [a EXCEPT !.on_timeout = reduce_failure(@)]
    [] OTHER -> a

\* Of an uninterrupted run of commands only the last one to each authored
\* target is kept.
reduce_actions(actions) ==
  LET Replaced(i) ==
        \E j \in i + 1 .. Len(actions) :
           /\ \A m \in i..j : actions[m].op = "command"
           /\ actions[j].target = actions[i].target
      kept == SetToSortSeq({i \in DOMAIN actions : ~Replaced(i)}, <)
  IN [k \in DOMAIN kept |-> reduce_nested(actions[kept[k]])]

RECURSIVE compile_actions(_, _, _, _)
compile_failure(c, policy, next, depth) ==
  LET Entered(r) == Out(r.c, [policy |-> "Fallback", entry |-> r.out]) IN
  IF policy.policy # "Fallback"
  THEN Out(c, [policy |-> policy.policy, entry |-> 0])
  ELSE Entered(compile_actions(required(c, policy.actions = <<>>),
                               reduce_actions(policy.actions), next, depth))

compile_command(c, a, next, depth) ==
  LET Payload == incompatible(c, \/ a.payload.schema # a.target.capability
                                 \/ ~a.payload.valid)
      Retry == bound(Payload, \/ a.retry.maximum > Limits.retries
                              \/ a.retry.backoff > Limits.timer)
      Node(t, f) ==
        IF ~t.ok THEN Out(f.c, 0)
        ELSE push_node(classify_command(f.c, a.target, t.targets, a.payload),
               [op |-> "command", targets |-> t.targets, retry |-> a.retry,
                on_failure |-> f.out, next |-> next])
      Failing(t) == Node(t, compile_failure(t.c, a.on_failure, next, depth + 1))
  IN Failing(resolve_target(Retry, a.target))

compile_wait(c, a, next, depth) ==
  LET Node(k, f) ==
        IF k.out = None THEN Out(f.c, 0)
        ELSE push_node(f.c, [op |-> "wait", condition |-> k.out,
                             timeout |-> a.timeout, on_timeout |-> f.out,
                             next |-> next])
      Failing(k) == Node(k, compile_failure(k.c, a.on_timeout, next, depth + 1))
  IN Failing(compile_condition(validate_timer(c, a.timeout), a.condition, depth + 1))

compile_set(c, a, next) ==
  LET declared == a.name \in DOMAIN c.doc.variables
      Typed(e) ==
        type_mismatch(e.c, ~declared \/ (/\ e.ok
                                         /\ c.doc.variables[a.name].type # e.type))
      Node(e) == IF declared /\ e.ok
                 THEN push_node(Typed(e), [op |-> "set", name |-> a.name,
                                           value |-> e.expr, next |-> next])
                 ELSE Out(Typed(e), 0)
  IN Node(compile_expression(c, a.value))

compile_if(c, a, next, depth) ==
  LET Branch(j, t, e, k) ==
        IF k.out = None THEN Out(k.c, 0)
        ELSE push_node(k.c, [op |-> "branch", condition |-> k.out,
                             then_node |-> t, else_node |-> e, join |-> j])
      Guard(j, t, e) == Branch(j, t, e.out,
                               compile_condition(e.c, a.condition, depth + 1))
      Else(j, t) == Guard(j, t.out,
        compile_actions(t.c, reduce_actions(a.else_actions), j, depth + 1))
      Then(j) == Else(j.out,
        compile_actions(j.c, reduce_actions(a.then_actions), j.out, depth + 1))
  IN Then(push_node(finding(c, a.condition.kind = "literal", "ImpossibleBranch"),
                    [op |-> "join", next |-> next]))

compile_group(c, a, next, depth) ==
  LET width == c.doc.budget.width
      Checked == bound(required(c, a.branches = <<>> \/ <<>> \in ToSet(a.branches)),
                       \/ Len(a.branches) > width
                       \/ a.maximum \notin 1..Len(a.branches)
                       \/ a.maximum > width)
      Add(entries, r) == Out(r.c, IF r.out = 0 THEN entries
                                               ELSE Append(entries, r.out))
      Branches(j) ==
        FoldLeft(LAMBDA acc, b : Add(acc.out,
                   compile_actions(acc.c, reduce_actions(b), j.out, depth + 1)),
                 Out(j.c, <<>>), a.branches)
      Node(j, b) == push_node(b.c, [op |-> a.op, branches |-> b.out, join |-> j])
      Join(j) == Node(j.out, Branches(j))
  IN Join(push_node(Checked, [op |-> "join", next |-> next]))

compile_action(c, a, next, depth) ==
  CASE a.op = "command" -> compile_command(c, a, next, depth)
    [] a.op = "delay" -> push_node(validate_timer(c, a.duration),
                           [op |-> "delay", duration |-> a.duration, next |-> next])
    [] a.op = "wait" -> compile_wait(c, a, next, depth)
    [] a.op = "set" -> compile_set(c, a, next)
    [] a.op = "sequence" -> compile_actions(c, reduce_actions(a.actions), next,
                                            depth + 1)
    [] a.op = "if" -> compile_if(c, a, next, depth)
    [] a.op \in {"parallel", "race"} -> compile_group(c, a, next, depth)

\* The last action first: each node is given the one that follows it.
compile_actions(c, actions, next, depth) ==
  IF depth > c.doc.budget.depth THEN Out(bound(c, TRUE), next)
  ELSE FoldRight(LAMBDA a, acc : compile_action(acc.c, a, acc.out, depth),
                 actions, Out(c, next))

GovernedProfiles == {"access_control", "flow_control", "security"}

\* Mutant: approval only when every command is governed.
approval_if_all_governed(profiles) ==
  IF profiles \subseteq GovernedProfiles
  THEN "ExplicitUserApproval" ELSE "ActivationGrant"

approval_requirement(profiles) ==
  IF profiles \cap GovernedProfiles # {}
  THEN "ExplicitUserApproval" ELSE "ActivationGrant"

compile_guard(c) ==
  LET Keep(r) == [r.c EXCEPT !.guard = r.out] IN
  IF c.doc.condition = None THEN c
  ELSE Keep(compile_condition(c, c.doc.condition, 1))

compile_body(c) ==
  LET Body(complete) == compile_actions(complete.c, reduce_actions(c.doc.actions),
                                        complete.out, 1)
      Keep(r) == bound([r.c EXCEPT !.entry = r.out],
                       Len(r.c.nodes) > c.doc.budget.nodes)
  IN Keep(Body(push_node(c, [op |-> "complete"])))

finished_plan(c, approval) ==
  [ok |-> c.findings = {} /\ c.entry # 0, findings |-> c.findings,
   version |-> c.doc.version, variables |-> c.doc.variables,
   triggers |-> c.triggers, condition |-> c.guard, mode |-> c.doc.mode,
   self_trigger |-> c.doc.self_trigger, entry |-> c.entry, nodes |-> c.nodes,
   profiles |-> c.profiles, approval |-> approval, budget |-> c.doc.budget,
   requirements |-> c.requirements
     \cup (IF approval = "ExplicitUserApproval" THEN {"explicit_approval"} ELSE {})]

compile(doc, reg) ==
  LET Finish(c) == finished_plan(c, approval_requirement(c.profiles))
  IN Finish(compile_body(compile_guard(compile_triggers(
       validate_structure(Compiler(doc, reg))))))

-----------------------------------------------------------------------------
(* The evaluator.  A context x holds the instant, the variables, the       *)
(* observations and what its host keeps: the simulator the changes still   *)
(* to come, the runtime the durable intervals, their timers and what it    *)
(* has to ask of the store.                                                *)

Answer(x, yes) == [x |-> x, out |-> IF yes THEN "yes" ELSE "no"]

compare_values(l, op, r) ==
  IF l.type # r.type \/ l.type = "missing" THEN "error"
  ELSE LET holds == CASE op = "eq" -> l.n = r.n
                      [] op = "ne" -> l.n # r.n
                      [] op = "lt" -> l.n < r.n
                      [] op = "le" -> l.n <= r.n
                      [] op = "gt" -> l.n > r.n
                      [] op = "ge" -> l.n >= r.n
       IN IF holds THEN "yes" ELSE "no"

evaluate_time_window(k, x) ==
  LET local == (x.now + k.offset) % Day
  IN Answer(x, IF k.start <= k.end THEN k.start <= local /\ local < k.end
                                   ELSE k.start <= local \/ local < k.end)

advance_to(x, at) ==
  LET due == SelectSeq(x.changes, LAMBDA ch : ch.at <= at)
  IN [x EXCEPT !.state = FoldLeft(LAMBDA s, ch : (ch.key :> ch.value) @@ s, @, due),
               !.changes = SubSeq(@, Len(due) + 1, Len(@)),
               !.now = IF at > @ THEN at ELSE @]

HasChangeThrough(x, deadline) ==
  x.changes # <<>> /\ Head(x.changes).at <= deadline

\* The element of a singleton; written so, TLC computes it once.
Only(S) == CHOOSE x \in S : TRUE

RECURSIVE evaluate_automation_condition(_, _)

\* The simulator holds the condition up to the end of the interval, looking
\* again at every change on the way.
RECURSIVE HoldUntil(_, _, _)
HoldUntil(inner, x, deadline) ==
  LET Held(r) == IF r.out = "yes" THEN HoldUntil(inner, r.x, deadline) ELSE r IN
  IF HasChangeThrough(x, deadline)
  THEN Held(evaluate_automation_condition(inner, advance_to(x, Head(x.changes).at)))
  ELSE evaluate_automation_condition(inner, advance_to(x, deadline))

simulated_duration(k, x) ==
  LET Held(r) == IF r.out = "yes" THEN HoldUntil(k.inner, r.x, r.x.now + k.duration)
                 ELSE r
  IN Held(evaluate_automation_condition(k.inner, x))

\* The runtime never waits: it asks for a durable interval and its timer.
runtime_duration(k, x, r) ==
  LET Ask(request) == [x |-> [r.x EXCEPT !.request = request], out |-> "durable"]
      held == {d \in x.durations : d.hash = k}
      d == CHOOSE h \in held : TRUE
  IN CASE r.out = "no" -> Answer([r.x EXCEPT !.invalid = @ \cup {k}], FALSE)
       [] r.out \notin {"yes", "no"} -> r
       [] r.out = "yes" /\ held = {} ->
            Ask([kind |-> "Start", hash |-> k, ready |-> x.now + k.duration])
       [] r.out = "yes" /\ held # {} /\ d.phase = "Mature" -> Answer(r.x, TRUE)
       [] r.out = "yes" /\ held # {} /\ d.phase = "Pending" ->
            CASE x.timers[d.timer] = "Pending" ->
                   Ask([kind |-> "Pending", hash |-> k, ready |-> d.ready])
              [] x.timers[d.timer] = "Ready" ->
                   Ask([kind |-> "Mature", hash |-> k, ready |-> d.ready])
              [] OTHER -> [x |-> r.x, out |-> "error"]

evaluate_automation_condition(k, x) ==
  CASE k.kind = "literal" -> Answer(x, k.value)
    [] k.kind = "compare" ->
         [x |-> x,
          out |-> compare_values(evaluate_automation_expression(k.left, x), k.op,
                                 evaluate_automation_expression(k.right, x))]
    [] k.kind \in {"all", "any"} ->
         LET on == IF k.kind = "all" THEN "yes" ELSE "no"
             Decide(acc, part) ==
               Only({IF a.out = on THEN evaluate_automation_condition(part, a.x) ELSE a :
                       a \in {acc}})
         IN FoldLeft(Decide, [x |-> x, out |-> on], k.parts)
    [] k.kind = "not" ->
         LET Negated(r) == IF r.out \in {"yes", "no"} THEN Answer(r.x, r.out = "no")
                                                      ELSE r
         IN Negated(evaluate_automation_condition(k.inner, x))
    [] k.kind = "window" -> evaluate_time_window(k, x)
    [] k.kind = "duration" ->
         IF x.host = "simulation" THEN simulated_duration(k, x)
         ELSE Only({runtime_duration(k, x, r) :
                       r \in {evaluate_automation_condition(k.inner, x)}})

-----------------------------------------------------------------------------
(* The simulator.  An interpreter m holds the evaluation context x, the    *)
(* declared outcomes left, the intents and the length of the trace.  A     *)
(* flow is "Completed", "StopRun", "StopBranch" or "Error".                *)

Interpreter(plan, fixture) ==
  [x |-> [host |-> "simulation", now |-> fixture.trigger.accepted,
          vars |-> InitialVariables(plan), state |-> fixture.state,
          changes |-> SortSeq(fixture.changes, LAMBDA a, b : a.at < b.at)],
   outcomes |-> fixture.outcomes, intents |-> <<>>, trace |-> 0, steps |-> 0,
   flow |-> "Completed"]

Flow(m, flow) == [m EXCEPT !.flow = flow]

trace_step(plan, m) ==
  IF m.trace >= plan.budget.trace THEN Flow(m, "Error")
  ELSE [m EXCEPT !.trace = @ + 1]

consume_budget(plan, fixture, m) ==
  IF \/ m.steps + 1 > plan.budget.trace
     \/ m.trace >= plan.budget.trace
     \/ m.x.now - fixture.trigger.accepted > plan.budget.run
  THEN Flow(m, "Error")
  ELSE [m EXCEPT !.steps = @ + 1, !.flow = "Completed"]

\* One command node: attempts until one is confirmed or none is left.
RECURSIVE attempt_command(_, _, _, _)
attempt_command(plan, m, node, attempt) ==
  LET retry == plan.nodes[node].retry
      Attempted(m1, outcome) ==
        CASE m1.flow = "Error" \/ outcome.state = "Confirmed" -> m1
          [] /\ m1.flow # "Error" /\ outcome.state # "Confirmed"
             /\ attempt < retry.maximum /\ outcome.error \in retry.errors ->
               attempt_command(plan,
                 [m1 EXCEPT !.x = advance_to(@, @.now + retry.backoff)],
                 node, attempt + 1)
          [] OTHER -> Flow(m1, "Failed")
      With(outcome) ==
        Attempted(trace_step(plan,
          [m EXCEPT !.outcomes = IF @ = <<>> THEN @ ELSE Tail(@),
                    !.intents = Append(@, [node |-> node, attempt |-> attempt,
                                           outcome |-> outcome])]), outcome)
  IN With(IF m.outcomes = <<>> THEN Confirmed ELSE Head(m.outcomes))

\* One wait node: the condition is looked at again at every change up to the
\* deadline.
RECURSIVE wait_for(_, _, _)
wait_for(m, k, deadline) ==
  LET Looked(m1, out) ==
        CASE out = "yes" -> m1
          [] out = "error" -> Flow(m1, "Error")
          [] out = "no" /\ HasChangeThrough(m1.x, deadline) ->
               wait_for([m1 EXCEPT !.x = advance_to(@, Head(@.changes).at)],
                        k, deadline)
          [] out = "no" /\ ~HasChangeThrough(m1.x, deadline) ->
               Flow([m1 EXCEPT !.x = advance_to(@, deadline)], "Failed")
      Look(r) == Looked([m EXCEPT !.x = r.x], r.out)
  IN Look(evaluate_automation_condition(k, m.x))

RECURSIVE execute_from(_, _, _, _, _)

\* The continuation of a failed node runs to the end of the plan: it is not
\* told the join its branch stops before.
apply_simulated_failure(plan, fixture, m, policy, next) ==
  CASE policy.policy \in {"StopRun", "StopBranch"} -> Flow(m, policy.policy)
    [] policy.policy = "Continue" ->
         execute_from(plan, fixture, Flow(m, "Completed"), next, 0)
    [] policy.policy = "Fallback" ->
         execute_from(plan, fixture, Flow(m, "Completed"),
                      OrElse(policy.entry, next), 0)

execute_group(plan, fixture, m, n) ==
  LET Goes(acc) == \/ n.op = "parallel" /\ acc.flow \notin {"StopRun", "Error"}
                   \/ n.op = "race" /\ acc.flow = "StopBranch"
      End(g) == IF g.flow # "StopBranch" THEN g
                ELSE Flow(g, IF n.op = "race" THEN "StopRun" ELSE "Completed")
  IN End(FoldLeft(LAMBDA acc, b :
                    IF Goes(acc) THEN execute_from(plan, fixture,
                                        Flow(acc, "Completed"), b, n.join)
                                 ELSE acc,
                  Flow(m, "StopBranch"), n.branches))

\* One node, n, of the plan: what it does and the node it goes on to.
execute_node(plan, m, node, n) ==
  LET To(k, next) == [m |-> k, next |-> next, policy |-> None]
      Failing(k, policy) == [m |-> k, next |-> n.next, policy |-> policy]
      Commanded(k) == IF k.flow = "Failed" THEN Failing(k, n.on_failure)
                                           ELSE To(k, n.next)
      Waited(k) == IF k.flow = "Error" THEN To(k, 0)
                   ELSE IF k.flow = "Failed"
                   THEN Failing(trace_step(plan, k), n.on_timeout)
                   ELSE To(trace_step(plan, k), n.next)
      Set(v) == To(IF v = Missing THEN Flow(m, "Error")
                   ELSE trace_step(plan, [m EXCEPT !.x.vars = (n.name :> v) @@ @]),
                   n.next)
      Branch(r) == To(IF r.out = "error" THEN Flow(m, "Error")
                      ELSE trace_step(plan, [m EXCEPT !.x = r.x]),
                      OrElse(IF r.out = "yes" THEN n.then_node ELSE n.else_node,
                             n.join))
  IN CASE n.op = "complete" -> To(trace_step(plan, m), 0)
       [] n.op = "join" -> To(m, n.next)
       [] n.op = "delay" ->
            To(trace_step(plan, [m EXCEPT !.x = advance_to(@, @.now + n.duration)]),
               n.next)
       [] n.op = "command" -> Commanded(attempt_command(plan, m, node, 0))
       [] n.op = "wait" -> Waited(wait_for(m, n.condition, m.x.now + n.timeout))
       [] n.op = "set" -> Set(evaluate_automation_expression(n.value, m.x))
       [] n.op = "branch" -> Branch(evaluate_automation_condition(n.condition, m.x))

execute_from(plan, fixture, m0, node, stop) ==
  LET n == plan.nodes[node]
      Go(k, next) == IF k.flow = "Completed"
                     THEN execute_from(plan, fixture, k, next, stop) ELSE k
      Went(r) == IF r.policy = None \/ r.m.flow = "Error" THEN Go(r.m, r.next)
                 ELSE apply_simulated_failure(plan, fixture, r.m, r.policy, r.next)
      Execute(m) ==
        CASE m.flow = "Error" -> m
          [] m.flow # "Error" /\ n.op \in {"parallel", "race"} ->
               Go(execute_group(plan, fixture, m, n), n.join)
          [] OTHER -> Went(execute_node(plan, m, node, n))
  IN IF node = 0 \/ node = stop THEN Flow(m0, "Completed")
     ELSE Execute(consume_budget(plan, fixture, m0))

trigger_matches(plan, t) ==
  \/ t.kind = "catch_up" /\ t.catch_up
  \/ \E p \in plan.triggers :
       /\ p.kind = t.kind
       /\ CASE t.kind = "schedule" -> TRUE
            [] t.kind = "observation" -> /\ t.target \in p.target
                                         /\ p.field \in {"any", t.field}
            [] t.kind = "event" -> t.target \in p.target /\ p.event = t.event
            [] t.kind = "outcome" -> /\ p.target = None \/ t.target \in p.target
                                     /\ t.state \in p.states

trigger_suppressed(plan, t) ==
  \/ /\ plan.self_trigger = "SuppressSameVersion"
     /\ t.caused_by = plan.version
  \/ plan.self_trigger = "SuppressSameCorrelation" /\ t.same_correlation
  \/ plan.mode.kind = "Single" /\ t.active > 0
  \/ plan.mode.kind = "Queued" /\ t.queued >= plan.mode.limit
  \/ plan.mode.kind = "Parallel" /\ t.active >= plan.mode.limit

\* The trigger is refused with a status, or the guard of the plan is
\* evaluated: the flow of the result is then "Completed".
accept_trigger(plan, fixture, m) ==
  LET t == fixture.trigger
      matches == trigger_matches(plan, t)
      missed == t.accepted > t.window_end /\ ~t.catch_up
      End(k, status) == IF k.flow = "Error" THEN k ELSE Flow(k, status)
      Guarded(k, r) ==
        IF r.out = "error" THEN Flow(k, "Error")
        ELSE End(trace_step(plan, [k EXCEPT !.x = r.x]),
                 IF r.out = "yes" THEN "Completed" ELSE "Suppressed")
      Accepted(k) == IF k.flow = "Error" \/ plan.condition = None THEN k
                     ELSE Guarded(k, evaluate_automation_condition(plan.condition, k.x))
      status == CASE ~matches -> "Suppressed"
                  [] matches /\ missed -> "MissedSkipped"
                  [] matches /\ ~missed /\ trigger_suppressed(plan, t) -> "Suppressed"
                  [] OTHER -> "Accepted"
  IN IF status = "Accepted" THEN Accepted(trace_step(plan, m))
                            ELSE End(trace_step(plan, m), status)

simulate(plan, fixture) ==
  LET Run(m) == IF m.flow = "Completed"
                THEN execute_from(plan, fixture, m, plan.entry, 0) ELSE m
      Result(m, status) == [status |-> status, intents |-> m.intents,
                            variables |-> m.x.vars, trace |-> m.trace]
      Failed(m) == Result(m, IF m.flow = "Error" THEN "Error" ELSE "Failed")
      Finish(m) == IF m.flow \in {"StopRun", "StopBranch"}
                   THEN Failed(trace_step(plan, m)) ELSE Result(m, m.flow)
  IN Finish(Run(accept_trigger(plan, fixture, Interpreter(plan, fixture))))

=============================================================================
