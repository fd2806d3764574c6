---------------------------- MODULE MCAutomation ----------------------------
(***************************************************************************)
(* TLC instances of Automation and, through it, of the lifecycle, the      *)
(* runtime and the compiler: a home with two lamps in one room and a lock, *)
(* two documents for the lifecycle and one per kind of run.                *)
(***************************************************************************)
EXTENDS Automation

MCLimits == [nodes |-> 20, depth |-> 6, width |-> 3, queue |-> 2, retries |-> 2,
             timer |-> 10, run |-> 20, trace |-> 30]
MCWords == [onoff |-> {}, lock |-> {"lock"}]
MCFields == [onoff |-> [on |-> "boolean"], lock |-> [locked |-> "boolean"]]

Device(id, capability) ==
  [id |-> id, aliases |-> {id}, spaces |-> IF id = 3 THEN {} ELSE {1},
   lifecycle |-> "Enrolled",
   endpoints |-> <<(capability :> [risk |-> "Comfort", position |-> FALSE])>>]

Home == [devices |-> <<Device(1, "onoff"), Device(2, "onoff"), Device(3, "lock")>>]
\* The lock has left.
SmallHome == [devices |-> SubSeq(Home.devices, 1, 2)]
MCRegistries == <<Home, SmallHome>>

Lamp(id) == [by |-> "device", ref |-> id, endpoint |-> 1, capability |-> "onoff"]
Room == [by |-> "space", ref |-> 1, endpoint |-> 0, capability |-> "onoff"]
Lock == [by |-> "alias", ref |-> 3, endpoint |-> 0, capability |-> "lock"]

Never == [maximum |-> 0, backoff |-> 0, errors |-> {}]
Once == [maximum |-> 1, backoff |-> 1, errors |-> {"timeout"}]

Command(target, retry, policy) ==
  [op |-> "command", target |-> target, retry |-> retry,
   payload |-> [schema |-> target.capability, valid |-> TRUE, position |-> "none"],
   on_failure |-> policy]
Policy(name) == [policy |-> name]
Fallback(actions) == [policy |-> "Fallback", actions |-> actions]
Switch(id) == Command(Lamp(id), Never, Policy("StopRun"))
Delay(n) == [op |-> "delay", duration |-> n]
Group(kind, branches) == [op |-> kind, branches |-> branches, maximum |-> 1]

Integer(n) == [type |-> "integer", n |-> n]
Truth(n) == [type |-> "boolean", n |-> n]
Literal(value) == [kind |-> "literal", value |-> value, plain |-> TRUE]
Variable == [kind |-> "variable", name |-> "v"]
Set(n) == [op |-> "set", name |-> "v", value |-> Literal(Integer(n))]
Compare(l, op, r) == [kind |-> "compare", left |-> l, op |-> op, right |-> r]
If(k, yes, no) == [op |-> "if", condition |-> k, then_actions |-> yes,
                   else_actions |-> no]
IsOn == Compare([kind |-> "observation", target |-> Lamp(1), field |-> "on"],
                "eq", Literal(Truth(1)))
OnFor(n) == [kind |-> "duration", inner |-> IsOn, duration |-> n]
Early == [kind |-> "window", valid |-> TRUE, offset |-> 0, start |-> 0, end |-> 2]

Later(n) == [Early EXCEPT !.start = n, !.end = 8]
WaitFor(n, k) == [op |-> "wait", timeout |-> n, condition |-> k,
                  on_timeout |-> Policy("Continue")]

Document(version, actions) ==
  [version |-> version, oversized |-> FALSE, blank |-> FALSE,
   variables |-> [v |-> [type |-> "integer", initial |-> Integer(0),
                         plain |-> TRUE]],
   triggers |-> <<[kind |-> "schedule", valid |-> TRUE, window |-> 2],
                  [kind |-> "observation", target |-> Lamp(1), field |-> "on"]>>,
   condition |-> None, actions |-> actions,
   mode |-> [kind |-> "Single", limit |-> 0],
   self_trigger |-> "SuppressSameVersion",
   budget |-> [nodes |-> 20, depth |-> 6, width |-> 3, queue |-> 1, trace |-> 30,
               run |-> 20]]

MCDocuments == <<
  \* 1, 2: a lamp; a lamp and, only if it fails, a lock
  Document(1, <<Switch(1)>>),
  Document(2, <<Command(Lamp(1), Never, Fallback(<<Command(Lock, Never,
                   Policy("Continue"))>>))>>),
  \* 3: a race whose first branch commands two targets with a retry
  Document(1, <<Group("race",
                 << <<Command(Room, Once, Policy("StopBranch")), Set(1)>>,
                    <<Delay(1), Set(2)>> >>),
               If(Compare(Variable, "gt", Literal(Integer(1))),
                  <<Command(Lamp(1), Never, Policy("Continue"))>>, <<>>),
               Set(3)>>),
  \* 4: a parallel group around a group, and a stopped branch
  Document(1, <<Group("parallel",
                 << <<Switch(1), Set(1)>>,
                    <<Group("race",
                        << <<Command(Lamp(2), Once, Policy("StopBranch"))>>,
                           <<Command(Lamp(1), Never, Policy("StopBranch"))>> >>),
                      Set(2)>> >>),
               Command(Lamp(2), Never, Fallback(<<Set(4)>>))>>),
  \* 5: a wait for a state that lasts inside a window, its timeout, and a
  \* choice by duration
  Document(1, <<[op |-> "wait", timeout |-> 2,
                 condition |-> [kind |-> "all", parts |-> <<Early, OnFor(1)>>],
                 on_timeout |-> Fallback(<<Set(1)>>)],
               If([kind |-> "not", inner |-> OnFor(1)], <<Set(2)>>, <<>>)>>),
  \* 6: a failure inside a parallel branch that the document says to pass over
  Document(1, <<Group("parallel",
                 << <<Command(Lamp(1), Never, Policy("Continue"))>>,
                    <<Set(1)>> >>),
               Switch(2)>>),
  \* 7: a command with a retry
  Document(1, <<Command(Lamp(1), Once, Policy("StopRun"))>>),
  \* 8: a wait for the lamp to be on for 1, or for 2 once it is late
  Document(1, <<WaitFor(4, [kind |-> "any", parts |-> <<
                 [kind |-> "all", parts |-> <<Later(1), OnFor(2)>>], OnFor(1)>>])>>),
  \* 9: a wait for the lamp to be on for 2, or for 1 once it is late: the two
  \* intervals may end together
  Document(1, <<WaitFor(4, [kind |-> "any", parts |-> <<
                 [kind |-> "all", parts |-> <<Later(1), OnFor(1)>>], OnFor(2)>>])>>),
  \* 10, 11: more steps, and more time, than the budget allows
  [Document(1, <<Set(1), Delay(1), Switch(1)>>) EXCEPT !.budget.trace = 3],
  [Document(1, <<Delay(2), Switch(1)>>) EXCEPT !.budget.run = 1]
>>

MCPlans == CompiledPlans
MCGoverned == {doc \in DocumentIds : IsGoverned(doc)}

LampKey == << <<1, 1, "onoff">>, "on">>
MCObservations == (LampKey :> Truth(0))
MCObservable == (LampKey :> {Truth(0), Truth(1)})

Fixture(outcome) ==
  [trigger |-> [kind |-> "schedule", catch_up |-> FALSE, accepted |-> 0,
                window_end |-> 1, active |-> 0, queued |-> 0, caused_by |-> 0,
                same_correlation |-> FALSE],
   state |-> MCObservations, changes |-> <<>>, outcomes |-> <<outcome>>]

Late == [state |-> "Failed", error |-> "timeout"]
Refused == [state |-> "Failed", error |-> "rejected"]
InFlight == [state |-> "Dispatched", error |-> "none"]

MCInputs == {Fixture(Confirmed), Fixture(Refused)}

Authoring == [doc |-> 0, docs |-> {1, 2}, calls |-> 6, faults |-> 1,
              registry |-> 2, runs |-> FALSE, outcomes |-> {}, observes |-> 0,
              time |-> 0]
Running(doc, owner, dies) ==
  [doc |-> doc, docs |-> {}, calls |-> owner, faults |-> dies, registry |-> 1,
   runs |-> TRUE, outcomes |-> {Confirmed, Late, Refused, InFlight},
   observes |-> 0, time |-> 0]
Waiting(doc, owner, dies, observes) ==
  [Running(doc, owner, dies) EXCEPT !.observes = observes, !.outcomes = {}]

\* The lifecycle alone; runs that meet a crash; runs their owner cancels or
\* whose automation is disabled.
MCLoads == {Authoring, Running(3, 0, 1), Running(4, 0, 1), Waiting(5, 0, 1, 4),
            Running(7, 1, 1), Waiting(5, 1, 0, 2), Waiting(8, 0, 0, 2),
            Waiting(9, 0, 0, 2), Running(10, 0, 0), Running(11, 0, 0)}
Passing == {Running(6, 0, 0)}
=============================================================================
