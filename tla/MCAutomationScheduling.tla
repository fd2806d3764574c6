----------------------- MODULE MCAutomationScheduling -----------------------
(* Instances of AutomationScheduling for TLC. *)
EXTENDS AutomationScheduling, TLC

CONSTANTS v1, v2

mode(kind, limit) == [kind |-> kind, limit |-> limit]

QueuedThenRestart == v1 :> mode("Queued", 1) @@ v2 :> mode("Restart", 0)
OnlyQueued == v1 :> mode("Queued", 1)

TwoSchedules == v1 :> {1, 2} @@ v2 :> {2}
OneSchedule == v1 :> {1, 2}

SelfTriggerBoth == v1 :> "SameVersion" @@ v2 :> "Allow"
SelfTriggerOne == v1 :> "SameCorrelation"
=============================================================================
