SPECIFICATION Spec
CONSTANTS
  None = None
  v1 = v1
  v2 = v2
  Versions = {v1, v2}
  Mode <- QueuedThenRestart
  Schedule <- TwoSchedules
  Subscribed = {v1, v2}
  SelfTrigger <- SelfTriggerBoth
  Window = 0
  Delay = 1
  RunBudget = 1
  Page = 10
  Keys = {k1}
  MaxTime = 2
  MaxEvents = 1
  MaxCalls = 2
  MaxFaults = 1
INVARIANTS
  RunsOnlyForAccepted
  CatchUpOnlyMissed
  OverAdmissionIsTorn
  NoTimerOutlivesItsRun
PROPERTIES
  CheckpointAfterOccurrence
  QueueIsFirstInFirstOut
