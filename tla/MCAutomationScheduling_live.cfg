SPECIFICATION FairSpec
CONSTANTS
  None = None
  v1 = v1
  v2 = v2
  Versions = {v1}
  Mode <- OnlyQueued
  Schedule <- OneSchedule
  Subscribed = {v1}
  SelfTrigger <- SelfTriggerOne
  Window = 0
  Delay = 1
  RunBudget = 1
  Page = 2
  Keys = {k1}
  MaxTime = 2
  MaxEvents = 1
  MaxCalls = 1
  MaxFaults = 1
PROPERTIES
  EveryOccurrenceDecided
  EveryAcceptanceRuns
