SPECIFICATION FairSpec
CONSTANTS
  None = None
  d1 = d1
  s1 = s1
  s2 = s2
  Devices = {d1}
  Tasks = {s1, s2}
  StaleAfter = 1
  OfflineAfter = 2
  GapCapacity = 1
  EventPage = 1
  Loads <- MCLoads
INVARIANTS
    OneSessionPerDevice
PROPERTIES
    EventsReachSubscriber
    FreshnessConverges
    FacadeCallsEnd
