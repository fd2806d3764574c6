SPECIFICATION Spec
CONSTANTS
  Calls = {k1, k2, k3}
  Actors = {a1}
  Devices = {d1, d2}
  ActorRequests = 2
  ActorWindow = 3
  DeviceConcurrency = 1
  MaxTime = 4
  MaxDelay = 1
  MaxApprovals = 1
SYMMETRY Symmetry
INVARIANTS
  PermitsConserved
  RateIsBounded
