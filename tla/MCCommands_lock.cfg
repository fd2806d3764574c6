SPECIFICATION Spec
CONSTANTS
  owner = owner
  lock = lock
  lamp = lamp
  None = None
  Recovery = Recovery
  CommandIds = {c1, c2}
  Requests <- LockRequests
  Devices = {lock}
  Managed = {lock}
  Actors = {owner}
  Users = {owner}
  Calls = {k1, k2}
  AuthIds = {a1, a2}
  GrantSets <- ApprovalGrants
  RegistrationAttempts = 2
  RecoveryPage = 2
  AuthorizationLifetime = 1
  MaxTime = 2
  MaxCrashes = 1
  MaxFaults = 0
  MaxProjectionRevision = 1
SYMMETRY Symmetry
INVARIANTS
  TypeOK
  SlotTracksDispatch
  SupersessionIsLinked
  UnlockIsAuthorized
  RecoverySettles
