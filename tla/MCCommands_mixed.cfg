SPECIFICATION Spec
CONSTANTS
  owner = owner
  lock = lock
  lamp = lamp
  None = None
  Recovery = Recovery
  CommandIds = {c1, c2}
  Requests <- MixedRequests
  Devices = {lock, lamp}
  Managed = {lock}
  Actors = {owner}
  Users = {owner}
  Calls = {k1, k2}
  AuthIds = {a1}
  GrantSets <- ChangingGrants
  RegistrationAttempts = 2
  RecoveryPage = 2
  AuthorizationLifetime = 1
  MaxTime = 1
  MaxCrashes = 1
  MaxFaults = 1
  MaxProjectionRevision = 1
INVARIANTS
  OneInvocationPerKey
  InvocationIsGoverned
  AuditExplainsState
PROPERTIES
  ImplementsLifecycle
