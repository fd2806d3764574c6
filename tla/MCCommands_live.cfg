SPECIFICATION FairSpec
CONSTANTS
  owner = owner
  lock = lock
  lamp = lamp
  None = None
  Recovery = Recovery
  CommandIds = {c1, c2}
  Requests <- ExpiringRequests
  Devices = {lock}
  Managed = {lock}
  Actors = {owner}
  Users = {owner}
  Calls = {k1}
  AuthIds = {a1, a2}
  GrantSets <- FullGrants
  RegistrationAttempts = 2
  RecoveryPage = 2
  AuthorizationLifetime = 1
  MaxTime = 2
  MaxCrashes = 1
  MaxFaults = 0
  MaxProjectionRevision = 2
PROPERTIES
  CallsReturn
  DaemonServesAgain
