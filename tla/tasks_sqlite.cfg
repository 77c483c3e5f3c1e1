SPECIFICATION FairSpec
CONSTANTS
  Tasks = {t1}
  Tenants = {x1}
  NoTenant = NoTenant
  Keys = {k1}
  NoKey = NoKey
  Users = {u1, u2}
  NoUser = NoUser
  Comments = {}
  RetryLimit = 0
  NativeUuid = FALSE
  CancelExposed = FALSE
  MaxStops = 1
  MaxFaults = 0
PROPERTY Settles
CHECK_DEADLOCK FALSE
