SPECIFICATION FairSpec
CONSTANTS
  Tasks = {t1}
  Tenants = {x1}
  NoTenant = NoTenant
  Keys = {k1}
  NoKey = NoKey
  Users = {u1, u2}
  NoUser = NoUser
  Comments = {c1}
  RetryLimit = 2
  NativeUuid = TRUE
  CancelExposed = FALSE
  MaxStops = 2
  MaxFaults = 0
PROPERTY Settles
