SPECIFICATION Spec
CONSTANTS
  Tasks = {t1}
  Tenants = {x1}
  NoTenant = NoTenant
  Keys = {k1}
  NoKey = NoKey
  Users = {u1, u2}
  NoUser = NoUser
  Comments = {c1}
  RetryLimit = 0
  NativeUuid = TRUE
  CancelExposed = FALSE
  MaxStops = 0
  MaxFaults = 0
INVARIANT CommentsKept
