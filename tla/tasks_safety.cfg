SPECIFICATION Spec
CONSTANTS
  Tasks = {t1}
  Tenants = {x1}
  NoTenant = NoTenant
  Keys = {k1}
  NoKey = NoKey
  Users = {u1, u2}
  NoUser = NoUser
  Comments = {c1, c2}
  RetryLimit = 2
  NativeUuid = TRUE
  CancelExposed = TRUE
  MaxStops = 2
  MaxFaults = 0
SYMMETRY Symmetry
INVARIANTS
  Coherent
  Recoverable
  RetryBudget
PROPERTY
  ImplementsLifecycle
