SPECIFICATION Spec
CONSTANTS
  Tasks = {t1, t2}
  Tenants = {x1}
  NoTenant = NoTenant
  Keys = {k1}
  NoKey = NoKey
  Users = {u1}
  NoUser = NoUser
  Comments = {}
  RetryLimit = 0
  NativeUuid = TRUE
  CancelExposed = FALSE
  MaxStops = 1
  MaxFaults = 1
SYMMETRY Symmetry
INVARIANTS
  IdempotentOnce
  IInv
PROPERTIES
  DecisionStands
  ImplementsLifecycle
CHECK_DEADLOCK FALSE
