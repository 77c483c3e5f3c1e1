SPECIFICATION Spec
CONSTANTS
  c1 = c1
  s1 = s1
  a1 = a1
  Workers = {w1}
  Users = {c1, s1, a1}
  Role <- SomeRoles
  Anonymous = Anonymous
  Gates = {g3}
  Seeded = {g3}
  Ids = {i1, i2}
  RowIds = {r1, r2}
  NoGate = NoGate
  NoRow = NoRow
  MaxEdits = 3
CHECK_DEADLOCK FALSE
SYMMETRY Symmetry
INVARIANTS
  TypeOK
  SeparationOfDuties
  TrailExplains
  OneSubmission
  CatalogueOnce
PROPERTY
  ImplementsGate
