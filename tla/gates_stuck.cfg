SPECIFICATION FairSpec
CONSTANTS
  c1 = c1
  s1 = s1
  a1 = a1
  Workers = {w1}
  Users = {c1, s1, a1}
  Role <- SomeRoles
  Anonymous = Anonymous
  Gates = {g2}
  Seeded = {}
  Ids = {i1}
  RowIds = {r1}
  NoGate = NoGate
  NoRow = NoRow
  MaxEdits = 1
CHECK_DEADLOCK FALSE
PROPERTY Resubmitted
