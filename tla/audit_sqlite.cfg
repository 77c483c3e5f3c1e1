SPECIFICATION Spec
CONSTANTS
  Writers = {w1, w2}
  Tenants = {x1, x2}
  Resources = {r1}
  NoChange = NoChange
  Backend = "sqlite"
  Events = {e1, e2, e3, e4}
  Genesis = Genesis
  MaxStepsBack = 1
  MaxClock = 4
SYMMETRY Symmetry
INVARIANTS
  HeldNeverFork
  InTimeOrder
  Rooted
PROPERTY
  ImplementsChain
