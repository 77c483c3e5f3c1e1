SPECIFICATION Spec
CONSTANTS
  Writers = {w1, w2}
  Tenants = {x1, x2}
  Resources = {r1, r2}
  NoChange = NoChange
  Backend = "postgresql"
  Events = {e1, e2, e3, e4}
  Genesis = Genesis
  MaxStepsBack = 0
  MaxClock = 4
SYMMETRY Symmetry
INVARIANT OneChain
