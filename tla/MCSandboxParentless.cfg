SPECIFICATION Spec
CONSTANTS
  d = d
  f = f
  g = g
  Paths = {d, f, g}
  Top = Top
  Parent <- MCParent
  Base = {g}
  MaxSize = 1
  Quota = 1
  Nodes = {1, 2, 3}
  None = None
  Careless = TRUE
INVARIANTS NextSessionStarts
CHECK_DEADLOCK FALSE
