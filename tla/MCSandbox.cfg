SPECIFICATION Spec
CONSTANTS
  d = d
  f = f
  g = g
  Paths = {d, f, g}
  Top = Top
  Parent <- MCParent
  Base = {f}
  MaxSize = 1
  Quota = 1
  Nodes = {1, 2, 3}
  None = None
  Careless = FALSE
INVARIANTS IndexMatchesDisk QuotaAccounting CleanStateIsDurable NextSessionStarts
PROPERTIES Implements
CHECK_DEADLOCK FALSE
