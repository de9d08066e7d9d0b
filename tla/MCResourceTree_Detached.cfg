SPECIFICATION TreeSpec
CONSTANTS
  Spaces = {w1}
  Groups = {g1, g2}
  Connections = {c1}
  Root = Root
  None = None
  Workers = {r1, r2}
  MaxGrants = 0
SYMMETRY Symmetries
INVARIANTS NothingDetached
CHECK_DEADLOCK FALSE
