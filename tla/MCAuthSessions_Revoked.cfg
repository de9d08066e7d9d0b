SPECIFICATION LoginsSpec
CONSTANTS
  Processes = {a, b}
  Reads = {r1}
  Nobody = Nobody
  Ttl = 6
  CacheTtl = 2
  PersistAfter = 4
  Delay = 0
  MaxTime = 14
CONSTRAINT Elsewhere
SYMMETRY Symmetries
INVARIANTS RevokedQuickly
CHECK_DEADLOCK FALSE
