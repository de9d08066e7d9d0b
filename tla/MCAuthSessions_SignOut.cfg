SPECIFICATION LoginsSpec
CONSTANTS
  Processes = {a}
  Reads = {r1, r2}
  Nobody = Nobody
  Ttl = 6
  CacheTtl = 2
  PersistAfter = 3
  Delay = 0
  MaxTime = 12
CONSTRAINT LoggedIn
SYMMETRY Symmetries
INVARIANTS SignedOutIsSignedOut
CHECK_DEADLOCK FALSE
