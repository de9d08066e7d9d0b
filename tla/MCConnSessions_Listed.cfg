SPECIFICATION ConnSpec
CONSTANTS
  Targets = {t1, t2}
  Askers = {r1, r2}
  NoTarget = NoTarget
  MaxSessions = 1
  IdleTtl = 6
  TouchInterval = 2
  MaxClock = 9
SYMMETRY Symmetries
INVARIANTS ActiveSessionListed
CHECK_DEADLOCK FALSE
