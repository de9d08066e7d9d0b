SPECIFICATION AccessSpec
CONSTANTS
  Processes = {a, b}
  Reads = {r1, r2}
  Nobody = Nobody
  Ttl = 6
  CacheTtl = 2
  PersistAfter = 3
  Delay = 0
  MaxTime = 12
  Attempts = {r1, r2}
  MaxAttempts = 3
  Window = 2
  Lockout = 2
  Cooldown = 2
  MaxSignInTime = 6
  Targets = {a, b, t}
  Askers = {r1, r2}
  NoTarget = NoTarget
  MaxSessions = 1
  IdleTtl = 3
  TouchInterval = 1
  MaxClock = 4
  Admins = {r1, r2}
  Custom <- MCCustom
  MaxRoles = 2
  NoRole = NoRole
  Places = {a, b}
  Requests = {r1, r2}
  Writers = {w1, w2}
  NoAnswer = NoAnswer
  MaxGeneration = 2
  MaxVersion = 2
CONSTRAINT Few
SYMMETRY AccessSymmetry
INVARIANTS AccessTypeOK LoginKept RevocationTakesHold CountedWhenAlone NeverBlockedEarly
  HandlesAccountFor OverrunBounded PolicyFollowsTables OwnerManages GrantsNameTheirRole
  ServedAnswerIsCurrent NothingKeptAcrossCommit
CHECK_DEADLOCK FALSE
