SPECIFICATION ProgressSpec
CONSTANTS
  Queries = {q1, q2}
  Transactions = {t1, t2, t3}
  NoCall = NoCall
  Backups = {b1}
  Workflows = {f1}
  RetryLimit = 1
  Hour = 1
  Day = 2
  MaxTime = 3
  MaxRestarts = 1
  MaxEdits = 2
  Keep = Keep
  FlowNodes = {1, 2, 3}
  MaxEdges = 3
  MaxItems = 2
  StepBudget = 4
INVARIANTS TypeOK CountersAgree NoLostWakeup ProgressTypeOK PausedStaysQuiet EveryBranchWalked
PROPERTIES NoQueryAdmittedWhileWriting TransactionsGetIn SlotsTakenOnce DueIsTaken RunEnds
CHECK_DEADLOCK FALSE
