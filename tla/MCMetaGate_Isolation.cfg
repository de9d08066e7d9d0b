SPECIFICATION Spec
CONSTANTS
  Queries = {q1, q2}
  Transactions = {t1, t2, t3}
  NoCall = NoCall
INVARIANTS NoQueryInsideTransaction
