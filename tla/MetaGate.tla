------------------------------ MODULE MetaGate ------------------------------
(***************************************************************************)
(* The gate in front of the SQLite metadata store (server/meta.js).  Plain *)
(* queries go through gate.read, transactions through gate.write.  The     *)
(* gate is built from promises: a caller that passes the check in until()  *)
(* goes on one microtask later, and one that fails it parks a resolver     *)
(* which the next wake() turns into a microtask.  `jobs' is that microtask *)
(* queue, restricted to the gate's own continuations, in FIFO order.       *)
(*                                                                         *)
(* Where a call is:                                                        *)
(*   idle     not in the gate                                              *)
(*   waiting  its resolver is in `waiters'                                 *)
(*   woken    resolver called, its re-check is in `jobs'                   *)
(*   passed   the check held, what follows `await until' is in `jobs'      *)
(*   running  inside fn(); a transaction has yet to get the connection     *)
(*   open     (transactions) BEGIN done, COMMIT or ROLLBACK yet to come    *)
(*   settled  fn() is over, the finally block is in `jobs'                 *)
(***************************************************************************)
EXTENDS Naturals, Sequences, FiniteSets, Functions

CONSTANTS
  Queries,       \* callers of gate.read: plain queries on the shared client
  Transactions,  \* callers of gate.write
  NoCall         \* the connection while it has no transaction open

ASSUME GateAssumption ==
  /\ IsFiniteSet(Queries) /\ IsFiniteSet(Transactions)
  /\ Queries \cap Transactions = {}
  /\ NoCall \notin Queries \cup Transactions

Calls == Queries \cup Transactions

VARIABLES
  readers,  \* the gate's `readers': queries let through and not yet over
  writing,  \* the gate's `writing'
  queued,   \* the gate's `queued': transactions that have not got in yet
  waiters,  \* parked calls, oldest first
  jobs,     \* pending microtasks of the gate, by the call each continues
  phase,    \* where each call is
  conn      \* the transaction open on the one SQLite connection, or NoCall

vars == <<readers, writing, queued, waiters, jobs, phase, conn>>

Phases ==
  {"idle", "waiting", "woken", "passed", "running", "open", "settled"}

Init ==
  /\ readers = 0
  /\ writing = FALSE
  /\ queued = 0
  /\ waiters = <<>>
  /\ jobs = <<>>
  /\ phase = [c \in Calls |-> "idle"]
  /\ conn = NoCall

(* Variants named "Broken..." are plausible slips in the definition that   *)
(* follows them; each must make a property fail.                           *)
BrokenMayRead(q) == ~writing

(* The predicates handed to until(). *)
MayRead(q) == ~writing /\ q = 0
MayWrite == ~writing /\ readers = 0
Ready(c, q) == IF c \in Queries THEN MayRead(q) ELSE MayWrite

(* One turn of the loop in until(): leave it, or park. *)
Check(c, q) ==
  IF Ready(c, q)
  THEN /\ phase' = [phase EXCEPT ![c] = "passed"]
       /\ jobs' = Append(jobs, c)
       /\ UNCHANGED waiters
  ELSE /\ phase' = [phase EXCEPT ![c] = "waiting"]
       /\ waiters' = Append(waiters, c)
       /\ UNCHANGED jobs

(* gate.read and gate.write up to their first await.  Any code of the      *)
(* server may make a call at any time.                                     *)
CallRead(c) ==
  /\ c \in Queries
  /\ phase[c] = "idle"
  /\ Check(c, queued)
  /\ UNCHANGED <<readers, writing, queued, conn>>

BrokenCallWrite(c) ==
  /\ c \in Transactions
  /\ phase[c] = "idle"
  /\ Check(c, queued)
  /\ UNCHANGED <<readers, writing, queued, conn>>

CallWrite(c) ==
  /\ c \in Transactions
  /\ phase[c] = "idle"
  /\ queued' = queued + 1
  /\ Check(c, queued + 1)
  /\ UNCHANGED <<readers, writing, conn>>

(* The next microtask is call c's. *)
Runs(c, p) == jobs # <<>> /\ c = Head(jobs) /\ phase[c] = p

(* A woken call goes round the loop again. *)
Recheck(c) ==
  /\ Runs(c, "woken")
  /\ IF Ready(c, queued)
     THEN /\ phase' = [phase EXCEPT ![c] = "passed"]
          /\ jobs' = Append(Tail(jobs), c)
          /\ UNCHANGED waiters
     ELSE /\ phase' = [phase EXCEPT ![c] = "waiting"]
          /\ waiters' = Append(waiters, c)
          /\ jobs' = Tail(jobs)
  /\ UNCHANGED <<readers, writing, queued, conn>>

(* What follows `await until(...)': the gate's flags change and fn starts. *)
AdmitQuery(c) ==
  /\ c \in Queries
  /\ Runs(c, "passed")
  /\ readers' = readers + 1
  /\ phase' = [phase EXCEPT ![c] = "running"]
  /\ jobs' = Tail(jobs)
  /\ UNCHANGED <<writing, queued, waiters, conn>>

BrokenAdmitTransaction(c) ==
  /\ c \in Transactions
  /\ Runs(c, "passed")
  /\ writing' = TRUE
  /\ phase' = [phase EXCEPT ![c] = "running"]
  /\ jobs' = Tail(jobs)
  /\ UNCHANGED <<readers, queued, waiters, conn>>

AdmitTransaction(c) ==
  /\ c \in Transactions
  /\ Runs(c, "passed")
  /\ queued' = queued - 1
  /\ writing' = TRUE
  /\ phase' = [phase EXCEPT ![c] = "running"]
  /\ jobs' = Tail(jobs)
  /\ UNCHANGED <<readers, waiters, conn>>

(* The adapter (external): one connection, one open transaction on it. *)
Begin(c) ==
  /\ c \in Transactions
  /\ phase[c] = "running"
  /\ conn = NoCall
  /\ conn' = c
  /\ phase' = [phase EXCEPT ![c] = "open"]
  /\ UNCHANGED <<readers, writing, queued, waiters, jobs>>

(* The query is answered, or the transaction commits, rolls back or has    *)
(* waited too long for the connection (maxWait): the promise fn returned   *)
(* settles and its continuation is queued.                                 *)
SettleQuery(c) ==
  /\ c \in Queries
  /\ phase[c] = "running"
  /\ phase' = [phase EXCEPT ![c] = "settled"]
  /\ jobs' = Append(jobs, c)
  /\ UNCHANGED <<readers, writing, queued, waiters, conn>>

SettleTransaction(c) ==
  /\ c \in Transactions
  /\ phase[c] \in {"running", "open"}
  /\ conn' = IF conn = c THEN NoCall ELSE conn
  /\ phase' = [phase EXCEPT ![c] = "settled"]
  /\ jobs' = Append(jobs, c)
  /\ UNCHANGED <<readers, writing, queued, waiters>>

(* wake(): every parked resolver is called, and call c is over. *)
WakeAfter(c) ==
  /\ waiters' = <<>>
  /\ jobs' = Tail(jobs) \o waiters
  /\ phase' = [d \in Calls |-> IF d = c THEN "idle"
                               ELSE IF phase[d] = "waiting" THEN "woken"
                               ELSE phase[d]]

BrokenLeaveRead(c) ==
  /\ c \in Queries
  /\ Runs(c, "settled")
  /\ readers' = readers - 1
  /\ jobs' = Tail(jobs)
  /\ phase' = [phase EXCEPT ![c] = "idle"]
  /\ UNCHANGED <<writing, queued, waiters, conn>>

(* The finally blocks of read and of write. *)
LeaveRead(c) ==
  /\ c \in Queries
  /\ Runs(c, "settled")
  /\ readers' = readers - 1
  /\ WakeAfter(c)
  /\ UNCHANGED <<writing, queued, conn>>

LeaveWrite(c) ==
  /\ c \in Transactions
  /\ Runs(c, "settled")
  /\ writing' = FALSE
  /\ WakeAfter(c)
  /\ UNCHANGED <<readers, queued, conn>>

RunJob(c) ==
  \/ Recheck(c)
  \/ AdmitQuery(c)
  \/ AdmitTransaction(c)
  \/ LeaveRead(c)
  \/ LeaveWrite(c)

Next ==
  \E c \in Calls :
    \/ CallRead(c)
    \/ CallWrite(c)
    \/ RunJob(c)
    \/ Begin(c)
    \/ SettleQuery(c)
    \/ SettleTransaction(c)

(* The event loop drains its microtasks, the connection serves a waiting   *)
(* transaction, and a query or a transaction ends (by an answer, an error  *)
(* or Prisma's own timeout).  Nobody has to make a call.                   *)
Fairness ==
  /\ WF_vars(\E c \in Calls : RunJob(c))
  /\ WF_vars(\E c \in Transactions : Begin(c))
  /\ \A c \in Calls : WF_vars(SettleQuery(c) \/ SettleTransaction(c))

Spec == Init /\ [][Next]_vars

FairSpec == Spec /\ Fairness
-----------------------------------------------------------------------------
TypeOK ==
  /\ readers \in Nat
  /\ writing \in BOOLEAN
  /\ queued \in Nat
  /\ waiters \in Seq(Calls)
  /\ jobs \in Seq(Calls)
  /\ phase \in [Calls -> Phases]
  /\ conn \in Transactions \cup {NoCall}

In(S, P) == {c \in S : phase[c] \in P}

(* The three variables the gate decides by tell the truth about the calls: *)
(* none is counted twice or forgotten on any path through park, wake and   *)
(* re-check (meta.js, read and write).  `writing' can only be too low: it  *)
(* is TRUE for nothing but a transaction that is in.                       *)
CountersAgree ==
  /\ readers = Cardinality(In(Queries, {"running", "settled"}))
  /\ queued = Cardinality(In(Transactions, {"waiting", "woken", "passed"}))
  /\ writing => In(Transactions, {"running", "open", "settled"}) # {}

(* No lost wake-up (meta.js, until and wake): while a transaction is       *)
(* parked, a call is in and its finally block will wake it; while a query  *)
(* is parked, that holds or a transaction is just about to get in.         *)
NoLostWakeup ==
  LET in == In(Calls, {"running", "open", "settled"}) # {}
  IN  /\ In(Transactions, {"waiting"}) # {} => in
      /\ In(Queries, {"waiting"}) # {} =>
           in \/ In(Transactions, {"woken", "passed"}) # {}

(* A query is never let in on top of a transaction the gate knows to be    *)
(* in: the check was made one microtask earlier, and nothing that happened *)
(* in between may have raised `writing' (meta.js, read).                   *)
NoQueryAdmittedWhileWriting ==
  [][\A c \in Queries :
       phase[c] = "passed" /\ phase'[c] = "running" => ~writing]_vars

(* "a transaction waits for the queries in flight and holds new ones until *)
(* it ends" (meta.js, the comment on createGate): no plain query is in     *)
(* flight while a transaction is open on the connection.                   *)
NoQueryInsideTransaction ==
  conn # NoCall => In(Queries, {"running"}) = {}

(* "a waiting transaction goes first, so a steady stream of reads can't    *)
(* starve it" (the same comment): every parked transaction gets in.        *)
TransactionsGetIn ==
  \A c \in Transactions : phase[c] = "waiting" ~> phase[c] = "running"
=============================================================================
