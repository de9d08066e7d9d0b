--------------------------- MODULE MetaGateProofs ---------------------------
(***************************************************************************)
(* What holds of the gate for any finite sets of calls.  The counters need *)
(* no help: a call is counted by where it is.  That no query is admitted   *)
(* on top of a transaction does: it rests on the order of the microtask    *)
(* queue, stated by Links (who is in which queue) and QueriesFirst (a      *)
(* query that passed the check runs before any transaction that did).      *)
(***************************************************************************)
EXTENDS MetaGate, FiniteSetTheorems, TLAPS

Queued == {"woken", "passed", "settled"}

Links ==
  /\ IsInjective(jobs) /\ Range(jobs) = In(Calls, Queued)
  /\ IsInjective(waiters) /\ Range(waiters) = In(Calls, {"waiting"})

Passed(c) == phase[c] = "passed"

QueriesFirst ==
  /\ writing => \A q \in Queries : ~Passed(q)
  /\ \A i, j \in DOMAIN jobs :
       jobs[i] \in Transactions /\ Passed(jobs[i])
         /\ jobs[j] \in Queries /\ Passed(jobs[j]) => j < i

(* Only transactions are ever open. *)
OpenAreTransactions == \A q \in Queries : phase[q] # "open"

IInv ==
  /\ TypeOK
  /\ CountersAgree
  /\ NoLostWakeup
  /\ OpenAreTransactions
  /\ Links
  /\ QueriesFirst
-----------------------------------------------------------------------------
LEMMA InitIInv == Init => IInv
<1> SUFFICES ASSUME Init PROVE IInv
  OBVIOUS
<1>1. TypeOK
  <2>1. writing \in BOOLEAN
    BY DEF Init
  <2>2. readers \in Nat /\ queued \in Nat
    BY DEF Init
  <2>3. waiters \in Seq(Calls) /\ jobs \in Seq(Calls)
    BY DEF Init
  <2>4. phase \in [Calls -> Phases] /\ conn \in Transactions \cup {NoCall}
    BY DEF Init, Phases
  <2> QED BY <2>1, <2>2, <2>3, <2>4 DEF TypeOK
<1>2. \A S, P : "idle" \notin P /\ S \subseteq Calls => In(S, P) = {}
  BY DEF Init, In
<1>3. CountersAgree
  BY <1>2, FS_EmptySet DEF Init, CountersAgree, Calls
<1>4. NoLostWakeup
  BY <1>2 DEF NoLostWakeup, Calls
<1>5. OpenAreTransactions /\ Links /\ QueriesFirst
  BY DEF Init, OpenAreTransactions, Links, QueriesFirst, Calls, Queued, Passed,
     IsInjective, Range, In
<1> QED BY <1>1, <1>3, <1>4, <1>5 DEF IInv
-----------------------------------------------------------------------------
LEMMA InIsFinite ==
  ASSUME NEW S \in {Queries, Transactions}, NEW P
  PROVE  /\ IsFiniteSet(In(S, P))
         /\ Cardinality(In(S, P)) \in Nat
         /\ Cardinality(In(S, P)) = 0 <=> In(S, P) = {}
<1>1. IsFiniteSet(S) /\ In(S, P) \in SUBSET S
  BY GateAssumption DEF In
<1> QED BY <1>1, FS_Subset, FS_CardinalityType, FS_EmptySet

(* Queues keep their type. *)
LEMMA QueueTypes ==
  ASSUME TypeOK, NEW c \in Calls
  PROVE  /\ Append(jobs, c) \in Seq(Calls)
         /\ Append(waiters, c) \in Seq(Calls)
         /\ jobs # <<>> =>
              /\ Head(jobs) \in Calls
              /\ Tail(jobs) \in Seq(Calls)
              /\ Append(Tail(jobs), c) \in Seq(Calls)
              /\ Tail(jobs) \o waiters \in Seq(Calls)
BY DEF TypeOK
-----------------------------------------------------------------------------
LEMMA CountersStep ==
  ASSUME TypeOK, OpenAreTransactions, CountersAgree, [Next]_vars
  PROVE  CountersAgree'
<1> DEFINE R == In(Queries, {"running", "settled"})
           Q == In(Transactions, {"waiting", "woken", "passed"})
           W == In(Transactions, {"running", "open", "settled"})
<1> USE DEF CountersAgree
<1> Queries \in SUBSET Calls /\ Transactions \in SUBSET Calls
  BY DEF Calls
<1>0. /\ IsFiniteSet(R) /\ IsFiniteSet(Q)
      /\ Cardinality(R) \in Nat /\ Cardinality(Q) \in Nat
  BY InIsFinite
<1>R. /\ \A c \in R : Cardinality(R \ {c}) = Cardinality(R) - 1
      /\ \A c \in Q : Cardinality(Q \ {c}) = Cardinality(Q) - 1
  BY <1>0, FS_RemoveElement
<1>D. \A c \in Calls : ~(c \in Queries /\ c \in Transactions)
  BY GateAssumption
<1> USE DEF In, TypeOK
(* A step that moves no call into or out of the three sets. *)
<1>S. ASSUME R' = R, Q' = Q, W' = W, readers' = readers, queued' = queued,
             writing' => writing
      PROVE  CountersAgree'
  BY <1>S
<1>1. ASSUME NEW c \in Calls, CallRead(c) PROVE CountersAgree'
  <2>1. R' = R /\ Q' = Q /\ W' = W
    BY <1>1, <1>D DEF CallRead, Check
  <2> QED BY <2>1, <1>1, <1>S DEF CallRead
<1>2. ASSUME NEW c \in Calls, CallWrite(c) PROVE CountersAgree'
  <2>1. c \notin Q /\ R' = R /\ Q' = Q \cup {c} /\ W' = W
    BY <1>2, <1>D DEF CallWrite, Check
  <2>2. Cardinality(Q') = Cardinality(Q) + 1
    BY <2>1, <1>0, FS_AddElement
  <2> QED BY <2>1, <2>2, <1>2 DEF CallWrite
<1>3. ASSUME NEW c \in Calls, Recheck(c) PROVE CountersAgree'
  <2>1. R' = R /\ Q' = Q /\ W' = W
    BY <1>3 DEF Recheck, Runs
  <2> QED BY <2>1, <1>3, <1>S DEF Recheck
<1>4. ASSUME NEW c \in Calls, AdmitQuery(c) PROVE CountersAgree'
  <2>1. c \notin R /\ R' = R \cup {c} /\ Q' = Q /\ W' = W
    BY <1>4, <1>D DEF AdmitQuery, Runs
  <2>2. Cardinality(R') = Cardinality(R) + 1
    BY <2>1, <1>0, FS_AddElement
  <2> QED BY <2>1, <2>2, <1>4 DEF AdmitQuery
<1>5. ASSUME NEW c \in Calls, AdmitTransaction(c) PROVE CountersAgree'
  <2>1. c \in Q /\ R' = R /\ Q' = Q \ {c} /\ c \in W'
    BY <1>5, <1>D DEF AdmitTransaction, Runs
  <2>2. Cardinality(Q') = Cardinality(Q) - 1
    BY <2>1, <1>R
  <2> QED BY <2>1, <2>2, <1>5 DEF AdmitTransaction
<1>6. ASSUME NEW c \in Calls, Begin(c) PROVE CountersAgree'
  <2>1. R' = R /\ Q' = Q /\ W' = W
    BY <1>6, <1>D DEF Begin
  <2> QED BY <2>1, <1>6, <1>S DEF Begin
<1>7. ASSUME NEW c \in Calls, SettleQuery(c) PROVE CountersAgree'
  <2>1. R' = R /\ Q' = Q /\ W' = W
    BY <1>7, <1>D DEF SettleQuery
  <2> QED BY <2>1, <1>7, <1>S DEF SettleQuery
<1>8. ASSUME NEW c \in Calls, SettleTransaction(c)
      PROVE  CountersAgree'
  <2>1. R' = R /\ Q' = Q /\ W' = W
    BY <1>8, <1>D DEF SettleTransaction, OpenAreTransactions, Calls
  <2> QED BY <2>1, <1>8, <1>S DEF SettleTransaction
<1>9. ASSUME NEW c \in Calls, LeaveRead(c) PROVE CountersAgree'
  <2>1. c \in R /\ R' = R \ {c} /\ Q' = Q /\ W' = W
    BY <1>9, <1>D DEF LeaveRead, WakeAfter, Runs
  <2>2. Cardinality(R') = Cardinality(R) - 1
    BY <2>1, <1>R
  <2> QED BY <2>1, <2>2, <1>9 DEF LeaveRead
<1>10. ASSUME NEW c \in Calls, LeaveWrite(c) PROVE CountersAgree'
  <2>1. R' = R /\ Q' = Q
    BY <1>10, <1>D DEF LeaveWrite, WakeAfter, Runs
  <2> QED BY <2>1, <1>10 DEF LeaveWrite
<1>11. CASE UNCHANGED vars
  <2>1. R' = R /\ Q' = Q /\ W' = W
    BY <1>11 DEF vars
  <2> QED BY <2>1, <1>11, <1>S DEF vars
<1> QED
  BY <1>1, <1>2, <1>3, <1>4, <1>5, <1>6, <1>7, <1>8, <1>9, <1>10, <1>11
  DEF Next, RunJob

LEMMA TypeStep ==
  ASSUME TypeOK, OpenAreTransactions, CountersAgree, [Next]_vars
  PROVE  TypeOK'
<1> USE DEF TypeOK, Phases
<1> Queries \in SUBSET Calls /\ Transactions \in SUBSET Calls
  BY DEF Calls
<1>1. ASSUME NEW c \in Calls, CallRead(c) PROVE TypeOK'
  <2>1. phase' \in [Calls -> Phases] /\ jobs' \in Seq(Calls) /\ waiters' \in Seq(Calls)
    BY <1>1, QueueTypes DEF CallRead, Check
  <2> QED BY <2>1, <1>1 DEF CallRead
<1>2. ASSUME NEW c \in Calls, CallWrite(c) PROVE TypeOK'
  <2>1. phase' \in [Calls -> Phases] /\ jobs' \in Seq(Calls) /\ waiters' \in Seq(Calls)
    BY <1>2, QueueTypes DEF CallWrite, Check
  <2>2. queued' \in Nat
    BY <1>2 DEF CallWrite
  <2> QED BY <2>1, <2>2, <1>2 DEF CallWrite
<1>3. ASSUME NEW c \in Calls, Recheck(c) PROVE TypeOK'
  <2>1. phase' \in [Calls -> Phases] /\ jobs' \in Seq(Calls) /\ waiters' \in Seq(Calls)
    BY <1>3, QueueTypes DEF Recheck, Runs
  <2> QED BY <2>1, <1>3 DEF Recheck
<1>4. ASSUME NEW c \in Calls, AdmitQuery(c) PROVE TypeOK'
  <2>1. phase' \in [Calls -> Phases] /\ jobs' \in Seq(Calls) /\ readers' \in Nat
    BY <1>4, QueueTypes DEF AdmitQuery, Runs
  <2> QED BY <2>1, <1>4 DEF AdmitQuery
<1>5. ASSUME NEW c \in Calls, AdmitTransaction(c) PROVE TypeOK'
  <2>1. phase' \in [Calls -> Phases] /\ jobs' \in Seq(Calls)
    BY <1>5, QueueTypes DEF AdmitTransaction, Runs
  <2>2. c \in In(Transactions, {"waiting", "woken", "passed"})
    BY <1>5 DEF AdmitTransaction, Runs, In
  <2>3. queued # 0
    BY <2>2, InIsFinite DEF CountersAgree
  <2>4. queued' \in Nat
    BY <2>3, <1>5 DEF AdmitTransaction
  <2> QED BY <2>1, <2>4, <1>5 DEF AdmitTransaction
<1>6. ASSUME NEW c \in Calls, Begin(c) PROVE TypeOK'
  BY <1>6 DEF Begin
<1>7. ASSUME NEW c \in Calls, SettleQuery(c) PROVE TypeOK'
  <2>1. phase' \in [Calls -> Phases] /\ jobs' \in Seq(Calls)
    BY <1>7, QueueTypes DEF SettleQuery
  <2> QED BY <2>1, <1>7 DEF SettleQuery
<1>8. ASSUME NEW c \in Calls, SettleTransaction(c) PROVE TypeOK'
  <2>1. phase' \in [Calls -> Phases] /\ jobs' \in Seq(Calls)
    BY <1>8, QueueTypes DEF SettleTransaction
  <2> QED BY <2>1, <1>8 DEF SettleTransaction
<1>W. ASSUME NEW c \in Calls, Runs(c, "settled"), WakeAfter(c)
      PROVE  phase' \in [Calls -> Phases] /\ jobs' \in Seq(Calls) /\ waiters' \in Seq(Calls)
  BY <1>W, QueueTypes DEF Runs, WakeAfter
<1>9. ASSUME NEW c \in Calls, LeaveRead(c) PROVE TypeOK'
  <2>1. c \in In(Queries, {"running", "settled"})
    BY <1>9 DEF LeaveRead, Runs, In
  <2>2. readers # 0
    BY <2>1, InIsFinite DEF CountersAgree
  <2>3. readers' \in Nat
    BY <2>2, <1>9 DEF LeaveRead
  <2> QED BY <2>3, <1>9, <1>W DEF LeaveRead
<1>10. ASSUME NEW c \in Calls, LeaveWrite(c) PROVE TypeOK'
  <2>1. writing' \in BOOLEAN
    BY <1>10 DEF LeaveWrite
  <2> QED BY <2>1, <1>10, <1>W DEF LeaveWrite
<1>11. CASE UNCHANGED vars
  BY <1>11 DEF vars
<1> QED
  BY <1>1, <1>2, <1>3, <1>4, <1>5, <1>6, <1>7, <1>8, <1>9, <1>10, <1>11
  DEF Next, RunJob

LEMMA OpenStep ==
  ASSUME TypeOK, OpenAreTransactions, [Next]_vars
  PROVE  OpenAreTransactions'
<1> USE DEF TypeOK, OpenAreTransactions
<1>1. ASSUME NEW c \in Calls,
             CallRead(c) \/ CallWrite(c) \/ RunJob(c) \/ SettleQuery(c)
               \/ SettleTransaction(c)
      PROVE  OpenAreTransactions'
  BY <1>1 DEF CallRead, CallWrite, Check, RunJob, Recheck, AdmitQuery, Calls,
     AdmitTransaction, LeaveRead, LeaveWrite, WakeAfter, SettleQuery,
     SettleTransaction
<1>2. ASSUME NEW c \in Calls, Begin(c) PROVE OpenAreTransactions'
  BY <1>2, GateAssumption DEF Begin, Calls
<1>3. CASE UNCHANGED vars
  BY <1>3 DEF vars
<1> QED BY <1>1, <1>2, <1>3 DEF Next

(* A call leaves the phases that promise a wake() only by doing the wake(), *)
(* and one is parked only for a reason that is itself such a promise.       *)
LEMMA WakeStep ==
  ASSUME TypeOK, OpenAreTransactions, CountersAgree, NoLostWakeup, [Next]_vars
  PROVE  NoLostWakeup'
<1> DEFINE In1 == In(Calls, {"running", "open", "settled"})
           Tw == In(Transactions, {"waiting"})
           Qw == In(Queries, {"waiting"})
           Tp == In(Transactions, {"woken", "passed"})
<1> Queries \in SUBSET Calls /\ Transactions \in SUBSET Calls
  BY DEF Calls
<1>N. NoLostWakeup <=> (Tw # {} => In1 # {}) /\ (Qw # {} => In1 # {} \/ Tp # {})
  BY DEF NoLostWakeup
<1>N2. NoLostWakeup' <=>
        (Tw' # {} => In1' # {}) /\ (Qw' # {} => In1' # {} \/ Tp' # {})
  BY DEF NoLostWakeup
(* What the flags say about the calls. *)
<1>F. /\ writing => In1 # {}
      /\ readers # 0 => In1 # {}
      /\ queued # 0 => Tw # {} \/ Tp # {}
  <2>1. writing => In1 # {}
    BY DEF CountersAgree, In, Calls
  <2>2. readers # 0 => In1 # {}
    <3>1. readers # 0 => In(Queries, {"running", "settled"}) # {}
      BY InIsFinite DEF CountersAgree
    <3> QED BY <3>1 DEF In, Calls
  <2>3. queued # 0 => Tw # {} \/ Tp # {}
    <3>1. queued # 0 => In(Transactions, {"waiting", "woken", "passed"}) # {}
      BY InIsFinite DEF CountersAgree
    <3> QED BY <3>1 DEF In
  <2> QED BY <2>1, <2>2, <2>3
<1>D. \A c \in Calls : ~(c \in Queries /\ c \in Transactions)
  BY GateAssumption
<1>1. ASSUME NEW c \in Calls, CallRead(c) PROVE NoLostWakeup'
  <2>1. In1' = In1 /\ Tw' = Tw /\ Tp' = Tp
    BY <1>1, <1>D DEF CallRead, Check, In, TypeOK
  <2>2. CASE Ready(c, queued)
    <3>1. Qw' = Qw
      BY <2>2, <1>1 DEF CallRead, Check, In, TypeOK
    <3> QED BY <2>1, <3>1, <1>N, <1>N2
  <2>3. CASE ~Ready(c, queued)
    <3>1. writing \/ queued # 0
      BY <2>3, <1>1 DEF Ready, MayRead, CallRead
    <3> QED BY <3>1, <2>1, <1>F, <1>N, <1>N2
  <2> QED BY <2>2, <2>3
<1>2. ASSUME NEW c \in Calls, CallWrite(c) PROVE NoLostWakeup'
  <2>1. In1' = In1 /\ Qw' = Qw /\ Tp \subseteq Tp'
    BY <1>2, <1>D DEF CallWrite, Check, In, TypeOK
  <2>2. CASE Ready(c, queued + 1)
    <3>1. Tw' = Tw
      BY <2>2, <1>2 DEF CallWrite, Check, In, TypeOK
    <3> QED BY <2>1, <3>1, <1>N, <1>N2
  <2>3. CASE ~Ready(c, queued + 1)
    <3>1. writing \/ readers # 0
      BY <2>3, <1>2, <1>D DEF Ready, MayWrite, CallWrite
    <3> QED BY <3>1, <2>1, <1>F, <1>N, <1>N2
  <2> QED BY <2>2, <2>3
<1>3. ASSUME NEW c \in Calls, Recheck(c) PROVE NoLostWakeup'
  <2>1. In1' = In1
    BY <1>3 DEF Recheck, Runs, In, TypeOK
  <2>2. CASE Ready(c, queued)
    <3>1. Tw' = Tw /\ Qw' = Qw /\ Tp' = Tp
      BY <2>2, <1>3 DEF Recheck, Runs, In, TypeOK
    <3> QED BY <2>1, <3>1, <1>N, <1>N2
  <2>3. CASE ~Ready(c, queued) /\ c \in Queries
    <3>1. Tw' = Tw /\ Tp' = Tp
      BY <2>3, <1>3, <1>D DEF Recheck, Runs, In, TypeOK
    <3>2. writing \/ queued # 0
      BY <2>3 DEF Ready, MayRead
    <3> QED BY <2>1, <3>1, <3>2, <1>F, <1>N, <1>N2
  <2>4. CASE ~Ready(c, queued) /\ c \notin Queries
    <3>1. writing \/ readers # 0
      BY <2>4 DEF Ready, MayWrite
    <3> QED BY <2>1, <3>1, <1>F, <1>N2
  <2> QED BY <2>2, <2>3, <2>4
<1>4. ASSUME NEW c \in Calls,
             AdmitQuery(c) \/ AdmitTransaction(c) \/ Begin(c)
      PROVE  NoLostWakeup'
  <2>1. c \in In1'
    BY <1>4 DEF AdmitQuery, AdmitTransaction, Begin, Runs, In, TypeOK
  <2> QED BY <2>1, <1>N2
<1>5. ASSUME NEW c \in Calls, SettleQuery(c) \/ SettleTransaction(c)
      PROVE  NoLostWakeup'
  <2>1. c \in In1'
    BY <1>5 DEF SettleQuery, SettleTransaction, In, TypeOK
  <2> QED BY <2>1, <1>N2
<1>6. ASSUME NEW c \in Calls, LeaveRead(c) \/ LeaveWrite(c)
      PROVE  NoLostWakeup'
  <2>1. Tw' = {} /\ Qw' = {}
    BY <1>6 DEF LeaveRead, LeaveWrite, WakeAfter, In, TypeOK, Calls
  <2> QED BY <2>1, <1>N2
<1>7. CASE UNCHANGED vars
  <2>1. In1' = In1 /\ Tw' = Tw /\ Qw' = Qw /\ Tp' = Tp
    BY <1>7 DEF vars, In
  <2> QED BY <2>1, <1>N, <1>N2
<1> QED
  BY <1>1, <1>2, <1>3, <1>4, <1>5, <1>6, <1>7 DEF Next, RunJob
-----------------------------------------------------------------------------
(* Queues without duplicates, under the three operations the gate uses.     *)
LEMMA AppendDistinct ==
  ASSUME NEW S, NEW s \in Seq(S), NEW c \in S, IsInjective(s), c \notin Range(s)
  PROVE  /\ IsInjective(Append(s, c))
         /\ Range(Append(s, c)) = Range(s) \cup {c}
<1>1. /\ DOMAIN Append(s, c) = 1 .. Len(s) + 1
      /\ DOMAIN s = 1 .. Len(s) /\ Len(s) \in Nat
      /\ \A i \in 1 .. Len(s) : Append(s, c)[i] = s[i]
      /\ Append(s, c)[Len(s) + 1] = c
  OBVIOUS
<1> QED BY <1>1 DEF IsInjective, Range

LEMMA TailDistinct ==
  ASSUME NEW S, NEW s \in Seq(S), IsInjective(s), s # <<>>
  PROVE  /\ IsInjective(Tail(s))
         /\ Range(Tail(s)) = Range(s) \ {Head(s)}
<1>1. /\ DOMAIN Tail(s) = 1 .. Len(s) - 1
      /\ DOMAIN s = 1 .. Len(s) /\ Len(s) \in Nat \ {0}
      /\ \A i \in 1 .. Len(s) - 1 : Tail(s)[i] = s[i + 1]
      /\ Head(s) = s[1]
  OBVIOUS
<1>2. IsInjective(Tail(s))
  BY <1>1 DEF IsInjective
<1>3. \A x \in Range(Tail(s)) : x \in Range(s) \ {Head(s)}
  BY <1>1 DEF IsInjective, Range
<1>4. ASSUME NEW x \in Range(s), x # Head(s) PROVE x \in Range(Tail(s))
  <2> PICK i \in 1 .. Len(s) : x = s[i]
    BY <1>1 DEF Range
  <2>1. i # 1 /\ i - 1 \in 1 .. Len(s) - 1 /\ Tail(s)[i - 1] = x
    BY <1>1, <1>4
  <2> QED BY <2>1, <1>1 DEF Range
<1> QED BY <1>2, <1>3, <1>4

LEMMA ConcatDistinct ==
  ASSUME NEW S, NEW s \in Seq(S), NEW u \in Seq(S), IsInjective(s),
         IsInjective(u), Range(s) \cap Range(u) = {}
  PROVE  /\ IsInjective(s \o u)
         /\ Range(s \o u) = Range(s) \cup Range(u)
<1>1. /\ DOMAIN (s \o u) = 1 .. Len(s) + Len(u)
      /\ DOMAIN s = 1 .. Len(s) /\ Len(s) \in Nat
      /\ DOMAIN u = 1 .. Len(u) /\ Len(u) \in Nat
      /\ \A i \in 1 .. Len(s) : (s \o u)[i] = s[i]
      /\ \A i \in 1 .. Len(u) : (s \o u)[Len(s) + i] = u[i]
  OBVIOUS
<1>2. ASSUME NEW i \in DOMAIN (s \o u)
      PROVE  \/ i \in 1 .. Len(s) /\ (s \o u)[i] = s[i]
             \/ i - Len(s) \in 1 .. Len(u) /\ (s \o u)[i] = u[i - Len(s)]
  <2>1. CASE i \in 1 .. Len(s)
    BY <2>1, <1>1
  <2>2. CASE i \notin 1 .. Len(s)
    <3>1. i - Len(s) \in 1 .. Len(u) /\ Len(s) + (i - Len(s)) = i
      BY <2>2, <1>1
    <3> QED BY <3>1, <1>1
  <2> QED BY <2>1, <2>2
<1>3. IsInjective(s \o u)
  <2> SUFFICES ASSUME NEW i \in DOMAIN (s \o u), NEW j \in DOMAIN (s \o u),
                      (s \o u)[i] = (s \o u)[j]
               PROVE  i = j
    BY DEF IsInjective
  <2>1. CASE i \in 1 .. Len(s) /\ j \in 1 .. Len(s)
    BY <2>1, <1>1 DEF IsInjective
  <2>2. CASE i - Len(s) \in 1 .. Len(u) /\ j - Len(s) \in 1 .. Len(u)
    <3>1. u[i - Len(s)] = u[j - Len(s)]
      BY <2>2, <1>1, <1>2
    <3>2. i - Len(s) = j - Len(s)
      BY <3>1, <2>2, <1>1 DEF IsInjective
    <3> QED BY <3>2, <1>1
  <2>3. ASSUME NEW x \in DOMAIN (s \o u), NEW y \in DOMAIN (s \o u),
               x \in 1 .. Len(s), y - Len(s) \in 1 .. Len(u)
        PROVE  (s \o u)[x] # (s \o u)[y]
    <3>1. (s \o u)[x] \in Range(s)
      BY <2>3, <1>1 DEF Range
    <3>2. (s \o u)[y] \in Range(u)
      BY <2>3, <1>1, <1>2 DEF Range
    <3> QED BY <3>1, <3>2
  <2> QED BY <2>1, <2>2, <2>3, <1>2
<1>4. \A x \in Range(s \o u) : x \in Range(s) \cup Range(u)
  BY <1>1, <1>2 DEF Range
<1>5. \A x \in Range(s) : x \in Range(s \o u)
  BY <1>1 DEF Range
<1>6. ASSUME NEW x \in Range(u) PROVE x \in Range(s \o u)
  <2> PICK i \in 1 .. Len(u) : x = u[i]
    BY <1>1 DEF Range
  <2>1. Len(s) + i \in DOMAIN (s \o u) /\ (s \o u)[Len(s) + i] = x
    BY <1>1
  <2> QED BY <2>1 DEF Range
<1> QED BY <1>3, <1>4, <1>5, <1>6
-----------------------------------------------------------------------------
LEMMA LinksStep ==
  ASSUME TypeOK, Links, [Next]_vars
  PROVE  Links'
<1> DEFINE J == In(Calls, Queued)
           K == In(Calls, {"waiting"})
<1> USE DEF Links
<1>T. jobs \in Seq(Calls) /\ waiters \in Seq(Calls) /\ phase \in [Calls -> Phases]
  BY DEF TypeOK
<1>J. ASSUME NEW c \in Calls, c \notin J
      PROVE  /\ IsInjective(Append(jobs, c))
             /\ Range(Append(jobs, c)) = J \cup {c}
  BY <1>J, <1>T, AppendDistinct
<1>K. ASSUME NEW c \in Calls, c \notin K
      PROVE  /\ IsInjective(Append(waiters, c))
             /\ Range(Append(waiters, c)) = K \cup {c}
  BY <1>K, <1>T, AppendDistinct
<1>H. ASSUME NEW c \in Calls, NEW p, Runs(c, p)
      PROVE  /\ Tail(jobs) \in Seq(Calls)
             /\ IsInjective(Tail(jobs)) /\ Range(Tail(jobs)) = J \ {c}
  BY <1>H, <1>T, TailDistinct, QueueTypes DEF Runs
<1>1. ASSUME NEW c \in Calls, CallRead(c) \/ CallWrite(c) PROVE Links'
  <2>1. c \notin J /\ c \notin K
    BY <1>1 DEF CallRead, CallWrite, In, Queued
  <2>2. CASE /\ phase' = [phase EXCEPT ![c] = "passed"]
             /\ jobs' = Append(jobs, c) /\ waiters' = waiters
    <3>1. J' = J \cup {c} /\ K' = K
      BY <2>1, <2>2, <1>T DEF In, Queued
    <3> QED BY <3>1, <2>1, <2>2, <1>J
  <2>3. CASE /\ phase' = [phase EXCEPT ![c] = "waiting"]
             /\ waiters' = Append(waiters, c) /\ jobs' = jobs
    <3>1. J' = J /\ K' = K \cup {c}
      BY <2>1, <2>3, <1>T DEF In, Queued
    <3> QED BY <3>1, <2>1, <2>3, <1>K
  <2> QED BY <1>1, <2>2, <2>3 DEF CallRead, CallWrite, Check
<1>2. ASSUME NEW c \in Calls, Recheck(c) PROVE Links'
  <2>1. /\ Runs(c, "woken") /\ phase[c] = "woken" /\ c \in J /\ c \notin K
    BY <1>2 DEF Recheck, Runs, In, Queued
  <2>2. CASE /\ phase' = [phase EXCEPT ![c] = "passed"]
             /\ jobs' = Append(Tail(jobs), c) /\ waiters' = waiters
    <3>1. J' = J /\ K' = K
      BY <2>1, <2>2, <1>T DEF In, Queued
    <3> DEFINE s == Tail(jobs)
    <3>2. s \in Seq(Calls) /\ IsInjective(s) /\ Range(s) = J \ {c}
      BY <2>1, <1>H
    <3>3. IsInjective(Append(s, c)) /\ Range(Append(s, c)) = Range(s) \cup {c}
      <4> HIDE DEF s
      <4> QED BY <3>2, AppendDistinct
    <3> QED BY <3>1, <3>2, <3>3, <2>1, <2>2
  <2>3. CASE /\ phase' = [phase EXCEPT ![c] = "waiting"]
             /\ waiters' = Append(waiters, c) /\ jobs' = Tail(jobs)
    <3>1. J' = J \ {c} /\ K' = K \cup {c}
      BY <2>1, <2>3, <1>T DEF In, Queued
    <3> QED BY <3>1, <2>1, <2>3, <1>H, <1>K
  <2> QED BY <1>2, <2>2, <2>3 DEF Recheck
<1>3. ASSUME NEW c \in Calls, AdmitQuery(c) \/ AdmitTransaction(c) PROVE Links'
  <2>1. Runs(c, "passed") /\ jobs' = Tail(jobs) /\ waiters' = waiters
    BY <1>3 DEF AdmitQuery, AdmitTransaction
  <2>2. J' = J \ {c} /\ K' = K
    BY <1>3, <1>T DEF AdmitQuery, AdmitTransaction, Runs, In, Queued
  <2> QED BY <2>1, <2>2, <1>H
<1>4. ASSUME NEW c \in Calls, Begin(c) PROVE Links'
  <2>1. J' = J /\ K' = K /\ jobs' = jobs /\ waiters' = waiters
    BY <1>4, <1>T DEF Begin, In, Queued
  <2> QED BY <2>1
<1>5. ASSUME NEW c \in Calls, SettleQuery(c) \/ SettleTransaction(c) PROVE Links'
  <2>1. c \notin J /\ J' = J \cup {c} /\ K' = K
    BY <1>5, <1>T DEF SettleQuery, SettleTransaction, In, Queued
  <2>2. jobs' = Append(jobs, c) /\ waiters' = waiters
    BY <1>5 DEF SettleQuery, SettleTransaction
  <2> QED BY <2>1, <2>2, <1>J
<1>6. ASSUME NEW c \in Calls, LeaveRead(c) \/ LeaveWrite(c) PROVE Links'
  <2>1. Runs(c, "settled") /\ WakeAfter(c)
    BY <1>6 DEF LeaveRead, LeaveWrite
  <2>2. J' = (J \ {c}) \cup K /\ K' = {} /\ (J \ {c}) \cap K = {}
    BY <2>1, <1>T DEF Runs, WakeAfter, In, Queued
  <2>3. IsInjective(jobs') /\ Range(jobs') = (J \ {c}) \cup K
    <3> DEFINE s == Tail(jobs)
    <3>1. s \in Seq(Calls) /\ IsInjective(s) /\ Range(s) = J \ {c}
      BY <2>1, <1>H
    <3>2. /\ IsInjective(s \o waiters)
          /\ Range(s \o waiters) = Range(s) \cup Range(waiters)
      <4> HIDE DEF s
      <4> QED BY <3>1, <2>2, <1>T, ConcatDistinct
    <3> QED BY <3>1, <3>2, <2>1 DEF WakeAfter
  <2>4. IsInjective(waiters') /\ Range(waiters') = {}
    BY <2>1 DEF WakeAfter, IsInjective, Range
  <2> QED BY <2>2, <2>3, <2>4
<1>7. CASE UNCHANGED vars
  <2>1. J' = J /\ K' = K /\ jobs' = jobs /\ waiters' = waiters
    BY <1>7 DEF vars, In
  <2> QED BY <2>1
<1> QED BY <1>1, <1>2, <1>3, <1>4, <1>5, <1>6, <1>7 DEF Next, RunJob
-----------------------------------------------------------------------------
(* The order of the microtask queue.  A query passes the check only when no *)
(* transaction has passed it, and one that passes later queues up behind.   *)
LEMMA OrderStep ==
  ASSUME TypeOK, CountersAgree, Links, QueriesFirst, [Next]_vars
  PROVE  QueriesFirst'
<1> USE DEF QueriesFirst, Passed
<1> Queries \in SUBSET Calls /\ Transactions \in SUBSET Calls
  BY DEF Calls
<1>T. /\ jobs \in Seq(Calls) /\ waiters \in Seq(Calls)
      /\ phase \in [Calls -> Phases]
  BY DEF TypeOK
<1>D. \A c \in Calls : ~(c \in Queries /\ c \in Transactions)
  BY GateAssumption
<1>I. \A c \in Calls : phase[c] \in Queued <=> \E i \in DOMAIN jobs : jobs[i] = c
  BY DEF Links, Range, In
<1>L. /\ DOMAIN jobs = 1 .. Len(jobs) /\ Len(jobs) \in Nat
      /\ \A i \in DOMAIN jobs : jobs[i] \in Calls
      /\ \A c : /\ DOMAIN Append(jobs, c) = 1 .. Len(jobs) + 1
               /\ \A i \in 1 .. Len(jobs) : Append(jobs, c)[i] = jobs[i]
               /\ Append(jobs, c)[Len(jobs) + 1] = c
  BY <1>T
<1>Q. queued = 0 => \A t \in Transactions : phase[t] \notin {"waiting", "woken", "passed"}
  BY InIsFinite DEF CountersAgree, In
(* Whoever does not get past the check leaves the order alone. *)
<1>1. ASSUME NEW c \in Calls, CallRead(c) \/ CallWrite(c) PROVE QueriesFirst'
  <2>1. writing' = writing /\ phase[c] = "idle" /\ \A i \in DOMAIN jobs : jobs[i] # c
    BY <1>1, <1>I DEF CallRead, CallWrite, Queued
  <2>2. CASE phase' = [phase EXCEPT ![c] = "waiting"] /\ jobs' = jobs
    BY <2>1, <2>2, <1>T, <1>L
  <2>3. CASE /\ phase' = [phase EXCEPT ![c] = "passed"]
             /\ jobs' = Append(jobs, c) /\ c \in Queries
    <3>1. Ready(c, queued)
      BY <1>1, <2>3, <2>1, <1>D, <1>T DEF CallRead, CallWrite, Check
    <3>2. ~writing /\ \A t \in Transactions : phase'[t] # "passed"
      BY <3>1, <2>3, <1>Q, <1>T, <1>D DEF Ready, MayRead
    <3>3. \A i \in DOMAIN jobs' : jobs'[i] \in Transactions => phase'[jobs'[i]] # "passed"
      BY <3>2
    <3> QED BY <3>2, <3>3, <2>1
  <2>4. CASE /\ phase' = [phase EXCEPT ![c] = "passed"]
             /\ jobs' = Append(jobs, c) /\ c \in Transactions
    <3>1. \A q \in Queries : phase'[q] = phase[q]
      BY <2>4, <1>D, <1>T
    <3>2. ASSUME NEW i \in DOMAIN jobs', NEW j \in DOMAIN jobs',
                 jobs'[i] \in Transactions, phase'[jobs'[i]] = "passed",
                 jobs'[j] \in Queries, phase'[jobs'[j]] = "passed"
          PROVE  j < i
      <4>1. j \in 1 .. Len(jobs) /\ jobs'[j] = jobs[j] /\ phase[jobs[j]] = "passed"
        BY <2>4, <3>2, <3>1, <1>D, <1>L
      <4>2. CASE i = Len(jobs) + 1
        BY <4>1, <4>2, <1>L
      <4>3. CASE i # Len(jobs) + 1
        <5>1. i \in 1 .. Len(jobs) /\ jobs'[i] = jobs[i]
          BY <4>3, <2>4, <1>L
        <5>2. phase[jobs[i]] = "passed"
          BY <5>1, <3>2, <2>4, <2>1, <1>T, <1>L
        <5> QED BY <4>1, <5>1, <5>2, <3>2, <1>L
      <4> QED BY <4>2, <4>3
    <3> QED BY <3>1, <3>2, <2>1
  <2> QED BY <1>1, <2>2, <2>3, <2>4 DEF CallRead, CallWrite, Check, Calls
<1>H. jobs # <<>> =>
        /\ DOMAIN Tail(jobs) = 1 .. Len(jobs) - 1 /\ Len(jobs) \in Nat \ {0}
        /\ \A i \in 1 .. Len(jobs) - 1 : Tail(jobs)[i] = jobs[i + 1]
        /\ Head(jobs) = jobs[1] /\ Tail(jobs) \in Seq(Calls)
  BY <1>T
(* The queue moves on, a suffix of calls that have not passed is added, and *)
(* nobody passes.                                                           *)
<1>S. ASSUME NEW s \in Seq(Calls),
             jobs # <<>>, jobs' = Tail(jobs) \o s,
             \A i \in DOMAIN s : phase'[s[i]] # "passed",
             \A c \in Calls : phase'[c] = "passed" => phase[c] = "passed"
      PROVE  \A i, j \in DOMAIN jobs' :
               jobs'[i] \in Transactions /\ phase'[jobs'[i]] = "passed"
                 /\ jobs'[j] \in Queries /\ phase'[jobs'[j]] = "passed" => j < i
  <2>1. /\ DOMAIN jobs' = 1 .. (Len(jobs) - 1) + Len(s) /\ Len(s) \in Nat
        /\ \A i \in 1 .. Len(jobs) - 1 : jobs'[i] = jobs[i + 1]
    BY <1>S, <1>H
  <2>2. \A i \in 1 .. Len(s) : jobs'[(Len(jobs) - 1) + i] = s[i]
    BY <1>S, <1>H
  <2>3. ASSUME NEW i \in DOMAIN jobs', phase'[jobs'[i]] = "passed"
        PROVE  /\ i \in 1 .. Len(jobs) - 1 /\ i + 1 \in DOMAIN jobs
               /\ jobs'[i] = jobs[i + 1] /\ phase[jobs[i + 1]] = "passed"
    <3>1. CASE i \in 1 .. Len(jobs) - 1
      <4>1. i + 1 \in DOMAIN jobs
        BY <3>1, <1>H, <1>S, <1>L
      <4>2. jobs[i + 1] \in Calls
        BY <4>1, <1>L
      <4>3. jobs'[i] = jobs[i + 1]
        BY <2>1, <3>1
      <4> QED BY <3>1, <4>1, <4>2, <4>3, <2>3, <1>S
    <3>2. CASE i \notin 1 .. Len(jobs) - 1
      <4>1. i - (Len(jobs) - 1) \in 1 .. Len(s)
        BY <3>2, <2>1, <1>L, <1>H, <1>S
      <4>2. jobs'[i] = s[i - (Len(jobs) - 1)]
        <5>1. (Len(jobs) - 1) + (i - (Len(jobs) - 1)) = i
          BY <2>1, <1>L
        <5> QED BY <4>1, <2>2, <5>1
      <4>3. DOMAIN s = 1 .. Len(s)
        BY <1>S
      <4> QED BY <4>1, <4>2, <4>3, <2>3, <1>S
    <3> QED BY <3>1, <3>2
  <2>4. ASSUME NEW i \in DOMAIN jobs', NEW j \in DOMAIN jobs',
               jobs'[i] \in Transactions, phase'[jobs'[i]] = "passed",
               jobs'[j] \in Queries, phase'[jobs'[j]] = "passed"
        PROVE  j < i
    <3>1. /\ i \in 1 .. Len(jobs) - 1 /\ i + 1 \in DOMAIN jobs
          /\ jobs[i + 1] \in Transactions /\ phase[jobs[i + 1]] = "passed"
      BY <2>3, <2>4
    <3>2. /\ j \in 1 .. Len(jobs) - 1 /\ j + 1 \in DOMAIN jobs
          /\ jobs[j + 1] \in Queries /\ phase[jobs[j + 1]] = "passed"
      BY <2>3, <2>4
    <3>3. j + 1 < i + 1
      BY <3>1, <3>2
    <3> QED BY <3>1, <3>2, <3>3, <1>L
  <2> QED BY <2>4
<1>E. <<>> \in Seq(Calls) /\ (jobs # <<>> => Tail(jobs) \o <<>> = Tail(jobs))
  BY <1>T
<1>2. ASSUME NEW c \in Calls, Recheck(c) PROVE QueriesFirst'
  <2>0. /\ jobs # <<>> /\ c = Head(jobs) /\ phase[c] = "woken" /\ writing' = writing
    BY <1>2 DEF Recheck, Runs
  <2>1. CASE phase' = [phase EXCEPT ![c] = "waiting"] /\ jobs' = Tail(jobs)
    <3>1. \A d \in Calls : phase'[d] = "passed" => phase[d] = "passed"
      BY <2>1, <1>T
    <3>2. jobs' = Tail(jobs) \o <<>> /\ DOMAIN <<>> = {}
      BY <2>1, <2>0, <1>E
    <3>3. \A i, j \in DOMAIN jobs' :
               jobs'[i] \in Transactions /\ phase'[jobs'[i]] = "passed"
                 /\ jobs'[j] \in Queries /\ phase'[jobs'[j]] = "passed" => j < i
      BY <3>1, <3>2, <2>0, <1>E, <1>S
    <3> QED BY <3>1, <3>3, <2>0
  <2>2. CASE /\ phase' = [phase EXCEPT ![c] = "passed"] /\ c \in Queries
             /\ jobs' = Append(Tail(jobs), c)
    <3>1. Ready(c, queued)
      BY <1>2, <2>2, <2>0, <1>T DEF Recheck
    <3>2. ~writing /\ \A t \in Transactions : phase'[t] # "passed"
      BY <3>1, <2>2, <1>Q, <1>T, <1>D DEF Ready, MayRead
    <3>3. \A i \in DOMAIN jobs' : jobs'[i] \in Transactions => phase'[jobs'[i]] # "passed"
      BY <3>2
    <3> QED BY <3>2, <3>3, <2>0
  <2>3. CASE /\ phase' = [phase EXCEPT ![c] = "passed"] /\ c \in Transactions
             /\ jobs' = Append(Tail(jobs), c)
    <3>1. \A q \in Queries : phase'[q] = phase[q]
      BY <2>3, <1>D, <1>T
    <3>2. /\ DOMAIN jobs' = 1 .. Len(jobs)
          /\ jobs'[Len(jobs)] = c
          /\ \A i \in 1 .. Len(jobs) - 1 : jobs'[i] = jobs[i + 1] /\ jobs[i + 1] # c
      <4>1. DOMAIN jobs' = 1 .. Len(jobs) /\ jobs'[Len(jobs)] = c
        BY <2>3, <2>0, <1>H
      <4>2. \A i \in 1 .. Len(jobs) - 1 : jobs'[i] = jobs[i + 1]
        BY <2>3, <2>0, <1>H
      <4>3. \A i \in 1 .. Len(jobs) - 1 : jobs[i + 1] # c
        BY <2>0, <1>H, <1>L DEF Links, IsInjective
      <4> QED BY <4>1, <4>2, <4>3
    <3>3. ASSUME NEW i \in DOMAIN jobs', NEW j \in DOMAIN jobs',
                 jobs'[i] \in Transactions, phase'[jobs'[i]] = "passed",
                 jobs'[j] \in Queries, phase'[jobs'[j]] = "passed"
          PROVE  j < i
      <4>1. j \in 1 .. Len(jobs) - 1 /\ j + 1 \in DOMAIN jobs
            /\ jobs'[j] = jobs[j + 1] /\ phase[jobs[j + 1]] = "passed"
        <5>1. jobs'[j] # c
          BY <3>3, <2>3, <1>D
        <5>2. j \in 1 .. Len(jobs) /\ j # Len(jobs)
          BY <5>1, <3>2
        <5>3. j \in 1 .. Len(jobs) - 1 /\ j + 1 \in 1 .. Len(jobs)
          BY <5>2, <1>L
        <5> QED BY <5>3, <3>1, <3>2, <3>3, <1>L
      <4>2. CASE i = Len(jobs)
        BY <4>1, <4>2, <1>L
      <4>3. CASE i # Len(jobs)
        <5>1. i \in 1 .. Len(jobs) - 1 /\ i + 1 \in DOMAIN jobs
          BY <4>3, <3>2, <1>L
        <5>2. jobs'[i] = jobs[i + 1] /\ jobs[i + 1] # c
          BY <5>1, <3>2
        <5>3. phase[jobs[i + 1]] = "passed"
          BY <5>1, <5>2, <3>3, <2>3, <1>T, <1>L
        <5> QED BY <4>1, <5>1, <5>2, <5>3, <3>3, <1>L
      <4> QED BY <4>2, <4>3
    <3> QED BY <3>1, <3>3, <2>0
  <2> QED BY <1>2, <2>1, <2>2, <2>3 DEF Recheck, Calls
<1>3. ASSUME NEW c \in Calls, AdmitQuery(c) \/ AdmitTransaction(c) PROVE QueriesFirst'
  <2>0. /\ jobs # <<>> /\ c = jobs[1] /\ phase[c] = "passed"
        /\ phase' = [phase EXCEPT ![c] = "running"] /\ jobs' = Tail(jobs)
    BY <1>3, <1>H DEF AdmitQuery, AdmitTransaction, Runs
  <2>1. \A d \in Calls : phase'[d] = "passed" => phase[d] = "passed"
    BY <2>0, <1>T
  <2>2. jobs' = Tail(jobs) \o <<>> /\ DOMAIN <<>> = {}
    BY <2>0, <1>E
  <2>3. \A i, j \in DOMAIN jobs' :
               jobs'[i] \in Transactions /\ phase'[jobs'[i]] = "passed"
                 /\ jobs'[j] \in Queries /\ phase'[jobs'[j]] = "passed" => j < i
    BY <2>0, <2>1, <2>2, <1>E, <1>S
  <2>4. CASE AdmitQuery(c)
    BY <2>1, <2>3, <2>4 DEF AdmitQuery
  <2>5. CASE AdmitTransaction(c)
    <3>1. c \in Transactions /\ 1 \in DOMAIN jobs
      BY <2>5, <2>0, <1>H, <1>L DEF AdmitTransaction
    <3>2. ASSUME NEW q \in Queries, phase[q] = "passed" PROVE FALSE
      <4> PICK j \in DOMAIN jobs : jobs[j] = q
        BY <3>2, <1>I DEF Queued
      <4>1. j < 1
        BY <3>1, <3>2, <2>0
      <4> QED BY <4>1, <1>L
    <3> QED BY <3>2, <2>1, <2>3
  <2> QED BY <1>3, <2>4, <2>5
<1>4. ASSUME NEW c \in Calls, Begin(c) PROVE QueriesFirst'
  <2>1. \A d \in Calls : phase'[d] = "passed" <=> phase[d] = "passed"
    BY <1>4, <1>T DEF Begin
  <2> QED BY <2>1, <1>4, <1>L DEF Begin
<1>5. ASSUME NEW c \in Calls, SettleQuery(c) \/ SettleTransaction(c) PROVE QueriesFirst'
  <2>0. /\ writing' = writing /\ jobs' = Append(jobs, c)
        /\ phase' = [phase EXCEPT ![c] = "settled"]
    BY <1>5 DEF SettleQuery, SettleTransaction
  <2>1. \A d \in Calls : phase'[d] = "passed" => phase[d] = "passed" /\ d # c
    BY <2>0, <1>T
  <2>2. ASSUME NEW i \in DOMAIN jobs', phase'[jobs'[i]] = "passed"
        PROVE  i \in DOMAIN jobs /\ jobs'[i] = jobs[i] /\ phase[jobs[i]] = "passed"
    BY <2>0, <2>1, <2>2, <1>L
  <2> QED BY <2>0, <2>1, <2>2
<1>6. ASSUME NEW c \in Calls, LeaveRead(c) \/ LeaveWrite(c) PROVE QueriesFirst'
  <2>0. jobs # <<>> /\ WakeAfter(c) /\ (writing' => writing)
    BY <1>6 DEF LeaveRead, LeaveWrite, Runs
  <2>1. \A d \in Calls : phase'[d] = "passed" => phase[d] = "passed"
    BY <2>0 DEF WakeAfter
  <2>2. \A i \in DOMAIN waiters : phase'[waiters[i]] # "passed"
    <3> SUFFICES ASSUME NEW i \in DOMAIN waiters PROVE phase'[waiters[i]] # "passed"
      OBVIOUS
    <3>1. waiters[i] \in Calls /\ phase[waiters[i]] = "waiting"
      BY <1>T DEF Links, Range, In
    <3> QED BY <2>1, <3>1
  <2>3. \A i, j \in DOMAIN jobs' :
               jobs'[i] \in Transactions /\ phase'[jobs'[i]] = "passed"
                 /\ jobs'[j] \in Queries /\ phase'[jobs'[j]] = "passed" => j < i
    BY <2>0, <2>1, <2>2, <1>T, <1>S DEF WakeAfter
  <2> QED BY <2>0, <2>1, <2>3
<1>7. CASE UNCHANGED vars
  BY <1>7 DEF vars
<1> QED BY <1>1, <1>2, <1>3, <1>4, <1>5, <1>6, <1>7 DEF Next, RunJob
-----------------------------------------------------------------------------
LEMMA Invariance == Spec => []IInv
<1>1. IInv /\ [Next]_vars => IInv'
  BY TypeStep, CountersStep, WakeStep, OpenStep, LinksStep, OrderStep DEF IInv
<1> QED BY <1>1, InitIInv, PTL DEF Spec

(* Every variable keeps its type, for any finite sets of calls.             *)
THEOREM TypeCorrect == Spec => []TypeOK
BY Invariance, PTL DEF IInv

(* readers and queued count the calls they are meant to count, and writing  *)
(* is raised for nothing but a transaction that is in (meta.js, createGate).*)
THEOREM CountersCorrect == Spec => []CountersAgree
BY Invariance, PTL DEF IInv

(* A parked call always has somebody to wake it, however many there are     *)
(* (meta.js, until and wake).                                               *)
THEOREM WakeupsCorrect == Spec => []NoLostWakeup
BY Invariance, PTL DEF IInv

(* No query is let in while the gate's own flag says a transaction is in,   *)
(* although flag and admission are a microtask apart (meta.js, read).       *)
THEOREM AdmissionCorrect == Spec => NoQueryAdmittedWhileWriting
<1>1. IInv /\ [Next]_vars =>
        [\A c \in Queries :
           phase[c] = "passed" /\ phase'[c] = "running" => ~writing]_vars
  BY DEF IInv, QueriesFirst, Passed
<1> QED BY <1>1, Invariance, PTL DEF Spec, NoQueryAdmittedWhileWriting
=============================================================================
