---------------------------- MODULE AccessProofs ----------------------------
(***************************************************************************)
(* What holds of sign-ins and of roles.                                    *)
(***************************************************************************)
EXTENDS MCAccess, SessionsProofs, ResolveCacheProofs
-----------------------------------------------------------------------------
(***************************************************************************)
(* Why an account is blocked after MaxAttempts wrong passwords in a row and *)
(* not before, as long as sign-ins do not overlap: the one under way then  *)
(* holds the row as it is, but for the role (HoldsRow), so what it counts   *)
(* on from is what happened (Counts).  The exception is an attempt that has *)
(* cleared a lapsed lock: it holds the row as it was (HeldPast).           *)
(***************************************************************************)

(* Locks last a window or more, or until an admin lifts them.               *)
LongLocks == (Lockout = 0 \/ Lockout >= Window) /\ (Cooldown = 0 \/ Cooldown >= Window)

SameBlock(copy) ==
  /\ copy.failed = counter.failed /\ copy.lastFail = counter.lastFail
  /\ copy.locked = counter.locked /\ copy.until = counter.until

(* The row of the last wrong password: a lock of it lies a window ahead.    *)
Blocked(copy) ==
  /\ copy.failed = MaxAttempts /\ copy.lastFail \in 1..time
  /\ LongLocks /\ copy.until # 0 => copy.until >= copy.lastFail + Window

(* What the row says, beside what happened.                                 *)
Counts ==
  /\ lastWrong <= time /\ (run = 0 <=> lastWrong = 0)
  /\ ~counter.locked => /\ counter.failed = run /\ counter.lastFail = lastWrong
                        /\ run < MaxAttempts
  /\ counter.locked => Blocked(counter) /\ (LongLocks => run >= MaxAttempts)

(* The attempt has cleared a lapsed lock, of which its copy tells.          *)
HeldPast(copy) ==
  /\ copy.locked /\ Blocked(copy) /\ Lapsed(copy)
  /\ ~counter.locked /\ run = 0

HoldsRow ==
  /\ \A a, b \in InFlight : a = b
  /\ \A a \in InFlight :
       /\ attempt[a].at = "read" => SameBlock(attempt[a].copy)
       /\ attempt[a].at = "expired" =>
            SameBlock(attempt[a].copy) /\ attempt[a].copy.locked /\ Lapsed(attempt[a].copy)
       /\ attempt[a].at = "verify" =>
            \/ SameBlock(attempt[a].copy) /\ ~attempt[a].copy.locked
            \/ HeldPast(attempt[a].copy)

GuardInv == GuardTypeOK /\ (~overlap => Counts /\ HoldsRow)
-----------------------------------------------------------------------------
LEMMA Bounds ==
  /\ MaxAttempts \in Nat /\ Window \in Nat /\ Lockout \in Nat /\ Cooldown \in Nat
  /\ MaxSignInTime \in Nat /\ MaxAttempts > 0 /\ MaxSignInTime > 0
  /\ LongestLock \in Nat /\ Lockout <= LongestLock /\ Cooldown <= LongestLock
BY GuardAssumption DEF LongestLock

LEMMA CleanRow ==
  ASSUME NEW r \in Roles
  PROVE  /\ WithRole(r, Clean) \in RowType
         /\ WithRole(r, Clean).failed = 0 /\ WithRole(r, Clean).lastFail = 0
         /\ ~WithRole(r, Clean).locked /\ WithRole(r, Clean).until = 0
<1>1. 0 \in 0..MaxAttempts /\ 0 \in 0..MaxSignInTime /\ 0 \in 0..(MaxSignInTime + LongestLock)
  BY Bounds
<1> QED BY <1>1 DEF WithRole, Clean, RowType

LEMMA IdleType ==
  /\ IdleAttempt \in [at : {"idle", "read", "expired", "verify"}, copy : RowType]
  /\ IdleAttempt.at = "idle"
BY CleanRow DEF IdleAttempt, Roles

LEMMA GuardInvInit == GuardInit => GuardInv
<1> SUFFICES ASSUME GuardInit PROVE GuardInv
  OBVIOUS
<1>1. PICK r \in Roles : counter = WithRole(r, Clean)
  BY DEF GuardInit
<1>2. /\ time = 1 /\ attempt = [a \in Attempts |-> IdleAttempt]
      /\ run = 0 /\ lastWrong = 0 /\ overlap = FALSE
  BY DEF GuardInit
<1>3. InFlight = {}
  BY <1>2, IdleType DEF InFlight
<1>4. GuardTypeOK
  <2>1. counter \in RowType
    BY <1>1, CleanRow
  <2>2. attempt \in [Attempts -> [at : {"idle", "read", "expired", "verify"}, copy : RowType]]
    BY <1>2, IdleType
  <2>3. time \in 1..MaxSignInTime /\ run \in 0..MaxAttempts /\ lastWrong \in 0..MaxSignInTime
    BY <1>2, Bounds
  <2> QED BY <1>2, <2>1, <2>2, <2>3 DEF GuardTypeOK
<1>5. Counts
  BY <1>1, <1>2, CleanRow, Bounds DEF Counts
<1> QED BY <1>3, <1>4, <1>5 DEF GuardInv, HoldsRow

-----------------------------------------------------------------------------
AttemptType == [at : {"idle", "read", "expired", "verify"}, copy : RowType]

LEMMA AttemptSet ==
  ASSUME GuardTypeOK, NEW a \in Attempts, NEW to \in AttemptType,
         attempt' = [attempt EXCEPT ![a] = to]
  PROVE  /\ attempt' \in [Attempts -> AttemptType]
         /\ attempt'[a] = to /\ \A b \in Attempts : b # a => attempt'[b] = attempt[b]
         /\ InFlight' \subseteq InFlight \cup {a}
         /\ to.at = "idle" => InFlight' = InFlight \ {a}
<1>1. attempt \in [Attempts -> AttemptType]
  BY DEF GuardTypeOK, AttemptType
<1>2. /\ attempt' \in [Attempts -> AttemptType]
      /\ attempt'[a] = to /\ \A b \in Attempts : b # a => attempt'[b] = attempt[b]
  BY <1>1
<1> QED BY <1>2 DEF InFlight

LEMMA Ended ==
  ASSUME GuardTypeOK, NEW a \in Attempts, EndAttempt(a)
  PROVE  /\ attempt' \in [Attempts -> AttemptType]
         /\ InFlight' = InFlight \ {a} /\ \A b \in InFlight' : attempt'[b] = attempt[b]
<1>1. IdleAttempt \in AttemptType /\ IdleAttempt.at = "idle"
  BY IdleType DEF AttemptType
<1>2. /\ attempt' \in [Attempts -> AttemptType]
      /\ \A b \in Attempts : b # a => attempt'[b] = attempt[b]
      /\ InFlight' = InFlight \ {a}
  BY <1>1, AttemptSet DEF EndAttempt
<1> QED BY <1>2 DEF InFlight

(* The slate is wiped: nothing has happened.                                *)
LEMMA Wiped ==
  ASSUME GuardTypeOK, time' = time, counter' = WithRole(counter.role, Clean),
         run' = 0, lastWrong' = 0
  PROVE  /\ Counts' /\ counter' \in RowType /\ run' \in 0..MaxAttempts
         /\ lastWrong' \in 0..MaxSignInTime
<1>1. counter.role \in Roles /\ time \in Nat
  BY Bounds DEF GuardTypeOK, RowType
<1> QED BY <1>1, CleanRow, Bounds DEF Counts

LEMMA ReadKeeps == ASSUME GuardInv, NEW a \in Attempts, ReadRow(a) PROVE GuardInv'
<1> DEFINE to == [at |-> "read", copy |-> counter]
<1>1. /\ attempt' = [attempt EXCEPT ![a] = to] /\ overlap' = (overlap \/ InFlight # {})
      /\ UNCHANGED <<time, counter, run, lastWrong>>
  BY DEF ReadRow
<1>2. to \in AttemptType /\ to.at = "read" /\ to.copy = counter
  BY DEF GuardInv, GuardTypeOK, AttemptType
<1> HIDE DEF to
<1>3. /\ attempt' \in [Attempts -> AttemptType] /\ attempt'[a] = to
      /\ InFlight' \subseteq InFlight \cup {a}
  BY <1>1, <1>2, AttemptSet DEF GuardInv
<1>4. GuardTypeOK'
  BY <1>1, <1>3 DEF GuardInv, GuardTypeOK, AttemptType
<1>5. ~overlap' => Counts'
  BY <1>1 DEF GuardInv, Counts, Blocked
<1>6. ~overlap' => HoldsRow'
  BY <1>1, <1>2, <1>3 DEF HoldsRow, SameBlock
<1> QED BY <1>4, <1>5, <1>6 DEF GuardInv

LEMMA RefuseKeeps == ASSUME GuardInv, NEW a \in Attempts, Refuse(a) PROVE GuardInv'
<1>1. EndAttempt(a) /\ UNCHANGED <<time, counter, run, lastWrong, overlap>>
  BY DEF Refuse, guardHistory
<1>2. /\ attempt' \in [Attempts -> AttemptType]
      /\ InFlight' = InFlight \ {a} /\ \A b \in InFlight' : attempt'[b] = attempt[b]
  BY <1>1, Ended DEF GuardInv
<1>3. GuardTypeOK'
  BY <1>1, <1>2 DEF GuardInv, GuardTypeOK, AttemptType
<1>4. ~overlap' => Counts'
  BY <1>1 DEF GuardInv, Counts, Blocked
<1>5. ~overlap' => HoldsRow'
  BY <1>1, <1>2 DEF GuardInv, HoldsRow, SameBlock, HeldPast, Blocked, Lapsed
<1> QED BY <1>3, <1>4, <1>5 DEF GuardInv

LEMMA AllowKeeps == ASSUME GuardInv, NEW a \in Attempts, Allow(a) PROVE GuardInv'
<1> DEFINE copy == attempt[a].copy
           at == IF copy.locked THEN "expired" ELSE "verify"
           to == [at |-> at, copy |-> copy]
<1>1. /\ attempt[a].at = "read" /\ (copy.locked => Lapsed(copy))
      /\ attempt' = [attempt EXCEPT ![a].at = at]
      /\ UNCHANGED <<time, counter, run, lastWrong, overlap>>
  BY DEF Allow, guardHistory
<1>2. attempt \in [Attempts -> AttemptType]
  BY DEF GuardInv, GuardTypeOK, AttemptType
<1>3. to \in AttemptType /\ to.at = at /\ to.copy = copy
  BY <1>2 DEF AttemptType
<1>4. attempt' = [attempt EXCEPT ![a] = to]
  <2>1. [attempt[a] EXCEPT !.at = at] = to
    BY <1>2 DEF AttemptType
  <2> QED BY <1>1, <2>1
<1> HIDE DEF to
<1>5. /\ attempt' \in [Attempts -> AttemptType] /\ attempt'[a] = to
      /\ \A b \in Attempts : b # a => attempt'[b] = attempt[b]
      /\ InFlight' \subseteq InFlight \cup {a} /\ a \in InFlight
  BY <1>1, <1>3, <1>4, AttemptSet DEF GuardInv, InFlight
<1>6. GuardTypeOK'
  BY <1>1, <1>5 DEF GuardInv, GuardTypeOK, AttemptType
<1>7. ~overlap' => Counts'
  BY <1>1 DEF GuardInv, Counts, Blocked
<1>8. ~overlap' => HoldsRow'
  BY <1>1, <1>3, <1>5 DEF GuardInv, HoldsRow, SameBlock, Lapsed
<1> QED BY <1>6, <1>7, <1>8 DEF GuardInv

LEMMA ClearKeeps == ASSUME GuardInv, NEW a \in Attempts, ClearExpired(a) PROVE GuardInv'
<1> DEFINE copy == attempt[a].copy
           to == [at |-> "verify", copy |-> copy]
<1>1. /\ attempt[a].at = "expired" /\ attempt' = [attempt EXCEPT ![a].at = "verify"]
      /\ time' = time /\ counter' = WithRole(counter.role, Clean)
      /\ run' = 0 /\ lastWrong' = 0
      /\ overlap' = (overlap \/ InFlight # {a})
  BY DEF ClearExpired
<1>2. attempt \in [Attempts -> AttemptType] /\ counter.role \in Roles
  BY DEF GuardInv, GuardTypeOK, AttemptType, RowType
<1>3. to \in AttemptType /\ to.at = "verify" /\ to.copy = copy
  BY <1>2 DEF AttemptType
<1>4. attempt' = [attempt EXCEPT ![a] = to]
  <2>1. [attempt[a] EXCEPT !.at = "verify"] = to
    BY <1>2 DEF AttemptType
  <2> QED BY <1>1, <2>1
<1> HIDE DEF to
<1>5. /\ attempt' \in [Attempts -> AttemptType] /\ attempt'[a] = to
      /\ InFlight' \subseteq InFlight \cup {a} /\ a \in InFlight
  BY <1>1, <1>3, <1>4, AttemptSet DEF GuardInv, InFlight
<1>6. Counts' /\ GuardTypeOK'
  BY <1>1, <1>5, Wiped DEF GuardInv, GuardTypeOK, AttemptType
<1>7. ASSUME ~overlap' PROVE HoldsRow'
  <2>1. Counts /\ SameBlock(copy) /\ copy.locked /\ Lapsed(copy)
    BY <1>1, <1>5, <1>7 DEF GuardInv, HoldsRow
  <2>2. Blocked(copy)
    BY <2>1 DEF Counts, SameBlock, Blocked
  <2>3. HeldPast(copy)'
    BY <1>1, <1>2, <2>1, <2>2, CleanRow DEF HeldPast, Blocked, Lapsed
  <2> QED BY <1>1, <1>3, <1>5, <1>7, <2>3 DEF HoldsRow
<1> QED BY <1>6, <1>7 DEF GuardInv

LEMMA WrongKeeps == ASSUME GuardInv, NEW a \in Attempts, WrongPassword(a) PROVE GuardInv'
<1> DEFINE copy == attempt[a].copy
           n == Counted(copy)
<1>1. attempt[a].at = "verify" /\ EndAttempt(a) /\ time' = time
  BY DEF WrongPassword
<1>2. /\ attempt' \in [Attempts -> AttemptType]
      /\ InFlight' = InFlight \ {a} /\ \A b \in InFlight' : attempt'[b] = attempt[b]
      /\ a \in InFlight
  BY <1>1, Ended DEF GuardInv, InFlight
<1>3. /\ copy \in RowType /\ counter \in RowType /\ time \in 1..MaxSignInTime
      /\ run \in 0..MaxAttempts /\ lastWrong \in 0..MaxSignInTime /\ overlap \in BOOLEAN
  BY DEF GuardInv, GuardTypeOK
<1>4. CASE copy.role = "admin" /\ Cooldown = 0
  <2>1. UNCHANGED <<counter, run, lastWrong, overlap>>
    BY <1>4 DEF WrongPassword, guardHistory
  <2>2. GuardTypeOK'
    BY <1>1, <1>2, <2>1 DEF GuardInv, GuardTypeOK, AttemptType
  <2>3. ~overlap' => Counts' /\ HoldsRow'
    BY <1>1, <1>2, <2>1 DEF GuardInv, Counts, Blocked, HoldsRow
  <2> QED BY <2>2, <2>3 DEF GuardInv
<1>5. CASE ~(copy.role = "admin" /\ Cooldown = 0)
  <2>1. /\ counter' = AfterFailure(copy) /\ lastWrong' = time /\ overlap' = overlap
        /\ run' = IF run = 0 \/ time - lastWrong >= Window THEN 1
                  ELSE IF run < MaxAttempts THEN run + 1 ELSE run
    BY <1>5 DEF WrongPassword
  <2>2. run' \in 1..MaxAttempts
    BY <2>1, <1>3, Bounds
  <2>3. n \in Nat /\ n > 0
    BY <1>3, Bounds DEF Counted, RowType
  <2> DEFINE lock == LockUntil(copy)
  <2>4. /\ lock \in 0..(MaxSignInTime + LongestLock)
        /\ LongLocks /\ lock # 0 => lock >= time + Window
    BY <1>3, <1>5, Bounds DEF LockUntil, LongLocks, RowType
  <2>5. CASE n < MaxAttempts
    <3>1. counter' = [counter EXCEPT !.failed = n, !.lastFail = time]
      BY <2>1, <2>5 DEF AfterFailure
    <3> HIDE DEF n
    <3>2. /\ counter' \in RowType /\ counter'.failed = n /\ counter'.lastFail = time
          /\ counter'.locked = counter.locked
      <4>1. n \in 0..MaxAttempts /\ time \in 0..MaxSignInTime
        BY <1>3, <2>3, <2>5, Bounds
      <4> QED BY <3>1, <4>1, <1>3 DEF RowType
    <3>3. ASSUME ~overlap PROVE ~counter.locked /\ n = run'
      <4>1. /\ Counts
            /\ (SameBlock(copy) /\ ~copy.locked) \/ HeldPast(copy)
        BY <3>3, <1>1, <1>2 DEF GuardInv, HoldsRow
      <4>2. CASE SameBlock(copy) /\ ~copy.locked
        <5>1. /\ ~counter.locked /\ copy.failed = run /\ copy.lastFail = lastWrong
              /\ run < MaxAttempts /\ (run = 0 <=> lastWrong = 0)
          BY <4>1, <4>2 DEF Counts, SameBlock
        <5> QED BY <5>1, <2>1, <1>3, Bounds DEF Counted, n
      <4>3. CASE HeldPast(copy)
        <5>1. ~counter.locked /\ run = 0 /\ copy.failed = MaxAttempts
          BY <4>3 DEF HeldPast, Blocked
        <5> QED BY <5>1, <2>1, <2>5, <1>3, Bounds DEF Counted, n
      <4> QED BY <4>1, <4>2, <4>3
    <3>4. ~overlap => Counts'
      BY <3>2, <3>3, <1>1, <1>3, <2>1, <2>2, <2>5, Bounds DEF Counts
    <3>5. ~overlap => HoldsRow'
      BY <1>2 DEF GuardInv, HoldsRow
    <3>6. GuardTypeOK'
      BY <1>1, <1>2, <1>3, <2>1, <2>2, <3>2 DEF GuardTypeOK, AttemptType
    <3> QED BY <2>1, <3>4, <3>5, <3>6 DEF GuardInv
  <2>6. CASE ~(n < MaxAttempts)
    <3> DEFINE block == [failed |-> MaxAttempts, lastFail |-> time, locked |-> TRUE, until |-> lock]
    <3>1. counter' = WithRole(counter.role, block)
      BY <2>1, <2>6 DEF AfterFailure
    <3>b. /\ block.failed = MaxAttempts /\ block.lastFail = time
          /\ block.locked = TRUE /\ block.until = lock
      OBVIOUS
    <3> HIDE DEF n, lock, block
    <3>2. /\ counter' \in RowType /\ counter'.failed = MaxAttempts /\ counter'.lastFail = time
          /\ counter'.locked /\ counter'.until = lock
      <4>1. /\ MaxAttempts \in 0..MaxAttempts /\ time \in 0..MaxSignInTime
            /\ counter.role \in Roles
        BY <1>3, Bounds DEF RowType
      <4>2. counter' = [role |-> counter.role, failed |-> MaxAttempts, lastFail |-> time,
                        locked |-> TRUE, until |-> lock]
        BY <3>1, <3>b DEF WithRole
      <4> QED BY <4>1, <4>2, <2>4 DEF RowType
    <3>3. ASSUME ~overlap, LongLocks PROVE n = run'
      <4>1. /\ Counts
            /\ (SameBlock(copy) /\ ~copy.locked) \/ HeldPast(copy)
        BY <3>3, <1>1, <1>2 DEF GuardInv, HoldsRow
      <4>2. CASE SameBlock(copy) /\ ~copy.locked
        <5>1. /\ copy.failed = run /\ copy.lastFail = lastWrong
              /\ run < MaxAttempts /\ (run = 0 <=> lastWrong = 0)
          BY <4>1, <4>2 DEF Counts, SameBlock
        <5> QED BY <5>1, <2>1, <1>3, Bounds DEF Counted, n
      <4>3. CASE HeldPast(copy)
        <5>1. /\ run = 0 /\ copy.lastFail \in 1..time /\ copy.until \in Nat
              /\ copy.until # 0 /\ copy.until <= time
              /\ copy.until >= copy.lastFail + Window
          BY <3>3, <4>3, <1>3, Bounds DEF HeldPast, Blocked, Lapsed, RowType
        <5>2. ~(time - copy.lastFail < Window)
          BY <5>1, <1>3, Bounds
        <5> QED BY <5>1, <5>2, <2>1 DEF Counted, n
      <4> QED BY <4>1, <4>2, <4>3
    <3>4. Blocked(counter)'
      BY <3>2, <2>4, <1>1, <1>3 DEF Blocked, LongLocks
    <3>5. ~overlap => Counts'
      BY <3>2, <3>3, <3>4, <1>1, <1>3, <2>1, <2>2, <2>6, Bounds DEF Counts, LongLocks
    <3>6. ~overlap => HoldsRow'
      BY <1>2 DEF GuardInv, HoldsRow
    <3>7. GuardTypeOK'
      BY <1>1, <1>2, <1>3, <2>1, <2>2, <3>2 DEF GuardTypeOK, AttemptType
    <3> QED BY <2>1, <3>5, <3>6, <3>7 DEF GuardInv
  <2> QED BY <2>5, <2>6
<1> QED BY <1>4, <1>5

(* A right password, an unblock or a new password wipes the slate; what is  *)
(* still under way then overlaps.                                           *)
LEMMA WipeKeeps ==
  ASSUME GuardInv, (\E a \in Attempts : RightPassword(a)) \/ Unblock PROVE GuardInv'
<1>1. /\ time' = time /\ counter' = WithRole(counter.role, Clean)
      /\ run' = 0 /\ lastWrong' = 0 /\ overlap' \in BOOLEAN
      /\ attempt' \in [Attempts -> AttemptType]
      /\ ~overlap' => InFlight' = {}
  <2>1. ASSUME NEW a \in Attempts, RightPassword(a)
        PROVE  /\ attempt' \in [Attempts -> AttemptType] /\ overlap' = (InFlight' # {})
    BY <2>1, Ended DEF RightPassword, ClearRow, GuardInv
  <2>2. CASE Unblock
    BY <2>2 DEF Unblock, ClearRow, GuardInv, GuardTypeOK, AttemptType, InFlight
  <2> QED BY <2>1, <2>2 DEF RightPassword, ClearRow
<1>2. Counts' /\ GuardTypeOK'
  BY <1>1, Wiped DEF GuardInv, GuardTypeOK, AttemptType
<1>3. ~overlap' => HoldsRow'
  BY <1>1 DEF HoldsRow
<1> QED BY <1>2, <1>3 DEF GuardInv

LEMMA RoleKeeps == ASSUME GuardInv, NEW r \in Roles, SetRole(r) PROVE GuardInv'
<1>1. /\ counter' = [counter EXCEPT !.role = r]
      /\ UNCHANGED <<time, attempt, run, lastWrong, overlap>> /\ counter \in RowType
  BY DEF SetRole, guardHistory, GuardInv, GuardTypeOK
<1>2. /\ counter' \in RowType
      /\ counter'.failed = counter.failed /\ counter'.lastFail = counter.lastFail
      /\ counter'.locked = counter.locked /\ counter'.until = counter.until
  BY <1>1 DEF RowType
<1>3. GuardTypeOK' /\ InFlight' = InFlight
  BY <1>1, <1>2 DEF GuardInv, GuardTypeOK, InFlight
<1>4. ~overlap' => Counts'
  BY <1>1, <1>2 DEF GuardInv, Counts, Blocked
<1>5. ~overlap' => HoldsRow'
  BY <1>1, <1>2, <1>3 DEF GuardInv, HoldsRow, SameBlock, HeldPast, Blocked, Lapsed
<1> QED BY <1>3, <1>4, <1>5 DEF GuardInv

LEMMA TimeKeeps == ASSUME GuardInv, GuardTick PROVE GuardInv'
<1>1. /\ time' = time + 1 /\ time' \in 1..MaxSignInTime
      /\ UNCHANGED <<counter, attempt, run, lastWrong, overlap>>
  BY Bounds DEF GuardTick, guardHistory, GuardInv, GuardTypeOK
<1>2. GuardTypeOK' /\ InFlight' = InFlight
  BY <1>1 DEF GuardInv, GuardTypeOK, InFlight
<1>t. /\ time \in Nat /\ lastWrong \in Nat
      /\ \A a \in Attempts : attempt[a].copy \in RowType
  BY Bounds DEF GuardInv, GuardTypeOK
<1>3. ASSUME NEW copy, Blocked(copy) PROVE Blocked(copy)'
  BY <1>1, <1>3, <1>t DEF Blocked
<1>4. ASSUME NEW a \in Attempts, Lapsed(attempt[a].copy) PROVE Lapsed(attempt[a].copy)'
  BY <1>1, <1>4, <1>t, Bounds DEF Lapsed, RowType
<1>5. ~overlap' => Counts'
  BY <1>1, <1>3, <1>t DEF GuardInv, Counts
<1>6. ASSUME ~overlap PROVE HoldsRow'
  <2>1. HoldsRow
    BY <1>6 DEF GuardInv
  <2>2. \A a \in InFlight : HeldPast(attempt[a].copy) => HeldPast(attempt[a].copy)'
    BY <1>1, <1>3, <1>4 DEF HeldPast, InFlight
  <2> QED BY <1>1, <1>2, <1>4, <2>1, <2>2 DEF HoldsRow, SameBlock, InFlight
<1> QED BY <1>1, <1>2, <1>5, <1>6 DEF GuardInv

LEMMA GuardInvStep == ASSUME GuardInv, [GuardNext]_guardVars PROVE GuardInv'
<1>1. CASE UNCHANGED guardVars
  <2>1. UNCHANGED <<time, counter, attempt, run, lastWrong, overlap>>
    BY <1>1 DEF guardVars, guardHistory
  <2>2. InFlight' = InFlight
    BY <2>1 DEF InFlight
  <2> QED BY <2>1, <2>2 DEF GuardInv, GuardTypeOK, Counts, HoldsRow, SameBlock, HeldPast, Blocked, Lapsed
<1> QED
  BY <1>1, ReadKeeps, RefuseKeeps, AllowKeeps, ClearKeeps, WrongKeeps, WipeKeeps,
     RoleKeeps, TimeKeeps DEF GuardNext

LEMMA GuardInvariance == GuardSpec => []GuardInv
BY GuardInvInit, GuardInvStep, PTL DEF GuardSpec

(* Every variable keeps to its type; the count never passes MaxAttempts.    *)
THEOREM GuardTypeCorrect == GuardSpec => []GuardTypeOK
<1>1. GuardInv => GuardTypeOK
  BY DEF GuardInv
<1> QED BY <1>1, GuardInvariance, PTL

(* After MaxAttempts wrong passwords in a row the account is blocked, for   *)
(* any limits, if sign-ins do not overlap (recordFailure).                  *)
THEOREM BlockedInTime == GuardSpec => []CountedWhenAlone
<1>1. GuardInv => CountedWhenAlone
  BY Bounds DEF GuardInv, Counts, CountedWhenAlone, FailuresCounted, GuardTypeOK
<1> QED BY <1>1, GuardInvariance, PTL

(* And not before, where locks last a window or more.                       *)
THEOREM NotBlockedEarly == ASSUME LongLocks PROVE GuardSpec => []NeverBlockedEarly
<1>1. GuardInv => NeverBlockedEarly
  BY LongLocks DEF GuardInv, Counts, NeverBlockedEarly
<1> QED BY <1>1, GuardInvariance, PTL
-----------------------------------------------------------------------------
(***************************************************************************)
(* What holds of the roles whichever loads overtake one another, for any   *)
(* number of admins and roles: the owner role manages (Owners).  And what  *)
(* holds as long as none does: a load that no write has crossed has read   *)
(* what the tables say (Fresh), a role about to be deleted is not granted  *)
(* (Meant).                                                                *)
(***************************************************************************)

IdsType == [Slugs -> Ids \cup {NoRole}]
PermsType == [Ids -> (SUBSET Perms) \cup {NoRole}]
PolicyType == [Slugs -> [id : Ids, perms : SUBSET Perms] \cup {NoRole}]

LoadTask(t) ==
  /\ t = [step |-> "load", ids |-> t.ids, perms |-> t.perms]
  /\ t.ids = NoRole \/ t.ids \in IdsType
  /\ t.perms = NoRole \/ t.perms \in PermsType

Typed ==
  /\ roleIds \in IdsType /\ rolePerms \in PermsType /\ rolePolicy \in PolicyType
  /\ grants \subseteq Slugs \X Ids
  /\ task = [a \in Admins |-> task[a]]
  /\ \A a \in Admins :
       /\ task[a].step = "load" => LoadTask(task[a])
       /\ task[a].step = "delete" => task[a].slug \in Slugs
       /\ task[a].step = "grant" => task[a].slug \in Slugs /\ task[a].id \in Ids

(* Each role has permissions, if none, and an id of its own.                *)
Rows ==
  /\ \A s \in Slugs : roleIds[s] # NoRole => rolePerms[roleIds[s]] # NoRole
  /\ \A s, t \in Slugs : roleIds[s] # NoRole /\ roleIds[s] = roleIds[t] => s = t

(* The owner role: in the tables, in memory, in whatever a load has read.   *)
Owners ==
  /\ roleIds[Owner] = 0 /\ OwnerManages
  /\ \A a \in Loading :
       /\ task[a].ids # NoRole => task[a].ids[Owner] = 0
       /\ task[a].perms # NoRole => task[a].perms[0] # NoRole /\ "manage" \in task[a].perms[0]
  /\ \A a \in Admins : task[a].step = "delete" => task[a].slug # Owner

Fresh ==
  ~loadsCrossed =>
    /\ \A a, b \in Loading : a = b
    /\ \A a \in Loading : task[a].ids \in {NoRole, roleIds} /\ task[a].perms \in {NoRole, rolePerms}
    /\ PolicyFollowsTables

Meant ==
  /\ GrantsNameTheirRole
  /\ ~grantCrossed => \A a \in Admins : task[a].step = "delete" =>
       \A g \in grants : g[1] # task[a].slug

PolicyInv == Typed /\ Rows /\ Owners /\ Fresh /\ Meant
-----------------------------------------------------------------------------
LEMMA OwnerIsSlug == Owner \in Slugs /\ 0 \in Ids /\ NoRole # 0
BY RolesAssumption DEF Slugs, Ids

LEMMA TaskSet ==
  ASSUME Typed, NEW a \in Admins, NEW to, TaskGoes(a, to)
  PROVE  /\ task' = [b \in Admins |-> task'[b]]
         /\ \A b \in Admins : task'[b] = IF b = a THEN to ELSE task[b]
BY DEF Typed, TaskGoes

LEMMA LoadsSet ==
  ASSUME Typed, NEW a \in Admins, NowLoads(a)
  PROVE  /\ task'[a].step = "load" /\ LoadTask(task'[a])
         /\ task'[a].ids = NoRole /\ task'[a].perms = NoRole
         /\ \A b \in Admins : b # a => task'[b] = task[b]
         /\ task' = [b \in Admins |-> task'[b]]
         /\ Loading' = Loading \cup {a}
<1> DEFINE to == [step |-> "load", ids |-> NoRole, perms |-> NoRole]
<1>1. TaskGoes(a, to)
  BY DEF NowLoads
<1>2. to.step = "load" /\ LoadTask(to) /\ to.ids = NoRole /\ to.perms = NoRole
  BY DEF LoadTask
<1> HIDE DEF to
<1>3. task'[a] = to /\ \A b \in Admins : b # a => task'[b] = task[b]
  BY <1>1, TaskSet
<1>4. task' = [b \in Admins |-> task'[b]]
  BY <1>1, TaskSet
<1> QED BY <1>2, <1>3, <1>4 DEF Loading

(* A write of the tables: what was in memory and in other tasks stays.      *)
LEMMA Written ==
  ASSUME PolicyInv, NEW a \in Admins, NowLoads(a), NoteLoads(a), task[a].step # "load",
         roleIds' \in IdsType, rolePerms' \in PermsType, Rows',
         roleIds'[Owner] = 0, "manage" \in rolePerms'[0],
         UNCHANGED <<rolePolicy, grants, grantCrossed>>,
         ~grantCrossed => \A g \in grants : roleIds'[g[1]] = roleIds[g[1]]
  PROVE  PolicyInv'
<1>s. Typed /\ Rows /\ Owners /\ Fresh /\ Meant
  BY DEF PolicyInv
<1>l. /\ task'[a].step = "load" /\ LoadTask(task'[a])
      /\ task'[a].ids = NoRole /\ task'[a].perms = NoRole
      /\ \A b \in Admins : b # a => task'[b] = task[b]
      /\ task' = [b \in Admins |-> task'[b]]
      /\ Loading' = Loading \cup {a}
  BY <1>s, LoadsSet
<1>1. Typed'
  BY <1>s, <1>l DEF Typed, LoadTask
<1>2. Owners'
  BY <1>s, <1>l DEF Owners, OwnerManages, InMemory, Loading
<1>3. Fresh'
  BY <1>l DEF Fresh, NoteLoads, PolicyFollowsTables
<1>4. Meant'
  BY <1>s, <1>l DEF Meant, GrantsNameTheirRole
<1> QED BY <1>1, <1>2, <1>3, <1>4 DEF PolicyInv

(* A step that writes no table and goes on to something other than a load.  *)
LEMMA WentOn ==
  ASSUME PolicyInv, NEW a \in Admins, NEW to, TaskGoes(a, to),
         task[a].step # "load", to.step # "load",
         to.step = "delete" => to.slug \in Slugs \ {Owner},
         to.step = "grant" => to.slug \in Slugs /\ to.id \in Ids,
         grants' \subseteq Slugs \X Ids, Meant',
         UNCHANGED <<roleIds, rolePerms, rolePolicy, loadsCrossed>>
  PROVE  PolicyInv'
<1>s. Typed /\ Rows /\ Owners /\ Fresh
  BY DEF PolicyInv
<1>t. /\ task' = [b \in Admins |-> task'[b]]
      /\ task'[a] = to /\ \A b \in Admins : b # a => task'[b] = task[b]
  BY <1>s, TaskSet
<1>l. Loading' = Loading /\ a \notin Loading
  BY <1>t DEF Loading
<1>1. Typed'
  BY <1>s, <1>t DEF Typed
<1>2. Rows'
  BY <1>s DEF Rows
<1>3. Owners'
  BY <1>s, <1>t, <1>l DEF Owners, OwnerManages, InMemory, Loading
<1>4. Fresh'
  BY <1>s, <1>t, <1>l DEF Fresh, PolicyFollowsTables, Loading, AsStored
<1> QED BY <1>1, <1>2, <1>3, <1>4 DEF PolicyInv

LEMMA CreateKeeps ==
  ASSUME PolicyInv, NEW a \in Admins, NEW perms \in SUBSET Perms, CreateRole(a, perms)
  PROVE  PolicyInv'
<1>s. Typed /\ Rows /\ Owners /\ Meant
  BY DEF PolicyInv
<1>1. PICK s \in Slugs, i \in Ids \ MadeSoFar :
        /\ roleIds[s] = NoRole
        /\ roleIds' = [roleIds EXCEPT ![s] = i]
        /\ rolePerms' = [rolePerms EXCEPT ![i] = perms]
  BY DEF CreateRole
<1>2. rolePerms[i] = NoRole /\ perms # NoRole /\ i # NoRole
  BY <1>1, RolesAssumption DEF MadeSoFar
<1>3. roleIds' \in IdsType /\ rolePerms' \in PermsType
  BY <1>s, <1>1 DEF Typed, IdsType, PermsType
<1>4. Rows'
  BY <1>s, <1>1, <1>2 DEF Typed, Rows, IdsType, PermsType
<1>5. s # Owner /\ i # 0
  BY <1>s, <1>1, <1>2, OwnerIsSlug DEF Owners, Rows
<1>6. roleIds'[Owner] = 0 /\ "manage" \in rolePerms'[0]
  BY <1>s, <1>1, <1>5, OwnerIsSlug DEF Owners, OwnerManages, Typed, IdsType, PermsType
<1>7. ~grantCrossed => \A g \in grants : roleIds'[g[1]] = roleIds[g[1]]
  <2>1. \A g \in grants : g[1] \in Slugs /\ g[2] \in Ids
    BY <1>s DEF Typed
  <2>2. ~grantCrossed => \A g \in grants : g[1] # s
    BY <1>s, <1>1, <2>1, RolesAssumption DEF Meant, GrantsNameTheirRole
  <2> QED BY <1>s, <1>1, <2>1, <2>2 DEF Typed, IdsType
<1>8. /\ NowLoads(a) /\ NoteLoads(a) /\ task[a].step # "load"
      /\ UNCHANGED <<rolePolicy, grants, grantCrossed>>
  BY DEF CreateRole, NoTask
<1> QED BY <1>3, <1>4, <1>6, <1>7, <1>8, Written

LEMMA UpdateKeeps ==
  ASSUME PolicyInv, NEW a \in Admins, NEW s \in Slugs, NEW perms \in SUBSET Perms,
         UpdateRole(a, s, perms)
  PROVE  PolicyInv'
<1>s. Typed /\ Rows /\ Owners
  BY DEF PolicyInv
<1> DEFINE i == rolePolicy[s].id
           kept == KeptPerms(s, perms)
<1>1. /\ roleIds[s] = i /\ i \in Ids /\ i # NoRole
      /\ rolePerms' = [rolePerms EXCEPT ![i] = kept] /\ roleIds' = roleIds
  BY <1>s, RolesAssumption DEF UpdateRole, InMemory, Typed, PolicyType
<1>2. kept \in SUBSET Perms /\ kept # NoRole /\ (s = Owner => "manage" \in kept)
  BY RolesAssumption DEF KeptPerms, Perms
<1> HIDE DEF i, kept
<1>3. roleIds' \in IdsType /\ rolePerms' \in PermsType
  BY <1>s, <1>1, <1>2 DEF Typed, PermsType
<1>4. Rows'
  BY <1>s, <1>1, <1>2 DEF Typed, Rows, IdsType, PermsType
<1>5. i = 0 => s = Owner
  BY <1>s, <1>1, OwnerIsSlug DEF Owners, Rows
<1>6. roleIds'[Owner] = 0 /\ "manage" \in rolePerms'[0]
  BY <1>s, <1>1, <1>2, <1>5, OwnerIsSlug DEF Owners, OwnerManages, Typed, PermsType
<1>7. /\ NowLoads(a) /\ NoteLoads(a) /\ task[a].step # "load"
      /\ UNCHANGED <<rolePolicy, grants, grantCrossed>>
  BY DEF UpdateRole, NoTask
<1> QED BY <1>1, <1>3, <1>4, <1>6, <1>7, Written

LEMMA DeleteKeeps ==
  ASSUME PolicyInv, NEW a \in Admins, DeleteRole(a) PROVE PolicyInv'
<1>s. Typed /\ Rows /\ Owners /\ Meant
  BY DEF PolicyInv
<1> DEFINE s == task[a].slug
           i == rolePolicy[s].id
<1>1. task[a].step = "delete" /\ s \in Slugs /\ s # Owner /\ UNCHANGED <<rolePolicy, grants, grantCrossed>>
  BY <1>s DEF DeleteRole, Typed, Owners
<1>2. CASE InMemory(s) /\ roleIds[s] = i
  <2>1. /\ roleIds' = [roleIds EXCEPT ![s] = NoRole]
        /\ rolePerms' = [rolePerms EXCEPT ![i] = {}]
        /\ NowLoads(a) /\ NoteLoads(a)
    BY <1>2 DEF DeleteRole
  <2>2. i \in Ids /\ i # NoRole /\ {} # NoRole /\ roleIds[s] = i
    BY <1>s, <1>1, <1>2, RolesAssumption DEF InMemory, Typed, PolicyType
  <2>3. ~grantCrossed => \A g \in grants : g[1] # s
    BY <1>s, <1>1 DEF Meant
  <2>4. \A g \in grants : g[1] \in Slugs
    BY <1>s DEF Typed
  <2> HIDE DEF s, i
  <2>5. roleIds' \in IdsType /\ rolePerms' \in PermsType
    BY <1>s, <2>1, <2>2 DEF Typed, IdsType, PermsType
  <2>6. Rows'
    BY <1>s, <1>1, <2>1, <2>2 DEF Typed, Rows, IdsType, PermsType
  <2>7. i # 0
    BY <1>s, <1>1, <2>2, OwnerIsSlug DEF Owners, Rows
  <2>8. roleIds'[Owner] = 0 /\ "manage" \in rolePerms'[0]
    BY <1>s, <1>1, <2>1, <2>7, OwnerIsSlug DEF Owners, OwnerManages, Typed, IdsType, PermsType
  <2>9. ~grantCrossed => \A g \in grants : roleIds'[g[1]] = roleIds[g[1]]
    BY <1>s, <2>1, <2>3, <2>4 DEF Typed, IdsType
  <2> QED BY <1>1, <2>1, <2>5, <2>6, <2>8, <2>9, Written
<1>3. CASE ~(InMemory(s) /\ roleIds[s] = i)
  <2>1. TaskGoes(a, NoTask) /\ UNCHANGED <<roleIds, rolePerms, loadsCrossed>>
    BY <1>3 DEF DeleteRole
  <2>2. NoTask.step = "idle"
    BY DEF NoTask
  <2>3. \A b \in Admins : task'[b].step = "delete" => task'[b] = task[b]
    BY <1>s, <2>1, <2>2, TaskSet
  <2>4. Meant'
    BY <1>s, <1>1, <2>1, <2>3 DEF Meant, GrantsNameTheirRole
  <2> QED BY <1>s, <1>1, <2>1, <2>2, <2>4, WentOn DEF Typed
<1> QED BY <1>2, <1>3

LEMMA CountKeeps ==
  ASSUME PolicyInv, NEW a \in Admins, NEW s \in Slugs, CountUsage(a, s) PROVE PolicyInv'
<1>s. Typed /\ Meant
  BY DEF PolicyInv
<1> DEFINE to == [step |-> "delete", slug |-> s]
<1>1. to.step = "delete" /\ to.slug = s /\ s # Owner /\ task[a].step # "load"
  BY DEF CountUsage, NoTask
<1>2. /\ TaskGoes(a, to) /\ \A g \in grants : g[1] # s
      /\ UNCHANGED <<roleIds, rolePerms, rolePolicy, grants, loadsCrossed, grantCrossed>>
  BY DEF CountUsage, CountRoleUsage
<1> HIDE DEF to
<1>3. \A b \in Admins : task'[b] = IF b = a THEN to ELSE task[b]
  BY <1>s, <1>2, TaskSet
<1>4. Meant'
  BY <1>s, <1>1, <1>2, <1>3 DEF Meant, GrantsNameTheirRole
<1> QED BY <1>s, <1>1, <1>2, <1>4, WentOn DEF Typed

LEMMA CriteriaKeeps ==
  ASSUME PolicyInv, NEW a \in Admins, NEW s \in Slugs, CheckCriteria(a, s) PROVE PolicyInv'
<1>s. Typed /\ Meant
  BY DEF PolicyInv
<1> DEFINE to == [step |-> "grant", slug |-> s, id |-> rolePolicy[s].id]
<1>1. to.step = "grant" /\ to.slug = s /\ to.id = rolePolicy[s].id /\ task[a].step # "load"
  BY DEF CheckCriteria, NoTask
<1>2. rolePolicy[s].id \in Ids
  BY <1>s DEF CheckCriteria, InMemory, Typed, PolicyType
<1>3. /\ TaskGoes(a, to)
      /\ UNCHANGED <<roleIds, rolePerms, rolePolicy, grants, loadsCrossed, grantCrossed>>
  BY DEF CheckCriteria
<1> HIDE DEF to
<1>4. \A b \in Admins : task'[b] = IF b = a THEN to ELSE task[b]
  BY <1>s, <1>3, TaskSet
<1>5. Meant'
  BY <1>s, <1>1, <1>3, <1>4 DEF Meant, GrantsNameTheirRole
<1> QED BY <1>s, <1>1, <1>2, <1>3, <1>5, WentOn DEF Typed

LEMMA GrantKeeps ==
  ASSUME PolicyInv, NEW a \in Admins, GrantRole(a) PROVE PolicyInv'
<1>s. Typed /\ Meant
  BY DEF PolicyInv
<1> DEFINE s == task[a].slug
           i == task[a].id
<1>1. /\ task[a].step = "grant" /\ s \in Slugs /\ i \in Ids
      /\ grants' = grants \cup {<<s, i>>}
      /\ TaskGoes(a, NoTask) /\ NoTask.step = "idle"
      /\ UNCHANGED <<roleIds, rolePerms, rolePolicy, loadsCrossed>>
  BY <1>s DEF GrantRole, Typed, NoTask
<1>2. ~grantCrossed' =>
        /\ ~grantCrossed /\ roleIds[s] = i
        /\ \A b \in Admins : task[b].step = "delete" => task[b].slug # s
  BY DEF GrantRole
<1> HIDE DEF s, i
<1>3. \A b \in Admins : task'[b] = IF b = a THEN NoTask ELSE task[b]
  BY <1>s, <1>1, TaskSet
<1>4. Meant'
  BY <1>s, <1>1, <1>2, <1>3 DEF Meant, GrantsNameTheirRole
<1>5. grants' \subseteq Slugs \X Ids
  BY <1>s, <1>1 DEF Typed
<1> QED BY <1>1, <1>4, <1>5, WentOn

(* A load reads one of the tables.                                          *)
LEMMA PolicyReadKeeps ==
  ASSUME PolicyInv, NEW a \in Admins, ReadRoles(a) \/ ReadPerms(a) PROVE PolicyInv'
<1>s. Typed /\ Rows /\ Owners /\ Fresh /\ Meant
  BY DEF PolicyInv
<1> DEFINE to == task'[a]
<1>1. /\ a \in Loading
      /\ UNCHANGED <<roleIds, rolePerms, rolePolicy, grants, loadsCrossed, grantCrossed>>
      /\ \/ TaskGoes(a, [task[a] EXCEPT !.ids = roleIds])
         \/ TaskGoes(a, [task[a] EXCEPT !.perms = rolePerms])
  BY DEF ReadRoles, ReadPerms
<1>2. task[a].step = "load" /\ LoadTask(task[a])
  BY <1>s, <1>1 DEF Typed, Loading
<1>3. /\ task' = [b \in Admins |-> task'[b]]
      /\ \A b \in Admins : b # a => task'[b] = task[b]
      /\ to \in {[task[a] EXCEPT !.ids = roleIds], [task[a] EXCEPT !.perms = rolePerms]}
  BY <1>s, <1>1, TaskSet
<1>4. /\ to.step = "load" /\ LoadTask(to)
      /\ to.ids \in {task[a].ids, roleIds} /\ to.perms \in {task[a].perms, rolePerms}
  BY <1>s, <1>2, <1>3 DEF LoadTask, Typed
<1>5. rolePerms[0] # NoRole /\ "manage" \in rolePerms[0] /\ roleIds[Owner] = 0
  BY <1>s, OwnerIsSlug DEF Owners, OwnerManages, Rows
<1> HIDE DEF to
<1>6. Loading' = Loading
  BY <1>1, <1>3, <1>4 DEF Loading, to
<1>7. Typed'
  BY <1>s, <1>1, <1>3, <1>4 DEF Typed, to
<1>8. Rows' /\ Meant'
  BY <1>s, <1>1, <1>3, <1>4 DEF Rows, Meant, GrantsNameTheirRole, to
<1>9. Owners'
  <2>1. \A b \in Loading :
          /\ task'[b].ids # NoRole => task'[b].ids[Owner] = 0
          /\ task'[b].perms # NoRole => task'[b].perms[0] # NoRole /\ "manage" \in task'[b].perms[0]
    BY <1>s, <1>1, <1>3, <1>4, <1>5 DEF Owners, Loading, to
  <2> QED BY <1>s, <1>1, <1>3, <1>4, <1>6, <2>1 DEF Owners, OwnerManages, InMemory, to
<1>10. Fresh'
  BY <1>s, <1>1, <1>3, <1>4, <1>6 DEF Fresh, PolicyFollowsTables, AsStored, Loading, to
<1> QED BY <1>7, <1>8, <1>9, <1>10 DEF PolicyInv

LEMMA InstallKeeps ==
  ASSUME PolicyInv, NEW a \in Admins, InstallRoles(a) PROVE PolicyInv'
<1>s. Typed /\ Rows /\ Owners /\ Fresh /\ Meant
  BY DEF PolicyInv
<1> DEFINE ids == task[a].ids
           perms == task[a].perms
<1>1. /\ a \in Loading /\ ids # NoRole /\ perms # NoRole
      /\ rolePolicy' = Installed(a) /\ TaskGoes(a, NoTask)
      /\ UNCHANGED <<roleIds, rolePerms, grants, loadsCrossed, grantCrossed>>
  BY DEF InstallRoles
<1>2. ids \in IdsType /\ perms \in PermsType
  BY <1>s, <1>1 DEF Typed, LoadTask, Loading
<1>3. /\ ids[Owner] = 0 /\ perms[0] # NoRole /\ "manage" \in perms[0]
  BY <1>s, <1>1 DEF Owners
<1>4. Installed(a) = [s \in Slugs |->
        IF ids[s] = NoRole THEN NoRole
        ELSE [id |-> ids[s], perms |-> IF perms[ids[s]] = NoRole THEN {} ELSE perms[ids[s]]]]
  BY DEF Installed
<1>5. ~loadsCrossed => ids = roleIds /\ perms = rolePerms /\ Loading = {a}
  BY <1>s, <1>1 DEF Fresh
<1>6. /\ task' = [b \in Admins |-> task'[b]] /\ task'[a] = NoTask /\ NoTask.step = "idle"
      /\ \A b \in Admins : b # a => task'[b] = task[b]
  BY <1>s, <1>1, TaskSet DEF NoTask
<1> HIDE DEF ids, perms
<1>7. \A i \in Ids : perms[i] = NoRole \/ perms[i] \in SUBSET Perms
  BY <1>2 DEF PermsType
<1>8. Installed(a) \in PolicyType
  <2> SUFFICES ASSUME NEW s \in Slugs
               PROVE  Installed(a)[s] \in [id : Ids, perms : SUBSET Perms] \cup {NoRole}
    BY <1>4 DEF PolicyType
  <2>1. ids[s] = NoRole \/ ids[s] \in Ids
    BY <1>2 DEF IdsType
  <2> QED BY <1>4, <1>7, <2>1
<1>9. Installed(a)[Owner] = [id |-> 0, perms |-> perms[0]]
  BY <1>3, <1>4, OwnerIsSlug
<1>10. Installed(a)[Owner] # NoRole /\ "manage" \in Installed(a)[Owner].perms
  BY <1>3, <1>7, <1>9, OwnerIsSlug, RolesAssumption
<1>11. Typed'
  BY <1>s, <1>1, <1>6, <1>8 DEF Typed
<1>12. Rows' /\ Meant'
  BY <1>s, <1>1, <1>6 DEF Rows, Meant, GrantsNameTheirRole
<1>13. Loading' = Loading \ {a}
  BY <1>1, <1>6 DEF Loading
<1>14. Owners'
  BY <1>s, <1>1, <1>6, <1>10, <1>13 DEF Owners, OwnerManages, InMemory, Loading
<1>15. Fresh'
  <2>1. ~loadsCrossed => Installed(a) = AsStored(roleIds, rolePerms)
    <3> SUFFICES ASSUME ids = roleIds, perms = rolePerms, Loading = {a}
                 PROVE  Installed(a) = AsStored(roleIds, rolePerms)
      BY <1>5
    <3>1. \A s \in Slugs : ids[s] # NoRole => perms[ids[s]] # NoRole
      BY <1>s DEF Rows
    <3> QED BY <1>4, <3>1 DEF AsStored
  <2>2. ~loadsCrossed => (rolePolicy = AsStored(roleIds, rolePerms))'
    BY <1>1, <2>1 DEF AsStored
  <2> QED BY <1>1, <1>5, <1>13, <2>2 DEF Fresh, PolicyFollowsTables
<1> QED BY <1>11, <1>12, <1>14, <1>15 DEF PolicyInv
-----------------------------------------------------------------------------
LEMMA PolicyInvInit == PolicyInit => PolicyInv
<1> SUFFICES ASSUME PolicyInit PROVE PolicyInv
  OBVIOUS
<1>1. /\ roleIds = [s \in Slugs |-> IF s = Owner THEN 0 ELSE NoRole]
      /\ rolePerms = [i \in Ids |-> IF i = 0 THEN Perms ELSE NoRole]
      /\ rolePolicy = AsStored(roleIds, rolePerms)
      /\ grants = {} /\ task = [a \in Admins |-> NoTask] /\ NoTask.step = "idle"
  BY DEF PolicyInit, NoTask
<1>2. Loading = {} /\ \A a \in Admins : task[a].step = "idle"
  BY <1>1 DEF Loading
<1>3. Perms # NoRole /\ "manage" \in Perms
  BY RolesAssumption DEF Perms
<1>4. rolePolicy = [s \in Slugs |-> IF s = Owner THEN [id |-> 0, perms |-> Perms] ELSE NoRole]
  BY <1>1, OwnerIsSlug DEF AsStored
<1>5. [id |-> 0, perms |-> Perms] \in [id : Ids, perms : SUBSET Perms]
  BY OwnerIsSlug
<1>6. Typed
  BY <1>1, <1>2, <1>4, <1>5, OwnerIsSlug DEF Typed, IdsType, PermsType, PolicyType
<1>7. Rows
  BY <1>1, <1>3, OwnerIsSlug DEF Rows
<1>8. Owners
  <2>1. rolePolicy[Owner] = [id |-> 0, perms |-> Perms] /\ rolePolicy[Owner] # NoRole
    BY <1>4, <1>5, OwnerIsSlug, RolesAssumption
  <2>2. OwnerManages
    BY <1>1, <1>3, <2>1, OwnerIsSlug DEF OwnerManages, InMemory
  <2> QED BY <1>1, <1>2, <2>2, OwnerIsSlug DEF Owners
<1>9. Fresh /\ Meant
  BY <1>1, <1>2 DEF Fresh, PolicyFollowsTables, Meant, GrantsNameTheirRole
<1> QED BY <1>6, <1>7, <1>8, <1>9 DEF PolicyInv

LEMMA PolicyInvStep == ASSUME PolicyInv, [PolicyNext]_policyVars PROVE PolicyInv'
<1>1. ASSUME NEW g \in grants, RevokeRole(g) PROVE PolicyInv'
  <2>1. /\ grants' \subseteq grants
        /\ UNCHANGED <<roleIds, rolePerms, rolePolicy, task, loadsCrossed, grantCrossed>>
    BY <1>1 DEF RevokeRole
  <2>2. Loading' = Loading
    BY <2>1 DEF Loading
  <2> QED
    BY <2>1, <2>2 DEF PolicyInv, Typed, Rows, Owners, OwnerManages, InMemory, Fresh,
       PolicyFollowsTables, AsStored, Meant, GrantsNameTheirRole
<1>2. CASE UNCHANGED policyVars
  <2>1. UNCHANGED <<roleIds, rolePerms, rolePolicy, grants, task, loadsCrossed, grantCrossed>>
    BY <1>2 DEF policyVars
  <2>2. Loading' = Loading
    BY <2>1 DEF Loading
  <2> QED
    BY <2>1, <2>2 DEF PolicyInv, Typed, Rows, Owners, OwnerManages, InMemory, Fresh,
       PolicyFollowsTables, AsStored, Meant, GrantsNameTheirRole
<1> QED
  BY <1>1, <1>2, CreateKeeps, UpdateKeeps, DeleteKeeps, CountKeeps, CriteriaKeeps,
     GrantKeeps, PolicyReadKeeps, InstallKeeps DEF PolicyNext

LEMMA PolicyInvariance == PolicySpec => []PolicyInv
BY PolicyInvInit, PolicyInvStep, PTL DEF PolicySpec

(* Every variable keeps to its type, and no two roles share an id.          *)
THEOREM PolicyTypeCorrect == PolicySpec => []PolicyTypeOK
<1>1. PolicyInv => PolicyTypeOK
  <2>1. Range(Custom) \subseteq Slugs
    BY DEF Slugs
  <2> QED BY <2>1 DEF PolicyInv, Typed, Rows, PolicyTypeOK, IdsType, PermsType, PolicyType
<1> QED BY <1>1, PolicyInvariance, PTL

(* Whatever loads overtake one another, the owner role manages, in the      *)
(* tables and in memory (OWNER_PERMISSION of permissions.js).               *)
THEOREM OwnersManage == PolicySpec => []OwnerManages
<1>1. PolicyInv => OwnerManages
  BY DEF PolicyInv, Owners
<1> QED BY <1>1, PolicyInvariance, PTL

(* With no load under way, memory is what the tables say, unless the last   *)
(* write came while another's load was under way.                           *)
THEOREM MemoryFollows == PolicySpec => []PolicyFollowsTables
<1>1. PolicyInv => PolicyFollowsTables
  BY DEF PolicyInv, Fresh, PolicyFollowsTables
<1> QED BY <1>1, PolicyInvariance, PTL

(* No grant names a role that is gone, or a later one of the same slug,     *)
(* unless a grant and the deletion of its role passed one another.          *)
THEOREM GrantsHold == PolicySpec => []GrantsNameTheirRole
<1>1. PolicyInv => GrantsNameTheirRole
  BY DEF PolicyInv, Meant
<1> QED BY <1>1, PolicyInvariance, PTL
-----------------------------------------------------------------------------
(***************************************************************************)
(* The run that puts the logins, the guard, the sessions, the roles and the *)
(* memo side by side is a run of each of them.                              *)
(***************************************************************************)

(* Each component takes its own steps in MCAccess, or none.                 *)
THEOREM AccessImplements ==
  AccessSpec => LoginsSpec /\ GuardSpec /\ ConnSpec /\ PolicySpec /\ Spec
<1>1. AccessInit => LoginsInit /\ GuardInit /\ ConnInit /\ PolicyInit /\ Init
  BY DEF AccessInit
<1>2. [AccessNext]_accessVars => [LoginsNext]_loginVars
  BY DEF AccessNext, accessVars, loginVars
<1>3. [AccessNext]_accessVars => [GuardNext]_guardVars
  BY DEF AccessNext, accessVars, guardVars
<1>4. [AccessNext]_accessVars => [ConnNext]_connVars
  BY DEF AccessNext, accessVars, connVars
<1>5. [AccessNext]_accessVars => [PolicyNext]_policyVars
  BY DEF AccessNext, accessVars, policyVars
<1>6. [AccessNext]_accessVars => [Next]_vars
  BY DEF AccessNext, accessVars, vars
<1> QED BY <1>1, <1>2, <1>3, <1>4, <1>5, <1>6, PTL
        DEF AccessSpec, LoginsSpec, GuardSpec, ConnSpec, PolicySpec, Spec

(* What each of them keeps typed is typed in the run (AccessTypeOK).        *)
THEOREM AccessTypeCorrect == AccessSpec => []AccessTypeOK
<1>1. LoginsTypeOK /\ GuardTypeOK /\ ConnTypeOK /\ PolicyTypeOK /\ TypeOK => AccessTypeOK
  BY DEF AccessTypeOK
<1> QED BY <1>1, AccessImplements, LoginsTypeCorrect, GuardTypeCorrect, ConnTypeCorrect,
           PolicyTypeCorrect, TypeCorrect, PTL
=============================================================================
