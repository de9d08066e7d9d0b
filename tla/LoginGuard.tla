----------------------------- MODULE LoginGuard -----------------------------
(***************************************************************************)
(* The sign-in guard of one account (server/login-guard.js) under the      *)
(* sign-in route, and the routes that lift a block or change the account's *)
(* role.  The guard's state is the account's row: a sign-in reads the row  *)
(* once, decides by that copy, and writes the row back from it.            *)
(***************************************************************************)
EXTENDS Naturals, FiniteSets

CONSTANTS
  Attempts,      \* concurrent sign-in requests
  MaxAttempts,   \* LOGIN_MAX_ATTEMPTS
  Window,        \* LOGIN_ATTEMPT_WINDOW_MS, in ticks
  Lockout,       \* LOGIN_LOCKOUT_MS, 0 for a lock only an admin lifts
  Cooldown,      \* LOGIN_ADMIN_COOLDOWN_MS
  MaxSignInTime  \* bound on the clock

ASSUME GuardAssumption ==
  /\ IsFiniteSet(Attempts)
  /\ {MaxAttempts, Window, Lockout, Cooldown, MaxSignInTime} \subseteq Nat
  /\ MaxAttempts > 0 /\ MaxSignInTime > 0

VARIABLES
  time,       \* Date.now(), in ticks, from 1
  counter,    \* the account's role and LOCK_FIELDS
  attempt,    \* the sign-ins under way
  run,        \* history: wrong passwords in a row since the slate was wiped
  lastWrong,  \* history: when the last of them was
  overlap     \* history: since then, a sign-in overlapped another or a wipe

guardHistory == <<run, lastWrong, overlap>>
guardVars == <<time, counter, attempt, guardHistory>>

Roles == {"admin", "user"}

(* No null: 0 stands for one, and `locked' for locked_at being set.         *)
Clean == [failed |-> 0, lastFail |-> 0, locked |-> FALSE, until |-> 0]

LongestLock == IF Lockout > Cooldown THEN Lockout ELSE Cooldown

RowType ==
  [role : Roles, failed : 0..MaxAttempts, lastFail : 0..MaxSignInTime,
   locked : BOOLEAN, until : 0..(MaxSignInTime + LongestLock)]

GuardTypeOK ==
  /\ time \in 1..MaxSignInTime
  /\ counter \in RowType
  /\ attempt \in [Attempts -> [at : {"idle", "read", "expired", "verify"}, copy : RowType]]
  /\ run \in 0..MaxAttempts /\ lastWrong \in 0..MaxSignInTime /\ overlap \in BOOLEAN

WithRole(r, fields) ==
  [role |-> r, failed |-> fields.failed, lastFail |-> fields.lastFail,
   locked |-> fields.locked, until |-> fields.until]

IdleAttempt == [at |-> "idle", copy |-> WithRole("user", Clean)]

InFlight == {a \in Attempts : attempt[a].at # "idle"}

GuardInit ==
  /\ time = 1
  /\ \E r \in Roles : counter = WithRole(r, Clean)
  /\ attempt = [a \in Attempts |-> IdleAttempt]
  /\ run = 0 /\ lastWrong = 0 /\ overlap = FALSE

(* clearRow, while the sign-ins of `others' are under way.                  *)
ClearRow(others) ==
  /\ counter' = WithRole(counter.role, Clean)
  /\ run' = 0 /\ lastWrong' = 0
  /\ overlap' = (others # {})

EndAttempt(a) == attempt' = [attempt EXCEPT ![a] = IdleAttempt]
-----------------------------------------------------------------------------
(* The route reads the row, the only time it does.                          *)
ReadRow(a) ==
  /\ attempt[a].at = "idle"
  /\ attempt' = [attempt EXCEPT ![a] = [at |-> "read", copy |-> counter]]
  /\ overlap' = (overlap \/ InFlight # {})
  /\ UNCHANGED <<time, counter, run, lastWrong>>

(* loginRefusal and activeLock, on the copy: refuse, clear, or go on.       *)
Lapsed(copy) == copy.until # 0 /\ copy.until <= time

Refuse(a) ==
  /\ attempt[a].at = "read" /\ attempt[a].copy.locked /\ ~Lapsed(attempt[a].copy)
  /\ EndAttempt(a)
  /\ UNCHANGED <<time, counter, guardHistory>>

Allow(a) ==
  /\ attempt[a].at = "read"
  /\ ~attempt[a].copy.locked \/ Lapsed(attempt[a].copy)
  /\ attempt' = [attempt EXCEPT ![a].at =
                   IF attempt[a].copy.locked THEN "expired" ELSE "verify"]
  /\ UNCHANGED <<time, counter, guardHistory>>

ClearExpired(a) ==
  /\ attempt[a].at = "expired"
  /\ counter' = WithRole(counter.role, Clean)
  /\ run' = 0 /\ lastWrong' = 0
  /\ overlap' = (overlap \/ InFlight # {a})  \* the copy is still the old row
  /\ attempt' = [attempt EXCEPT ![a].at = "verify"]
  /\ UNCHANGED time

(* A wrong password: recordFailure, counted from the copy.  Definitions     *)
(* named "Broken..." are slips the properties must tell from the code.      *)
BrokenCounted(copy) ==
  (IF copy.lastFail # 0 THEN copy.failed ELSE 0) + 1

Counted(copy) ==
  (IF copy.lastFail # 0 /\ time - copy.lastFail < Window THEN copy.failed ELSE 0) + 1

LockUntil(copy) ==
  IF copy.role = "admin" THEN time + Cooldown ELSE IF Lockout # 0 THEN time + Lockout ELSE 0

BrokenAfterFailure(copy) ==
  IF Counted(copy) <= MaxAttempts
  THEN [counter EXCEPT !.failed = Counted(copy), !.lastFail = time]
  ELSE WithRole(counter.role, [failed |-> MaxAttempts, lastFail |-> time,
                           locked |-> TRUE, until |-> LockUntil(copy)])

AfterFailure(copy) ==
  IF Counted(copy) < MaxAttempts
  THEN [counter EXCEPT !.failed = Counted(copy), !.lastFail = time]
  ELSE WithRole(counter.role, [failed |-> MaxAttempts, lastFail |-> time,
                           locked |-> TRUE, until |-> LockUntil(copy)])

WrongPassword(a) ==
  LET copy == attempt[a].copy
  IN  /\ attempt[a].at = "verify"
      /\ IF copy.role = "admin" /\ Cooldown = 0
         THEN UNCHANGED <<counter, guardHistory>>
         ELSE /\ counter' = AfterFailure(copy)
              /\ run' = IF run = 0 \/ time - lastWrong >= Window THEN 1
                        ELSE IF run < MaxAttempts THEN run + 1 ELSE run
              /\ lastWrong' = time
              /\ UNCHANGED overlap
      /\ EndAttempt(a)
      /\ UNCHANGED time

(* The right one: clearFailures, then the session.                          *)
RightPassword(a) ==
  /\ attempt[a].at = "verify"
  /\ ClearRow(InFlight \ {a})
  /\ EndAttempt(a)
  /\ UNCHANGED time
-----------------------------------------------------------------------------
(* unblockUser by an admin; a new password, by link or by an admin.         *)
Unblock ==
  /\ ClearRow(InFlight)
  /\ UNCHANGED <<time, attempt>>

(* PUT /api/admin/users/:id with a role and no password.                    *)
SetRole(r) ==
  /\ counter.role # r
  /\ counter' = [counter EXCEPT !.role = r]
  /\ UNCHANGED <<time, attempt, guardHistory>>

GuardTick ==
  /\ time < MaxSignInTime
  /\ time' = time + 1
  /\ UNCHANGED <<counter, attempt, guardHistory>>

GuardNext ==
  \/ \E a \in Attempts :
       \/ ReadRow(a) \/ Refuse(a) \/ Allow(a) \/ ClearExpired(a)
       \/ WrongPassword(a) \/ RightPassword(a)
  \/ Unblock
  \/ \E r \in Roles : SetRole(r)
  \/ GuardTick

GuardSpec == GuardInit /\ [][GuardNext]_guardVars
-----------------------------------------------------------------------------
(* "`LOGIN_MAX_ATTEMPTS` consecutive failures inside                        *)
(* `LOGIN_ATTEMPT_WINDOW_MS` block the account" (login-guard.js), each      *)
(* within the window of the one before.                                     *)
FailuresCounted == run >= MaxAttempts => counter.locked

(* The same, as long as sign-ins do not overlap one another or a wipe.      *)
CountedWhenAlone == ~overlap => FailuresCounted

(* Nor is anybody blocked for less: a failure outside the window, a         *)
(* successful sign-in, an unblock, a new password and a lapsed lock all     *)
(* start the count afresh ("someone who mistypes a password twice a week is *)
(* never blocked", login-guard.js).  A lapsed lock does so only where locks *)
(* last a Window or more: the attempt that clears one counts on from its    *)
(* copy of the row, as it was before.                                       *)
NeverBlockedEarly == ~overlap /\ counter.locked => run >= MaxAttempts
=============================================================================
