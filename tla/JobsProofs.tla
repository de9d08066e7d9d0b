----------------------------- MODULE JobsProofs -----------------------------
(***************************************************************************)
(* What holds of the scheduled jobs, and of a workflow's run.              *)
(***************************************************************************)
EXTENDS MCProgress, TLAPS
-----------------------------------------------------------------------------
(***************************************************************************)
(* Why the scheduler implements DueSlots, for any jobs, periods and bounds. *)
(* A row that a tick has read stands for the slot until it is launched or  *)
(* skipped (TakenUp); meanwhile the row in the table is either as it was   *)
(* read or waits for something later (Standing), because every write of    *)
(* next_run_at computes it from the present.                               *)
(***************************************************************************)

(* Nothing to wait for, or something that is still to come.                 *)
Later(n) == n \in Nat /\ (n = 0 \/ n > clock)

EditType(j) ==
  [row : RowType, frequency : Frequencies(j) \cup {Keep}, enabled : BOOLEAN \cup {Keep}]

RunType == [job : Jobs, slot : 1..MaxTime, tries : 0..RetryLimit, asleep : BOOLEAN]

Typed ==
  /\ SchedTypeOK
  /\ pending \subseteq [job : Jobs, row : RowType]
  /\ edit \in [Jobs -> [row : RowType, frequency : {"hourly", "daily", "manual", Keep},
                        enabled : BOOLEAN \cup {Keep}]]
  /\ \A j \in Jobs : /\ edit[j].row.frequency \in Frequencies(j)
                     /\ edit[j].frequency \in Frequencies(j) \cup {Keep}
  /\ runs \subseteq RunType /\ \A r \in runs : r.asleep => r.tries < RetryLimit

(* A tick reads nothing before it fires.                                    *)
BeforeTick == ~ticked => pending = {} /\ \A k \in Kinds : claimed[k] = NoClaim

(* What a tick has in hand: due slots, of each job one.                     *)
InHand ==
  /\ \A c \in pending : c.row.next \in 1..clock
  /\ \A c, d \in pending : c.job = d.job => c = d
  /\ \A c \in pending : claimed[Kind(c.job)].job # c.job
  /\ \A k \in Kinds : claimed[k] = NoClaim \/
       /\ claimed[k].job \in Jobs /\ Kind(claimed[k].job) = k
       /\ claimed[k].row.next \in 1..clock

Standing ==
  /\ \A c \in pending : schedule[c.job].next = c.row.next \/ Later(schedule[c.job].next)
  /\ \A k \in Kinds : claimed[k] # NoClaim => Later(schedule[claimed[k].job].next)
  /\ \A j \in Jobs : ~schedule[j].there => schedule[j] = NoRow

(* A run's slot lies behind whatever its job waits for.                     *)
Behind ==
  \A r \in runs :
    /\ r.slot <= clock
    /\ schedule[r.job].next = 0 \/ r.slot < schedule[r.job].next
    /\ \A c \in pending : c.job = r.job => r.slot < c.row.next
    /\ \A k \in Kinds : claimed[k].job = r.job => r.slot < claimed[k].row.next

Pauses ==
  /\ \A j \in Jobs : pausedAt[j] # 0 => ~schedule[j].enabled
  /\ \A c \in pending : pausedAt[c.job] # 0 => c.row.next <= pausedAt[c.job]
  /\ \A k \in Kinds : claimed[k] # NoClaim /\ pausedAt[claimed[k].job] # 0 =>
       claimed[k].row.next <= pausedAt[claimed[k].job]
  /\ PausedStaysQuiet

SchedInv == Typed /\ BeforeTick /\ InHand /\ Standing /\ Behind /\ Pauses
-----------------------------------------------------------------------------
LEMMA NextRunIsLater ==
  ASSUME NEW f, NEW now \in 0..MaxTime
  PROVE  /\ ComputeNextRun(f, now) \in 0..(MaxTime + Day)
         /\ ComputeNextRun(f, now) > now
<1> DEFINE period == IF f = "hourly" THEN Hour ELSE Day
<1>1. now \in Nat /\ MaxTime \in Nat /\ Day \in Nat /\ now <= MaxTime
  BY SchedAssumption
<1>2. period \in Nat \ {0} /\ period <= Day
  BY SchedAssumption
<1> HIDE DEF period
<1> DEFINE q == now \div period
<1>3. q \in Nat /\ now = (period * q) + (now % period) /\ now % period \in 0..(period - 1)
  BY <1>1, <1>2, Z3
<1>4. (q + 1) * period = period * q + period
  BY <1>2, <1>3
<1>5. period * q \in Nat
  BY <1>2, <1>3
<1>6. ComputeNextRun(f, now) = (q + 1) * period
  BY DEF ComputeNextRun, period
<1> HIDE DEF q
<1> QED BY <1>1, <1>2, <1>3, <1>4, <1>5, <1>6

LEMMA NextRunIsRow ==
  ASSUME clock \in 0..MaxTime, NEW f, NEW on
  PROVE  NextRun(f, on) \in 0..(MaxTime + Day) /\ Later(NextRun(f, on))
<1>1. 0 \in 0..(MaxTime + Day)
  BY SchedAssumption
<1> QED BY <1>1, NextRunIsLater, SchedAssumption DEF NextRun, Later

(* Every row that is written waits for nothing or for something later.      *)
LEMMA UpdatedRow ==
  ASSUME Typed, NEW j \in Jobs
  PROVE  /\ Updated(j) \in RowType /\ Updated(j).there
         /\ Updated(j).frequency \in Frequencies(j)
         /\ Later(Updated(j).next)
<1> DEFINE e == edit[j]
           f == IF e.frequency = Keep THEN e.row.frequency ELSE e.frequency
           on == IF e.enabled = Keep THEN e.row.enabled ELSE e.enabled
<1>1. /\ f \in Frequencies(j) /\ on \in BOOLEAN
      /\ schedule[j].frequency \in Frequencies(j) /\ schedule[j].enabled \in BOOLEAN
      /\ clock \in 0..MaxTime
  BY DEF Typed, SchedTypeOK, RowType
<1>2. Frequencies(j) \subseteq {"hourly", "daily", "manual"}
  BY DEF Frequencies
<1>3. NextRun(f, on) \in 0..(MaxTime + Day) /\ Later(NextRun(f, on))
  BY <1>1, NextRunIsRow
<1> DEFINE g == IF j \in Workflows /\ e.frequency = Keep THEN schedule[j].frequency ELSE f
           o == IF j \in Workflows /\ e.enabled = Keep THEN schedule[j].enabled ELSE on
<1>4. Updated(j) = [there |-> TRUE, frequency |-> g, enabled |-> o, next |-> NextRun(f, on)]
  BY DEF Updated
<1>5. g \in Frequencies(j) /\ o \in BOOLEAN
  BY <1>1
<1> HIDE DEF g, o, f, on
<1> QED BY <1>2, <1>3, <1>4, <1>5 DEF RowType

LEMMA CreatedRow ==
  ASSUME Typed, NEW j \in Jobs, CreateSchedule(j)
  PROVE  \E row : schedule' = [schedule EXCEPT ![j] = row] /\ row.there /\ Later(row.next)
<1>1. PICK f \in Frequencies(j), on \in BOOLEAN :
        schedule' = [schedule EXCEPT ![j] =
          [there |-> TRUE, enabled |-> on, frequency |-> f, next |-> NextRun(f, on)]]
  BY DEF CreateSchedule
<1> DEFINE row == [there |-> TRUE, enabled |-> on, frequency |-> f, next |-> NextRun(f, on)]
<1>2. row.there /\ row.next = NextRun(f, on)
  OBVIOUS
<1>3. Later(row.next)
  BY <1>2, NextRunIsRow DEF Typed, SchedTypeOK
<1>4. schedule' = [schedule EXCEPT ![j] = row]
  BY <1>1
<1> HIDE DEF row
<1> QED BY <1>2, <1>3, <1>4

LEMMA ClaimedRowIsLater ==
  ASSUME Typed, Standing, NEW c \in pending
  PROVE  /\ ClaimedRow(c) \in RowType
         /\ ClaimedRow(c).frequency \in Frequencies(c.job)
         /\ Later(ClaimedRow(c).next)
         /\ ~schedule[c.job].there => ClaimedRow(c) = NoRow
         /\ ClaimedRow(c).there = schedule[c.job].there
         /\ ClaimedRow(c).enabled => schedule[c.job].enabled
<1>1. /\ c.job \in Jobs /\ schedule[c.job] \in RowType /\ clock \in 0..MaxTime
      /\ schedule[c.job].frequency \in Frequencies(c.job)
  BY DEF Typed, SchedTypeOK
<1>2. CASE ~schedule[c.job].there
  <2>1. schedule[c.job] = NoRow
    BY <1>1, <1>2 DEF Standing
  <2> QED BY <1>1, <1>2, <2>1 DEF ClaimedRow, Later, NoRow
<1>3. CASE schedule[c.job].there /\ ~Recurs(c.row.frequency)
  <2>1. ClaimedRow(c) = [schedule[c.job] EXCEPT !.enabled = FALSE, !.next = 0]
    BY <1>3 DEF ClaimedRow
  <2>2. 0 \in 0..(MaxTime + Day)
    BY SchedAssumption
  <2>3. Later(0)
    BY DEF Later
  <2>4. [schedule[c.job] EXCEPT !.enabled = FALSE, !.next = 0] \in RowType
    BY <1>1, <2>2 DEF RowType
  <2> QED BY <1>1, <1>3, <2>1, <2>3, <2>4 DEF RowType
<1>4. CASE schedule[c.job].there /\ Recurs(c.row.frequency)
  <2> DEFINE n == ComputeNextRun(c.row.frequency, clock)
  <2>1. ClaimedRow(c) = [schedule[c.job] EXCEPT !.next = n]
    BY <1>4 DEF ClaimedRow
  <2>2. n \in 0..(MaxTime + Day) /\ n > clock
    BY <1>1, NextRunIsLater
  <2> HIDE DEF n
  <2>3. Later(n)
    BY <2>2, SchedAssumption DEF Later
  <2> QED BY <1>1, <1>4, <2>1, <2>2, <2>3 DEF RowType
<1> QED BY <1>2, <1>3, <1>4
-----------------------------------------------------------------------------
LEMMA TypedInit == SchedInit => Typed
<1> SUFFICES ASSUME SchedInit PROVE Typed
  OBVIOUS
<1>1. /\ NoRow \in RowType /\ \A j \in Jobs : NoRow.frequency \in Frequencies(j)
      /\ 0 \in 0..MaxTime
  BY SchedAssumption DEF NoRow, RowType, Frequencies
<1>2. SchedTypeOK
  BY <1>1 DEF SchedInit, SchedTypeOK, NoClaim, NoEdit
<1> QED BY <1>1, <1>2 DEF SchedInit, Typed, NoEdit

LEMMA TypedStep == ASSUME SchedInv, [SchedNext]_schedVars PROVE Typed'
<1> USE DEF SchedInv, Typed, SchedTypeOK
<1>n. NoRow \in RowType /\ (\A j \in Jobs : NoRow.frequency \in Frequencies(j))
  BY SchedAssumption DEF NoRow, RowType, Frequencies
<1>1. ASSUME NEW j \in Jobs, CreateSchedule(j) PROVE Typed'
  <2>1. PICK f \in Frequencies(j), on \in BOOLEAN :
          schedule' = [schedule EXCEPT ![j] =
            [there |-> TRUE, enabled |-> on, frequency |-> f, next |-> NextRun(f, on)]]
    BY <1>1 DEF CreateSchedule
  <2>2. NextRun(f, on) \in 0..(MaxTime + Day)
    BY NextRunIsRow
  <2>3. f \in {"hourly", "daily", "manual"}
    BY DEF Frequencies
  <2>4. schedule' \in [Jobs -> RowType] /\ \A i \in Jobs : schedule'[i].frequency \in Frequencies(i)
    BY <2>1, <2>2, <2>3 DEF RowType
  <2>5. pausedAt' \in [Jobs -> 0..MaxTime]
    BY <1>1, SchedAssumption DEF CreateSchedule
  <2> QED BY <1>1, <2>4, <2>5 DEF CreateSchedule
<1>2. ASSUME NEW j \in Jobs, ReadForEdit(j) PROVE Typed'
  <2>1. PICK f \in Frequencies(j) \cup {Keep}, on \in BOOLEAN \cup {Keep} :
          edit' = [edit EXCEPT ![j] = [row |-> schedule[j], frequency |-> f, enabled |-> on]]
    BY <1>2 DEF ReadForEdit
  <2>2. Frequencies(j) \subseteq {"hourly", "daily", "manual"}
    BY DEF Frequencies
  <2> QED BY <1>2, <2>1, <2>2 DEF ReadForEdit
<1>3. ASSUME NEW j \in Jobs, WriteEdit(j) PROVE Typed'
  <2>1. /\ schedule' \in [Jobs -> RowType]
        /\ \A i \in Jobs : schedule'[i].frequency \in Frequencies(i)
    BY <1>3, UpdatedRow DEF WriteEdit
  <2>3. pausedAt' \in [Jobs -> 0..MaxTime]
    <3>1. ASSUME NEW p \in 0..MaxTime
          PROVE  (IF Updated(j).enabled THEN 0 ELSE IF p = 0 THEN clock ELSE p) \in 0..MaxTime
      BY SchedAssumption
    <3> QED BY <1>3, <3>1 DEF WriteEdit
  <2>2. NoEdit.row \in RowType /\ NoEdit.row.frequency \in Frequencies(j)
    BY <1>n DEF NoEdit
  <2>4. edit'[j] = NoEdit /\ \A i \in Jobs : i # j => edit'[i] = edit[i]
    BY <1>3 DEF WriteEdit
  <2>5. edit' \in [Jobs -> [row : RowType, frequency : {"hourly", "daily", "manual", Keep},
                           enabled : BOOLEAN \cup {Keep}]]
    BY <1>3, <2>2 DEF WriteEdit, NoEdit
  <2>6. NoEdit.frequency = Keep
    BY DEF NoEdit
  <2> QED BY <1>3, <2>1, <2>2, <2>3, <2>4, <2>5, <2>6 DEF WriteEdit
<1>4. ASSUME NEW j \in Jobs, DeleteSchedule(j) PROVE Typed'
  BY <1>4, <1>n, SchedAssumption DEF DeleteSchedule
<1>5. ASSUME NEW j \in Jobs, SwitchEngine(j) PROVE Typed'
  BY <1>5 DEF SwitchEngine
<1>6. CASE SwitchBackups
  BY <1>6 DEF SwitchBackups
<1>7. CASE Tick
  BY <1>7 DEF Tick, Scanned, Jobs
<1>8. ASSUME NEW c \in pending, Claim(c) PROVE Typed'
  <2>1. /\ schedule' \in [Jobs -> RowType]
        /\ \A i \in Jobs : schedule'[i].frequency \in Frequencies(i)
    BY <1>8, ClaimedRowIsLater DEF Claim
  <2>2. claimed' \in [Kinds -> [job : Jobs \cup {Keep}, row : RowType]]
    BY <1>8 DEF Claim
  <2>3. pausedAt' \in [Jobs -> 0..MaxTime]
    BY <1>8 DEF Claim
  <2> QED BY <1>8, <2>1, <2>2, <2>3 DEF Claim
<1>9. ASSUME NEW k \in Kinds, Launch(k) PROVE Typed'
  <2>1. claimed' \in [Kinds -> [job : Jobs \cup {Keep}, row : RowType]]
    BY <1>9, <1>n DEF Launch, NoClaim
  <2>2. claimed[k].job \in Jobs /\ claimed[k].row.next \in 1..MaxTime
    BY <1>9, SchedAssumption DEF Launch, InHand
  <2> DEFINE new == [job |-> claimed[k].job, slot |-> claimed[k].row.next,
                     tries |-> 0, asleep |-> FALSE]
  <2>3. new \in RunType /\ ~new.asleep
    BY <2>2, SchedAssumption DEF RunType
  <2>4. runs' \in {runs, runs \cup {new}}
    BY <1>9 DEF Launch
  <2> HIDE DEF new
  <2>5. runs' \subseteq RunType /\ \A r \in runs' : r.asleep => r.tries < RetryLimit
    BY <2>3, <2>4
  <2>6. \A r \in runs' : r.job \in Jobs /\ r.slot \in 1..MaxTime /\ r.tries \in 0..RetryLimit
    BY <2>5 DEF RunType
  <2> QED BY <1>9, <2>1, <2>5, <2>6 DEF Launch
<1>10. ASSUME NEW r \in runs, NEW ok \in BOOLEAN, EndAttempt(r, ok) PROVE Typed'
  <2> DEFINE new == [r EXCEPT !.asleep = TRUE]
  <2>1. new \in RunType /\ new.tries = r.tries /\ r.tries \in 0..RetryLimit
    BY DEF RunType
  <2>2. runs' = runs \ {r} \/ (r.tries < RetryLimit /\ runs' = (runs \ {r}) \cup {new})
    BY <1>10 DEF EndAttempt
  <2> HIDE DEF new
  <2>3. runs' \subseteq RunType /\ \A q \in runs' : q.asleep => q.tries < RetryLimit
    BY <2>1, <2>2
  <2>4. \A q \in runs' : q.job \in Jobs /\ q.slot \in 1..MaxTime /\ q.tries \in 0..RetryLimit
    BY <2>3 DEF RunType
  <2> QED BY <1>10, <2>3, <2>4 DEF EndAttempt
<1>11. ASSUME NEW r \in runs, Retry(r) PROVE Typed'
  <2> DEFINE new == [r EXCEPT !.asleep = FALSE, !.tries = @ + 1]
  <2>1. r.tries < RetryLimit /\ r.tries \in 0..RetryLimit
    BY <1>11 DEF Retry
  <2>a. r.tries + 1 \in 0..RetryLimit
    BY <2>1, SchedAssumption
  <2>2. new \in RunType /\ ~new.asleep
    BY <2>a DEF RunType
  <2>3. runs' = (runs \ {r}) \cup {new}
    BY <1>11 DEF Retry
  <2> HIDE DEF new
  <2>4. runs' \subseteq RunType /\ \A q \in runs' : q.asleep => q.tries < RetryLimit
    BY <2>2, <2>3
  <2>5. \A q \in runs' : q.job \in Jobs /\ q.slot \in 1..MaxTime /\ q.tries \in 0..RetryLimit
    BY <2>4 DEF RunType
  <2> QED BY <1>11, <2>4, <2>5 DEF Retry
<1>12. CASE Minute
  <2>1. clock' \in 0..MaxTime
    BY <1>12, SchedAssumption DEF Minute
  <2> QED BY <1>12, <2>1 DEF Minute
<1>13. CASE Restart
  BY <1>13, <1>n DEF Restart, NoClaim, NoEdit
<1>14. CASE UNCHANGED schedVars
  BY <1>14 DEF schedVars
<1> QED
  BY <1>1, <1>2, <1>3, <1>4, <1>5, <1>6, <1>7, <1>8, <1>9, <1>10, <1>11, <1>12,
     <1>13, <1>14 DEF SchedNext
-----------------------------------------------------------------------------
LEMMA KindOfJob == ASSUME NEW j PROVE Kind(j) \in Kinds
BY DEF Kind, Kinds

LEMMA InHandStep ==
  ASSUME SchedInv, [SchedNext]_schedVars PROVE BeforeTick' /\ InHand'
<1> USE DEF SchedInv
<1>q. ASSUME UNCHANGED <<clock, ticked, pending, claimed>> PROVE BeforeTick' /\ InHand'
  BY <1>q DEF BeforeTick, InHand
<1>1. ASSUME NEW j \in Jobs,
             \/ CreateSchedule(j) \/ ReadForEdit(j) \/ WriteEdit(j)
             \/ DeleteSchedule(j) \/ SwitchEngine(j)
      PROVE  BeforeTick' /\ InHand'
  BY <1>1, <1>q DEF CreateSchedule, ReadForEdit, WriteEdit, DeleteSchedule, SwitchEngine
<1>2. CASE SwitchBackups
  BY <1>2, <1>q DEF SwitchBackups
<1>3. CASE Tick
  <2>1. \A k \in Kinds : claimed'[k] = NoClaim
    BY <1>3 DEF Tick, BeforeTick
  <2>2. \A c \in pending' : c.job \in Jobs /\ c.row = schedule[c.job] /\ Due(c.job)
                           /\ c = [job |-> c.job, row |-> schedule[c.job]]
    BY <1>3 DEF Tick, Scanned, Jobs
  <2>3. \A c \in pending' : c.row.next \in 1..clock
    BY <2>2 DEF Due
  <2>4. \A c \in pending' : claimed'[Kind(c.job)].job # c.job
    BY <2>1, <2>2, KindOfJob, SchedAssumption DEF NoClaim
  <2> QED BY <1>3, <2>1, <2>2, <2>3, <2>4 DEF Tick, BeforeTick, InHand
<1>4. ASSUME NEW c \in pending, Claim(c) PROVE BeforeTick' /\ InHand'
  <2>1. /\ pending' = pending \ {c} /\ UNCHANGED <<clock, ticked>>
        /\ claimed' = claimed \/ claimed' = [claimed EXCEPT ![Kind(c.job)] = c]
    BY <1>4 DEF Claim
  <2>2. /\ c.job \in Jobs /\ Kind(c.job) \in Kinds /\ c.row.next \in 1..clock
        /\ \A d \in pending \ {c} : d.job # c.job /\ Kind(d.job) \in Kinds
        /\ claimed \in [Kinds -> [job : Jobs \cup {Keep}, row : RowType]]
    BY KindOfJob DEF InHand, Typed, SchedTypeOK
  <2>3. BeforeTick'
    BY <1>4, <2>1 DEF BeforeTick
  <2>4. \A d \in pending' : claimed'[Kind(d.job)].job # d.job
    BY <2>1, <2>2 DEF InHand
  <2>5. \A k \in Kinds : claimed'[k] = NoClaim \/
          /\ claimed'[k].job \in Jobs /\ Kind(claimed'[k].job) = k
          /\ claimed'[k].row.next \in 1..clock
    BY <2>1, <2>2 DEF InHand
  <2> QED BY <2>1, <2>3, <2>4, <2>5 DEF InHand
<1>5. ASSUME NEW k \in Kinds, Launch(k) PROVE BeforeTick' /\ InHand'
  <2>1. /\ claimed' = [claimed EXCEPT ![k] = NoClaim] /\ UNCHANGED <<clock, ticked, pending>>
        /\ claimed \in [Kinds -> [job : Jobs \cup {Keep}, row : RowType]]
        /\ \A c \in pending : c.job \in Jobs /\ Kind(c.job) \in Kinds
    BY <1>5, KindOfJob DEF Launch, Typed, SchedTypeOK
  <2>2. NoClaim.job = Keep
    BY DEF NoClaim
  <2>3. \A d \in pending' : claimed'[Kind(d.job)].job # d.job
    BY <2>1, <2>2, SchedAssumption DEF InHand
  <2> QED BY <2>1, <2>3 DEF BeforeTick, InHand
<1>6. ASSUME NEW r \in runs, (\E ok \in BOOLEAN : EndAttempt(r, ok)) \/ Retry(r)
      PROVE  BeforeTick' /\ InHand'
  BY <1>6, <1>q DEF EndAttempt, Retry
<1>7. CASE Minute
  BY <1>7 DEF Minute, BeforeTick, InHand
<1>8. CASE Restart
  BY <1>8 DEF Restart, BeforeTick, InHand
<1>9. CASE UNCHANGED schedVars
  BY <1>9, <1>q DEF schedVars
<1> QED BY <1>1, <1>2, <1>3, <1>4, <1>5, <1>6, <1>7, <1>8, <1>9 DEF SchedNext

LEMMA StandingStep ==
  ASSUME SchedInv, [SchedNext]_schedVars PROVE Standing'
<1> USE DEF SchedInv
<1>t. /\ clock \in 0..MaxTime /\ clock \in Nat
      /\ schedule \in [Jobs -> RowType]
      /\ \A c \in pending : c.job \in Jobs
      /\ \A k \in Kinds : claimed[k] = NoClaim \/ claimed[k].job \in Jobs
  BY SchedAssumption DEF Typed, SchedTypeOK, InHand
<1>q. ASSUME UNCHANGED <<clock, schedule, pending, claimed>> PROVE Standing'
  BY <1>q DEF Standing, Later
<1>w. ASSUME NEW j \in Jobs, NEW row, UNCHANGED <<clock, pending, claimed>>,
             schedule' = [schedule EXCEPT ![j] = row], Later(row.next), row.there \/ row = NoRow
      PROVE  Standing'
  BY <1>w, <1>t DEF Standing, Later
<1>1. ASSUME NEW j \in Jobs, CreateSchedule(j) PROVE Standing'
  <2>1. PICK row : schedule' = [schedule EXCEPT ![j] = row] /\ row.there /\ Later(row.next)
    BY <1>1, CreatedRow
  <2> QED BY <1>1, <2>1, <1>w DEF CreateSchedule
<1>2. ASSUME NEW j \in Jobs, ReadForEdit(j) \/ SwitchEngine(j) PROVE Standing'
  BY <1>2, <1>q DEF ReadForEdit, SwitchEngine
<1>3. ASSUME NEW j \in Jobs, WriteEdit(j) PROVE Standing'
  <2>1. CASE schedule[j].there
    BY <1>3, <2>1, <1>w, UpdatedRow DEF WriteEdit
  <2>2. CASE ~schedule[j].there
    BY <1>3, <2>2, <1>q DEF WriteEdit
  <2> QED BY <2>1, <2>2
<1>4. ASSUME NEW j \in Jobs, DeleteSchedule(j) PROVE Standing'
  <2>1. Later(NoRow.next)
    BY DEF Later, NoRow
  <2> QED BY <1>4, <2>1, <1>w DEF DeleteSchedule
<1>5. CASE SwitchBackups
  BY <1>5, <1>q DEF SwitchBackups
<1>6. CASE Tick
  <2>1. \A k \in Kinds : claimed'[k] = NoClaim
    BY <1>6 DEF Tick, BeforeTick
  <2>2. \A c \in pending' : c.row = schedule[c.job]
    BY <1>6 DEF Tick
  <2> QED BY <1>6, <2>1, <2>2 DEF Tick, Standing
<1>7. ASSUME NEW c \in pending, Claim(c) PROVE Standing'
  <2>1. /\ pending' = pending \ {c} /\ UNCHANGED clock
        /\ schedule' = [schedule EXCEPT ![c.job] = ClaimedRow(c)]
        /\ claimed' = claimed \/ claimed' = [claimed EXCEPT ![Kind(c.job)] = c]
    BY <1>7 DEF Claim
  <2>2. Later(ClaimedRow(c).next) /\ (~ClaimedRow(c).there => ClaimedRow(c) = NoRow)
    BY ClaimedRowIsLater
  <2>3. claimed \in [Kinds -> [job : Jobs \cup {Keep}, row : RowType]]
    BY DEF Typed, SchedTypeOK
  <2> HIDE DEF SchedInv
  <2>s. Standing
    BY DEF SchedInv
  <2>4. \A j \in Jobs : schedule'[j] = schedule[j] \/ (j = c.job /\ schedule'[j] = ClaimedRow(c))
    BY <1>t, <2>1
  <2>5. \A d \in pending' : schedule'[d.job].next = d.row.next \/ Later(schedule'[d.job].next)
    BY <1>t, <2>s, <2>1, <2>2, <2>4 DEF Standing
  <2>6. \A k \in Kinds : claimed'[k] # NoClaim => Later(schedule'[claimed'[k].job].next)
    BY <1>t, <2>s, <2>1, <2>2, <2>3, <2>4, KindOfJob DEF Standing
  <2>7. \A j \in Jobs : ~schedule'[j].there => schedule'[j] = NoRow
    BY <2>s, <2>2, <2>4 DEF Standing
  <2> QED BY <2>1, <2>5, <2>6, <2>7 DEF Standing, Later
<1>8. ASSUME NEW k \in Kinds, Launch(k) PROVE Standing'
  <2>1. claimed \in [Kinds -> [job : Jobs \cup {Keep}, row : RowType]]
    BY DEF Typed, SchedTypeOK
  <2> QED BY <1>8, <2>1 DEF Launch, Standing, Later
<1>9. ASSUME NEW r \in runs, (\E ok \in BOOLEAN : EndAttempt(r, ok)) \/ Retry(r)
      PROVE  Standing'
  BY <1>9, <1>q DEF EndAttempt, Retry
<1>10. CASE Minute
  BY <1>10 DEF Minute, Standing
<1>11. CASE Restart
  BY <1>11 DEF Restart, Standing
<1>12. CASE UNCHANGED schedVars
  BY <1>12, <1>q DEF schedVars
<1> QED
  BY <1>1, <1>2, <1>3, <1>4, <1>5, <1>6, <1>7, <1>8, <1>9, <1>10, <1>11, <1>12 DEF SchedNext
-----------------------------------------------------------------------------
(* A run that stays keeps its job and its slot.                             *)
LEMMA RunsKeepSlots ==
  ASSUME NEW r \in runs, (\E ok \in BOOLEAN : EndAttempt(r, ok)) \/ Retry(r), Typed
  PROVE  /\ \A q \in runs' : \E p \in runs : q.job = p.job /\ q.slot = p.slot
         /\ UNCHANGED <<clock, ticked, schedule, pending, claimed, pausedAt>>
<1> DEFINE slept == [r EXCEPT !.asleep = TRUE]
           woken == [r EXCEPT !.asleep = FALSE, !.tries = @ + 1]
<1>1. /\ slept.job = r.job /\ slept.slot = r.slot
      /\ woken.job = r.job /\ woken.slot = r.slot
  BY DEF Typed, RunType
<1>2. \A q \in runs' : q \in runs \/ q = slept \/ q = woken
  BY DEF EndAttempt, Retry
<1>3. UNCHANGED <<clock, ticked, schedule, pending, claimed, pausedAt>>
  BY DEF EndAttempt, Retry
<1> HIDE DEF slept, woken
<1> QED BY <1>1, <1>2, <1>3

LEMMA BehindStep ==
  ASSUME SchedInv, [SchedNext]_schedVars PROVE Behind'
<1>s. Typed /\ BeforeTick /\ InHand /\ Standing /\ Behind
  BY DEF SchedInv
<1>t. /\ clock \in Nat
      /\ schedule \in [Jobs -> RowType] /\ \A j \in Jobs : schedule[j].next \in Nat
      /\ \A r \in runs : r.job \in Jobs /\ r.slot \in Nat
      /\ \A c \in pending : c.job \in Jobs
      /\ claimed \in [Kinds -> [job : Jobs \cup {Keep}, row : RowType]]
  BY <1>s, SchedAssumption DEF Typed, SchedTypeOK, RowType
<1>q. ASSUME UNCHANGED <<clock, schedule, pending, claimed, runs>> PROVE Behind'
  BY <1>q, <1>s DEF Behind
<1>w. ASSUME NEW j \in Jobs, NEW row, UNCHANGED <<clock, pending, claimed, runs>>,
             schedule' = [schedule EXCEPT ![j] = row], Later(row.next)
      PROVE  Behind'
  <2>1. \A r \in runs : schedule'[r.job].next = 0 \/ r.slot < schedule'[r.job].next
    <3> SUFFICES ASSUME NEW r \in runs
                 PROVE  schedule'[r.job].next = 0 \/ r.slot < schedule'[r.job].next
      OBVIOUS
    <3>1. CASE r.job = j
      <4>1. schedule'[r.job] = row /\ r.slot <= clock
        BY <1>w, <1>s, <1>t, <3>1 DEF Behind
      <4> QED BY <4>1, <1>w, <1>t DEF Later
    <3>2. CASE r.job # j
      <4>1. schedule'[r.job] = schedule[r.job]
        BY <1>w, <1>t, <3>2
      <4> QED BY <4>1, <1>s DEF Behind
    <3> QED BY <3>1, <3>2
  <2> QED BY <1>w, <1>s, <2>1 DEF Behind
<1>1. ASSUME NEW j \in Jobs, CreateSchedule(j) PROVE Behind'
  <2>1. PICK row : schedule' = [schedule EXCEPT ![j] = row] /\ row.there /\ Later(row.next)
    BY <1>1, <1>s, CreatedRow
  <2> QED BY <1>1, <2>1, <1>w DEF CreateSchedule
<1>2. ASSUME NEW j \in Jobs, ReadForEdit(j) \/ SwitchEngine(j) PROVE Behind'
  BY <1>2, <1>q DEF ReadForEdit, SwitchEngine
<1>3. ASSUME NEW j \in Jobs, WriteEdit(j) PROVE Behind'
  <2>1. CASE schedule[j].there
    BY <1>3, <1>s, <2>1, <1>w, UpdatedRow DEF WriteEdit
  <2>2. CASE ~schedule[j].there
    BY <1>3, <2>2, <1>q DEF WriteEdit
  <2> QED BY <2>1, <2>2
<1>4. ASSUME NEW j \in Jobs, DeleteSchedule(j) PROVE Behind'
  <2>1. Later(NoRow.next)
    BY DEF Later, NoRow
  <2> QED BY <1>4, <2>1, <1>w DEF DeleteSchedule
<1>5. CASE SwitchBackups
  BY <1>5, <1>q DEF SwitchBackups
<1>6. CASE Tick
  <2>1. \A c \in pending' : c.row = schedule[c.job] /\ schedule[c.job].next # 0
    BY <1>6 DEF Tick, Due
  <2> QED BY <1>6, <1>s, <2>1 DEF Tick, Behind
<1>7. ASSUME NEW c \in pending, Claim(c) PROVE Behind'
  <2>1. /\ pending' \subseteq pending /\ UNCHANGED <<clock, runs>>
        /\ schedule' = [schedule EXCEPT ![c.job] = ClaimedRow(c)]
        /\ claimed' = claimed \/ claimed' = [claimed EXCEPT ![Kind(c.job)] = c]
    BY <1>7 DEF Claim
  <2>2. Later(ClaimedRow(c).next)
    BY <1>s, ClaimedRowIsLater
  <2>3. \A r \in runs : schedule'[r.job].next = 0 \/ r.slot < schedule'[r.job].next
    <3> SUFFICES ASSUME NEW r \in runs
                 PROVE  schedule'[r.job].next = 0 \/ r.slot < schedule'[r.job].next
      OBVIOUS
    <3>1. CASE r.job = c.job
      <4>1. schedule'[r.job] = ClaimedRow(c) /\ r.slot <= clock
        BY <2>1, <1>s, <1>t, <3>1 DEF Behind
      <4> QED BY <4>1, <2>2, <1>t DEF Later
    <3>2. CASE r.job # c.job
      <4>1. schedule'[r.job] = schedule[r.job]
        BY <2>1, <1>t, <3>2
      <4> QED BY <4>1, <1>s DEF Behind
    <3> QED BY <3>1, <3>2
  <2>4. \A r \in runs, k \in Kinds : claimed'[k].job = r.job => r.slot < claimed'[k].row.next
    BY <2>1, <1>s, <1>t DEF Behind
  <2> QED BY <2>1, <2>3, <2>4, <1>s DEF Behind
<1>8. ASSUME NEW k \in Kinds, Launch(k) PROVE Behind'
  <2>1. /\ claimed' = [claimed EXCEPT ![k] = NoClaim] /\ UNCHANGED <<clock, schedule, pending>>
        /\ \A r \in runs' : r \in runs \/ (r.job = claimed[k].job /\ r.slot = claimed[k].row.next)
        /\ NoClaim.job \notin Jobs
    BY <1>8, SchedAssumption DEF Launch, NoClaim
  <2>2. /\ claimed[k].job \in Jobs /\ Kind(claimed[k].job) = k
        /\ claimed[k].row.next \in 1..clock
        /\ schedule[claimed[k].job].next = 0 \/ schedule[claimed[k].job].next > clock
    BY <1>8, <1>s DEF Launch, InHand, Standing, Later
  <2> SUFFICES ASSUME NEW r \in runs'
               PROVE  /\ r.slot <= clock
                      /\ schedule[r.job].next = 0 \/ r.slot < schedule[r.job].next
                      /\ \A c \in pending : c.job = r.job => r.slot < c.row.next
                      /\ \A i \in Kinds : claimed'[i].job = r.job => r.slot < claimed'[i].row.next
    BY <2>1 DEF Behind
  <2>3. CASE r \in runs
    BY <2>1, <2>3, <1>s, <1>t DEF Behind
  <2>4. CASE r.job = claimed[k].job /\ r.slot = claimed[k].row.next
    <3>1. r.slot <= clock /\ (schedule[r.job].next = 0 \/ r.slot < schedule[r.job].next)
      BY <2>2, <2>4, <1>t
    <3>2. \A c \in pending : c.job # r.job
      BY <2>2, <2>4, <1>s DEF InHand
    <3>3. \A i \in Kinds : claimed'[i].job # r.job
      <4> SUFFICES ASSUME NEW i \in Kinds PROVE claimed'[i].job # r.job
        OBVIOUS
      <4>1. CASE i = k
        BY <4>1, <2>1, <2>2, <2>4, <1>t
      <4>2. CASE i # k
        <5>1. claimed'[i] = claimed[i]
          BY <4>2, <2>1, <1>t
        <5>2. claimed[i].job \notin Jobs \/ Kind(claimed[i].job) = i
          BY <2>1, <1>s DEF InHand
        <5> QED BY <5>1, <5>2, <4>2, <2>2, <2>4
      <4> QED BY <4>1, <4>2
    <3> QED BY <3>1, <3>2, <3>3
  <2> QED BY <2>1, <2>3, <2>4
<1>9. ASSUME NEW r \in runs, (\E ok \in BOOLEAN : EndAttempt(r, ok)) \/ Retry(r)
      PROVE  Behind'
  BY <1>9, <1>s, RunsKeepSlots DEF Behind
<1>10. CASE Minute
  <2>1. UNCHANGED <<schedule, pending, claimed, runs>> /\ clock' = clock + 1
    BY <1>10 DEF Minute
  <2> QED BY <2>1, <1>s, <1>t DEF Behind
<1>11. CASE Restart
  BY <1>11 DEF Restart, Behind
<1>12. CASE UNCHANGED schedVars
  BY <1>12, <1>q DEF schedVars
<1> QED
  BY <1>1, <1>2, <1>3, <1>4, <1>5, <1>6, <1>7, <1>8, <1>9, <1>10, <1>11, <1>12 DEF SchedNext
-----------------------------------------------------------------------------
LEMMA PausesStep ==
  ASSUME SchedInv, [SchedNext]_schedVars PROVE Pauses'
<1>s. Typed /\ BeforeTick /\ InHand /\ Standing /\ Behind /\ Pauses
  BY DEF SchedInv
<1>t. /\ clock \in Nat /\ clock \in 0..MaxTime
      /\ schedule \in [Jobs -> RowType] /\ pausedAt \in [Jobs -> 0..MaxTime]
      /\ \A r \in runs : r.job \in Jobs
      /\ \A c \in pending : c.job \in Jobs
      /\ claimed \in [Kinds -> [job : Jobs \cup {Keep}, row : RowType]]
      /\ \A k \in Kinds : claimed[k] # NoClaim => claimed[k].job \in Jobs
  BY <1>s, SchedAssumption DEF Typed, SchedTypeOK, InHand
<1>q. ASSUME UNCHANGED <<schedule, pending, claimed, runs, pausedAt>> PROVE Pauses'
  BY <1>q, <1>s DEF Pauses, PausedStaysQuiet
(* The job's row is written: it is on and not paused, or paused by now.     *)
<1>w. ASSUME NEW j \in Jobs, NEW row, NEW p, UNCHANGED <<pending, claimed, runs>>,
             schedule' = [schedule EXCEPT ![j] = row],
             pausedAt' = [pausedAt EXCEPT ![j] = p],
             p # 0 => ~row.enabled /\ p \in {clock, pausedAt[j]}
      PROVE  Pauses'
  <2>1. \A i \in Jobs : pausedAt'[i] # 0 => ~schedule'[i].enabled
    BY <1>w, <1>s, <1>t DEF Pauses
  <2>2. \A i \in Jobs, n \in Nat :
          n <= clock /\ (pausedAt[i] # 0 => n <= pausedAt[i]) /\ pausedAt'[i] # 0
            => n <= pausedAt'[i]
    BY <1>w, <1>t
  <2>3. \A c \in pending : pausedAt'[c.job] # 0 => c.row.next <= pausedAt'[c.job]
    BY <2>2, <1>s, <1>t DEF Pauses, InHand
  <2>4. \A k \in Kinds : claimed[k] # NoClaim /\ pausedAt'[claimed[k].job] # 0 =>
          claimed[k].row.next <= pausedAt'[claimed[k].job]
    BY <2>2, <1>s, <1>t DEF Pauses, InHand
  <2>5. \A r \in runs : pausedAt'[r.job] # 0 => r.slot <= pausedAt'[r.job]
    <3>1. \A r \in runs : r.slot \in Nat
      BY <1>s, SchedAssumption DEF Typed, RunType
    <3> QED BY <2>2, <3>1, <1>s, <1>t DEF Pauses, PausedStaysQuiet, Behind
  <2> QED BY <1>w, <2>1, <2>3, <2>4, <2>5 DEF Pauses, PausedStaysQuiet
<1>1. ASSUME NEW j \in Jobs, CreateSchedule(j) PROVE Pauses'
  <2>1. PICK row : schedule' = [schedule EXCEPT ![j] = row] /\ row.there /\ Later(row.next)
    BY <1>1, <1>s, CreatedRow
  <2> QED BY <1>1, <2>1, <1>w DEF CreateSchedule
<1>2. ASSUME NEW j \in Jobs, ReadForEdit(j) \/ SwitchEngine(j) PROVE Pauses'
  BY <1>2, <1>q DEF ReadForEdit, SwitchEngine
<1>3. ASSUME NEW j \in Jobs, WriteEdit(j) PROVE Pauses'
  <2>1. CASE schedule[j].there
    <3> DEFINE p == IF Updated(j).enabled THEN 0 ELSE IF pausedAt[j] = 0 THEN clock ELSE pausedAt[j]
    <3>1. p # 0 => ~Updated(j).enabled /\ p \in {clock, pausedAt[j]}
      OBVIOUS
    <3>2. /\ schedule' = [schedule EXCEPT ![j] = Updated(j)]
          /\ pausedAt' = [pausedAt EXCEPT ![j] = p]
          /\ UNCHANGED <<pending, claimed, runs>>
      BY <1>3, <2>1 DEF WriteEdit
    <3> HIDE DEF p
    <3> QED BY <3>1, <3>2, <1>w
  <2>2. CASE ~schedule[j].there
    BY <1>3, <2>2, <1>q DEF WriteEdit
  <2> QED BY <2>1, <2>2
<1>4. ASSUME NEW j \in Jobs, DeleteSchedule(j) PROVE Pauses'
  BY <1>4, <1>w DEF DeleteSchedule
<1>5. CASE SwitchBackups
  BY <1>5, <1>q DEF SwitchBackups
<1>6. CASE Tick
  <2>1. \A c \in pending' : c.job \in Jobs /\ schedule[c.job].enabled
    BY <1>6 DEF Tick, Due, Scanned, Jobs
  <2>2. \A k \in Kinds : claimed'[k] = NoClaim
    BY <1>6, <1>s DEF Tick, BeforeTick
  <2> QED BY <1>6, <1>s, <2>1, <2>2 DEF Tick, Pauses, PausedStaysQuiet
<1>7. ASSUME NEW c \in pending, Claim(c) PROVE Pauses'
  <2> DEFINE p == IF ClaimedRow(c).enabled \/ ~schedule[c.job].enabled
                  THEN pausedAt[c.job] ELSE clock
  <2>1. /\ pending' \subseteq pending /\ UNCHANGED <<clock, runs>>
        /\ schedule' = [schedule EXCEPT ![c.job] = ClaimedRow(c)]
        /\ claimed' = claimed \/ claimed' = [claimed EXCEPT ![Kind(c.job)] = c]
    BY <1>7 DEF Claim
  <2>2. schedule'[c.job] = ClaimedRow(c)
    BY <2>1, <1>t
  <2>3. pausedAt' = [pausedAt EXCEPT ![c.job] = p]
    BY <1>7, <2>2 DEF Claim
  <2>4. ClaimedRow(c).enabled => schedule[c.job].enabled
    BY <1>s, ClaimedRowIsLater
  <2>5. /\ p \in {clock, pausedAt[c.job]}
        /\ p # 0 => ~ClaimedRow(c).enabled
    BY <2>4, <1>s, <1>t DEF Pauses
  <2> HIDE DEF p
  <2>6. \A i \in Jobs : pausedAt'[i] # 0 => ~schedule'[i].enabled
    BY <2>1, <2>3, <2>5, <1>s, <1>t DEF Pauses
  <2>7. \A i \in Jobs, n \in Nat :
          n <= clock /\ (pausedAt[i] # 0 => n <= pausedAt[i]) /\ pausedAt'[i] # 0
            => n <= pausedAt'[i]
    BY <2>3, <2>5, <1>t
  <2>8. \A d \in pending : pausedAt'[d.job] # 0 => d.row.next <= pausedAt'[d.job]
    BY <2>7, <1>s, <1>t DEF Pauses, InHand
  <2>9. \A k \in Kinds : claimed[k] # NoClaim /\ pausedAt'[claimed[k].job] # 0 =>
          claimed[k].row.next <= pausedAt'[claimed[k].job]
    BY <2>7, <1>s, <1>t DEF Pauses, InHand
  <2>10. \A k \in Kinds : claimed'[k] # NoClaim /\ pausedAt'[claimed'[k].job] # 0 =>
           claimed'[k].row.next <= pausedAt'[claimed'[k].job]
    BY <2>1, <2>8, <2>9, <1>t
  <2>11. \A r \in runs : pausedAt'[r.job] # 0 => r.slot <= pausedAt'[r.job]
    <3>1. \A r \in runs : r.slot \in Nat
      BY <1>s, SchedAssumption DEF Typed, RunType
    <3> QED BY <2>7, <3>1, <1>s, <1>t DEF Pauses, PausedStaysQuiet, Behind
  <2> QED BY <2>1, <2>6, <2>8, <2>10, <2>11 DEF Pauses, PausedStaysQuiet
<1>8. ASSUME NEW k \in Kinds, Launch(k) PROVE Pauses'
  <2>1. /\ claimed' = [claimed EXCEPT ![k] = NoClaim]
        /\ UNCHANGED <<schedule, pending, pausedAt>>
        /\ claimed[k] # NoClaim
        /\ \A r \in runs' : r \in runs \/ (r.job = claimed[k].job /\ r.slot = claimed[k].row.next)
    BY <1>8 DEF Launch
  <2>2. PausedStaysQuiet'
    BY <2>1, <1>s DEF Pauses, PausedStaysQuiet
  <2> QED BY <2>1, <2>2, <1>s, <1>t DEF Pauses
<1>9. ASSUME NEW r \in runs, (\E ok \in BOOLEAN : EndAttempt(r, ok)) \/ Retry(r)
      PROVE  Pauses'
  BY <1>9, <1>s, RunsKeepSlots DEF Pauses, PausedStaysQuiet
<1>10. CASE Minute
  BY <1>10, <1>q DEF Minute
<1>11. CASE Restart
  BY <1>11, <1>s DEF Restart, Pauses, PausedStaysQuiet
<1>12. CASE UNCHANGED schedVars
  BY <1>12, <1>q DEF schedVars
<1> QED
  BY <1>1, <1>2, <1>3, <1>4, <1>5, <1>6, <1>7, <1>8, <1>9, <1>10, <1>11, <1>12 DEF SchedNext
-----------------------------------------------------------------------------
LEMMA SchedInvInit == SchedInit => SchedInv
<1> SUFFICES ASSUME SchedInit PROVE SchedInv
  OBVIOUS
<1>1. Typed
  BY TypedInit
<1>2. BeforeTick /\ InHand
  BY DEF SchedInit, BeforeTick, InHand
<1>3. Standing /\ Behind /\ Pauses
  BY DEF SchedInit, Standing, Behind, Pauses, PausedStaysQuiet
<1> QED BY <1>1, <1>2, <1>3 DEF SchedInv

LEMMA SchedInvNext == SchedInv /\ [SchedNext]_schedVars => SchedInv'
BY TypedStep, InHandStep, StandingStep, BehindStep, PausesStep DEF SchedInv

LEMMA SchedInvariance == SchedSpec => []SchedInv
BY SchedInvInit, SchedInvNext, PTL DEF SchedSpec

(* Every variable keeps to its type; in particular next_run_at never lies   *)
(* further ahead than one period, and a run is retried only so often.       *)
THEOREM SchedTypeCorrect == SchedSpec => []SchedTypeOK
<1>1. SchedInv => SchedTypeOK
  BY DEF SchedInv, Typed
<1> QED BY <1>1, SchedInvariance, PTL

(* A paused job runs no slot that came due after the pause, although a tick *)
(* that read the row before the pause writes next_run_at after it.          *)
THEOREM PausesHold == SchedSpec => []PausedStaysQuiet
<1>1. SchedInv => PausedStaysQuiet
  BY DEF SchedInv, Pauses
<1> QED BY <1>1, SchedInvariance, PTL
-----------------------------------------------------------------------------
(* What a job waits for, as DueSlots sees it: the slot of the row a tick    *)
(* has in hand, or else next_run_at.                                        *)
AwaitedRead ==
  /\ Awaited = [j \in Jobs |-> Awaited[j]]
  /\ \A j \in Jobs :
       /\ \A c \in pending : c.job = j => Awaited[j] = c.row.next
       /\ \A k \in Kinds : claimed[k].job = j => Awaited[j] = claimed[k].row.next
       /\ (\A c \in pending : c.job # j) /\ (\A k \in Kinds : claimed[k].job # j) =>
            Awaited[j] = schedule[j].next

LEMMA AwaitedIsRead == SchedInv => AwaitedRead
<1> SUFFICES ASSUME SchedInv, NEW j \in Jobs
             PROVE  /\ \A c \in pending : c.job = j => Awaited[j] = c.row.next
                    /\ \A k \in Kinds : claimed[k].job = j => Awaited[j] = claimed[k].row.next
                    /\ (\A c \in pending : c.job # j) /\ (\A k \in Kinds : claimed[k].job # j) =>
                         Awaited[j] = schedule[j].next
  <2>1. Awaited = [j \in Jobs |-> Awaited[j]]
    BY DEF Awaited
  <2> QED BY <2>1 DEF AwaitedRead
<1>0. Awaited[j] = IF TakenUp(j) # {} THEN CHOOSE s \in TakenUp(j) : TRUE ELSE schedule[j].next
  BY DEF Awaited
<1>i. InHand
  BY DEF SchedInv
<1>k. \A k \in Kinds : claimed[k].job = j => Kind(j) = k
  BY <1>i, SchedAssumption DEF InHand, NoClaim
<1>1. ASSUME NEW v, TakenUp(j) = {v} PROVE Awaited[j] = v
  BY <1>0, <1>1
<1>2. ASSUME NEW c \in pending, c.job = j PROVE Awaited[j] = c.row.next
  <2>1. \A d \in pending : d.job = j => d = c
    BY <1>2, <1>i DEF InHand
  <2>2. \A k \in Kinds : claimed[k].job # j
    BY <1>2, <1>i, <1>k DEF InHand
  <2>3. TakenUp(j) = {c.row.next}
    BY <1>2, <2>1, <2>2 DEF TakenUp
  <2> QED BY <2>3, <1>1
<1>3. ASSUME NEW k \in Kinds, claimed[k].job = j PROVE Awaited[j] = claimed[k].row.next
  <2>1. \A d \in pending : d.job # j
    BY <1>3, <1>i, <1>k DEF InHand
  <2>2. \A i \in Kinds : claimed[i].job = j => i = k
    BY <1>3, <1>k
  <2>3. TakenUp(j) = {claimed[k].row.next}
    BY <1>3, <2>1, <2>2 DEF TakenUp
  <2> QED BY <2>3, <1>1
<1>4. ASSUME \A c \in pending : c.job # j, \A k \in Kinds : claimed[k].job # j
      PROVE  Awaited[j] = schedule[j].next
  <2>1. TakenUp(j) = {}
    BY <1>4 DEF TakenUp
  <2> QED BY <2>1, <1>0
<1> QED BY <1>2, <1>3, <1>4

LEMMA AwaitedIsReadNext == SchedInv' => AwaitedRead'
BY AwaitedIsRead, PTL

LEMMA SameAwaited ==
  ASSUME AwaitedRead, AwaitedRead', \A j \in Jobs : Awaited'[j] = Awaited[j]
  PROVE  Awaited' = Awaited
BY DEF AwaitedRead

LEMMA Rescheduled ==
  ASSUME AwaitedRead, AwaitedRead', NEW j \in Jobs, Later(Awaited'[j]),
         UNCHANGED <<clock, Active>>, \A i \in Jobs \ {j} : Awaited'[i] = Awaited[i]
  PROVE  Slots!SlotNext
<1>1. Awaited' = [Awaited EXCEPT ![j] = Awaited'[j]]
  BY DEF AwaitedRead
<1>2. Awaited'[j] \in Slots!Ahead
  BY DEF Later, Slots!Ahead
<1>3. Slots!Reschedule(j)
  BY <1>1, <1>2 DEF Slots!Reschedule
<1> QED BY <1>3 DEF Slots!SlotNext

(* A row is written to wait for something later: a job in hand is none the  *)
(* wiser, another one is rescheduled.                                       *)
LEMMA RowWritten ==
  ASSUME AwaitedRead, AwaitedRead', NEW j \in Jobs, NEW row, Later(row.next),
         schedule \in [Jobs -> RowType], schedule' = [schedule EXCEPT ![j] = row],
         UNCHANGED <<clock, pending, claimed, runs>>
  PROVE  Slots!SlotNext \/ UNCHANGED <<clock, Awaited, Active>>
<1> DEFINE Handled(i) == (\E c \in pending : c.job = i) \/ (\E k \in Kinds : claimed[k].job = i)
<1>1. \A i \in Jobs : Handled(i) => Awaited'[i] = Awaited[i]
  BY DEF AwaitedRead
<1>2. \A i \in Jobs : ~Handled(i) => Awaited[i] = schedule[i].next /\ Awaited'[i] = schedule'[i].next
  BY DEF AwaitedRead
<1>3. UNCHANGED <<clock, Active>>
  BY DEF Active
<1>4. schedule'[j] = row /\ \A i \in Jobs \ {j} : schedule'[i] = schedule[i]
  OBVIOUS
<1> HIDE DEF Handled
<1>5. \A i \in Jobs \ {j} : Awaited'[i] = Awaited[i]
  BY <1>1, <1>2, <1>4
<1>6. CASE Handled(j)
  BY <1>1, <1>3, <1>5, <1>6, SameAwaited
<1>7. CASE ~Handled(j)
  <2>1. Later(Awaited'[j])
    BY <1>2, <1>4, <1>7
  <2> QED BY <1>3, <1>5, <2>1, Rescheduled
<1> QED BY <1>6, <1>7

LEMMA SameHand ==
  ASSUME UNCHANGED <<schedule, pending, claimed>> PROVE Awaited' = Awaited
BY DEF Awaited, TakenUp

LEMMA InitMaps == SchedInit => Slots!SlotInit
<1> SUFFICES ASSUME SchedInit PROVE Slots!SlotInit
  OBVIOUS
<1>1. AwaitedRead
  BY SchedInvInit, AwaitedIsRead
<1>2. \A j \in Jobs : Awaited[j] = 0
  BY <1>1, SchedAssumption DEF SchedInit, AwaitedRead, NoClaim, NoRow
<1>3. Awaited \in [Jobs -> Nat] /\ \A j \in Jobs : Awaited[j] \in Slots!Ahead
  BY <1>1, <1>2 DEF AwaitedRead, Slots!Ahead
<1>4. clock = 0 /\ Active = {}
  BY DEF SchedInit, Active
<1> QED BY <1>3, <1>4 DEF Slots!SlotInit

(* The tick takes the due rows in hand: each job still waits for its slot.  *)
LEMMA TickMaps ==
  ASSUME SchedInv, AwaitedRead, AwaitedRead', Tick PROVE UNCHANGED <<clock, Awaited, Active>>
<1>1. pending = {} /\ UNCHANGED <<clock, schedule, claimed, runs>>
  BY DEF Tick, SchedInv, BeforeTick
<1>2. \A k \in Kinds, j \in Jobs : claimed[k].job # j
  BY SchedAssumption DEF Tick, SchedInv, BeforeTick, NoClaim
<1>3. \A c \in pending' : c.row = schedule[c.job]
  BY DEF Tick
<1>4. \A j \in Jobs : Awaited[j] = schedule[j].next
  BY <1>1, <1>2 DEF AwaitedRead
<1>5. \A j \in Jobs : Awaited'[j] = schedule[j].next
  <2> SUFFICES ASSUME NEW j \in Jobs PROVE Awaited'[j] = schedule[j].next
    OBVIOUS
  <2>1. CASE \E c \in pending' : c.job = j
    BY <1>3, <2>1 DEF AwaitedRead
  <2>2. CASE \A c \in pending' : c.job # j
    BY <1>1, <1>2, <2>2 DEF AwaitedRead
  <2> QED BY <2>1, <2>2
<1> QED BY <1>1, <1>4, <1>5, SameAwaited DEF Active

(* Claiming passes a slot from one hand to the other, or drops it when the  *)
(* frequency read is manual.                                                *)
LEMMA ClaimMaps ==
  ASSUME SchedInv, AwaitedRead, AwaitedRead', NEW c \in pending, Claim(c)
  PROVE  Slots!SlotNext \/ UNCHANGED <<clock, Awaited, Active>>
<1>1. /\ pending' = pending \ {c} /\ UNCHANGED <<clock, runs>>
      /\ schedule' = [schedule EXCEPT ![c.job] = ClaimedRow(c)]
      /\ claimed[Kind(c.job)] = NoClaim
      /\ claimed' = IF Recurs(c.row.frequency)
                    THEN [claimed EXCEPT ![Kind(c.job)] = c] ELSE claimed
  BY DEF Claim
<1>2. /\ c.job \in Jobs /\ Kind(c.job) \in Kinds
      /\ \A d \in pending \ {c} : d.job # c.job
      /\ \A k \in Kinds : claimed[k].job # c.job
      /\ claimed \in [Kinds -> [job : Jobs \cup {Keep}, row : RowType]]
      /\ schedule \in [Jobs -> RowType]
      /\ NoClaim.job \notin Jobs
  <2>1. c.job \in Jobs /\ Typed /\ InHand
    BY DEF SchedInv, Typed, SchedTypeOK
  <2>2. \A k \in Kinds : claimed[k].job # c.job
    BY <2>1, SchedAssumption DEF InHand, NoClaim
  <2> QED BY <2>1, <2>2, KindOfJob, SchedAssumption DEF InHand, Typed, SchedTypeOK, NoClaim
<1>3. schedule'[c.job] = ClaimedRow(c) /\ \A i \in Jobs \ {c.job} : schedule'[i] = schedule[i]
  BY <1>1, <1>2
<1>4. \A k \in Kinds : claimed'[k] = claimed[k] \/ (k = Kind(c.job) /\ claimed'[k] = c)
  BY <1>1, <1>2
<1>5. \A i \in Jobs \ {c.job} : Awaited'[i] = Awaited[i]
  <2> SUFFICES ASSUME NEW i \in Jobs \ {c.job} PROVE Awaited'[i] = Awaited[i]
    OBVIOUS
  <2>1. \A d : d \in pending' /\ d.job = i <=> d \in pending /\ d.job = i
    BY <1>1
  <2>2. \A k \in Kinds : claimed'[k].job = i => claimed'[k] = claimed[k]
    BY <1>4
  <2>3. \A k \in Kinds : claimed[k].job = i => claimed'[k] = claimed[k]
    BY <1>1, <1>2, <1>4
  <2>4. CASE \E d \in pending : d.job = i
    BY <2>1, <2>4 DEF AwaitedRead
  <2>5. CASE \E k \in Kinds : claimed[k].job = i
    BY <2>3, <2>5 DEF AwaitedRead
  <2>6. CASE (\A d \in pending : d.job # i) /\ \A k \in Kinds : claimed[k].job # i
    <3>1. (\A d \in pending' : d.job # i) /\ \A k \in Kinds : claimed'[k].job # i
      BY <2>1, <2>2, <2>6
    <3> QED BY <1>3, <2>6, <3>1 DEF AwaitedRead
  <2> QED BY <2>4, <2>5, <2>6
<1>6. CASE Recurs(c.row.frequency)
  <2>1. claimed'[Kind(c.job)] = c
    BY <1>1, <1>2, <1>6
  <2>2. Awaited'[c.job] = c.row.next /\ Awaited[c.job] = c.row.next
    BY <1>2, <2>1 DEF AwaitedRead
  <2> QED BY <1>1, <1>5, <2>2, SameAwaited DEF Active
<1>7. CASE ~Recurs(c.row.frequency)
  <2>1. (\A d \in pending' : d.job # c.job) /\ \A k \in Kinds : claimed'[k].job # c.job
    BY <1>1, <1>2, <1>7
  <2>2. Awaited'[c.job] = ClaimedRow(c).next
    BY <1>2, <1>3, <2>1 DEF AwaitedRead
  <2>3. Later(Awaited'[c.job])
    BY <2>2, ClaimedRowIsLater DEF SchedInv
  <2>4. UNCHANGED <<clock, Active>>
    BY <1>1 DEF Active
  <2> QED BY <1>2, <1>5, <2>3, <2>4, Rescheduled
<1> QED BY <1>6, <1>7

(* A run begins with the slot in hand, once; a skipped one is let go.       *)
LEMMA LaunchMaps ==
  ASSUME SchedInv, AwaitedRead, AwaitedRead', NEW k \in Kinds, Launch(k)
  PROVE  Slots!SlotNext
<1> DEFINE j == claimed[k].job
           s == claimed[k].row.next
<1>1. /\ claimed[k] # NoClaim /\ claimed' = [claimed EXCEPT ![k] = NoClaim]
      /\ UNCHANGED <<clock, schedule, pending>>
  BY DEF Launch
<1>2. /\ j \in Jobs /\ s \in 1..clock /\ Kind(j) = k
      /\ \A i \in Kinds : claimed[i].job = j => i = k
      /\ \A c \in pending : c.job # j
      /\ Later(schedule[j].next)
      /\ \A r \in runs : r.job = j => r.slot < s /\ r.slot \in Nat
      /\ claimed \in [Kinds -> [job : Jobs \cup {Keep}, row : RowType]]
      /\ NoClaim.job \notin Jobs
  <2>1. Typed /\ InHand /\ Standing /\ Behind
    BY DEF SchedInv
  <2>2. NoClaim.job \notin Jobs
    BY SchedAssumption DEF NoClaim
  <2>3. j \in Jobs /\ s \in 1..clock /\ Kind(j) = k
    BY <1>1, <2>1 DEF InHand
  <2>4. \A i \in Kinds : claimed[i].job = j => i = k
    BY <2>1, <2>2, <2>3 DEF InHand
  <2>5. \A c \in pending : c.job # j
    BY <2>1, <2>3 DEF InHand
  <2>6. \A r \in runs : r.job = j => r.slot < s /\ r.slot \in Nat
    BY <2>1, SchedAssumption DEF Behind, Typed, RunType
  <2>7. Later(schedule[j].next) /\ claimed \in [Kinds -> [job : Jobs \cup {Keep}, row : RowType]]
    BY <1>1, <2>1 DEF Standing, Typed, SchedTypeOK
  <2> QED BY <2>2, <2>3, <2>4, <2>5, <2>6, <2>7
<1>3. \A i \in Kinds : claimed'[i] = IF i = k THEN NoClaim ELSE claimed[i]
  BY <1>1, <1>2
<1>4. Awaited[j] = s
  BY <1>2 DEF AwaitedRead
<1>5. Awaited'[j] = schedule[j].next
  <2>1. (\A c \in pending' : c.job # j) /\ \A i \in Kinds : claimed'[i].job # j
    BY <1>1, <1>2, <1>3
  <2> QED BY <1>1, <1>2, <2>1 DEF AwaitedRead
<1>6. \A i \in Jobs \ {j} : Awaited'[i] = Awaited[i]
  <2> SUFFICES ASSUME NEW i \in Jobs \ {j} PROVE Awaited'[i] = Awaited[i]
    OBVIOUS
  <2>1. \A n \in Kinds : claimed[n].job = i <=> claimed'[n].job = i
    BY <1>2, <1>3
  <2>2. \A n \in Kinds : claimed[n].job = i => claimed'[n] = claimed[n]
    BY <1>2, <1>3
  <2>3. CASE \E c \in pending : c.job = i
    BY <1>1, <2>3 DEF AwaitedRead
  <2>4. CASE \E n \in Kinds : claimed[n].job = i
    BY <2>2, <2>4 DEF AwaitedRead
  <2>5. CASE (\A c \in pending : c.job # i) /\ \A n \in Kinds : claimed[n].job # i
    BY <1>1, <2>1, <2>5 DEF AwaitedRead
  <2> QED BY <2>3, <2>4, <2>5
<1> HIDE DEF j, s
<1>7. CASE UNCHANGED runs
  <2>1. UNCHANGED <<clock, Active>>
    BY <1>1, <1>7 DEF Active
  <2>2. Later(Awaited'[j])
    BY <1>2, <1>5
  <2> QED BY <1>2, <1>6, <2>1, <2>2, Rescheduled
<1>8. CASE ~UNCHANGED runs
  <2> DEFINE new == [job |-> j, slot |-> s, tries |-> 0, asleep |-> FALSE]
  <2>1. runs' = runs \cup {new}
    BY <1>8 DEF Launch, j, s
  <2>n. new.job = j /\ new.slot = s
    OBVIOUS
  <2> HIDE DEF new
  <2>2. Active' = Active \cup {<<j, s>>}
    <3>1. Active' = {<<r.job, r.slot>> : r \in runs \cup {new}}
      BY <2>1 DEF Active
    <3> QED BY <3>1, <2>n DEF Active
  <2>3. <<j, s>> \notin Active
    BY <1>2 DEF Active
  <2>4. Awaited' = [Awaited EXCEPT ![j] = Awaited'[j]]
    BY <1>6 DEF AwaitedRead
  <2>5. Awaited'[j] \in Slots!Ahead
    BY <1>2, <1>5 DEF Later, Slots!Ahead
  <2>6. Slots!Take(j)
    BY <1>1, <1>2, <1>4, <2>2, <2>3, <2>4, <2>5 DEF Slots!Take
  <2> QED BY <1>2, <2>6 DEF Slots!SlotNext
<1> QED BY <1>7, <1>8

(* A restart loses the slots in hand, whose rows wait for later ones.       *)
LEMMA RestartMaps ==
  ASSUME SchedInv, AwaitedRead, AwaitedRead', Restart PROVE Slots!SlotNext
<1>1. /\ pending' = {} /\ claimed' = [k \in Kinds |-> NoClaim] /\ runs' = {}
      /\ UNCHANGED <<clock, schedule>>
  BY DEF Restart
<1>2. \A j \in Jobs : Awaited'[j] = schedule[j].next
  BY <1>1, SchedAssumption DEF AwaitedRead, NoClaim
<1>3. ASSUME NEW j \in Jobs PROVE Awaited'[j] = Awaited[j] \/ Later(Awaited'[j])
  <2>s. Standing
    BY DEF SchedInv
  <2>1. CASE \E c \in pending : c.job = j
    BY <1>2, <2>s, <2>1 DEF Standing, AwaitedRead
  <2>2. CASE \E k \in Kinds : claimed[k].job = j
    BY <1>2, <2>s, <2>2, SchedAssumption DEF Standing, NoClaim
  <2>3. CASE (\A c \in pending : c.job # j) /\ \A k \in Kinds : claimed[k].job # j
    BY <1>2, <2>3 DEF AwaitedRead
  <2> QED BY <2>1, <2>2, <2>3
<1>4. \A j \in Jobs : Awaited'[j] = Awaited[j] \/ Awaited'[j] \in Slots!Ahead
  BY <1>3 DEF Later, Slots!Ahead
<1>5. Awaited' = [j \in Jobs |-> Awaited'[j]]
  BY DEF AwaitedRead
<1>6. Active' = {}
  BY <1>1 DEF Active
<1>7. Slots!Crash
  BY <1>1, <1>4, <1>5, <1>6 DEF Slots!Crash
<1> QED BY <1>7 DEF Slots!SlotNext

LEMMA StepMaps ==
  ASSUME SchedInv, SchedInv', [SchedNext]_schedVars
  PROVE  Slots!SlotNext \/ UNCHANGED <<clock, Awaited, Active>>
<1>r. AwaitedRead /\ AwaitedRead'
  BY AwaitedIsRead, AwaitedIsReadNext
<1>t. Typed /\ schedule \in [Jobs -> RowType]
  BY DEF SchedInv, Typed, SchedTypeOK
<1>q. ASSUME UNCHANGED <<clock, schedule, pending, claimed, runs>>
      PROVE  UNCHANGED <<clock, Awaited, Active>>
  BY <1>q, SameHand DEF Active
<1>1. ASSUME NEW j \in Jobs, CreateSchedule(j)
      PROVE  Slots!SlotNext \/ UNCHANGED <<clock, Awaited, Active>>
  <2>1. PICK row : schedule' = [schedule EXCEPT ![j] = row] /\ row.there /\ Later(row.next)
    BY <1>1, <1>t, CreatedRow
  <2>2. UNCHANGED <<clock, pending, claimed, runs>>
    BY <1>1 DEF CreateSchedule
  <2> QED BY <1>r, <1>t, <2>1, <2>2, RowWritten
<1>2. ASSUME NEW j \in Jobs, ReadForEdit(j) \/ SwitchEngine(j)
      PROVE  UNCHANGED <<clock, Awaited, Active>>
  BY <1>2, <1>q DEF ReadForEdit, SwitchEngine
<1>3. ASSUME NEW j \in Jobs, WriteEdit(j)
      PROVE  Slots!SlotNext \/ UNCHANGED <<clock, Awaited, Active>>
  <2>1. UNCHANGED <<clock, pending, claimed, runs>>
    BY <1>3 DEF WriteEdit
  <2>2. CASE schedule[j].there
    <3>1. schedule' = [schedule EXCEPT ![j] = Updated(j)]
      BY <1>3, <2>2 DEF WriteEdit
    <3>2. Later(Updated(j).next)
      BY <1>t, UpdatedRow
    <3> QED BY <1>r, <1>t, <2>1, <3>1, <3>2, RowWritten
  <2>3. CASE ~schedule[j].there
    BY <1>3, <1>q, <2>1, <2>3 DEF WriteEdit
  <2> QED BY <2>2, <2>3
<1>4. ASSUME NEW j \in Jobs, DeleteSchedule(j)
      PROVE  Slots!SlotNext \/ UNCHANGED <<clock, Awaited, Active>>
  <2>1. schedule' = [schedule EXCEPT ![j] = NoRow] /\ UNCHANGED <<clock, pending, claimed, runs>>
    BY <1>4 DEF DeleteSchedule
  <2>2. Later(NoRow.next)
    BY DEF Later, NoRow
  <2> QED BY <1>r, <1>t, <2>1, <2>2, RowWritten
<1>5. CASE SwitchBackups
  BY <1>5, <1>q DEF SwitchBackups
<1>6. CASE Tick
  BY <1>6, <1>r, TickMaps
<1>7. ASSUME NEW c \in pending, Claim(c)
      PROVE  Slots!SlotNext \/ UNCHANGED <<clock, Awaited, Active>>
  BY <1>7, <1>r, ClaimMaps
<1>8. ASSUME NEW k \in Kinds, Launch(k) PROVE Slots!SlotNext
  BY <1>8, <1>r, LaunchMaps
<1>9. ASSUME NEW r \in runs, (\E ok \in BOOLEAN : EndAttempt(r, ok)) \/ Retry(r)
      PROVE  Slots!SlotNext
  <2>1. /\ \A q \in runs' : \E p \in runs : q.job = p.job /\ q.slot = p.slot
        /\ UNCHANGED <<clock, schedule, pending, claimed>>
    BY <1>9, <1>t, RunsKeepSlots
  <2>2. Active' \subseteq Active
    BY <2>1 DEF Active
  <2>3. Slots!Finish
    BY <2>1, <2>2, SameHand DEF Slots!Finish
  <2> QED BY <2>3 DEF Slots!SlotNext
<1>10. CASE Minute
  <2>1. clock' = clock + 1 /\ UNCHANGED <<schedule, pending, claimed, runs>>
    BY <1>10 DEF Minute
  <2>2. UNCHANGED <<Awaited, Active>>
    BY <2>1, SameHand DEF Active
  <2> QED BY <2>1, <2>2 DEF Slots!SlotNext, Slots!Pass
<1>11. CASE Restart
  BY <1>11, <1>r, RestartMaps
<1>12. CASE UNCHANGED schedVars
  BY <1>12, <1>q DEF schedVars
<1> QED
  BY <1>1, <1>2, <1>3, <1>4, <1>5, <1>6, <1>7, <1>8, <1>9, <1>10, <1>11, <1>12 DEF SchedNext

(* The schedules implement DueSlots: whatever edits, pauses, deletions and  *)
(* restarts come between a tick's read and its claims, a due slot is run    *)
(* once and leaves only a later one behind.                                 *)
THEOREM Refinement == SchedSpec => SlotsTakenOnce
<1>1. SchedInv /\ SchedInv' /\ [SchedNext]_schedVars => [Slots!SlotNext]_(Slots!slotVars)
  BY StepMaps DEF Slots!slotVars
<1> QED BY <1>1, InitMaps, SchedInvariance, PTL DEF SchedSpec, SlotsTakenOnce, Slots!SlotSpec
-----------------------------------------------------------------------------
(***************************************************************************)
(* Why a run that ends well has followed every branch that was asked for:   *)
(* what is asked for and not followed yet is owed by the calls under way    *)
(* (Owed), and a call returns when it owes nothing.                         *)
(***************************************************************************)

(* How often a call is still to follow the edge: once if it is at that      *)
(* handle, a loop's body once for each item after the current one, and what *)
(* comes after the loop once.                                               *)
Owes(call, e) ==
  (IF e \in call.todo THEN 1 ELSE 0) +
  (IF e[1] = call.node /\ call.items > 0
   THEN IF e[2] = "body" THEN call.items - 1 ELSE IF e[2] = "done" THEN 1 ELSE 0
   ELSE 0)

(* The calls of s owe the edge so many times.                               *)
Owed(e, s, total) ==
  \E owed \in [1..(Len(s) + 1) -> Nat] :
    /\ owed[1] = total /\ owed[Len(s) + 1] = 0
    /\ \A k \in 1..Len(s) : owed[k] = Owes(s[k], e) + owed[k + 1]

AsksOf(e) == asked[<<e[1], e[2]>>]
Accounted(e) == \E t \in Nat : Owed(e, stack, t) /\ AsksOf(e) = followed[e] + t

RunInv ==
  /\ RunTypeOK
  /\ status # "failed" => \A e \in graph.edges : Accounted(e)
  /\ status = "ok" => stack = <<>>
-----------------------------------------------------------------------------
LEMMA OwedNone == ASSUME NEW e PROVE Owed(e, <<>>, 0) /\ \A t : Owed(e, <<>>, t) => t = 0
<1>1. Owed(e, <<>>, 0)
  <2>1. PICK owed : owed = [k \in 1..1 |-> 0]
    OBVIOUS
  <2>2. owed \in [1..(Len(<<>>) + 1) -> Nat] /\ owed[1] = 0 /\ owed[Len(<<>>) + 1] = 0
    BY <2>1
  <2> QED BY <2>2 DEF Owed
<1> QED BY <1>1 DEF Owed

LEMMA OwedPush ==
  ASSUME NEW S, NEW s \in Seq(S), NEW c \in S, NEW e, NEW t \in Nat, Owed(e, s, t), Owes(c, e) \in Nat
  PROVE  Owed(e, <<c>> \o s, Owes(c, e) + t)
<1>1. PICK n \in Nat : n = Len(s)
  OBVIOUS
<1>2. PICK owed \in [1..(n + 1) -> Nat] :
        /\ owed[1] = t /\ owed[n + 1] = 0 /\ \A k \in 1..n : owed[k] = Owes(s[k], e) + owed[k + 1]
  BY <1>1 DEF Owed
<1>3. PICK r : r = <<c>> \o s
  OBVIOUS
<1>4. Len(r) = n + 1 /\ r[1] = c /\ \A k \in 2..(n + 1) : r[k] = s[k - 1]
  BY <1>1, <1>3
<1>5. PICK more : more = [k \in 1..(n + 2) |-> IF k = 1 THEN Owes(c, e) + t ELSE owed[k - 1]]
  OBVIOUS
<1>6. /\ more \in [1..(n + 2) -> Nat] /\ more[1] = Owes(c, e) + t /\ more[n + 2] = 0
      /\ \A k \in 2..(n + 2) : more[k] = owed[k - 1]
  BY <1>2, <1>5
<1>7. ASSUME NEW k \in 1..(n + 1) PROVE more[k] = Owes(r[k], e) + more[k + 1]
  <2>1. CASE k = 1
    BY <1>2, <1>4, <1>6, <2>1
  <2>2. CASE k # 1
    <3>1. k - 1 \in 1..n /\ k \in 2..(n + 1) /\ k + 1 \in 2..(n + 2) /\ (k - 1) + 1 = k
      BY <2>2
    <3>2. owed[k - 1] = Owes(s[k - 1], e) + owed[k]
      BY <1>2, <3>1
    <3>3. more[k] = owed[k - 1] /\ more[k + 1] = owed[k] /\ r[k] = s[k - 1]
      BY <1>4, <1>6, <3>1
    <3> QED BY <3>2, <3>3
  <2> QED BY <2>1, <2>2
<1>8. PICK m : m = Len(r) /\ m = n + 1
  BY <1>4
<1>9. /\ more \in [1..(m + 1) -> Nat] /\ more[1] = Owes(c, e) + t /\ more[m + 1] = 0
      /\ \A k \in 1..m : more[k] = Owes(r[k], e) + more[k + 1]
  <2>1. m + 1 = n + 2
    BY <1>8
  <2> QED BY <1>6, <1>7, <1>8, <2>1
<1>10. Owed(e, r, Owes(c, e) + t)
  BY <1>8, <1>9 DEF Owed
<1> QED BY <1>3, <1>10

LEMMA OwedPop ==
  ASSUME NEW S, NEW s \in Seq(S), s # <<>>, NEW e, NEW t \in Nat, Owed(e, s, t)
  PROVE  \E u \in Nat : Owed(e, Tail(s), u) /\ t = Owes(Head(s), e) + u
<1>1. PICK n \in Nat : n = Len(Tail(s)) /\ Len(s) = n + 1
  OBVIOUS
<1>2. PICK owed \in [1..(n + 2) -> Nat] :
        /\ owed[1] = t /\ owed[n + 2] = 0 /\ \A k \in 1..(n + 1) : owed[k] = Owes(s[k], e) + owed[k + 1]
  BY <1>1 DEF Owed
<1>3. PICK r : r = Tail(s)
  OBVIOUS
<1>4. Len(r) = n /\ s[1] = Head(s) /\ \A k \in 1..n : r[k] = s[k + 1]
  BY <1>1, <1>3
<1>5. PICK less : less = [k \in 1..(n + 1) |-> owed[k + 1]]
  OBVIOUS
<1>6. /\ less \in [1..(n + 1) -> Nat] /\ less[1] = owed[2] /\ less[n + 1] = 0
      /\ \A k \in 1..(n + 1) : less[k] = owed[k + 1]
  BY <1>2, <1>5
<1>7. ASSUME NEW k \in 1..n PROVE less[k] = Owes(r[k], e) + less[k + 1]
  <2>1. k + 1 \in 1..(n + 1) /\ k \in 1..(n + 1)
    OBVIOUS
  <2>2. owed[k + 1] = Owes(s[k + 1], e) + owed[(k + 1) + 1]
    BY <1>2, <2>1
  <2> QED BY <1>4, <1>6, <2>1, <2>2
<1>8. Owed(e, r, owed[2])
  BY <1>4, <1>6, <1>7 DEF Owed
<1>9. owed[2] \in Nat /\ t = Owes(Head(s), e) + owed[2]
  BY <1>2, <1>4
<1> QED BY <1>3, <1>8, <1>9

-----------------------------------------------------------------------------
LEMMA HandlesAre == Handles = {"out", "case", "default", "body", "done"}
BY DEF Handles, Types, HandlesOf

LEMMA RunTypes ==
  ASSUME RunTypeOK
  PROVE  /\ \A e \in graph.edges : /\ e[1] \in FlowNodes /\ e[2] \in Handles /\ e[3] \in FlowNodes
                                   /\ <<e[1], e[2]>> \in FlowNodes \X Handles
                                   /\ AsksOf(e) \in Nat /\ followed[e] \in Nat
         /\ \A n \in FlowNodes : graph.types[n] \in Types /\ HandlesOf(graph.types[n]) \subseteq Handles
         /\ stack # <<>> => /\ Top \in CallType /\ Tail(stack) \in Seq(CallType)
                            /\ stack = <<Top>> \o Tail(stack) /\ Len(Tail(stack)) + 1 = Len(stack)
         /\ \A c \in CallType : /\ c.node \in FlowNodes /\ c.todo \subseteq graph.edges
                                /\ c.items \in Nat /\ c.items <= MaxItems
<1>1. \A e \in graph.edges : /\ e[1] \in FlowNodes /\ e[2] \in Handles /\ e[3] \in FlowNodes
                             /\ <<e[1], e[2]>> \in FlowNodes \X Handles
  BY DEF RunTypeOK, Edges
<1>2. \A e \in graph.edges : AsksOf(e) \in Nat /\ followed[e] \in Nat
  BY <1>1 DEF RunTypeOK, AsksOf
<1>3. \A n \in FlowNodes : graph.types[n] \in Types /\ HandlesOf(graph.types[n]) \subseteq Handles
  BY DEF RunTypeOK, Handles
<1>4. stack # <<>> => /\ Top \in CallType /\ Tail(stack) \in Seq(CallType)
                      /\ stack = <<Top>> \o Tail(stack) /\ Len(Tail(stack)) + 1 = Len(stack)
  BY DEF RunTypeOK, Top
<1>5. \A c \in CallType : /\ c.node \in FlowNodes /\ c.todo \subseteq graph.edges
                          /\ c.items \in Nat /\ c.items <= MaxItems
  BY RunAssumption DEF CallType
<1> QED BY <1>1, <1>2, <1>3, <1>4, <1>5

LEMMA OwesIs ==
  ASSUME NEW c \in CallType, NEW e PROVE Owes(c, e) \in Nat
BY RunAssumption DEF Owes, CallType

(* A new call owes what it asks for.                                        *)
LEMMA CallOwes ==
  ASSUME RunTypeOK, NEW n \in FlowNodes, NEW h \in Handles, NEW items \in 0..MaxItems,
         items = 0 <=> h # "body"
  PROVE  /\ Call(n, h, items) \in CallType
         /\ \A e \in graph.edges :
              Ask(n, h, items)[<<e[1], e[2]>>] = AsksOf(e) + Owes(Call(n, h, items), e)
         /\ Ask(n, h, items) \in [FlowNodes \X Handles -> Nat]
<1>1. PICK c : c = Call(n, h, items)
  OBVIOUS
<1>2. /\ c \in CallType /\ c.node = n /\ c.items = items
      /\ c.todo = {e \in graph.edges : e[1] = n /\ e[2] = h}
  BY <1>1 DEF Call, CallType, Outgoing
<1>3. ASSUME NEW e \in graph.edges
      PROVE  Ask(n, h, items)[<<e[1], e[2]>>] = AsksOf(e) + Owes(c, e)
  <2>1. /\ <<e[1], e[2]>> \in FlowNodes \X Handles /\ AsksOf(e) \in Nat
        /\ e[1] \in FlowNodes /\ e[2] \in Handles
    BY RunTypes
  <2>2. PICK p : p = <<e[1], e[2]>>
    OBVIOUS
  <2>3. \A m, g : p = <<m, g>> <=> e[1] = m /\ e[2] = g
    BY <2>2
  <2>4. Ask(n, h, items)[p] = AsksOf(e) +
          (IF e[1] = n /\ e[2] = h /\ h # "body" THEN 1
           ELSE IF e[1] = n /\ e[2] = "body" /\ h \in {"body", "done"} THEN items
           ELSE IF e[1] = n /\ e[2] = "done" /\ h = "body" THEN 1 ELSE 0)
    BY <2>1, <2>2, <2>3 DEF Ask, AsksOf
  <2>5. Owes(c, e) = (IF e[1] = n /\ e[2] = h THEN 1 ELSE 0) +
          (IF e[1] = n /\ items > 0
           THEN IF e[2] = "body" THEN items - 1 ELSE IF e[2] = "done" THEN 1 ELSE 0
           ELSE 0)
    BY <1>2 DEF Owes
  <2> QED BY <2>1, <2>2, <2>4, <2>5
<1>4. Ask(n, h, items) \in [FlowNodes \X Handles -> Nat]
  BY DEF Ask, RunTypeOK
<1> QED BY <1>1, <1>2, <1>3, <1>4
-----------------------------------------------------------------------------
LEMMA RunInvInit == RunInit => RunInv
<1> SUFFICES ASSUME RunInit PROVE RunInv
  OBVIOUS
<1>1. PICK types, edges : /\ types \in [FlowNodes -> Types] /\ edges \in SUBSET Edges(types)
                          /\ graph = [types |-> types, edges |-> edges]
  BY DEF RunInit
<1>2. graph.types = types /\ graph.edges = edges
  BY <1>1
<1>3. stack = <<>> /\ steps = 0 /\ Len(stack) = 0
  BY DEF RunInit
<1>4. RunTypeOK
  BY <1>2, <1>3, RunAssumption DEF RunInit, RunTypeOK, NothingAsked
<1>5. \A e \in graph.edges : Accounted(e)
  <2> SUFFICES ASSUME NEW e \in graph.edges PROVE Accounted(e)
    OBVIOUS
  <2>1. AsksOf(e) = 0 /\ followed[e] = 0
    <3>1. <<e[1], e[2]>> \in FlowNodes \X Handles
      BY <1>4, RunTypes
    <3> QED BY <3>1 DEF AsksOf, RunInit, NothingAsked
  <2>2. Owed(e, stack, 0)
    BY <1>3, OwedNone
  <2>3. 0 \in Nat /\ AsksOf(e) = followed[e] + 0
    BY <2>1
  <2> QED BY <2>2, <2>3 DEF Accounted
<1>6. status = "running"
  BY DEF RunInit
<1> QED BY <1>4, <1>5, <1>6 DEF RunInv

(* A call is made, from calls that owe what is asked and not followed.      *)
LEMMA WalkKeeps ==
  ASSUME RunTypeOK, status = "running", NEW n \in FlowNodes, NEW rest \in Seq(CallType), Walk(n, rest),
         Len(rest) <= steps, roots' \subseteq FlowNodes, followed' \in [graph.edges -> Nat],
         \A e \in graph.edges : \E t \in Nat : Owed(e, rest, t) /\ AsksOf(e) = followed'[e] + t
  PROVE  RunInv'
<1>1. PICK h \in HandlesOf(graph.types[n]) \ {"done"}, items \in 0..MaxItems :
        /\ graph.types[n] # "loop" => items = 0
        /\ stack' = <<Call(n, IF h = "body" /\ items = 0 THEN "done" ELSE h, items)>> \o rest
        /\ asked' = Ask(n, IF h = "body" /\ items = 0 THEN "done" ELSE h, items)
  BY DEF Walk
<1>2. PICK handle \in Handles :
        /\ handle = IF h = "body" /\ items = 0 THEN "done" ELSE h
        /\ items = 0 <=> handle # "body"
  <2>1. h \in Handles /\ graph.types[n] \in Types
    BY RunTypes
  <2>2. h = "body" \/ items = 0
    BY <1>1, <2>1 DEF HandlesOf, Types
  <2> QED BY <2>1, <2>2, HandlesAre
<1>3. PICK c \in CallType :
        /\ stack' = <<c>> \o rest /\ asked' \in [FlowNodes \X Handles -> Nat]
        /\ \A e \in graph.edges : asked'[<<e[1], e[2]>>] = AsksOf(e) + Owes(c, e)
  <2>1. /\ Call(n, handle, items) \in CallType
        /\ \A e \in graph.edges :
             Ask(n, handle, items)[<<e[1], e[2]>>] = AsksOf(e) + Owes(Call(n, handle, items), e)
        /\ Ask(n, handle, items) \in [FlowNodes \X Handles -> Nat]
    BY <1>2, CallOwes
  <2>2. stack' = <<Call(n, handle, items)>> \o rest /\ asked' = Ask(n, handle, items)
    BY <1>1, <1>2
  <2> QED BY <2>1, <2>2
<1>4. /\ UNCHANGED graph /\ steps' = steps + 1 /\ steps + 1 <= StepBudget
      /\ status' \in {"running", "waiting"}
  BY DEF Walk, Guard
<1>5. CallType' = CallType
  BY <1>4 DEF CallType
<1>6. RunTypeOK'
  <2>1. stack' \in Seq(CallType) /\ Len(stack') = Len(rest) + 1
    BY <1>3
  <2> QED BY <1>3, <1>4, <1>5, <2>1 DEF RunTypeOK
<1>7. ASSUME NEW e \in graph.edges PROVE Accounted(e)'
  <2>1. PICK t \in Nat : Owed(e, rest, t) /\ AsksOf(e) = followed'[e] + t
    OBVIOUS
  <2>2. Owes(c, e) \in Nat /\ followed'[e] \in Nat
    BY OwesIs
  <2>3. Owed(e, stack', Owes(c, e) + t)
    BY <1>3, <2>1, <2>2, OwedPush
  <2>4. AsksOf(e)' = followed'[e] + (Owes(c, e) + t) /\ Owes(c, e) + t \in Nat
    <3>1. AsksOf(e)' = AsksOf(e) + Owes(c, e)
      BY <1>3 DEF AsksOf
    <3> QED BY <2>1, <2>2, <3>1
  <2> QED BY <2>3, <2>4 DEF Accounted
<1> QED BY <1>4, <1>6, <1>7 DEF RunInv

LEMMA WalkRootKeeps ==
  ASSUME RunInv, NEW n \in FlowNodes, WalkRoot(n) PROVE RunInv'
<1>1. status = "running" /\ Walk(n, stack) /\ UNCHANGED followed /\ roots' \subseteq FlowNodes
  BY DEF WalkRoot, RunInv, RunTypeOK
<1>2. \A e \in graph.edges : \E t \in Nat : Owed(e, stack, t) /\ AsksOf(e) = followed'[e] + t
  BY <1>1 DEF RunInv, Accounted
<1> QED BY <1>1, <1>2, WalkKeeps DEF RunInv, RunTypeOK

LEMMA FollowKeeps ==
  ASSUME RunInv, stack # <<>>, NEW e \in Top.todo, Follow(e) PROVE RunInv'
<1>1. PICK top \in CallType : top = Top
  BY RunTypes DEF RunInv
<1>2. PICK x : x = [top EXCEPT !.todo = @ \ {e}]
  OBVIOUS
<1>3. /\ x \in CallType /\ x.node = top.node /\ x.items = top.items /\ x.todo = top.todo \ {e}
      /\ e \in top.todo /\ e \in graph.edges /\ top.items \in Nat
  BY <1>1, <1>2, RunTypes DEF CallType, RunInv
<1>4. PICK rest : rest = <<x>> \o Tail(stack)
  OBVIOUS
<1>5. /\ status = "running" /\ Walk(e[3], rest) /\ UNCHANGED roots /\ e[3] \in FlowNodes
      /\ followed' = [followed EXCEPT ![e] = @ + 1]
  BY <1>1, <1>2, <1>3, <1>4, RunTypes DEF Follow, WithTop, RunInv
<1>6. rest \in Seq(CallType) /\ Len(rest) <= steps /\ Tail(stack) \in Seq(CallType)
  BY <1>3, <1>4, RunTypes DEF RunInv, RunTypeOK
<1>7. followed' \in [graph.edges -> Nat] /\ roots' \subseteq FlowNodes
  BY <1>3, <1>5 DEF RunInv, RunTypeOK
<1>8. ASSUME NEW d \in graph.edges
      PROVE  \E t \in Nat : Owed(d, rest, t) /\ AsksOf(d) = followed'[d] + t
  <2>1. PICK t \in Nat : Owed(d, stack, t) /\ AsksOf(d) = followed[d] + t
    BY <1>5 DEF RunInv, Accounted
  <2>2. PICK u \in Nat : Owed(d, Tail(stack), u) /\ t = Owes(top, d) + u
    BY <1>1, <2>1, OwedPop DEF Top, RunInv, RunTypeOK
  <2>3. Owes(x, d) \in Nat /\ Owes(top, d) \in Nat
    BY <1>3, OwesIs
  <2>4. Owed(d, rest, Owes(x, d) + u)
    BY <1>3, <1>4, <1>6, <2>2, <2>3, OwedPush
  <2>5. Owes(top, d) = Owes(x, d) + (IF d = e THEN 1 ELSE 0)
    BY <1>3 DEF Owes
  <2>6. followed'[d] = followed[d] + (IF d = e THEN 1 ELSE 0) /\ followed[d] \in Nat
    BY <1>3, <1>5 DEF RunInv, RunTypeOK
  <2>7. AsksOf(d) = followed'[d] + (Owes(x, d) + u)
    BY <2>1, <2>2, <2>3, <2>5, <2>6
  <2> QED BY <2>3, <2>4, <2>7
<1> QED BY <1>5, <1>6, <1>7, <1>8, WalkKeeps DEF RunInv

(* The innermost call is through with the edges of its handle.              *)
LEMMA AdvanceKeeps ==
  ASSUME RunInv, stack # <<>>, NextItem \/ Return PROVE RunInv'
<1>1. PICK top \in CallType : top = Top
  BY RunTypes DEF RunInv
<1>2. /\ status = "running" /\ top.todo = {} /\ UNCHANGED <<graph, status, roots, steps, asked, followed>>
      /\ CallType' = CallType /\ top.items \in Nat /\ top.items <= MaxItems /\ top.node \in FlowNodes
  BY <1>1, RunTypes DEF NextItem, Return, RunInv, CallType
<1>3. /\ Tail(stack) \in Seq(CallType) /\ Len(Tail(stack)) + 1 = Len(stack) /\ Len(stack) <= steps
      /\ steps \in Nat
  BY RunTypes, RunAssumption DEF RunInv, RunTypeOK
<1>4. ASSUME NEW e \in graph.edges
      PROVE  \E u \in Nat : Owed(e, Tail(stack), u) /\ AsksOf(e) = followed[e] + Owes(top, e) + u
  <2>1. PICK t \in Nat : Owed(e, stack, t) /\ AsksOf(e) = followed[e] + t
    BY <1>2 DEF RunInv, Accounted
  <2>2. PICK u \in Nat : Owed(e, Tail(stack), u) /\ t = Owes(top, e) + u
    BY <1>1, <2>1, OwedPop DEF Top, RunInv, RunTypeOK
  <2>3. followed[e] \in Nat /\ Owes(top, e) \in Nat
    BY RunTypes, OwesIs DEF RunInv
  <2> QED BY <2>1, <2>2, <2>3
<1>5. CASE Return
  <2>1. stack' = Tail(stack) /\ top.items = 0
    BY <1>1, <1>5 DEF Return
  <2>2. RunTypeOK'
    BY <1>2, <1>3, <2>1 DEF RunInv, RunTypeOK
  <2>3. ASSUME NEW e \in graph.edges PROVE Accounted(e)'
    <3>1. Owes(top, e) = 0 /\ followed[e] \in Nat
      <4>1. followed[e] \in Nat
        BY RunTypes DEF RunInv
      <4>2. Owes(top, e) = 0
        BY <1>2, <2>1 DEF Owes
      <4> QED BY <4>1, <4>2
    <3>2. PICK u \in Nat : Owed(e, Tail(stack), u) /\ AsksOf(e) = followed[e] + Owes(top, e) + u
      BY <1>4
    <3>3. AsksOf(e)' = followed'[e] + u
      BY <1>2, <3>1, <3>2 DEF AsksOf
    <3> QED BY <2>1, <3>2, <3>3 DEF Accounted
  <2> QED BY <1>2, <2>2, <2>3 DEF RunInv
<1>6. CASE NextItem
  <2>1. PICK x : x = AfterItem(top)
    OBVIOUS
  <2>2. stack' = <<x>> \o Tail(stack) /\ top.items > 0
    BY <1>1, <1>6, <2>1 DEF NextItem, WithTop
  <2>3. /\ x \in CallType
        /\ \A e \in graph.edges : Owes(x, e) = Owes(top, e)
    <3>1. CASE top.items > 1
      <4>1. /\ x.node = top.node /\ x.items = top.items - 1 /\ x \in CallType
            /\ x.todo = {e \in graph.edges : e[1] = top.node /\ e[2] = "body"}
        BY <1>2, <2>1, <3>1, RunAssumption DEF AfterItem, Call, CallType, Outgoing
      <4>2. ASSUME NEW e \in graph.edges PROVE Owes(x, e) = Owes(top, e)
        <5>1. PICK k \in Nat : k = top.items /\ k > 1
          BY <1>2, <3>1
        <5>2. Owes(top, e) = (IF e[1] = top.node
                              THEN IF e[2] = "body" THEN k - 1 ELSE IF e[2] = "done" THEN 1 ELSE 0
                              ELSE 0)
          BY <1>2, <5>1 DEF Owes
        <5>3. Owes(x, e) = (IF e[1] = top.node /\ e[2] = "body" THEN 1 ELSE 0) +
                (IF e[1] = top.node
                 THEN IF e[2] = "body" THEN (k - 1) - 1 ELSE IF e[2] = "done" THEN 1 ELSE 0
                 ELSE 0)
          BY <4>1, <5>1 DEF Owes
        <5> QED BY <5>1, <5>2, <5>3
      <4> QED BY <4>1, <4>2
    <3>2. CASE ~(top.items > 1)
      <4>1. /\ x.node = top.node /\ x.items = 0 /\ x \in CallType /\ top.items = 1
            /\ x.todo = {e \in graph.edges : e[1] = top.node /\ e[2] = "done"}
        BY <1>2, <2>1, <2>2, <3>2, RunAssumption DEF AfterItem, Call, CallType, Outgoing
      <4> QED BY <1>2, <4>1 DEF Owes
    <3> QED BY <3>1, <3>2
  <2>4. RunTypeOK'
    <3>1. stack' \in Seq(CallType) /\ Len(stack') = Len(stack)
      BY <1>3, <2>2, <2>3
    <3> QED BY <1>2, <1>3, <3>1 DEF RunInv, RunTypeOK
  <2>5. ASSUME NEW e \in graph.edges PROVE Accounted(e)'
    <3>1. PICK u \in Nat : Owed(e, Tail(stack), u) /\ AsksOf(e) = followed[e] + Owes(top, e) + u
      BY <1>4
    <3>2. Owes(x, e) \in Nat /\ followed[e] \in Nat
      BY <2>3, OwesIs, RunTypes DEF RunInv
    <3>3. Owed(e, stack', Owes(x, e) + u)
      BY <1>3, <2>2, <2>3, <3>1, <3>2, OwedPush
    <3>4. AsksOf(e)' = followed'[e] + (Owes(x, e) + u) /\ Owes(x, e) + u \in Nat
      BY <1>2, <2>3, <3>1, <3>2 DEF AsksOf
    <3> QED BY <3>3, <3>4 DEF Accounted
  <2> QED BY <1>2, <2>4, <2>5 DEF RunInv
<1> QED BY <1>5, <1>6

LEMMA FailKeeps == ASSUME RunInv, Fail PROVE RunInv'
<1>1. UNCHANGED graph /\ status' = "failed" /\ stack' = <<>> /\ roots' = {} /\ steps' = 0
  BY DEF Fail
<1>2. /\ asked' \in [FlowNodes \X Handles -> Nat] /\ followed' \in [graph.edges -> Nat]
      /\ Len(<<>>) = 0 /\ <<>> \in Seq(CallType) /\ CallType' = CallType
  BY <1>1 DEF Fail, NothingAsked, CallType
<1>3. RunTypeOK'
  BY <1>1, <1>2, RunAssumption DEF RunInv, RunTypeOK
<1> QED BY <1>1, <1>3 DEF RunInv

LEMMA RunStays ==
  ASSUME RunInv, UNCHANGED <<graph, roots, stack, steps, asked, followed>>,
         status' = status \/ (status = "running" /\ status' = "failed")
           \/ (status = "waiting" /\ status' = "running")
           \/ (status = "running" /\ status' = "ok" /\ stack = <<>>)
  PROVE  RunInv'
<1>1. CallType' = CallType
  BY DEF CallType
<1>2. RunTypeOK'
  BY <1>1 DEF RunInv, RunTypeOK
<1>3. \A e \in graph.edges : Accounted(e)' <=> Accounted(e)
  BY DEF Accounted, AsksOf
<1> QED BY <1>2, <1>3 DEF RunInv

LEMMA RunInvNext == RunInv /\ [RunNext]_runVars => RunInv'
<1> SUFFICES ASSUME RunInv, [RunNext]_runVars PROVE RunInv'
  OBVIOUS
<1>1. CASE \E n \in FlowNodes : WalkRoot(n)
  BY <1>1, WalkRootKeeps
<1>2. CASE stack # <<>> /\ \E e \in Top.todo : Follow(e)
  BY <1>2, FollowKeeps
<1>3. CASE NextItem \/ Return
  BY <1>3, AdvanceKeeps DEF NextItem, Return
<1>4. CASE OutOfSteps \/ Throw
  BY <1>4, FailKeeps DEF OutOfSteps, Throw
<1>5. CASE Settle
  BY <1>5, RunStays DEF Settle
<1>6. CASE UNCHANGED runVars
  BY <1>6, RunStays DEF runVars
<1>7. CASE Answer
  BY <1>7, RunStays DEF Answer
<1> QED BY <1>1, <1>2, <1>3, <1>4, <1>5, <1>6, <1>7 DEF RunNext, Step

LEMMA RunInvariant == RunSpec => []RunInv
BY RunInvInit, RunInvNext, PTL DEF RunSpec

(* The calls under way are as walk() made them, and no more than there were *)
(* steps.                                                                   *)
THEOREM RunTypeCorrect == RunSpec => []RunTypeOK
<1>1. RunInv => RunTypeOK
  BY DEF RunInv
<1> QED BY <1>1, RunInvariant, PTL

(* Whatever the graph, cycles and shared nodes included: a run that ends    *)
(* well has followed each edge as often as its node asked for the handle    *)
(* (runWorkflow's walk).                                                    *)
THEOREM BranchesAreWalked == RunSpec => []EveryBranchWalked
<1>1. RunInv => EveryBranchWalked
  <2> SUFFICES ASSUME RunInv, status = "ok", NEW e \in graph.edges PROVE followed[e] = asked[<<e[1], e[2]>>]
    BY DEF EveryBranchWalked
  <2>1. PICK t \in Nat : Owed(e, <<>>, t) /\ AsksOf(e) = followed[e] + t
    BY DEF RunInv, Accounted
  <2>2. t = 0 /\ followed[e] \in Nat
    BY <2>1, OwedNone, RunTypes DEF RunInv
  <2> QED BY <2>1, <2>2 DEF AsksOf
<1> QED BY <1>1, RunInvariant, PTL
-----------------------------------------------------------------------------
(***************************************************************************)
(* The run that puts the gate, the schedulers and a workflow's run side by  *)
(* side is a run of the gate with its fairness, and keeps the invariants of *)
(* the other two.  Where it is not a workflow's, the run of one is over.    *)
(***************************************************************************)

(* The gate takes its own steps in MCProgress, or none, and is as fair.     *)
THEOREM ProgressImplements == ProgressSpec => FairSpec
<1>1. ProgressInit => Init
  BY DEF ProgressInit
<1>2. [ProgressNext]_progressVars => [Next]_vars
  BY DEF ProgressNext, progressVars, vars
<1> QED BY <1>1, <1>2, PTL DEF ProgressSpec, ProgressFairness, FairSpec, Spec

LEMMA OverKeeps == NoRun => RunInv
<1> SUFFICES ASSUME NoRun PROVE RunInv
  OBVIOUS
<1>1. /\ graph.types = [n \in FlowNodes |-> "leaf"] /\ graph.edges = {} /\ status = "failed"
      /\ stack = <<>> /\ steps = 0 /\ roots = {} /\ asked = NothingAsked /\ followed = <<>>
  BY DEF NoRun
<1>2. graph.types \in [FlowNodes -> Types] /\ graph.edges \subseteq Edges(graph.types)
  BY <1>1 DEF Types
<1>3. /\ stack \in Seq(CallType) /\ Len(stack) <= steps /\ steps \in 0..StepBudget
  BY <1>1, RunAssumption
<1>4. followed \in [graph.edges -> Nat]
  BY <1>1
<1> QED BY <1>1, <1>2, <1>3, <1>4 DEF RunInv, RunTypeOK, NothingAsked

(* The schedulers and the run keep their types in MCProgress, and with the  *)
(* types their invariants.                                                  *)
THEOREM ProgressTypeCorrect == ProgressSpec => []ProgressTypeOK
<1>1. ProgressInit => SchedInv /\ RunInv
  <2> SUFFICES ASSUME ProgressInit PROVE SchedInv /\ RunInv
    OBVIOUS
  <2>1. SchedInit /\ (RunInit \/ NoRun)
    BY DEF ProgressInit
  <2> QED BY <2>1, SchedInvInit, RunInvInit, OverKeeps
<1>2. [ProgressNext]_progressVars => [SchedNext]_schedVars /\ [RunNext]_runVars
  BY DEF ProgressNext, progressVars, schedVars, runVars
<1>3. SchedInv /\ RunInv => ProgressTypeOK
  BY DEF SchedInv, Typed, RunInv, ProgressTypeOK
<1> QED BY <1>1, <1>2, <1>3, SchedInvNext, RunInvNext, PTL DEF ProgressSpec
=============================================================================
