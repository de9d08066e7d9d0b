----------------------------- MODULE Scheduler ------------------------------
(***************************************************************************)
(* The schedules of backups and of workflows: the tick that reads the due  *)
(* rows and claims them one by one (server/backup/runner.js,               *)
(* server/workflow.js), the runs with their retries, and the routes that   *)
(* create, edit and delete a schedule meanwhile.  A tick and an edit both   *)
(* write next_run_at from a row they read earlier.                         *)
(***************************************************************************)
EXTENDS Naturals, FiniteSets

CONSTANTS
  Backups,      \* connections that can have a backup schedule
  Workflows,
  RetryLimit,   \* backup_schedules.retry_limit
  Hour, Day,    \* the two frequencies, in minutes of the clock
  MaxTime,      \* bound on the clock
  MaxRestarts,  \* bound on the restarts
  MaxEdits,     \* bound on the edits
  Keep          \* a field that the body of an edit leaves out

Jobs == Backups \cup Workflows

ASSUME SchedAssumption ==
  /\ Keep \notin Jobs
  /\ {RetryLimit, MaxTime} \subseteq Nat
  /\ {Hour, Day} \subseteq Nat \ {0} /\ Hour <= Day

VARIABLES
  clock,       \* the minute
  ticked,      \* the minute's tick has fired
  schedule,    \* the rows
  pending,     \* the rows the tick has read and not yet claimed
  claimed,     \* per kind, the row that is claimed and whose connection is being read
  edit,        \* per job, the PUT that has read the row
  live,        \* the jobs whose connection exists and whose engine is on
  backupOn,    \* the backup module
  runs,        \* the runs under way
  pausedAt,    \* history: when the job was last paused, 0 when it is not
  restarts, edits

schedVars == <<clock, ticked, schedule, pending, claimed, edit, live, backupOn,
               runs, pausedAt, restarts, edits>>

Frequencies(j) ==
  IF j \in Workflows THEN {"hourly", "daily", "manual"} ELSE {"hourly", "daily"}

NoRow == [there |-> FALSE, enabled |-> FALSE, frequency |-> "daily", next |-> 0]

(* A workflow's frequency is that of the schedule node of its graph.        *)
Recurs(f) == f # "manual"

ComputeNextRun(f, now) ==
  LET period == IF f = "hourly" THEN Hour ELSE Day
  IN  (now \div period + 1) * period

NextRun(f, on) == IF on /\ Recurs(f) THEN ComputeNextRun(f, clock) ELSE 0

Kind(j) == IF j \in Backups THEN "backup" ELSE "workflow"
Kinds == {"backup", "workflow"}
NoClaim == [job |-> Keep, row |-> NoRow]
NoEdit == [row |-> NoRow, frequency |-> Keep, enabled |-> Keep]

RowType == [there : BOOLEAN, enabled : BOOLEAN,
            frequency : {"hourly", "daily", "manual"}, next : 0..(MaxTime + Day)]

SchedTypeOK ==
  /\ clock \in 0..MaxTime /\ ticked \in BOOLEAN /\ backupOn \in BOOLEAN
  /\ schedule \in [Jobs -> RowType]
  /\ \A c \in pending : c.job \in Jobs /\ c.row \in RowType
  /\ claimed \in [Kinds -> [job : Jobs \cup {Keep}, row : RowType]]
  /\ \A j \in Jobs : schedule[j].frequency \in Frequencies(j) /\ edit[j].row \in RowType
  /\ live \subseteq Jobs
  /\ \A r \in runs : r.job \in Jobs /\ r.slot \in 1..MaxTime /\ r.tries \in 0..RetryLimit
  /\ pausedAt \in [Jobs -> 0..MaxTime]

SchedInit ==
  /\ clock = 0 /\ ticked = FALSE
  /\ schedule = [j \in Jobs |-> NoRow]
  /\ pending = {} /\ claimed = [k \in Kinds |-> NoClaim]
  /\ edit = [j \in Jobs |-> NoEdit]
  /\ live \in SUBSET Jobs /\ backupOn = TRUE
  /\ runs = {} /\ pausedAt = [j \in Jobs |-> 0]
  /\ restarts = 0 /\ edits = 0
-----------------------------------------------------------------------------
(* createSchedule by the POST route; createWorkflow and the PUT that        *)
(* switches its schedule on.                                                *)
CreateSchedule(j) ==
  /\ ~schedule[j].there /\ j \in live /\ edits < MaxEdits
  /\ \E f \in Frequencies(j), on \in BOOLEAN :
       schedule' = [schedule EXCEPT ![j] =
         [there |-> TRUE, enabled |-> on, frequency |-> f, next |-> NextRun(f, on)]]
  /\ pausedAt' = [pausedAt EXCEPT ![j] = 0]
  /\ edits' = edits + 1
  /\ UNCHANGED <<clock, ticked, pending, claimed, edit, live, backupOn, runs, restarts>>

ReadForEdit(j) ==
  /\ edit[j] = NoEdit /\ schedule[j].there /\ edits < MaxEdits
  /\ \E f \in Frequencies(j) \cup {Keep}, on \in BOOLEAN \cup {Keep} :
       /\ f # Keep \/ on # Keep
       /\ edit' = [edit EXCEPT ![j] = [row |-> schedule[j], frequency |-> f, enabled |-> on]]
  /\ edits' = edits + 1
  /\ UNCHANGED <<clock, ticked, schedule, pending, claimed, live, backupOn, runs, pausedAt, restarts>>

(* updateSchedule writes every field, those the body leaves out from the    *)
(* row it read; updateWorkflow only those the body has, and next_run_at.    *)
BrokenUpdated(j) ==
  LET e == edit[j]
      f == IF e.frequency = Keep THEN e.row.frequency ELSE e.frequency
      on == IF e.enabled = Keep THEN e.row.enabled ELSE e.enabled
  IN  [there |-> TRUE, frequency |-> f, enabled |-> on,
       next |-> IF e.row.next # 0 THEN e.row.next ELSE NextRun(f, on)]

Updated(j) ==
  LET e == edit[j]
      f == IF e.frequency = Keep THEN e.row.frequency ELSE e.frequency
      on == IF e.enabled = Keep THEN e.row.enabled ELSE e.enabled
  IN  [there |-> TRUE,
       frequency |-> IF j \in Workflows /\ e.frequency = Keep THEN schedule[j].frequency ELSE f,
       enabled |-> IF j \in Workflows /\ e.enabled = Keep THEN schedule[j].enabled ELSE on,
       next |-> NextRun(f, on)]

WriteEdit(j) ==
  /\ edit[j] # NoEdit
  /\ edit' = [edit EXCEPT ![j] = NoEdit]
  /\ IF schedule[j].there
     THEN /\ schedule' = [schedule EXCEPT ![j] = Updated(j)]
          /\ pausedAt' = [pausedAt EXCEPT ![j] =
               IF Updated(j).enabled THEN 0 ELSE IF @ = 0 THEN clock ELSE @]
     ELSE UNCHANGED <<schedule, pausedAt>>
  /\ UNCHANGED <<clock, ticked, pending, claimed, live, backupOn, runs, restarts, edits>>

(* The workflow, or the connection with its schedule, is deleted.           *)
DeleteSchedule(j) ==
  /\ schedule[j].there
  /\ schedule' = [schedule EXCEPT ![j] = NoRow]
  /\ pausedAt' = [pausedAt EXCEPT ![j] = 0]
  /\ live' \in {live, live \ {j}}
  /\ j \in Backups => j \notin live'
  /\ UNCHANGED <<clock, ticked, pending, claimed, edit, backupOn, runs, restarts, edits>>

(* An admin turns the engine of a connection, or the backup module, off     *)
(* and on.                                                                  *)
SwitchEngine(j) ==
  /\ schedule[j].there
  /\ live' = IF j \in live THEN live \ {j} ELSE live \cup {j}
  /\ UNCHANGED <<clock, ticked, schedule, pending, claimed, edit, backupOn, runs,
                 pausedAt, restarts, edits>>

SwitchBackups ==
  /\ clock < MaxTime
  /\ backupOn' = ~backupOn
  /\ UNCHANGED <<clock, ticked, schedule, pending, claimed, edit, live, runs,
                 pausedAt, restarts, edits>>
-----------------------------------------------------------------------------
BrokenDue(j) == schedule[j].there /\ schedule[j].next \in 1..clock

Due(j) ==
  /\ schedule[j].there /\ schedule[j].enabled
  /\ schedule[j].next \in 1..clock

Scanned == IF backupOn THEN Jobs ELSE Workflows

(* The minute's tick: runDueWorkflows and runDueBackups read the due rows.  *)
Tick ==
  /\ ~ticked
  /\ ticked' = TRUE
  /\ pending' = {[job |-> j, row |-> schedule[j]] : j \in {i \in Scanned : Due(i)}}
  /\ UNCHANGED <<clock, schedule, claimed, edit, live, backupOn, runs, pausedAt, restarts, edits>>

(* The next slot is claimed by id, from the row as it was read.             *)
BrokenClaimedManual(c) ==
  IF ~schedule[c.job].there \/ ~Recurs(c.row.frequency) THEN schedule[c.job]
  ELSE [schedule[c.job] EXCEPT !.next = ComputeNextRun(c.row.frequency, clock)]

ClaimedRow(c) ==
  IF ~schedule[c.job].there THEN schedule[c.job]
  ELSE IF ~Recurs(c.row.frequency)
  THEN [schedule[c.job] EXCEPT !.enabled = FALSE, !.next = 0]
  ELSE [schedule[c.job] EXCEPT !.next = ComputeNextRun(c.row.frequency, clock)]

Claim(c) ==
  /\ c \in pending /\ claimed[Kind(c.job)] = NoClaim
  /\ pending' = pending \ {c}
  /\ schedule' = [schedule EXCEPT ![c.job] = ClaimedRow(c)]
  /\ claimed' = IF Recurs(c.row.frequency)
                THEN [claimed EXCEPT ![Kind(c.job)] = c] ELSE claimed
  /\ pausedAt' = [pausedAt EXCEPT ![c.job] =
       IF schedule'[c.job].enabled \/ ~schedule[c.job].enabled THEN @ ELSE clock]
  /\ UNCHANGED <<clock, ticked, edit, live, backupOn, runs, restarts, edits>>

(* getConnection has answered; a locked or deleted one is skipped.          *)
Launch(k) ==
  /\ claimed[k] # NoClaim
  /\ runs' = IF claimed[k].job \in live
             THEN runs \cup {[job |-> claimed[k].job, slot |-> claimed[k].row.next,
                              tries |-> 0, asleep |-> FALSE]}
             ELSE runs
  /\ claimed' = [claimed EXCEPT ![k] = NoClaim]
  /\ UNCHANGED <<clock, ticked, schedule, pending, edit, live, backupOn, pausedAt, restarts, edits>>

(* An attempt ends, well or not; a backup is tried again after a delay.     *)
EndAttempt(r, ok) ==
  /\ r \in runs /\ ~r.asleep
  /\ runs' = (runs \ {r}) \cup
       (IF ~ok /\ r.job \in Backups /\ r.tries < RetryLimit
        THEN {[r EXCEPT !.asleep = TRUE]} ELSE {})
  /\ UNCHANGED <<clock, ticked, schedule, pending, claimed, edit, live, backupOn,
                 pausedAt, restarts, edits>>

Retry(r) ==
  /\ r \in runs /\ r.asleep
  /\ runs' = (runs \ {r}) \cup {[r EXCEPT !.asleep = FALSE, !.tries = @ + 1]}
  /\ UNCHANGED <<clock, ticked, schedule, pending, claimed, edit, live, backupOn,
                 pausedAt, restarts, edits>>
-----------------------------------------------------------------------------
(* A tick's queries are answered within its minute.                         *)
Minute ==
  /\ clock < MaxTime /\ ticked /\ pending = {} /\ \A k \in Kinds : claimed[k] = NoClaim
  /\ clock' = clock + 1 /\ ticked' = FALSE
  /\ UNCHANGED <<schedule, pending, claimed, edit, live, backupOn, runs, pausedAt, restarts, edits>>

(* The process restarts and has missed the minute's tick.                   *)
Restart ==
  /\ restarts < MaxRestarts /\ clock < MaxTime
  /\ restarts' = restarts + 1
  /\ ticked' = TRUE /\ pending' = {} /\ claimed' = [k \in Kinds |-> NoClaim]
  /\ edit' = [j \in Jobs |-> NoEdit] /\ runs' = {}
  /\ UNCHANGED <<clock, schedule, live, backupOn, pausedAt, edits>>

SchedNext ==
  \/ \E j \in Jobs :
       \/ CreateSchedule(j) \/ ReadForEdit(j) \/ WriteEdit(j)
       \/ DeleteSchedule(j) \/ SwitchEngine(j)
  \/ SwitchBackups \/ Tick
  \/ \E c \in pending : Claim(c)
  \/ \E k \in Kinds : Launch(k)
  \/ \E r \in runs : (\E ok \in BOOLEAN : EndAttempt(r, ok)) \/ Retry(r)
  \/ Minute \/ Restart

SchedFairness ==
  /\ WF_schedVars(Tick) /\ WF_schedVars(Minute)
  /\ WF_schedVars(\E c \in pending : Claim(c))
  /\ \A k \in Kinds : WF_schedVars(Launch(k))

SchedSpec == SchedInit /\ [][SchedNext]_schedVars /\ SchedFairness
-----------------------------------------------------------------------------
(* A slot the tick has read is the job's until it is launched or skipped.   *)
TakenUp(j) ==
  {c.row.next : c \in {d \in pending \cup {claimed[k] : k \in Kinds} : d.job = j}}

Awaited == [j \in Jobs |-> IF TakenUp(j) # {} THEN CHOOSE s \in TakenUp(j) : TRUE
                           ELSE schedule[j].next]

Active == {<<r.job, r.slot>> : r \in runs}

Slots == INSTANCE DueSlots WITH time <- clock, slot <- Awaited, active <- Active

(* "claiming the next slot before the run starts so a slow run can't be     *)
(* double-fired by the next tick" (backup/runner.js): whatever edits,       *)
(* deletions and restarts come between, a slot is run once, when it is due, *)
(* and leaves only a later one behind.                                      *)
SlotsTakenOnce == Slots!SlotSpec

(* A paused job starts no run of a slot that came due after the pause,      *)
(* although a tick that had read the row writes next_run_at back.           *)
PausedStaysQuiet ==
  \A r \in runs : pausedAt[r.job] # 0 => r.slot <= pausedAt[r.job]

(* A job that is due does not stay so: the tick takes it, or somebody edits, *)
(* pauses or deletes it, or turns the module off.                           *)
DueIsTaken ==
  \A j \in Jobs : (Due(j) /\ j \in Scanned) ~> ~(Due(j) /\ j \in Scanned)
=============================================================================
