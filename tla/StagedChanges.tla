--------------------------- MODULE StagedChanges ----------------------------
(***************************************************************************)
(* The console's staged mutations (useStagedChanges.ts): changes wait in a *)
(* list, newest first; a commit runs a copy of the list oldest first, one   *)
(* statement at a time, stops at the first failure, and puts what is left   *)
(* in the place of the list.  The console stays usable meanwhile.  Past its *)
(* timeout runQuery gives a statement up, and the server does not.          *)
(***************************************************************************)
EXTENDS Naturals, Sequences, SequencesExt

CONSTANTS
  MaxChanges,   \* bound on the changes made
  MaxExecuted   \* bound on the statements that run

ASSUME StageAssumption == {MaxChanges, MaxExecuted} \subseteq Nat

VARIABLES
  staged,       \* `changes', newest first
  batches,      \* the calls of runChangeBatch under way: the commit's, or a direct one's
  made,         \* the changes made so far: 1, 2, ...
  executed,     \* the changes that ran, in the order they did
  unanswered,   \* history: those of which a run was not heard of again
  discarded,    \* cleared by the user
  direct,       \* Direct execute
  stageCrossed  \* history: changes staged, or the list cleared, during a commit

stageVars == <<staged, batches, made, executed, unanswered, discarded, direct, stageCrossed>>

Changes == 1..MaxChanges
Batch == [todo : Seq(Changes), left : Seq(Changes), failed : BOOLEAN, commit : BOOLEAN]
Committing == \E b \in batches : b.commit

StageTypeOK ==
  /\ staged \in Seq(Changes) /\ executed \in Seq(Changes)
  /\ unanswered \subseteq Changes /\ discarded \subseteq Changes
  /\ batches \subseteq Batch /\ made \in 0..MaxChanges
  /\ direct \in BOOLEAN /\ stageCrossed \subseteq Changes
  /\ \A b, c \in batches : b.commit /\ c.commit => b = c

StageInit ==
  /\ staged = <<>> /\ batches = {} /\ made = 0 /\ executed = <<>>
  /\ unanswered = {} /\ discarded = {} /\ direct = FALSE /\ stageCrossed = {}
-----------------------------------------------------------------------------
AddChange ==
  LET c == made + 1
  IN  /\ made < MaxChanges
      /\ made' = c
      /\ IF direct
         THEN /\ batches' = batches \cup {[todo |-> <<c>>, left |-> <<>>, failed |-> FALSE, commit |-> FALSE]}
              /\ UNCHANGED <<staged, stageCrossed>>
         ELSE /\ staged' = <<c>> \o staged
              /\ stageCrossed' = IF Committing THEN stageCrossed \cup {c} ELSE stageCrossed
              /\ UNCHANGED batches
      /\ UNCHANGED <<executed, unanswered, discarded, direct>>

(* The panel's Clear, or another connection is chosen.                      *)
Clear ==
  /\ staged # <<>>
  /\ staged' = <<>>
  /\ discarded' = discarded \cup Range(staged)
  /\ stageCrossed' = IF Committing THEN stageCrossed \cup Range(staged) ELSE stageCrossed
  /\ UNCHANGED <<batches, made, executed, unanswered, direct>>

SwitchDirect ==
  /\ direct' = ~direct
  /\ UNCHANGED <<staged, batches, made, executed, unanswered, discarded, stageCrossed>>

BeginCommit ==
  /\ staged # <<>> /\ ~Committing
  /\ batches' = batches \cup {[todo |-> Reverse(staged), left |-> <<>>, failed |-> FALSE, commit |-> TRUE]}
  /\ UNCHANGED <<staged, made, executed, unanswered, discarded, direct, stageCrossed>>

(* One statement runs, or not; its answer may be lost, or come after the     *)
(* timeout, which reads as a failure.  After one the rest is only collected. *)
AfterRun(b, ok) ==
  [b EXCEPT !.todo = Tail(@), !.failed = @ \/ ~ok,
            !.left = IF ok THEN @ ELSE Append(@, Head(b.todo))]

RunStatement(b, runs, answered) ==
  /\ b.todo # <<>> /\ (answered => runs)
  /\ runs => ~b.failed /\ Len(executed) < MaxExecuted
  /\ batches' = (batches \ {b}) \cup {AfterRun(b, answered)}
  /\ executed' = IF runs THEN Append(executed, Head(b.todo)) ELSE executed
  /\ unanswered' = IF runs /\ ~answered THEN unanswered \cup {Head(b.todo)} ELSE unanswered
  /\ UNCHANGED <<staged, made, discarded, direct, stageCrossed>>

(* The batch is through, its DDL recorded; the commit sets the list.  What  *)
(* a direct change leaves is given up.                                      *)
BrokenStagedAfter(b) == b.left

StagedAfter(b) == Reverse(b.left)

EndBatch(b) ==
  /\ b.todo = <<>>
  /\ batches' = batches \ {b}
  /\ staged' = IF b.commit THEN StagedAfter(b) ELSE staged
  /\ discarded' = IF b.commit THEN discarded ELSE discarded \cup Range(b.left)
  /\ UNCHANGED <<made, executed, unanswered, direct, stageCrossed>>

StageNext ==
  \/ AddChange \/ Clear \/ SwitchDirect \/ BeginCommit
  \/ \E b \in batches : (\E runs, answered \in BOOLEAN : RunStatement(b, runs, answered)) \/ EndBatch(b)

StageSpec == StageInit /\ [][StageNext]_stageVars
-----------------------------------------------------------------------------
Waiting(c) == c \in Range(staged) \/ \E b \in batches : c \in Range(b.todo) \cup Range(b.left)

(* "Otherwise it waits here until committed" (useStagedChanges.ts): a change *)
(* that has not run and was not discarded is still in the list or in the    *)
(* batch, unless it came while a commit ran, whose end replaces the list.   *)
ChangesWait ==
  \A c \in 1..made : c \in Range(executed) \cup discarded \cup stageCrossed \/ Waiting(c)

(* No change runs twice, and none that ran stays staged, but one of which a  *)
(* run went unanswered; and those that stay come out oldest first: "so the   *)
(* statements land in the order they were made", retries included.          *)
RunOnceInOrder ==
  /\ \A i, j \in DOMAIN executed : i # j /\ executed[i] = executed[j] => executed[i] \in unanswered
  /\ \A i, j \in DOMAIN staged : i < j => staged[i] > staged[j]
  /\ \A c \in Range(staged) \cap Range(executed) : c \in unanswered \/ Committing

(* Each change is waiting, discarded or run, and run once and in its turn    *)
(* unless an answer was lost.                                                *)
ChangesAccounted == ChangesWait /\ RunOnceInOrder
=============================================================================
