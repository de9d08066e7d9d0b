---------------------------- MODULE SchemaDesign ----------------------------
(***************************************************************************)
(* The page of one schema design (useSchemaDraftController.ts, with the    *)
(* release dialog of SchemaEditor.tsx): statements staged on the page, the *)
(* row they are saved in, and the operations that read one, take a while   *)
(* and write the other: saving, syncing with the database, releasing the    *)
(* statements to it, moving the design to a connection or away from it.     *)
(* Each works on the statements of the render it began in.                 *)
(***************************************************************************)
EXTENDS Naturals, Sequences, SequencesExt

CONSTANTS
  MaxStatements,  \* bound on the statements ever staged
  MaxDesigns,     \* bound on the rows the design moves through
  MaxOperations   \* bound on the operations begun

ASSUME DesignAssumption ==
  MaxStatements \in Nat /\ MaxDesigns \in Nat \ {0} /\ MaxOperations \in Nat

VARIABLES
  designs,    \* the rows: from scratch, of a connection, or none; and their statements
  page,       \* the row the page shows
  onPage,     \* `pending', the statements staged
  dialog,     \* the release dialog's phase, and the plan it is to confirm
  sync,       \* the read of the database under way
  writes,     \* the calls of persist under way (of two alike one is kept)
  releases,   \* the releases under way; the page shows `here', or has been left
  move,       \* the linking or unlinking under way
  stagedEver, \* the statements made so far: 1, 2, ...
  released,   \* those that ran, in order
  taken,      \* those the user took off the page
  saved,      \* history: those a save has written
  begun,      \* history: how many operations began
  late,       \* history: those staged while an operation was under way
  tangled     \* history: a release was overlapped, timed out, or its write failed

designVars == <<designs, page, onPage, dialog, sync, writes, releases, move,
                stagedEver, released, taken, saved, begun, late, tangled>>

Statements == 1..MaxStatements
DesignIds == 1..MaxDesigns
NoDesign == [kind |-> "none", sql |-> <<>>]
NoDialog == [at |-> "closed", plan |-> <<>>]
NoSync == [at |-> "idle", id |-> 0, sql |-> <<>>, held |-> FALSE]
NoMove == [at |-> "idle", sql |-> <<>>, copy |-> 0]

There == {i \in DesignIds : designs[i] # NoDesign}
Linked == designs[page].kind = "linked"
Releasing == \E r \in releases : r.here

Pages == Seq(Statements)

DesignTypeOK ==
  /\ designs \in [DesignIds -> [kind : {"none", "scratch", "linked"}, sql : Pages]]
  /\ page \in DesignIds /\ onPage \in Pages /\ released \in Pages
  /\ dialog \in [at : {"closed", "reading", "failed", "review"}, plan : Pages]
  /\ sync \in [at : {"idle", "read", "write"}, id : DesignIds \cup {0}, sql : Pages, held : BOOLEAN]
  /\ writes \subseteq [id : DesignIds, sql : Pages]
  /\ releases \subseteq [plan : Pages, ran : Nat, id : DesignIds, here : BOOLEAN, ended : BOOLEAN]
  /\ move \in [at : {"idle", "create", "delete"}, sql : Pages, copy : DesignIds \cup {0}]
  /\ begun \in 0..MaxOperations /\ stagedEver \in 0..MaxStatements /\ tangled \in BOOLEAN
  /\ taken \cup saved \cup late \subseteq 1..stagedEver

DesignInit ==
  /\ designs \in {[i \in DesignIds |-> IF i = 1 THEN [kind |-> k, sql |-> <<>>] ELSE NoDesign] :
                    k \in {"scratch", "linked"}}
  /\ page = 1 /\ onPage = <<>>
  /\ dialog = NoDialog /\ sync = NoSync /\ writes = {} /\ releases = {} /\ move = NoMove
  /\ stagedEver = 0 /\ released = <<>> /\ taken = {} /\ saved = {}
  /\ begun = 0 /\ late = {} /\ tangled = FALSE
-----------------------------------------------------------------------------
(* What covers the page: the release dialog, a sync asked for on its own    *)
(* ("it holds the page while it runs"), a move.                             *)
Covered == dialog # NoDialog \/ sync.held \/ move # NoMove

Busy == sync # NoSync \/ writes # {} \/ releases # {}

(* An operation begins, maybe while a release is under way.                 *)
Begins ==
  /\ begun < MaxOperations /\ begun' = begun + 1
  /\ tangled' = (tangled \/ releases # {})

(* addPending; removePendingItem; clearPending.                             *)
Stage ==
  LET c == stagedEver + 1
  IN  /\ ~Covered /\ stagedEver < MaxStatements
      /\ stagedEver' = c
      /\ onPage' = Append(onPage, c)
      /\ late' = IF Busy THEN late \cup {c} ELSE late
      /\ UNCHANGED <<designs, page, dialog, sync, writes, releases, move, released, taken, saved, begun, tangled>>

TakeOff(i) ==
  /\ ~Covered
  /\ onPage' = RemoveAt(onPage, i)
  /\ taken' = taken \cup {onPage[i]}
  /\ UNCHANGED <<designs, page, dialog, sync, writes, releases, move, stagedEver, released, saved, begun, late, tangled>>

TakeAllOff ==
  /\ ~Covered /\ onPage # <<>>
  /\ onPage' = <<>>
  /\ taken' = taken \cup Range(onPage)
  /\ UNCHANGED <<designs, page, dialog, sync, writes, releases, move, stagedEver, released, saved, begun, late, tangled>>

(* The page is left and opened again.  What it began goes on.               *)
Reopen ==
  /\ ~Covered
  /\ onPage' = designs[page].sql
  /\ taken' = taken \cup (Range(onPage) \ (saved \cup Range(designs[page].sql)))
  /\ releases' = {[r EXCEPT !.here = FALSE] : r \in releases}
  /\ sync' = NoSync
  /\ writes' = IF sync = NoSync THEN writes ELSE writes \cup {[id |-> sync.id, sql |-> sync.sql]}
  /\ Begins
  /\ UNCHANGED <<designs, page, dialog, move, stagedEver, released, saved, late>>

(* persist: the route refuses a row that is not there.                      *)
Persisted(id, sql) ==
  [designs EXCEPT ![id] = IF @ = NoDesign THEN @ ELSE [@ EXCEPT !.sql = sql]]

Save ==
  /\ ~Covered
  /\ writes' = writes \cup {[id |-> page, sql |-> onPage]}
  /\ Begins
  /\ UNCHANGED <<designs, page, onPage, dialog, sync, releases, move, stagedEver, released, taken, saved, late>>

Write(w, ok) ==
  /\ w \in writes
  /\ writes' = writes \ {w}
  /\ designs' = IF ok THEN Persisted(w.id, w.sql) ELSE designs
  /\ saved' = IF ok /\ w.id \in There THEN saved \cup Range(w.sql) ELSE saved
  /\ UNCHANGED <<page, onPage, dialog, sync, releases, move, stagedEver, released, taken, begun, late, tangled>>
-----------------------------------------------------------------------------
(* syncSchema, by the header's button or as the dialog's first step.        *)
Reads(held) == sync' = [at |-> "read", id |-> page, sql |-> onPage, held |-> held]

SyncSchema ==
  /\ ~Covered /\ Linked /\ sync = NoSync
  /\ Reads(TRUE)
  /\ Begins
  /\ UNCHANGED <<designs, page, onPage, dialog, writes, releases, move, stagedEver, released, taken, saved, late>>

(* The database is read, then the row written with the statements of then.  *)
SyncRead ==
  /\ sync.at = "read"
  /\ sync' = [sync EXCEPT !.at = "write"]
  /\ UNCHANGED <<designs, page, onPage, dialog, writes, releases, move, stagedEver, released, taken, saved, begun, late, tangled>>

SyncEnds(ok) ==
  /\ sync # NoSync /\ (ok => sync.at = "write")
  /\ designs' = IF ok THEN Persisted(sync.id, sync.sql) ELSE designs
  /\ \E resolved \in BOOLEAN :  \* resolveRollbacks reads the database once more
       dialog' = IF dialog.at # "reading" THEN dialog
                 ELSE IF ok /\ resolved /\ sync.id \in There THEN [at |-> "review", plan |-> dialog.plan]
                 ELSE [at |-> "failed", plan |-> <<>>]
  /\ sync' = NoSync
  /\ UNCHANGED <<page, onPage, writes, releases, move, stagedEver, released, taken, saved, begun, late, tangled>>

(* openRelease: a read that is under way already makes it fail.             *)
OpenRelease ==
  /\ ~Covered \/ dialog.at = "failed"
  /\ Linked /\ onPage # <<>> /\ ~Releasing
  /\ IF sync = NoSync
     THEN /\ dialog' = [at |-> "reading", plan |-> onPage] /\ Reads(FALSE) /\ Begins
     ELSE /\ dialog' = [at |-> "failed", plan |-> <<>>] /\ UNCHANGED <<sync, begun, tangled>>
  /\ UNCHANGED <<designs, page, onPage, writes, releases, move, stagedEver, released, taken, saved, late>>

(* Cancel: a read under way goes on.                                        *)
CloseRelease ==
  /\ dialog # NoDialog
  /\ dialog' = NoDialog
  /\ UNCHANGED <<designs, page, onPage, sync, writes, releases, move, stagedEver, released, taken, saved, begun, late, tangled>>

ConfirmRelease ==
  /\ dialog.at = "review"
  /\ dialog' = NoDialog
  /\ releases' = releases \cup {[plan |-> dialog.plan, ran |-> 0, id |-> page, here |-> TRUE, ended |-> FALSE]}
  /\ tangled' = (tangled \/ Busy)
  /\ UNCHANGED <<designs, page, onPage, sync, writes, move, stagedEver, released, taken, saved, begun, late>>

(* One statement: it runs; it fails, which ends the release; or it runs      *)
(* past runQuery's timeout, which reads as a failure.                        *)
RunNext(r) ==
  /\ r \in releases /\ ~r.ended /\ r.ran < Len(r.plan)
  /\ \E answered, runs \in BOOLEAN :
       /\ answered => runs
       /\ released' = IF runs THEN Append(released, r.plan[r.ran + 1]) ELSE released
       /\ releases' = (releases \ {r}) \cup
                        {IF answered THEN [r EXCEPT !.ran = @ + 1] ELSE [r EXCEPT !.ended = TRUE]}
       /\ tangled' = (tangled \/ (runs /\ ~answered))
  /\ UNCHANGED <<designs, page, onPage, dialog, sync, writes, move, stagedEver, taken, saved, begun, late>>

(* Mutant for DesignKept: what ran stays staged.                            *)
BrokenRemaining(r) == r.plan

(* The migration is recorded or not, the database read again or not, and    *)
(* what is left is written; only then does the page show it.                *)
Remaining(r) == SubSeq(r.plan, r.ran + 1, Len(r.plan))

EndRelease(r, ok) ==
  LET stays == ok /\ r.id \in There
  IN  /\ r \in releases /\ (r.ended \/ r.ran = Len(r.plan))
      /\ releases' = releases \ {r}
      /\ designs' = IF stays THEN Persisted(r.id, Remaining(r)) ELSE designs
      /\ onPage' = IF stays /\ r.here THEN Remaining(r) ELSE onPage
      /\ tangled' = (tangled \/ ~stays)
      /\ UNCHANGED <<page, dialog, sync, writes, move, stagedEver, released, taken, saved, begun, late>>
-----------------------------------------------------------------------------
(* linkToConnection, unlinkFromConnection: the copy, then the original, then*)
(* the page goes where the copy is.                                         *)
BeginMove ==
  /\ ~Covered /\ MaxDesigns \notin There
  /\ move' = [at |-> "create", sql |-> onPage, copy |-> 0]
  /\ Begins
  /\ UNCHANGED <<designs, page, onPage, dialog, sync, writes, releases, stagedEver, released, taken, saved, late>>

OtherKind == IF Linked THEN "scratch" ELSE "linked"

(* A new row gets the next id.                                              *)
CreateCopy(i, ok) ==
  /\ move.at = "create" /\ i - 1 \in There /\ \A j \in There : j < i
  /\ designs' = IF ok THEN [designs EXCEPT ![i] = [kind |-> OtherKind, sql |-> move.sql]] ELSE designs
  /\ move' = IF ok THEN [move EXCEPT !.at = "delete", !.copy = i] ELSE NoMove
  /\ UNCHANGED <<page, onPage, dialog, sync, writes, releases, stagedEver, released, taken, saved, begun, late, tangled>>

DeleteOriginal(ok) ==
  /\ move.at = "delete"
  /\ move' = NoMove
  /\ IF ok THEN /\ designs' = [designs EXCEPT ![page] = NoDesign]
                /\ page' = move.copy /\ onPage' = designs[move.copy].sql
                /\ taken' = taken \cup (Range(onPage) \ Range(move.sql))
     ELSE UNCHANGED <<designs, page, onPage, taken>>
  /\ UNCHANGED <<dialog, sync, writes, releases, stagedEver, released, saved, begun, late, tangled>>

DesignNext ==
  \/ Stage \/ TakeAllOff \/ \E i \in DOMAIN onPage : TakeOff(i)
  \/ Reopen \/ Save \/ SyncSchema \/ SyncRead \/ OpenRelease \/ CloseRelease \/ ConfirmRelease
  \/ \E w \in writes, ok \in BOOLEAN : Write(w, ok)
  \/ \E ok \in BOOLEAN : SyncEnds(ok) \/ DeleteOriginal(ok) \/ \E i \in DesignIds : CreateCopy(i, ok)
  \/ \E r \in releases : RunNext(r) \/ \E ok \in BOOLEAN : EndRelease(r, ok)
  \/ BeginMove

DesignSpec == DesignInit /\ [][DesignNext]_designVars
-----------------------------------------------------------------------------
(* A design is somewhere ("The copy is written before the original is      *)
(* dropped, so a failure halfway leaves the design where it was rather than *)
(* nowhere"); a statement is on the page, ran, was taken off, was never     *)
(* saved when the page was left, or was staged while an operation was under *)
(* way; and what a release has run that nothing overlapped and that did not *)
(* time out is neither offered a second time by the page or its row, nor    *)
(* has it run twice.                                                        *)
DesignKept ==
  /\ There # {}
  /\ 1..stagedEver \subseteq Range(onPage) \cup Range(released) \cup taken \cup late
  /\ ~tangled /\ releases = {} =>
       /\ Range(released) \cap (Range(onPage) \cup Range(designs[page].sql)) = {}
       /\ IsInjective(released)
=============================================================================
