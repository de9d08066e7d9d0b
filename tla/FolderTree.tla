----------------------------- MODULE FolderTree -----------------------------
(***************************************************************************)
(* The folders of one connection and type, and the items filed in them      *)
(* (server/folders.js, the folder routes of server.js).  A request checks    *)
(* the folders by several queries, each of the tree as it is by then, and    *)
(* writes one row.  Deleting a folder lifts what it holds.                  *)
(***************************************************************************)
EXTENDS Naturals, FiniteSets, FiniteSetsExt

CONSTANTS
  Folders,   \* the ids ever given out
  Items,     \* dashboards, workflows, tables, saved queries
  Loose,     \* of those, the ones whose route writes folder_id unchecked
  Filers,    \* the requests under way
  MaxDepth,  \* FOLDER_TYPES[type].maxDepth
  Top,       \* parent_id NULL
  Unused     \* an id not given out

(* A query's folders have no cap: MaxDepth is then any number the ids cannot *)
(* reach.                                                                   *)
ASSUME FoldersAssumption ==
  /\ IsFiniteSet(Folders) /\ Loose \subseteq Items /\ MaxDepth \in Nat \ {0}
  /\ Top \notin Folders /\ Unused \notin Folders \cup {Top}

VARIABLES
  above,     \* per id, its parent_id, or Unused
  gone,      \* the ids of deleted folders
  filed,     \* per item, its folder_id
  filing,    \* the requests
  overtaken, \* history: a request wrote on checks that another write had followed
  misfiled   \* history: the items last filed in a folder that was not there

folderVars == <<above, gone, filed, filing, overtaken, misfiled>>

NotFiling == [op |-> "none", at |-> "none", folder |-> Top, to |-> Top, depth |-> 0, old |-> FALSE]

Present == {f \in Folders : above[f] # Unused} \ gone

FoldersTypeOK ==
  /\ above \in [Folders -> Folders \cup {Top, Unused}] /\ gone \subseteq Folders
  /\ filed \in [Items -> Folders \cup {Top}]
  /\ filing \in [Filers -> [op : {"none", "create", "move", "delete", "file"},
                           at : {"none", "found", "depth", "height", "write"},
                           folder : Folders \cup {Top}, to : Folders \cup {Top},
                           depth : 0..Cardinality(Folders), old : BOOLEAN]]
  /\ \A q \in Filers : filing[q].op = "delete" => filing[q].folder \in Folders
  /\ overtaken \in BOOLEAN /\ misfiled \subseteq Loose

FoldersInit ==
  /\ above = [f \in Folders |-> Unused] /\ gone = {} /\ filed = [i \in Items |-> Top]
  /\ filing = [q \in Filers |-> NotFiling] /\ overtaken = FALSE /\ misfiled = {}
-----------------------------------------------------------------------------
(* folderParents knows the rows that are there; the walk up stops at one    *)
(* that is not, and at one it has seen: it has been at the least set with   *)
(* its start that leads nowhere else.                                       *)
Climbs(S) == \A f \in S \cap Present : above[f] \in S \cup {Top}

Lineage(f) ==
  {g \in Folders : \A S \in SUBSET Folders : f \in S \cup {Top} /\ Climbs(S) => g \in S}

FolderDepth(f) == Cardinality(Lineage(f))
FolderHasAncestor(f, g) == g \in Lineage(f)

(* The walk down does not look where it has been: in a cycle it overflows.  *)
InCycle(f) == f \in Lineage(above[f])

Under(f) == {g \in Present : f \in Lineage(g)}

FolderHeight(f) == 1 + Max({Cardinality(Lineage(g)) - Cardinality(Lineage(f)) : g \in Under(f) \cup {f}})

(* Whose checks a request's write may have undone.                          *)
Spoils(q, r) ==
  /\ filing[r] # NotFiling /\ filing[q].op # "file"
  /\ filing[r].op = "file" => filing[q].op = "delete" /\ filing[q].folder = filing[r].to

Written(q) ==
  /\ filing' = [r \in Filers |-> IF r = q THEN NotFiling
                                 ELSE [filing[r] EXCEPT !.old = @ \/ Spoils(q, r)]]
  /\ overtaken' = (overtaken \/ filing[q].old)

Refuse(q) == filing' = [filing EXCEPT ![q] = NotFiling]
Goes(q, step, depth) == filing' = [filing EXCEPT ![q].at = step, ![q].depth = depth]
Asks(q, op, f, p) ==
  /\ filing[q] = NotFiling
  /\ filing' = [filing EXCEPT ![q] = [NotFiling EXCEPT !.op = op, !.at = "found", !.folder = f, !.to = p]]

(* findFolder, of the parent or of the folder.                              *)
BeginCreate(q, p) ==
  /\ p \in Present \cup {Top}
  /\ Asks(q, "create", Top, p)
  /\ UNCHANGED <<above, gone, filed, overtaken, misfiled>>

BeginMove(q, f, p) ==
  /\ f \in Present /\ p \in (Present \cup {Top}) \ {f}
  /\ Asks(q, "move", f, p)
  /\ UNCHANGED <<above, gone, filed, overtaken, misfiled>>

BeginFile(q, p) ==
  /\ p \in Present
  /\ Asks(q, "file", Top, p)
  /\ UNCHANGED <<above, gone, filed, overtaken, misfiled>>

(* A folder that is not there lifts what is in it to the top.               *)
BeginDelete(q, f) ==
  /\ above[f] # Unused
  /\ Asks(q, "delete", f, IF f \in Present THEN above[f] ELSE Top)
  /\ UNCHANGED <<above, gone, filed, overtaken, misfiled>>

(* POST: the parent's depth, then the row.                                  *)
CheckCreate(q) ==
  /\ filing[q].op = "create" /\ filing[q].at = "found"
  /\ IF filing[q].to # Top /\ FolderDepth(filing[q].to) >= MaxDepth
     THEN Refuse(q) ELSE Goes(q, "write", 0)
  /\ UNCHANGED <<above, gone, filed, overtaken, misfiled>>

Create(q, f) ==
  /\ filing[q].op = "create" /\ filing[q].at = "write" /\ above[f] = Unused
  /\ above' = [above EXCEPT ![f] = filing[q].to]
  /\ Written(q)
  /\ UNCHANGED <<gone, filed, misfiled>>

(* PUT: not into its own subtree; then the depth, the height, the row.      *)
Subfolder(q) == filing[q].to # Top /\ FolderHasAncestor(filing[q].to, filing[q].folder)

CheckAncestor(q) ==
  /\ filing[q].op = "move" /\ filing[q].at = "found"
  /\ IF Subfolder(q) THEN Refuse(q)
     ELSE Goes(q, IF filing[q].to = Top THEN "write" ELSE "depth", 0)
  /\ UNCHANGED <<above, gone, filed, overtaken, misfiled>>

ReadDepth(q) ==
  /\ filing[q].at = "depth"
  /\ Goes(q, "height", FolderDepth(filing[q].to))
  /\ UNCHANGED <<above, gone, filed, overtaken, misfiled>>

TooDeep(q) == filing[q].depth + FolderHeight(filing[q].folder) > MaxDepth

CheckHeight(q) ==
  /\ filing[q].at = "height"
  /\ IF InCycle(filing[q].folder) \/ TooDeep(q) THEN Refuse(q) ELSE Goes(q, "write", filing[q].depth)
  /\ UNCHANGED <<above, gone, filed, overtaken, misfiled>>

Move(q) ==
  /\ filing[q].op = "move" /\ filing[q].at = "write"
  /\ IF filing[q].folder \in Present
     THEN above' = [above EXCEPT ![filing[q].folder] = filing[q].to] /\ Written(q)
     ELSE Refuse(q) /\ UNCHANGED <<above, overtaken>>
  /\ UNCHANGED <<gone, filed, misfiled>>

(* DELETE: one transaction, on the parent that was read before it.          *)
BrokenLifted(q) == filed

Lifted(q) == [i \in Items |-> IF filed[i] = filing[q].folder THEN filing[q].to ELSE filed[i]]

Delete(q) ==
  /\ filing[q].op = "delete"
  /\ above' = [f \in Folders |-> IF f = filing[q].folder THEN Top
                                 ELSE IF above[f] = filing[q].folder THEN filing[q].to ELSE above[f]]
  /\ filed' = Lifted(q)
  /\ misfiled' = misfiled \ {i \in Items : filed[i] = filing[q].folder}
  /\ gone' = gone \cup {filing[q].folder}
  /\ Written(q)

(* A dashboard or a table is filed in the folder that was found.            *)
File(q, i) ==
  /\ filing[q].op = "file" /\ i \notin Loose
  /\ filed' = [filed EXCEPT ![i] = filing[q].to]
  /\ Written(q)
  /\ UNCHANGED <<above, gone, misfiled>>

(* A saved query or a workflow takes the id it is sent: nobody looks for it. *)
FileUnchecked(i, f) ==
  /\ i \in Loose /\ above[f] # Unused
  /\ filed' = [filed EXCEPT ![i] = f]
  /\ misfiled' = IF f \in Present THEN misfiled \ {i} ELSE misfiled \cup {i}
  /\ UNCHANGED <<above, gone, filing, overtaken>>

(* Any item is taken out of its folder.                                     *)
TakeOut(i) ==
  /\ filed' = [filed EXCEPT ![i] = Top]
  /\ misfiled' = misfiled \ {i}
  /\ UNCHANGED <<above, gone, filing, overtaken>>

FoldersNext ==
  \/ \E q \in Filers :
       \/ \E p \in Folders \cup {Top} :
            BeginCreate(q, p) \/ BeginFile(q, p) \/ \E f \in Folders : BeginMove(q, f, p)
       \/ \E f \in Folders : BeginDelete(q, f) \/ Create(q, f)
       \/ CheckCreate(q) \/ CheckAncestor(q) \/ ReadDepth(q) \/ CheckHeight(q) \/ Move(q) \/ Delete(q)
       \/ \E i \in Items : File(q, i)
  \/ \E i \in Items : TakeOut(i) \/ \E f \in Folders : FileUnchecked(i, f)

FoldersSpec == FoldersInit /\ [][FoldersNext]_folderVars
-----------------------------------------------------------------------------
(* As long as no request writes on checks that another write followed:      *)
(* every folder hangs from the top, at most MaxDepth levels down, by rows   *)
(* that are there; and an item is in a folder that is there, unless that is *)
(* where its route, which does not look, has put it.  Deleting and moving   *)
(* whole subtrees keep that.  Past that point two folders moved into one    *)
(* another hang from nothing, and cannot be measured any more.              *)
FoldersNest ==
  ~overtaken =>
    /\ \A f \in Present : /\ Lineage(f) \subseteq Present /\ ~InCycle(f)
                          /\ FolderDepth(f) <= MaxDepth
    /\ \A i \in Items \ misfiled : filed[i] \in Present \cup {Top}
=============================================================================
