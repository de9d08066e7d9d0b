------------------------------ MODULE MCRecords -----------------------------
(* The records that must agree with one another while requests overlap:     *)
(* accounts, rosters and grants; the resource tree; the folders.  The       *)
(* requests of two of them never meet in a table both write here, so that a *)
(* behaviour is one of one of them.                                         *)
EXTENDS Membership, ResourceTree, FolderTree

VARIABLE part

recordsVars == <<part, memberVars, treeVars, folderVars>>

RecordsTypeOK == MemberTypeOK /\ TreeTypeOK /\ FoldersTypeOK

(* Only the accounts' part begins in more than one state.                   *)
RecordsInit ==
  /\ part \in {"accounts", "tree", "folders"}
  /\ MemberInit /\ TreeInit /\ FoldersInit
  /\ part # "accounts" => opened = {}

RecordsNext ==
  /\ UNCHANGED part
  /\ \/ part = "accounts" /\ MemberNext /\ UNCHANGED <<treeVars, folderVars>>
     \/ part = "tree" /\ TreeNext /\ UNCHANGED <<memberVars, folderVars>>
     \/ part = "folders" /\ FoldersNext /\ UNCHANGED <<memberVars, treeVars>>

RecordsSpec == RecordsInit /\ [][RecordsNext]_recordsVars

(* The requests of all parts are called alike, the accounts like the folders *)
(* but one, the groups like the workspaces: the group is the accounts' own. *)
RecordsSymmetry ==
  Permutations(Users) \cup Permutations(Requests) \cup Permutations(Spaces)

(* The properties are about states before a request writes on what it read  *)
(* in rows that have changed since: it is followed no further.  Once        *)
(* something is filed across workspaces, only one request at a time goes on, *)
(* and without grants.                                                      *)
Undisturbed ==
  /\ ~stale /\ ~treeStale /\ ~overtaken
  /\ crossed => Cardinality({r \in Workers : work[r] # NoWork}) < 2 /\ shares = {}
  /\ \A r \in Workers : work[r].op \in {"insert", "move", "delete", "grant"} => Fresh(work[r])

(* A bound: at most three grants on a workspace, so that one member holds   *)
(* three, or two and another one.                                           *)
FewGrants ==
  \A w \in Workspaces : Cardinality({g \in Users \X Grantable : g[2] \in grant[w][g[1]]}) <= 3
=============================================================================
