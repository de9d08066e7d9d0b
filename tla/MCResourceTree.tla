--------------------------- MODULE MCResourceTree ---------------------------
(* Two workspaces, two groups, a connection, two requests at a time.        *)
EXTENDS ResourceTree

Symmetries ==
  Permutations(Spaces) \cup Permutations(Groups) \cup Permutations(Workers)

(* Every property of the passing run is about states before a request       *)
(* writes on rows that have changed: a request whose rows have changed is   *)
(* followed no further.  Once something is filed across workspaces, only    *)
(* one request at a time goes on.                                           *)
Undisturbed ==
  /\ ~treeStale
  /\ crossed => Cardinality({r \in Workers : work[r] # NoWork}) < 2
  /\ \A r \in Workers : work[r].op \in {"insert", "move", "delete", "grant"} => Fresh(work[r])
=============================================================================
