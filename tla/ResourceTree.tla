---------------------------- MODULE ResourceTree ----------------------------
(***************************************************************************)
(* The tree of workspaces, groups and connections (server/resource-tree.js *)
(* and its routes).  Every row of resource_nodes keeps its parent and, for *)
(* the permission queries, the whole path to it.  A request reads the rows *)
(* its checks need, then writes in one transaction; reads that follow one  *)
(* another are one step, and each transaction is one step.  An id is never *)
(* used twice.                                                             *)
(***************************************************************************)
EXTENDS Integers, SequencesExt, FiniteSets

CONSTANTS
  Spaces, Groups, Connections,  \* ids of nodes, and of what they mirror
  Root,                         \* the application's node
  None,                         \* no node, no workspace, no row
  Workers,                      \* concurrent requests
  MaxGrants                     \* bound: grants that exist at once

Nodes == {Root} \cup Spaces \cup Groups \cup Connections

ASSUME TreeAssumption ==
  /\ Root \notin Spaces \cup Groups \cup Connections \cup {None}
  /\ None \notin Nodes
  /\ Spaces \cap (Groups \cup Connections) = {}
  /\ Groups \cap Connections = {}
  /\ MaxGrants \in Nat

(* A row: the node's parent, the ids from the root down to the node, how    *)
(* many there are above it, and its workspace.                              *)
RowType == [parent : Nodes \cup {None}, path : Seq(Nodes), depth : Nat, ws : Spaces \cup {None}]

ASSUME NoneIsNoRow == None \notin RowType

VARIABLES
  row,        \* resource_nodes: per id its row, or None
  home,       \* connections: per id its workspace_id, or None
  shares,     \* resource_grants to groups: <<node_id, principal_id>>
  used,       \* ids that were given out
  work,       \* the requests, between their reads and their writes
  treeStale,  \* history: a request wrote although what it had read had changed
  crossed,    \* history: a node was filed under a node of another workspace
  unfiled     \* history: connections whose filing was cut short

treeVars == <<row, home, shares, used, work, treeStale, crossed, unfiled>>

Row(parent, path, ws) == [parent |-> parent, path |-> path, depth |-> Len(path) - 1, ws |-> ws]
Filing(op, n, p, w) ==
  [op |-> op, node |-> n, seen |-> row[n], parent |-> p, under |-> row[p], ws |-> w]
Call(op, n, p) == Filing(op, n, p, None)
NoWork == [op |-> "idle"]
WorkType ==
  {NoWork} \cup
  [op : {"insert", "file", "move", "delete", "share", "grant"}, node : Nodes,
   seen : RowType \cup {None}, parent : Nodes, under : RowType \cup {None}, ws : Spaces \cup {None}]
Live == {n \in Nodes : row[n] # None}

TreeTypeOK ==
  /\ row \in [Nodes -> RowType \cup {None}]
  /\ home \in [Connections -> Spaces \cup {None}]
  /\ shares \subseteq Nodes \X Groups
  /\ Live \subseteq used
  /\ work \in [Workers -> WorkType]
  /\ treeStale \in BOOLEAN /\ crossed \in BOOLEAN /\ unfiled \subseteq Connections

TreeInit ==
  /\ row = [n \in Nodes |-> IF n = Root THEN Row(None, <<Root>>, None) ELSE None]
  /\ home = [c \in Connections |-> None]
  /\ shares = {} /\ used = {Root}
  /\ work = [r \in Workers |-> NoWork]
  /\ treeStale = FALSE /\ crossed = FALSE /\ unfiled = {}

CanParent(p, n) ==
  \/ p = Root /\ n \in Spaces
  \/ p \in Spaces \cup Groups /\ n \in Groups \cup Connections

(* The path of the row `below' runs through the row `above'.                *)
RunsThrough(below, above) ==
  Len(above.path) < Len(below.path) /\ IsPrefix(above.path, below.path)

(* inSubtree, from a copy of the row of n.                                  *)
Subtree(n, seen) == {m \in Live : m = n \/ RunsThrough(row[m], seen)}

ChildrenOf(n) == {m \in Live : row[m].parent = n}

(* Definitions named "Broken..." are slips the properties must tell from    *)
(* the code.                                                                *)
BrokenMoved(c) ==
  [row EXCEPT ![c.node] = Row(c.parent, Append(c.under.path, c.node), c.under.ws)]

(* moveNode's transaction: the node, and whatever has the node's old path   *)
(* before its own.                                                          *)
Moved(c) ==
  LET path == Append(c.under.path, c.node)
      Rebased(x) == [parent |-> x.parent,
                     path |-> path \o SubSeq(x.path, Len(c.seen.path) + 1, Len(x.path)),
                     depth |-> x.depth + c.under.depth + 1 - c.seen.depth,
                     ws |-> c.under.ws]
  IN  [m \in Nodes |->
         IF row[m] = None THEN None
         ELSE IF RunsThrough(row[m], c.seen) THEN Rebased(row[m])
         ELSE IF m = c.node THEN Row(c.parent, path, c.under.ws)
         ELSE row[m]]

(* deleteNode's transaction, for the ids D.                                 *)
DropNodes(D) ==
  /\ row' = [n \in Nodes |-> IF n \in D THEN None ELSE row[n]]
  /\ shares' = {g \in shares : g[1] \notin D /\ g[2] \notin D}
-----------------------------------------------------------------------------
Reads(r, c) ==
  /\ work[r] = NoWork
  /\ work' = [work EXCEPT ![r] = c]

(* Request r, which read what it is about, writes and goes on as `next'.    *)
Acts(r, op, next) ==
  /\ work[r].op = op
  /\ work' = [work EXCEPT ![r] = next]

(* What a request read is still so.                                         *)
Fresh(c) == row[c.node] = c.seen /\ row[c.parent] = c.under

(* createWorkspace: the workspace and its node, in one transaction.         *)
CreateWorkspace(w) ==
  /\ w \notin used
  /\ used' = used \cup {w}
  /\ row' = [row EXCEPT ![w] = Row(Root, Append(row[Root].path, w), w)]
  /\ UNCHANGED <<home, shares, work, treeStale, crossed, unfiled>>

(* POST /api/resource-tree/:id/groups, up to insertNode's create.           *)
ReadForGroup(r, g, p) ==
  /\ g \notin used /\ p \in Live /\ CanParent(p, g)
  /\ used' = used \cup {g}
  /\ Reads(r, Filing("insert", g, p, row[p].ws))
  /\ UNCHANGED <<row, home, shares, treeStale, crossed, unfiled>>

(* POST /api/connections: the row, which says the workspace w and asks for  *)
(* the node p as the parent.                                                *)
SaveConnection(r, c, w, p) ==
  /\ c \notin used /\ w \in Live
  /\ used' = used \cup {c}
  /\ home' = [home EXCEPT ![c] = w]
  /\ Reads(r, Filing("file", c, p, w))
  /\ UNCHANGED <<row, shares, treeStale, crossed, unfiled>>

(* createResourceNode, up to insertNode's create: the parent asked for, or  *)
(* the workspace's node.  Nobody looks at its error when there is neither,  *)
(* or when insertNode refuses the parent.                                   *)
ReadForFiling(r) ==
  LET c == work[r].node
      w == work[r].ws
      p == IF work[r].parent \in Live THEN work[r].parent ELSE w
  IN  /\ work[r].op = "file"
      /\ IF p \in Live
         THEN /\ Acts(r, "file", Filing("insert", c, p, w))
              /\ UNCHANGED treeStale
         ELSE /\ Acts(r, "file", NoWork)
              /\ treeStale' = TRUE
      /\ UNCHANGED <<row, home, shares, used, crossed, unfiled>>

(* insertNode's create.  A group goes on to be granted to itself.           *)
Insert(r) ==
  LET c == work[r]
  IN  /\ Acts(r, "insert", IF c.node \in Groups THEN Call("share", c.node, c.node) ELSE NoWork)
      /\ row' = [row EXCEPT ![c.node] = Row(c.parent, Append(c.under.path, c.node), c.ws)]
      /\ treeStale' = (treeStale \/ ~Fresh(c) \/ (c.node \in Connections /\ home[c.node] = None))
      /\ crossed' = (crossed \/ c.ws # c.under.ws)
      /\ UNCHANGED <<home, shares, used, unfiled>>
-----------------------------------------------------------------------------
(* "A node cannot be moved inside itself."                                  *)
Inside(c) == c.parent = c.node \/ RunsThrough(c.under, c.seen)

(* PUT /api/resource-tree/:id/move, up to its transaction.                  *)
ReadForMove(r, n, p) ==
  /\ n \in Live \ {Root} /\ p \in Live /\ CanParent(p, n)
  /\ ~Inside(Call("move", n, p))
  /\ Reads(r, Call("move", n, p))
  /\ UNCHANGED <<row, home, shares, used, treeStale, crossed, unfiled>>

(* The transaction; it fails as a whole when the node has gone.             *)
MoveNode(r) ==
  LET c == work[r]
  IN  /\ Acts(r, "move", NoWork)
      /\ row' = IF row[c.node] = None THEN row ELSE Moved(c)
      /\ treeStale' = (treeStale \/ ~Fresh(c))
      /\ crossed' = (crossed \/ c.seen.ws # c.under.ws)
      /\ UNCHANGED <<home, shares, used, unfiled>>

(* DELETE /api/resource-tree/:id, up to its transaction: a group, once it   *)
(* is empty.                                                                *)
ReadForDelete(r, g) ==
  /\ g \in Live /\ ChildrenOf(g) = {}
  /\ Reads(r, Call("delete", g, row[g].parent))
  /\ UNCHANGED <<row, home, shares, used, treeStale, crossed, unfiled>>

(* The transaction deletes whatever the group holds by then.                *)
DeleteGroup(r) ==
  LET c == work[r]
  IN  /\ Acts(r, "delete", NoWork)
      /\ DropNodes(Subtree(c.node, c.seen))
      /\ treeStale' = (treeStale \/ row[c.node] # c.seen \/ ChildrenOf(c.node) # {})
      /\ UNCHANGED <<home, used, crossed, unfiled>>

(* deleteWorkspaceCascade: the workspace's connections by their own column, *)
(* and the subtree of its node.                                             *)
DropTree(w) ==
  /\ w \in Live
  /\ home' = [c \in Connections |-> IF home[c] = w THEN None ELSE home[c]]
  /\ DropNodes(Subtree(w, row[w]))
  /\ UNCHANGED <<used, work, treeStale, crossed, unfiled>>

BrokenDeleteConnection(c) ==
  /\ home[c] # None
  /\ home' = [home EXCEPT ![c] = None]
  /\ UNCHANGED <<row, shares, used, work, treeStale, crossed, unfiled>>

(* DELETE /api/connections/:id.                                             *)
DeleteConnection(c) ==
  /\ home[c] # None
  /\ home' = [home EXCEPT ![c] = None]
  /\ DropNodes(IF c \in Live THEN Subtree(c, row[c]) ELSE {})
  /\ UNCHANGED <<used, work, treeStale, crossed, unfiled>>
-----------------------------------------------------------------------------
(* addGrant's checks for a group: it is there, and in the node's workspace. *)
MayGrant(n, p) ==
  /\ n \in Live /\ p \in Live
  /\ row[n].ws # None => row[p].ws = row[n].ws

(* POST /api/resource-tree/:id/grants, up to the upsert.                    *)
ReadForGrant(r, n, p) ==
  /\ MayGrant(n, p)
  /\ Reads(r, Call("grant", n, p))
  /\ UNCHANGED <<row, home, shares, used, treeStale, crossed, unfiled>>

(* createGroupNode's own grant, which goes the same way: its checks, ...    *)
ReadForShare(r) ==
  LET g == work[r].node
  IN  /\ work[r].op = "share"
      /\ Acts(r, "share", IF MayGrant(g, g) THEN Call("grant", g, g) ELSE NoWork)
      /\ UNCHANGED <<row, home, shares, used, treeStale, crossed, unfiled>>

(* ... and addGrant's upsert.                                               *)
AddShare(r) ==
  LET c == work[r]
  IN  /\ Acts(r, "grant", NoWork)
      /\ shares' = shares \cup {<<c.node, c.parent>>}
      /\ Cardinality(shares') <= MaxGrants
      /\ treeStale' = (treeStale \/ ~Fresh(c))
      /\ UNCHANGED <<row, home, used, crossed, unfiled>>

RemoveShare(g) ==
  /\ g \in shares
  /\ shares' = shares \ {g}
  /\ UNCHANGED <<row, home, used, work, treeStale, crossed, unfiled>>

(* The server restarts: requests under way are lost.                        *)
TreeRestart ==
  /\ \E r \in Workers : work[r] # NoWork
  /\ work' = [r \in Workers |-> NoWork]
  /\ unfiled' = unfiled \cup
       {c \in Connections : home[c] # None /\ row[c] = None}
  /\ UNCHANGED <<row, home, shares, used, treeStale, crossed>>

TreeNext ==
  \/ \E w \in Spaces : CreateWorkspace(w) \/ DropTree(w)
  \/ \E c \in Connections : DeleteConnection(c)
  \/ \E r \in Workers :
       \/ \E g \in Groups, p \in Spaces \cup Groups : ReadForGroup(r, g, p)
       \/ \E c \in Connections, w \in Spaces, p \in Spaces \cup Groups :
            SaveConnection(r, c, w, p)
       \/ ReadForFiling(r) \/ Insert(r)
       \/ \E n, p \in Nodes : ReadForMove(r, n, p)
       \/ MoveNode(r)
       \/ \E g \in Groups : ReadForDelete(r, g)
       \/ DeleteGroup(r)
       \/ \E n \in Nodes, p \in Groups : ReadForGrant(r, n, p)
       \/ ReadForShare(r) \/ AddShare(r)
  \/ \E g \in shares : RemoveShare(g)
  \/ TreeRestart

TreeSpec == TreeInit /\ [][TreeNext]_treeVars
-----------------------------------------------------------------------------
(* What insertNode and moveNode owe chainOf, which trusts the path: it is   *)
(* the parent's path and the node, at every depth, whatever was moved.      *)
(* Here and below: as long as no request has written on rows that had       *)
(* changed since it read them.                                              *)
PathsFollowParents ==
  ~treeStale => \A n \in Live \ {Root} :
    LET p == row[n].parent
    IN  /\ p \in Live /\ CanParent(p, n)
        /\ row[n].path = Append(row[p].path, n)
        /\ row[n].depth = row[p].depth + 1

(* "addGrant already refuses to point a grant at a group from another       *)
(* workspace" (resource-tree.js), and no grant is left when its node or its *)
(* group goes: so it is, until something is filed across workspaces.        *)
GrantsStayInside ==
  ~treeStale => \A g \in shares :
    /\ g[1] \in Live /\ g[2] \in Live
    /\ crossed \/ row[g[1]].ws \in {row[g[2]].ws, None}

(* No "resource left with no node, invisible in the tree" (resource-tree.js)*)
(* and no node left without its resource: so it is, until something is      *)
(* filed across workspaces, but for a filing that a restart cut short.      *)
NodesMirrorConnections ==
  ~treeStale /\ ~crossed => \A c \in Connections :
    IF c \in Live THEN home[c] # None /\ row[c].ws = home[c]
    ELSE \/ home[c] = None \/ c \in unfiled
         \/ \E r \in Workers : work[r].op \in {"file", "insert"} /\ work[r].node = c

(* Neither a grant nor a node is left to point at what is not there.        *)
NothingDangles == GrantsStayInside /\ NodesMirrorConnections

(* "Refuses a move into the node's own subtree, which would detach it from  *)
(* the root" (resource-tree.js, moveNode): no nodes hang on one another     *)
(* only.                                                                    *)
NothingDetached ==
  ~\E S \in SUBSET (Live \ {Root}) : S # {} /\ \A n \in S : row[n].parent \in S
=============================================================================
