---------------------------- MODULE ResolveCache ----------------------------
(***************************************************************************)
(* The memo in front of permission resolution (server/resource-tree.js,    *)
(* memo and invalidateResolution) against the writes that must drop its    *)
(* answers.  One (node, user) key: the node is filed under some place, the *)
(* user may sit on the roster of a group, the group may hold a grant at    *)
(* some places, and the granted role may carry the permission asked for.   *)
(*                                                                         *)
(* A request reads the node row first and hands it to the memo, then its   *)
(* computation reads the roster and the grants in two queries and the role *)
(* policy from memory.  A write is an autocommitted one that invalidates   *)
(* when it is done (addGrant, addNodeMember, ...), a transaction that      *)
(* invalidates inside (setPrincipalGrant) or one that does after its       *)
(* commit (moveNode, deleteNode).                                          *)
(***************************************************************************)
EXTENDS Integers, FiniteSets

CONSTANTS
  Places,                    \* where a node can be filed
  Requests,                  \* requests that ask for the permission
  Writers,                   \* requests that write the tree
  NoAnswer,                  \* an empty cache slot, and a field that holds nothing
  MaxGeneration, MaxVersion  \* bounds on the two counters

ASSUME CacheAssumption ==
  /\ IsFiniteSet(Writers) /\ Places # {}
  /\ NoAnswer \notin Places
  /\ MaxGeneration \in Nat /\ MaxVersion \in Nat

VARIABLES
  place,         \* committed: the place the node is filed under
  roster,        \* committed: is the user on the group's roster
  granted,       \* committed: the places where the group holds the role
  policy,        \* in memory: does the role carry the permission
  version,       \* policyVersion()
  resolveCache,  \* its entry for the key
  cacheVersion,  \* resolveCacheVersion
  generation,    \* generation
  open,          \* transactionsOpen()
  req,           \* the requests
  writer         \* the writers

dbVars == <<place, roster, granted>>
memoVars == <<resolveCache, cacheVersion, generation>>
vars == <<dbVars, policy, version, memoVars, open, req, writer>>

Answer(via, r, g, p) == r /\ via \in g /\ p

(* "node": node row in hand; "roster", "grants": the next query to answer;  *)
(* "compute": rows in hand; "answered": compute() is over, its caller not.  *)
IdleRequest ==
  [at |-> "idle", via |-> NoAnswer, startedAt |-> 0, version |-> 0,
   cacheable |-> FALSE, roster |-> FALSE, granted |-> {}, ans |-> FALSE]

RequestState ==
  [at : {"idle", "node", "roster", "grants", "compute", "answered"},
   via : Places \cup {NoAnswer}, startedAt : Nat, version : Nat,
   cacheable : BOOLEAN, roster : BOOLEAN, granted : SUBSET Places, ans : BOOLEAN]

(* "due": committed and yet to invalidate; "inside", "after": a transaction *)
(* of that kind is open; "clean": one of the first kind has invalidated;    *)
(* "sealed", "applied": committed, open-- to come, for either kind;         *)
(* "undone": rolled back, open-- to come.                                   *)
WriterStates ==
  {"idle", "due", "inside", "clean", "sealed", "after", "applied", "undone"}

TypeOK ==
  /\ place \in Places
  /\ roster \in BOOLEAN
  /\ granted \in SUBSET Places
  /\ policy \in BOOLEAN
  /\ version \in Nat
  /\ resolveCache \in [via : Places, ans : BOOLEAN] \cup {NoAnswer}
  /\ cacheVersion \in Nat \cup {-1}
  /\ generation \in Nat
  /\ open \in Nat
  /\ req \in [Requests -> RequestState]
  /\ writer \in [Writers -> WriterStates]

Init ==
  /\ place \in Places /\ roster = FALSE /\ granted = {}
  /\ policy = TRUE
  /\ version = 1  \* loadPolicy() has run at boot
  /\ resolveCache = NoAnswer /\ cacheVersion = -1 /\ generation = 0
  /\ open = 0
  /\ req = [r \in Requests |-> IdleRequest]
  /\ writer = [w \in Writers |-> "idle"]
-----------------------------------------------------------------------------
(* getNode, nodeFor or visibleTree: the row, and its path, as committed.    *)
GetNode(r) ==
  /\ req[r].at = "idle"
  /\ req' = [req EXCEPT ![r].at = "node", ![r].via = place]
  /\ UNCHANGED <<dbVars, policy, version, memoVars, open, writer>>

(* memo() up to its first await: drop the cache of another policy version,  *)
(* answer from it, or note what a later write would change and compute.     *)
AskMemo(r) ==
  /\ req[r].at = "node"
  /\ cacheVersion' = version
  /\ resolveCache' = IF version = cacheVersion THEN resolveCache ELSE NoAnswer
  /\ req' = [req EXCEPT ![r] =
               IF resolveCache' # NoAnswer
               THEN IdleRequest
               ELSE [req[r] EXCEPT !.at = "roster", !.startedAt = generation,
                       !.version = version, !.cacheable = (open = 0)]]
  /\ UNCHANGED <<dbVars, policy, version, generation, open, writer>>

(* compute(): the queries, each answered at a moment of its own ...         *)
ReadRoster(r) ==
  /\ req[r].at = "roster"
  /\ req' = [req EXCEPT ![r].at = "grants", ![r].roster = roster]
  /\ UNCHANGED <<dbVars, policy, version, memoVars, open, writer>>

ReadGrants(r) ==
  /\ req[r].at = "grants"
  /\ req' = [req EXCEPT ![r].at = "compute", ![r].granted = granted]
  /\ UNCHANGED <<dbVars, policy, version, memoVars, open, writer>>

(* ... then the walk over the chain, with the policy in memory by then.     *)
Compute(r) ==
  /\ req[r].at = "compute"
  /\ req' = [req EXCEPT ![r] =
               [req[r] EXCEPT !.at = "answered", !.roster = FALSE, !.granted = {},
                  !.ans = Answer(req[r].via, req[r].roster, req[r].granted, policy)]]
  /\ UNCHANGED <<dbVars, policy, version, memoVars, open, writer>>

(* Slips the properties must tell from the code, as the other definitions  *)
(* named "Broken...".                                                       *)
BrokenMayKeep(r) ==
  req[r].cacheable /\ open = 0 /\ req[r].version = cacheVersion

BrokenMayKeepInside(r) ==
  req[r].startedAt = generation /\ req[r].version = cacheVersion

(* memo() after the await: keep the answer unless a write may have crossed. *)
MayKeep(r) ==
  /\ req[r].cacheable
  /\ open = 0
  /\ req[r].startedAt = generation
  /\ req[r].version = cacheVersion

Keep(r) ==
  /\ req[r].at = "answered"
  /\ resolveCache' = IF MayKeep(r) THEN [via |-> req[r].via, ans |-> req[r].ans] ELSE resolveCache
  /\ req' = [req EXCEPT ![r] = IdleRequest]
  /\ UNCHANGED <<dbVars, policy, version, cacheVersion, generation, open, writer>>
-----------------------------------------------------------------------------
(* invalidateResolution().                                                  *)
Invalidate ==
  /\ generation < MaxGeneration
  /\ resolveCache' = NoAnswer
  /\ cacheVersion' = -1
  /\ generation' = generation + 1

(* addNodeMember and removeNodeMember, addGrant and removeGrant: one write, *)
(* committed as it is made.                                                 *)
WriteRow(w) ==
  /\ writer[w] = "idle"
  /\ \/ roster' \in BOOLEAN /\ UNCHANGED granted
     \/ granted' \in SUBSET Places /\ UNCHANGED roster
  /\ writer' = [writer EXCEPT ![w] = "due"]
  /\ UNCHANGED <<place, policy, version, memoVars, open, req>>

InvalidateAfter(w) ==
  /\ writer[w] = "due"
  /\ Invalidate
  /\ writer' = [writer EXCEPT ![w] = "idle"]
  /\ UNCHANGED <<dbVars, policy, version, open, req>>

BrokenBeginTransaction(w) ==
  /\ writer[w] = "idle"
  /\ \E kind \in {"inside", "after"} : writer' = [writer EXCEPT ![w] = kind]
  /\ UNCHANGED <<dbVars, policy, version, memoVars, open, req>>

(* setPrincipalGrant and moveNode: transaction() counts itself open.        *)
BeginTransaction(w) ==
  /\ writer[w] = "idle"
  /\ open' = open + 1
  /\ \E kind \in {"inside", "after"} : writer' = [writer EXCEPT ![w] = kind]
  /\ UNCHANGED <<dbVars, policy, version, memoVars, req>>

(* The rows are written, nobody else sees them yet, and the memo is told;   *)
(* setPrincipalGrant tells it again when addGrant has put the new row in.   *)
InvalidateInside(w) ==
  /\ writer[w] \in {"inside", "clean"}
  /\ Invalidate
  /\ writer' = [writer EXCEPT ![w] = "clean"]
  /\ UNCHANGED <<dbVars, policy, version, open, req>>

CommitGrant(w) ==
  /\ writer[w] = "clean"
  /\ granted' \in SUBSET Places
  /\ writer' = [writer EXCEPT ![w] = "sealed"]
  /\ UNCHANGED <<place, roster, policy, version, memoVars, open, req>>

CommitMove(w) ==
  /\ writer[w] = "after"
  /\ place' \in Places
  /\ writer' = [writer EXCEPT ![w] = "applied"]
  /\ UNCHANGED <<roster, granted, policy, version, memoVars, open, req>>

Rollback(w) ==
  /\ writer[w] \in {"inside", "clean", "after"}
  /\ writer' = [writer EXCEPT ![w] = "undone"]
  /\ UNCHANGED <<dbVars, policy, version, memoVars, open, req>>

(* The finally block of transaction(); moveNode then has to invalidate.     *)
CloseTransaction(w) ==
  /\ writer[w] \in {"sealed", "applied", "undone"}
  /\ open' = open - 1
  /\ writer' = [writer EXCEPT ![w] = IF @ = "applied" THEN "due" ELSE "idle"]
  /\ UNCHANGED <<dbVars, policy, version, memoVars, req>>

(* A role edit has been reloaded: loadPolicy() installs it and counts.      *)
InstallPolicy ==
  /\ version < MaxVersion
  /\ version' = version + 1
  /\ policy' \in BOOLEAN
  /\ UNCHANGED <<dbVars, memoVars, open, req, writer>>

Next ==
  \/ \E r \in Requests :
       \/ GetNode(r) \/ AskMemo(r) \/ ReadRoster(r) \/ ReadGrants(r)
       \/ Compute(r) \/ Keep(r)
  \/ \E w \in Writers :
       \/ WriteRow(w) \/ InvalidateAfter(w) \/ BeginTransaction(w)
       \/ InvalidateInside(w) \/ CommitGrant(w) \/ CommitMove(w)
       \/ Rollback(w) \/ CloseTransaction(w)
  \/ InstallPolicy

Spec == Init /\ [][Next]_vars
-----------------------------------------------------------------------------
(* A committed write that has yet to invalidate: its request is not over.   *)
InvalidationDue == \E w \in Writers : writer[w] \in {"due", "applied"}

Served == resolveCache # NoAnswer /\ cacheVersion = version

(* "An answer whose computation overlapped a write is returned to its       *)
(* caller but never cached": once every write has invalidated, what the     *)
(* memo would serve is what a computation from the same node row would      *)
(* return now -- although the queries of a computation are answered at      *)
(* different moments, and setPrincipalGrant invalidates before it commits.  *)
ServedAnswerIsCurrent ==
  Served /\ ~InvalidationDue =>
    resolveCache.ans = Answer(resolveCache.via, roster, granted, policy)

(* Nothing is cached while setPrincipalGrant is between its invalidation    *)
(* and the end of its transaction: what other requests read in that window  *)
(* is the state before the commit, or one a rollback is about to undo.      *)
NothingKeptAcrossCommit ==
  (\E w \in Writers : writer[w] \in {"clean", "sealed"}) => resolveCache = NoAnswer
=============================================================================
