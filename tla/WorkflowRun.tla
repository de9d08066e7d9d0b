---------------------------- MODULE WorkflowRun -----------------------------
(***************************************************************************)
(* One run of a workflow (server/workflow.js, runWorkflow): a walk of the  *)
(* graph from its roots, depth first, with a stack of the calls of walk()  *)
(* under way.  A graph is whatever was saved: it may share nodes between   *)
(* branches and have cycles.  Its edges here are those that leave a node   *)
(* that is there by a handle it has, for a node that is there: walk()      *)
(* never finds the others.                                                 *)
(***************************************************************************)
EXTENDS Naturals, Sequences, FiniteSets

CONSTANTS
  FlowNodes,  \* the nodes of a graph
  MaxEdges,   \* bound on the edges of a graph
  MaxItems,   \* MAX_ITER
  StepBudget  \* STEP_BUDGET

ASSUME RunAssumption == MaxItems \in Nat /\ StepBudget \in Nat

VARIABLES
  graph,     \* the node types and the edges, fixed
  status,    \* "running", "ok" or "failed"; "waiting" while the innermost
             \* call's node has asked something outside (a database, a URL,
             \* a store) that has not answered
  roots,     \* the roots not walked yet
  stack,     \* the calls of walk() under way, innermost first
  steps,     \* calls made so far
  asked,     \* history: how often each handle of each node was to be followed
  followed   \* history: how often each edge was

runVars == <<graph, status, roots, stack, steps, asked, followed>>

Types == {"leaf", "switch", "loop"}
HandlesOf(type) ==
  CASE type = "leaf" -> {"out"} [] type = "switch" -> {"case", "default"} [] type = "loop" -> {"body", "done"}
Handles == UNION {HandlesOf(t) : t \in Types}

Edges(types) == {e \in FlowNodes \X Handles \X FlowNodes : e[2] \in HandlesOf(types[e[1]])}

Outgoing(n, h) == {e \in graph.edges : e[1] = n /\ e[2] = h}

(* A call: its node, the edges of the current handle it has yet to follow,  *)
(* the items a loop has left, the one in its body included.                 *)
Call(n, h, items) == [node |-> n, todo |-> Outgoing(n, h), items |-> items]

NothingAsked == [p \in FlowNodes \X Handles |-> 0]

CallType == [node : FlowNodes, todo : SUBSET graph.edges, items : 0..MaxItems]

RunTypeOK ==
  /\ graph.types \in [FlowNodes -> Types] /\ graph.edges \subseteq Edges(graph.types)
  /\ status \in {"running", "waiting", "ok", "failed"}
  /\ roots \subseteq FlowNodes /\ steps \in 0..StepBudget
  /\ stack \in Seq(CallType) /\ Len(stack) <= steps
  /\ asked \in [FlowNodes \X Handles -> Nat] /\ followed \in [graph.edges -> Nat]

(* A node an edge leads to is no root, even if that edge leaves a node or a *)
(* handle that is no longer there: any node may have such an edge.          *)
RunInit ==
  /\ \E types \in [FlowNodes -> Types] : \E edges \in SUBSET Edges(types) :
       /\ Cardinality(edges) <= MaxEdges
       /\ graph = [types |-> types, edges |-> edges]
  /\ status = "running" /\ stack = <<>> /\ steps = 0
  /\ roots \in SUBSET {n \in FlowNodes : \A e \in graph.edges : e[3] # n}
  /\ asked = NothingAsked
  /\ followed = [e \in graph.edges |-> 0]
-----------------------------------------------------------------------------
(* guard(): the walk may go on.                                             *)
BrokenGuard(depth) == depth <= 2 \/ steps + 1 <= StepBudget

Guard(depth) == steps + 1 <= StepBudget

(* A loop asks for its body once per item, up to MAX_ITER, and for what     *)
(* follows once.                                                            *)
Ask(n, h, items) ==
  [p \in FlowNodes \X Handles |->
     asked[p] + (IF p = <<n, h>> /\ h # "body" THEN 1
                 ELSE IF p = <<n, "body">> /\ h \in {"body", "done"} THEN items
                 ELSE IF p = <<n, "done">> /\ h = "body" THEN 1 ELSE 0)]

(* walk(n), called from `rest': the node is evaluated, and the handle to    *)
(* follow is found.  A leaf may have to wait for an answer from outside.    *)
Walk(n, rest) ==
  /\ Guard(Len(rest) + 1)
  /\ steps' = steps + 1
  /\ \E h \in HandlesOf(graph.types[n]) \ {"done"}, items \in 0..MaxItems :
       /\ graph.types[n] # "loop" => items = 0
       /\ LET handle == IF h = "body" /\ items = 0 THEN "done" ELSE h
          IN  /\ stack' = <<Call(n, handle, items)>> \o rest
              /\ asked' = Ask(n, handle, items)
  /\ status' \in IF graph.types[n] = "leaf" THEN {"running", "waiting"} ELSE {"running"}
  /\ UNCHANGED graph

(* runNodeQuery, fetch, an export or an upload is answered.  Nothing bounds *)
(* how long that takes: guard() looks at the clock when a node is walked.   *)
Answer ==
  /\ status = "waiting"
  /\ status' = "running"
  /\ UNCHANGED <<graph, roots, stack, steps, asked, followed>>

WalkRoot(n) ==
  /\ status = "running" /\ stack = <<>> /\ n \in roots
  /\ roots' = roots \ {n}
  /\ Walk(n, stack)
  /\ UNCHANGED followed

Top == Head(stack)
WithTop(call) == <<call>> \o Tail(stack)

Follow(e) ==
  /\ status = "running" /\ stack # <<>> /\ e \in Top.todo
  /\ followed' = [followed EXCEPT ![e] = @ + 1]
  /\ Walk(e[3], WithTop([Top EXCEPT !.todo = @ \ {e}]))
  /\ UNCHANGED roots

(* The body is through with one item.                                       *)
BrokenAfterItem(call) ==
  IF call.items >= 1 THEN [Call(call.node, "body", 1) EXCEPT !.items = call.items - 1]
  ELSE Call(call.node, "done", 0)

BrokenStuckItem(call) == IF call.items > 0 THEN call ELSE Call(call.node, "done", 0)

AfterItem(call) ==
  IF call.items > 1 THEN Call(call.node, "body", call.items - 1)
  ELSE Call(call.node, "done", 0)

NextItem ==
  /\ status = "running" /\ stack # <<>> /\ Top.todo = {} /\ Top.items > 0
  /\ stack' = WithTop(AfterItem(Top))
  /\ UNCHANGED <<graph, status, roots, steps, asked, followed>>

Return ==
  /\ status = "running" /\ stack # <<>> /\ Top.todo = {} /\ Top.items = 0
  /\ stack' = Tail(stack)
  /\ UNCHANGED <<graph, status, roots, steps, asked, followed>>

(* Whatever throws, nothing catches it on its way out of the walk.  The     *)
(* history, told of runs that end well, is dropped.                         *)
Fail ==
  /\ status' = "failed"
  /\ stack' = <<>> /\ roots' = {} /\ steps' = 0
  /\ asked' = NothingAsked /\ followed' = [e \in graph.edges |-> 0]
  /\ UNCHANGED graph

(* guard() throws as the next node is walked.                               *)
OutOfSteps ==
  /\ status = "running"
  /\ IF stack = <<>> THEN roots # {} /\ ~Guard(1) ELSE Top.todo # {} /\ ~Guard(Len(stack) + 1)
  /\ Fail

(* A node throws, what it asked fails, or the time is up.                   *)
Throw ==
  /\ status \in {"running", "waiting"} /\ (stack # <<>> \/ roots # {})
  /\ Fail

(* All roots are walked; a graph with none fails.                           *)
Settle ==
  /\ status = "running" /\ stack = <<>> /\ roots = {}
  /\ status' = IF steps = 0 THEN "failed" ELSE "ok"
  /\ UNCHANGED <<graph, roots, stack, steps, asked, followed>>

(* What the program does by itself.  An answer is not of it.                *)
Step ==
  \/ \E n \in FlowNodes : WalkRoot(n)
  \/ stack # <<>> /\ \E e \in Top.todo : Follow(e)
  \/ NextItem \/ Return \/ OutOfSteps \/ Settle

RunNext == Step \/ Answer \/ Throw

RunSpec == RunInit /\ [][RunNext]_runVars /\ WF_runVars(Step)
-----------------------------------------------------------------------------
(* A run that ends well has followed each edge exactly as often as its node *)
(* asked for the handle it leaves by: each branch once per evaluation, a    *)
(* loop's body once per item, a switch's other branches not at all.  A node *)
(* where branches meet is walked once for each of them.                     *)
EveryBranchWalked ==
  status = "ok" => \A e \in graph.edges : followed[e] = asked[<<e[1], e[2]>>]

(* A run ends whatever the graph (in a cycle the budget runs out), unless a *)
(* node asked something that never answers: nothing in the code cuts off a  *)
(* query (db/postgres.js sets no timeout) or a fetch, and such a run waits  *)
(* for ever.                                                                *)
RunEnds == []<>(status # "waiting") => <>(status \in {"ok", "failed"})
=============================================================================
