----------------------------- MODULE MCProgress -----------------------------
(* What must go on by itself: the gate's calls, the schedulers' slots, the  *)
(* run of a workflow.  They share nothing here, so that a behaviour is one  *)
(* of one of them while the others stay where they began.                   *)
EXTENDS MetaGate, Scheduler, WorkflowRun

VARIABLE part

progressVars == <<part, vars, schedVars, runVars>>

ProgressTypeOK == SchedTypeOK /\ RunTypeOK

(* The run that is over.                                                    *)
NoRun ==
  /\ graph = [types |-> [n \in FlowNodes |-> "leaf"], edges |-> {}]
  /\ status = "failed" /\ stack = <<>> /\ steps = 0 /\ roots = {}
  /\ asked = NothingAsked /\ followed = <<>>

(* The nodes of a graph are interchangeable: it is enough to look at graphs *)
(* whose nodes come in the order of their types and, within a type, of the  *)
(* number of edges that leave them.                                         *)
EdgesFrom(n) == Cardinality({e \in graph.edges : e[1] = n})

Sorted ==
  \A m, n \in FlowNodes : m < n =>
    IF graph.types[m] = graph.types[n] THEN EdgesFrom(m) >= EdgesFrom(n)
    ELSE graph.types[m] = "leaf" \/ graph.types[n] = "loop"

(* Only the runs' part has a run under way, only the schedulers' two jobs   *)
(* or an engine to be switched on.                                          *)
ProgressInit ==
  /\ part \in {"gate", "scheduler", "run"}
  /\ Init
  /\ SchedInit /\ IF part = "scheduler" THEN Cardinality(live) = 1 ELSE live = {}
  /\ IF part = "run" THEN RunInit /\ Sorted ELSE NoRun

ProgressNext ==
  /\ UNCHANGED part
  /\ \/ part = "gate" /\ Next /\ UNCHANGED <<schedVars, runVars>>
     \/ part = "scheduler" /\ SchedNext /\ UNCHANGED <<vars, runVars>>
     \/ part = "run" /\ RunNext /\ UNCHANGED <<vars, schedVars>>

(* The fairness of the three specifications.  The schedulers' asks for what *)
(* they can do in the state they begin in, so it is theirs alone.           *)
ProgressFairness ==
  /\ Fairness
  /\ WF_schedVars(part = "scheduler" /\ Tick) /\ WF_schedVars(part = "scheduler" /\ Minute)
  /\ WF_schedVars(\E c \in pending : Claim(c))
  /\ \A k \in Kinds : WF_schedVars(Launch(k))
  /\ WF_runVars(Step)

ProgressSpec == ProgressInit /\ [][ProgressNext]_progressVars /\ ProgressFairness
=============================================================================
