---------------------------- MODULE ConnSessions ----------------------------
(***************************************************************************)
(* The sessions one process holds on one connection (server/sessions):     *)
(* the record of a session in the store, the process's own handle on it,   *)
(* the driver's open pools, and the limit.  A session is one per target    *)
(* (a database, a Redis index).  A request is cut at its awaits; what the  *)
(* sweeper and the routes that close sessions do runs in one go.  Who      *)
(* takes part in a session is left out: a newcomer takes the slow path.    *)
(***************************************************************************)
EXTENDS Naturals, FiniteSets

CONSTANTS
  Targets,        \* what a handle of the connection can be for
  Askers,         \* concurrent requests
  NoTarget,
  MaxSessions,    \* resolveMaxSessions(conn).max
  IdleTtl,        \* SESSION_IDLE_TTL_MS, in ticks
  TouchInterval,  \* TOUCH_INTERVAL_MS, in ticks
  MaxClock        \* bound on the clock

ASSUME SessionsAssumption ==
  /\ IsFiniteSet(Targets) /\ IsFiniteSet(Askers) /\ NoTarget \notin Targets
  /\ {MaxSessions, IdleTtl, TouchInterval, MaxClock} \subseteq Nat \ {0}
  /\ 3 * TouchInterval <= IdleTtl

VARIABLES
  clock,   \* Date.now(), in ticks, from 1
  entry,   \* per target: the store record's expiresAt, 0 if absent
  handle,  \* per target: handles' lastSeenAt, 0 if absent
  pools,   \* targets the driver holds a pool or socket for
  call,    \* the requests, between enterSession and the end of their op
  crossed  \* history: pools were dropped under a request past enterSession

connVars == <<clock, entry, handle, pools, call, crossed>>

IdleCall == [at |-> "idle", on |-> NoTarget, since |-> 0]

ConnTypeOK ==
  /\ clock \in 1..MaxClock
  /\ entry \in [Targets -> 0..(MaxClock + IdleTtl)]
  /\ handle \in [Targets -> 0..MaxClock]
  /\ pools \subseteq Targets
  /\ call \in [Askers -> [at : {"idle", "limit", "register", "entered", "running"},
                            on : Targets \cup {NoTarget}, since : 0..MaxClock]]
  /\ crossed \in BOOLEAN

ConnInit ==
  /\ clock = 1
  /\ entry = [t \in Targets |-> 0] /\ handle = [t \in Targets |-> 0]
  /\ pools = {}
  /\ call = [r \in Askers |-> IdleCall]
  /\ crossed = FALSE

LiveEntry(t) == entry[t] > clock
Held == {t \in Targets : handle[t] # 0}
Active == {t \in Targets : LiveEntry(t)}
-----------------------------------------------------------------------------
(* touchConnectionSession: the fast path ...                                *)
Recent(t) == handle[t] # 0 /\ clock - handle[t] < TouchInterval

FastTouch(r, t) ==
  /\ call[r].at = "idle" /\ Recent(t)
  /\ handle' = [handle EXCEPT ![t] = clock]
  /\ call' = [call EXCEPT ![r] = [at |-> "entered", on |-> t, since |-> clock]]
  /\ UNCHANGED <<clock, entry, pools, crossed>>

(* ... and the slow one, taken by a newcomer whatever Recent says: a record *)
(* that is there is refreshed, a new one needs room under the limit.        *)
(* Definitions named "Broken..." are slips the properties must tell from    *)
(* the code.                                                                *)
SlowTouch(r, t) ==
  /\ call[r].at = "idle"
  /\ call' = [call EXCEPT ![r] =
       [at |-> IF LiveEntry(t) THEN "register" ELSE "limit", on |-> t, since |-> clock]]
  /\ UNCHANGED <<clock, entry, handle, pools, crossed>>

BrokenCheckLimit(r) ==
  /\ call[r].at = "limit"
  /\ call' = [call EXCEPT ![r] =
       IF Cardinality(Active) > MaxSessions
       THEN IdleCall
       ELSE [@ EXCEPT !.at = "register"]]
  /\ UNCHANGED <<clock, entry, handle, pools, crossed>>

CheckLimit(r) ==
  /\ call[r].at = "limit"
  /\ call' = [call EXCEPT ![r] =
       IF Cardinality(Active) >= MaxSessions
       THEN IdleCall  \* SessionLimitError
       ELSE [@ EXCEPT !.at = "register"]]
  /\ UNCHANGED <<clock, entry, handle, pools, crossed>>

Register(r) ==
  LET t == call[r].on
  IN  /\ call[r].at = "register"
      /\ entry' = [entry EXCEPT ![t] = clock + IdleTtl]
      /\ handle' = [handle EXCEPT ![t] = call[r].since]
      /\ call' = [call EXCEPT ![r].at = "entered"]
      /\ UNCHANGED <<clock, pools, crossed>>

(* The rest of gatedRequired: dial, then the driver's op opens what it      *)
(* needs, and ends.                                                         *)
OpenPool(r) ==
  /\ call[r].at = "entered"
  /\ pools' = pools \cup {call[r].on}
  /\ call' = [call EXCEPT ![r].at = "running"]
  /\ UNCHANGED <<clock, entry, handle, crossed>>

EndOp(r) ==
  /\ call[r].at = "running"
  /\ call' = [call EXCEPT ![r] = IdleCall]
  /\ UNCHANGED <<clock, entry, handle, pools, crossed>>
-----------------------------------------------------------------------------
(* store.del, and releaseLocal: the driver lets go of everything it holds   *)
(* for the connection with the last handle on it.                           *)
BrokenForget(T) ==
  /\ entry' = entry
  /\ handle' = [t \in Targets |-> IF t \in T THEN 0 ELSE handle[t]]
  /\ pools' = IF T \cap Held # {} /\ Held \subseteq T THEN {} ELSE pools

Forget(T) ==
  /\ entry' = [t \in Targets |-> IF t \in T THEN 0 ELSE entry[t]]
  /\ handle' = [t \in Targets |-> IF t \in T THEN 0 ELSE handle[t]]
  /\ pools' = IF T \cap Held # {} /\ Held \subseteq T THEN {} ELSE pools

NoteCrossed(T) ==
  crossed' = (crossed \/ \E r \in Askers :
                           call[r].at \in {"entered", "running"} /\ call[r].on \in T)

(* endConnectionSession, for the last participant or from an admin.         *)
EndSession(t) ==
  /\ LiveEntry(t)
  /\ Forget({t})
  /\ NoteCrossed({t})
  /\ UNCHANGED <<clock, call>>

(* The same when others stay: the record is put again.                      *)
LeaveSession(t) ==
  /\ LiveEntry(t)
  /\ entry' = [entry EXCEPT ![t] = clock + IdleTtl]
  /\ UNCHANGED <<clock, handle, pools, call, crossed>>

(* The routes that edit or delete the connection: releaseConnection, then   *)
(* endAllConnectionSessions.                                                *)
EndAllSessions ==
  /\ entry' = [t \in Targets |-> 0] /\ handle' = [t \in Targets |-> 0]
  /\ pools' = {}
  /\ NoteCrossed(Targets)
  /\ UNCHANGED <<clock, call>>

Idle == {t \in Held : clock - handle[t] >= IdleTtl}

Sweep ==
  /\ Idle # {}
  /\ Forget(Idle)
  /\ NoteCrossed(Idle)
  /\ UNCHANGED <<clock, call>>

ConnTick ==
  /\ clock < MaxClock
  /\ clock' = clock + 1
  /\ UNCHANGED <<entry, handle, pools, call, crossed>>

ConnNext ==
  \/ \E r \in Askers :
       \/ \E t \in Targets : FastTouch(r, t) \/ SlowTouch(r, t)
       \/ CheckLimit(r) \/ Register(r) \/ OpenPool(r) \/ EndOp(r)
  \/ \E t \in Targets : EndSession(t) \/ LeaveSession(t)
  \/ EndAllSessions \/ Sweep \/ ConnTick

ConnSpec == ConnInit /\ [][ConnNext]_connVars
-----------------------------------------------------------------------------
(* Nothing holds a place under the limit but a handle of this process: not  *)
(* a record the sweeper, an edit or a late registration left behind         *)
(* (hybrid.js: "the limit counting phantoms").                              *)
NoPhantomSession == Active \subseteq Held

(* The check and the registration it allows are apart, so requests that     *)
(* were let through together overrun the limit: by one less than there are  *)
(* requests, never by more, however long they wait in between.              *)
OverrunBounded == Cardinality(Active) < MaxSessions + Cardinality(Askers)

(* Sockets without a handle to close them by: only after a close or a sweep *)
(* that crossed a request which had entered its session.                    *)
UntrackedOnlyIfCrossed == pools # {} /\ Held = {} => crossed

(* The handles of this process account for both: for what is counted, and   *)
(* for what is open.                                                        *)
HandlesAccountFor == NoPhantomSession /\ UntrackedOnlyIfCrossed

(* "skipping for longer than the record lives would let a session the       *)
(* process is actively using expire out of the store" (TOUCH_INTERVAL_MS):  *)
(* a handle that was used within the interval still has its record.         *)
ActiveSessionListed == \A t \in Targets : Recent(t) => LiveEntry(t)
=============================================================================
