--------------------------- MODULE ModuleSettings ---------------------------
(***************************************************************************)
(* The instance's modules: which engines and features are on, as stored and *)
(* as every other module of the server reads them in memory                 *)
(* (server/module-registry.js, server/module-settings.js).  An update plans *)
(* the whole next state from memory, looks at the connections of each       *)
(* engine it turns off, stores the plan, and copies it into memory.         *)
(***************************************************************************)
EXTENDS Naturals, FiniteSets

CONSTANTS
  Engines,   \* module ids of kind "engine"
  Features,  \* the others
  Updates,   \* the requests of admins
  NoPlan

ASSUME ModulesAssumption == Engines # {}

VARIABLES
  stored,         \* app_settings.modules: the modules that are on
  memory,         \* the registry's `state'
  used,           \* the engines that have connections
  update,         \* the requests
  adding,         \* the engines a connection is being created for
  moduleCrossed,  \* history: an update was planned while another was under way
  locked          \* history: engines turned off by force, or just as a connection was created

moduleVars == <<stored, memory, used, update, adding, moduleCrossed, locked>>

Modules == Engines \cup Features
IdleUpdate == [at |-> "idle", next |-> NoPlan, todo |-> {}]
UnderWay == {u \in Updates : update[u] # IdleUpdate}

ModulesTypeOK ==
  /\ stored \subseteq Modules /\ memory \subseteq Modules
  /\ used \subseteq Engines /\ adding \subseteq Engines /\ locked \subseteq Engines
  /\ \A u \in UnderWay : /\ update[u].at \in {"check", "store", "mirror"}
                         /\ update[u].next \subseteq Modules /\ update[u].todo \subseteq Engines

ModulesInit ==
  /\ stored = Modules /\ memory = Modules
  /\ used = {} /\ update = [u \in Updates |-> IdleUpdate] /\ adding = {}
  /\ moduleCrossed = FALSE /\ locked = {}
-----------------------------------------------------------------------------
(* planModuleChange: a whole next state, in which some engine is on.        *)
Planned(turnedOff, turnedOn) ==
  LET next == (memory \ turnedOff) \cup turnedOn
  IN  IF next \cap Engines # {} THEN next ELSE NoPlan

(* The engines to be looked at, unless the update is forced.                *)
Plan(u, turnedOff, turnedOn, force) ==
  LET next == Planned(turnedOff, turnedOn)
  IN  /\ update[u] = IdleUpdate /\ turnedOff \cap turnedOn = {} /\ next # NoPlan
      /\ update' = [update EXCEPT ![u] =
           [at |-> "check", next |-> next, todo |-> IF force THEN {} ELSE Engines \ next]]
      /\ moduleCrossed' = (moduleCrossed \/ UnderWay # {})
      /\ locked' = IF force THEN locked \cup (Engines \ next) ELSE locked
      /\ UNCHANGED <<stored, memory, used, adding>>

(* connectionsOfType: an engine still in use is not turned off; one that is *)
(* off already is not looked at.                                            *)
BrokenRefused(u, e) == FALSE

Refused(u, e) == e \in memory /\ e \in used

CheckEngine(u, e) ==
  /\ update[u].at = "check" /\ e \in update[u].todo
  /\ update' = [update EXCEPT ![u] =
       IF Refused(u, e) THEN IdleUpdate ELSE [update[u] EXCEPT !.todo = @ \ {e}]]
  /\ UNCHANGED <<stored, memory, used, adding, moduleCrossed, locked>>

Checked(u) ==
  /\ update[u].at = "check" /\ update[u].todo = {}
  /\ update' = [update EXCEPT ![u].at = "store"]
  /\ UNCHANGED <<stored, memory, used, adding, moduleCrossed, locked>>

Store(u) ==
  /\ update[u].at = "store"
  /\ stored' = update[u].next
  /\ update' = [update EXCEPT ![u].at = "mirror"]
  /\ UNCHANGED <<memory, used, adding, moduleCrossed, locked>>

Mirrored(u) == update[u].next

SetModuleState(u) ==
  /\ update[u].at = "mirror"
  /\ memory' = Mirrored(u)
  /\ update' = [update EXCEPT ![u] = IdleUpdate]
  /\ locked' = locked \ memory'
  /\ UNCHANGED <<stored, used, adding, moduleCrossed>>

(* A connection is created if its engine is on, and some queries later it   *)
(* is there; it may be deleted whether its engine is on or not.             *)
BeginConnection(e) ==
  /\ e \in memory /\ e \notin adding /\ e \notin used
  /\ adding' = adding \cup {e}
  /\ UNCHANGED <<stored, memory, used, update, moduleCrossed, locked>>

SaveConnection(e) ==
  /\ e \in adding
  /\ adding' = adding \ {e}
  /\ used' = used \cup {e}
  /\ locked' = IF e \notin memory \/ \E u \in UnderWay : e \notin update[u].next
               THEN locked \cup {e} ELSE locked
  /\ UNCHANGED <<stored, memory, update, moduleCrossed>>

DeleteLastConnection(e) ==
  /\ e \in used
  /\ used' = used \ {e}
  /\ UNCHANGED <<stored, memory, update, adding, moduleCrossed, locked>>

(* The process restarts: loadModules.                                       *)
RestartModules ==
  /\ memory' = stored
  /\ update' = [u \in Updates |-> IdleUpdate] /\ adding' = {}
  /\ UNCHANGED <<stored, used, moduleCrossed, locked>>

ModulesNext ==
  \/ \E u \in Updates :
       \/ \E off, on \in SUBSET Modules, force \in BOOLEAN : Plan(u, off, on, force)
       \/ \E e \in Engines : CheckEngine(u, e)
       \/ Checked(u) \/ Store(u) \/ SetModuleState(u)
  \/ \E e \in Engines : BeginConnection(e) \/ SaveConnection(e) \/ DeleteLastConnection(e)
  \/ RestartModules

ModulesSpec == ModulesInit /\ [][ModulesNext]_moduleVars
-----------------------------------------------------------------------------
(* "Keep at least one database turned on" (planModuleChange): whatever      *)
(* updates overlap, and whichever of them is written last.                  *)
AnEngineStaysOn == stored \cap Engines # {} /\ memory \cap Engines # {}

(* "An engine still in use is only turned off on purpose"                   *)
(* (module-settings.js), unless its connection was being created just then; *)
(* and with no update under way, what is read in memory is what is stored.  *)
(* Of updates that overlap, the later one undoes what the other did.        *)
OffOnPurpose ==
  ~moduleCrossed => /\ used \ stored \subseteq locked
                    /\ UnderWay = {} => memory = stored

(* Some engine stays on, and the others go off on purpose only.             *)
ModulesHold == AnEngineStaysOn /\ OffOnPurpose
=============================================================================
