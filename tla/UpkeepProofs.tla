---------------------------- MODULE UpkeepProofs ----------------------------
(***************************************************************************)
(* What holds of the modules' settings, of the update, of the storage       *)
(* destinations and of the SSH tunnels.                                    *)
(***************************************************************************)
EXTENDS MCUpkeep, ClientProofs, FiniteSetTheorems
-----------------------------------------------------------------------------
(***************************************************************************)
(* Why some engine stays on whatever updates overlap: a plan is a whole    *)
(* next state, and each has an engine on (Plans).  And why, as long as no  *)
(* two updates overlap, engines in use go off on purpose only: a plan whose *)
(* checks are over turns off only what is unused or locked (Safe).         *)
(***************************************************************************)

UpdateOK(t) ==
  \/ t = IdleUpdate
  \/ /\ t = [at |-> t.at, next |-> t.next, todo |-> t.todo]
     /\ t.at \in {"check", "store", "mirror"}
     /\ t.next \subseteq Modules /\ t.todo \subseteq Engines

Typed ==
  /\ stored \subseteq Modules /\ memory \subseteq Modules
  /\ used \subseteq Engines /\ adding \subseteq Engines /\ locked \subseteq Engines
  /\ update = [u \in Updates |-> update[u]]
  /\ \A u \in Updates : UpdateOK(update[u])

Plans == AnEngineStaysOn /\ \A u \in UnderWay : update[u].next \cap Engines # {}

(* While updates do not overlap: what the one under way may still turn off, *)
(* and where memory stands beside what is stored.                           *)
Safe ==
  ~moduleCrossed =>
    /\ \A u, v \in UnderWay : u = v
    /\ used \ stored \subseteq locked
    /\ UnderWay = {} => memory = stored
    /\ \A u \in UnderWay :
         /\ used \ update[u].next \subseteq locked \cup update[u].todo
         /\ update[u].at \in {"store", "mirror"} => update[u].todo = {}
         /\ update[u].at \in {"check", "store"} => memory = stored
         /\ update[u].at = "mirror" => stored = update[u].next

ModulesInv == Typed /\ Plans /\ Safe
-----------------------------------------------------------------------------
LEMMA ModulesInvInit == ModulesInit => ModulesInv
<1> SUFFICES ASSUME ModulesInit PROVE ModulesInv
  OBVIOUS
<1>1. /\ stored = Modules /\ memory = Modules /\ used = {} /\ adding = {} /\ locked = {}
      /\ update = [u \in Updates |-> IdleUpdate]
  BY DEF ModulesInit
<1>2. UnderWay = {}
  BY <1>1 DEF UnderWay
<1>3. Typed
  BY <1>1 DEF Typed, UpdateOK
<1>4. Plans
  BY <1>1, <1>2, ModulesAssumption DEF Plans, AnEngineStaysOn, Modules
<1>5. Safe
  BY <1>1, <1>2 DEF Safe
<1> QED BY <1>3, <1>4, <1>5 DEF ModulesInv

(* An update goes to a step of its own; the others stay.                    *)
LEMMA UpdateSet ==
  ASSUME Typed, NEW u \in Updates, NEW to, update' = [update EXCEPT ![u] = to]
  PROVE  /\ update' = [v \in Updates |-> update'[v]]
         /\ update'[u] = to /\ \A v \in Updates : v # u => update'[v] = update[v]
         /\ to = IdleUpdate => UnderWay' = UnderWay \ {u}
         /\ to # IdleUpdate => UnderWay' = UnderWay \cup {u}
         /\ UpdateOK(to) => \A v \in Updates : UpdateOK(update'[v])
<1>1. /\ update' = [v \in Updates |-> update'[v]]
      /\ update'[u] = to /\ \A v \in Updates : v # u => update'[v] = update[v]
  BY DEF Typed
<1>2. UpdateOK(to) => \A v \in Updates : UpdateOK(update'[v])
  BY <1>1 DEF Typed
<1> QED BY <1>1, <1>2 DEF UnderWay

LEMMA IdleIsIdle == UpdateOK(IdleUpdate) /\ IdleUpdate.at = "idle"
BY DEF UpdateOK, IdleUpdate

LEMMA PlanKeeps ==
  ASSUME ModulesInv, NEW u \in Updates, NEW off \in SUBSET Modules, NEW on \in SUBSET Modules,
         NEW force \in BOOLEAN, Plan(u, off, on, force)
  PROVE  ModulesInv'
<1>s. Typed /\ Plans /\ Safe
  BY DEF ModulesInv
<1> DEFINE next == Planned(off, on)
           to == [at |-> "check", next |-> next, todo |-> IF force THEN {} ELSE Engines \ next]
<1>1. /\ update[u] = IdleUpdate /\ next # NoPlan
      /\ update' = [update EXCEPT ![u] = to]
      /\ moduleCrossed' = (moduleCrossed \/ UnderWay # {})
      /\ locked' = IF force THEN locked \cup (Engines \ next) ELSE locked
      /\ UNCHANGED <<stored, memory, used, adding>>
  BY DEF Plan
<1>2. next \subseteq Modules /\ next \cap Engines # {}
  BY <1>s, <1>1 DEF Planned, Typed
<1> HIDE DEF next
<1>3. /\ to.at = "check" /\ to.next = next /\ to.todo \subseteq Engines
      /\ to.todo = IF force THEN {} ELSE Engines \ next
      /\ UpdateOK(to) /\ to # IdleUpdate
  BY <1>2 DEF IdleUpdate, UpdateOK
<1> HIDE DEF to
<1>4. /\ update' = [v \in Updates |-> update'[v]]
      /\ update'[u] = to /\ \A v \in Updates : v # u => update'[v] = update[v]
      /\ UnderWay' = UnderWay \cup {u} /\ u \notin UnderWay
      /\ \A v \in Updates : UpdateOK(update'[v])
  BY <1>s, <1>1, <1>3, UpdateSet DEF UnderWay
<1>5. Typed'
  BY <1>s, <1>1, <1>4 DEF Typed
<1>6. Plans'
  BY <1>s, <1>1, <1>2, <1>3, <1>4 DEF Plans, AnEngineStaysOn, UnderWay
<1>7. Safe'
  <2> SUFFICES ASSUME ~moduleCrossed' PROVE Safe'
    BY DEF Safe
  <2>1. ~moduleCrossed /\ UnderWay' = {u} /\ memory = stored /\ used \ stored \subseteq locked
    BY <1>s, <1>1, <1>4 DEF Safe
  <2>2. used \subseteq Engines
    BY <1>s DEF Typed
  <2> QED BY <2>1, <2>2, <1>1, <1>3, <1>4 DEF Safe
<1> QED BY <1>5, <1>6, <1>7 DEF ModulesInv

LEMMA CheckKeeps ==
  ASSUME ModulesInv, NEW u \in Updates, NEW e \in Engines, CheckEngine(u, e)
  PROVE  ModulesInv'
<1>s. Typed /\ Plans /\ Safe
  BY DEF ModulesInv
<1> DEFINE to == update'[u]
<1>1. /\ update[u].at = "check" /\ e \in update[u].todo
      /\ update' = [update EXCEPT ![u] = to]
      /\ to = IF Refused(u, e) THEN IdleUpdate ELSE [update[u] EXCEPT !.todo = @ \ {e}]
      /\ UNCHANGED <<stored, memory, used, adding, moduleCrossed, locked>>
  BY <1>s DEF CheckEngine, Typed
<1>2. u \in UnderWay /\ update[u] = [at |-> "check", next |-> update[u].next, todo |-> update[u].todo]
  BY <1>s, <1>1, IdleIsIdle DEF Typed, UpdateOK, UnderWay
<1>3. \/ to = IdleUpdate
      \/ /\ ~Refused(u, e)
         /\ to = [at |-> "check", next |-> update[u].next, todo |-> update[u].todo \ {e}]
  <2>1. [update[u] EXCEPT !.todo = @ \ {e}] =
          [at |-> "check", next |-> update[u].next, todo |-> update[u].todo \ {e}]
    BY <1>2
  <2> HIDE DEF to
  <2> QED BY <1>1, <2>1
<1> HIDE DEF to
<1>o. UpdateOK(to)
  <2>1. update[u].next \subseteq Modules /\ update[u].todo \subseteq Engines
    BY <1>s, <1>1, IdleIsIdle DEF Typed, UpdateOK
  <2> QED BY <2>1, <1>3, IdleIsIdle DEF UpdateOK
<1>4. /\ update' = [v \in Updates |-> update'[v]]
      /\ update'[u] = to /\ \A v \in Updates : v # u => update'[v] = update[v]
      /\ to = IdleUpdate => UnderWay' = UnderWay \ {u}
      /\ to # IdleUpdate => UnderWay' = UnderWay \cup {u}
      /\ \A v \in Updates : UpdateOK(update'[v])
  BY <1>s, <1>1, <1>o, UpdateSet
<1>5. Typed'
  BY <1>s, <1>1, <1>4 DEF Typed
<1>6. Plans'
  BY <1>s, <1>1, <1>2, <1>3, <1>4 DEF Plans, AnEngineStaysOn, UnderWay
<1>7. Safe'
  <2> SUFFICES ASSUME ~moduleCrossed PROVE Safe'
    BY <1>1 DEF Safe
  <2>1. /\ UnderWay = {u} /\ memory = stored /\ used \ stored \subseteq locked
        /\ used \ update[u].next \subseteq locked \cup update[u].todo
    BY <1>s, <1>1, <1>2 DEF Safe
  <2>2. CASE to = IdleUpdate
    BY <2>1, <2>2, <1>1, <1>4 DEF Safe
  <2>3. CASE /\ ~Refused(u, e)
             /\ to = [at |-> "check", next |-> update[u].next, todo |-> update[u].todo \ {e}]
    <3>1. e \in used => e \in locked
      BY <2>1, <2>3 DEF Refused
    <3>2. to # IdleUpdate /\ UnderWay' = {u}
      BY <2>1, <2>3, <1>4 DEF IdleUpdate
    <3> QED BY <2>1, <2>3, <3>1, <3>2, <1>1, <1>4 DEF Safe
  <2> QED BY <2>2, <2>3, <1>3
<1> QED BY <1>5, <1>6, <1>7 DEF ModulesInv

(* The checks are over; the plan is stored.                                 *)
LEMMA StoreKeeps ==
  ASSUME ModulesInv, NEW u \in Updates, Checked(u) \/ Store(u) PROVE ModulesInv'
<1>s. Typed /\ Plans /\ Safe
  BY DEF ModulesInv
<1>1. PICK at \in {"store", "mirror"} :
        /\ update' = [update EXCEPT ![u].at = at]
        /\ \/ at = "store" /\ update[u].at = "check" /\ update[u].todo = {} /\ UNCHANGED stored
           \/ at = "mirror" /\ update[u].at = "store" /\ stored' = update[u].next
        /\ UNCHANGED <<memory, used, adding, moduleCrossed, locked>>
  BY DEF Checked, Store
<1> DEFINE to == [at |-> at, next |-> update[u].next, todo |-> update[u].todo]
<1>2. u \in UnderWay /\ to # IdleUpdate
  BY <1>s, <1>1, IdleIsIdle DEF UnderWay, IdleUpdate
<1>o. /\ update[u] = [at |-> update[u].at, next |-> update[u].next, todo |-> update[u].todo]
      /\ update[u].next \subseteq Modules /\ update[u].todo \subseteq Engines
  BY <1>s, <1>1, IdleIsIdle DEF Typed, UpdateOK
<1>3. update' = [update EXCEPT ![u] = to]
  <2>1. [update[u] EXCEPT !.at = at] = to
    BY <1>o
  <2> QED BY <1>1, <2>1
<1>4. to.at = at /\ to.next = update[u].next /\ to.todo = update[u].todo /\ UpdateOK(to)
  BY <1>o DEF UpdateOK
<1> HIDE DEF to
<1>5. /\ update' = [v \in Updates |-> update'[v]]
      /\ update'[u] = to /\ \A v \in Updates : v # u => update'[v] = update[v]
      /\ UnderWay' = UnderWay /\ \A v \in Updates : UpdateOK(update'[v])
  <2>1. UnderWay' = UnderWay \cup {u}
    BY <1>s, <1>2, <1>3, UpdateSet
  <2>2. UnderWay \cup {u} = UnderWay
    BY <1>2
  <2>3. /\ update' = [v \in Updates |-> update'[v]]
        /\ update'[u] = to /\ \A v \in Updates : v # u => update'[v] = update[v]
        /\ \A v \in Updates : UpdateOK(update'[v])
    BY <1>s, <1>3, <1>4, UpdateSet
  <2> QED BY <2>1, <2>2, <2>3
<1>6. Typed'
  BY <1>s, <1>1, <1>o, <1>5 DEF Typed
<1>7. Plans'
  BY <1>s, <1>1, <1>2, <1>4, <1>5 DEF Plans, AnEngineStaysOn, UnderWay
<1>8. Safe'
  BY <1>s, <1>1, <1>2, <1>4, <1>5 DEF Safe, UnderWay
<1> QED BY <1>6, <1>7, <1>8 DEF ModulesInv

LEMMA MirrorKeeps ==
  ASSUME ModulesInv, NEW u \in Updates, SetModuleState(u) PROVE ModulesInv'
<1>s. Typed /\ Plans /\ Safe
  BY DEF ModulesInv
<1>1. /\ update[u].at = "mirror" /\ memory' = update[u].next /\ locked' = locked \ memory'
      /\ update' = [update EXCEPT ![u] = IdleUpdate]
      /\ UNCHANGED <<stored, used, adding, moduleCrossed>>
  BY DEF SetModuleState, Mirrored
<1>2. u \in UnderWay
  BY <1>1, IdleIsIdle DEF UnderWay
<1>o. update[u].next \subseteq Modules
  BY <1>s, <1>1, IdleIsIdle DEF Typed, UpdateOK
<1>3. /\ update' = [v \in Updates |-> update'[v]]
      /\ update'[u] = IdleUpdate /\ \A v \in Updates : v # u => update'[v] = update[v]
      /\ UnderWay' = UnderWay \ {u} /\ \A v \in Updates : UpdateOK(update'[v])
  BY <1>s, <1>1, UpdateSet, IdleIsIdle
<1>4. Typed'
  BY <1>s, <1>1, <1>o, <1>3 DEF Typed
<1>5. Plans'
  BY <1>s, <1>1, <1>2, <1>3 DEF Plans, AnEngineStaysOn, UnderWay
<1>6. Safe'
  BY <1>s, <1>1, <1>2, <1>3 DEF Safe
<1> QED BY <1>4, <1>5, <1>6 DEF ModulesInv

LEMMA SaveConnectionKeeps ==
  ASSUME ModulesInv, NEW e \in Engines, SaveConnection(e) PROVE ModulesInv'
<1>s. Typed /\ Plans /\ Safe
  BY DEF ModulesInv
<1>1. /\ used' = used \cup {e} /\ adding' \subseteq adding
      /\ locked' \in {locked, locked \cup {e}}
      /\ e \notin locked' => e \in memory /\ \A u \in UnderWay : e \in update[u].next
      /\ UNCHANGED <<stored, memory, update, moduleCrossed>>
  BY DEF SaveConnection
<1>2. UnderWay' = UnderWay
  BY <1>1 DEF UnderWay
<1>3. Typed' /\ Plans'
  BY <1>s, <1>1, <1>2 DEF Typed, Plans, AnEngineStaysOn
<1>4. ~moduleCrossed /\ e \notin locked' => e \in stored
  <2>1. \A u \in UnderWay : update[u].at \in {"check", "store", "mirror"}
    BY <1>s DEF Typed, UpdateOK, UnderWay
  <2> QED BY <1>s, <1>1, <2>1 DEF Safe
<1>5. Safe'
  BY <1>s, <1>1, <1>2, <1>4 DEF Safe
<1> QED BY <1>3, <1>5 DEF ModulesInv

LEMMA RestartKeeps ==
  ASSUME ModulesInv, RestartModules PROVE ModulesInv'
<1>s. Typed /\ Plans /\ Safe
  BY DEF ModulesInv
<1>1. /\ memory' = stored /\ update' = [u \in Updates |-> IdleUpdate] /\ adding' = {}
      /\ UNCHANGED <<stored, used, moduleCrossed, locked>>
  BY DEF RestartModules
<1>2. UnderWay' = {}
  BY <1>1 DEF UnderWay
<1>3. Typed'
  BY <1>s, <1>1, IdleIsIdle DEF Typed
<1>4. Plans' /\ Safe'
  BY <1>s, <1>1, <1>2 DEF Plans, AnEngineStaysOn, Safe
<1> QED BY <1>3, <1>4 DEF ModulesInv

LEMMA ModulesInvStep == ASSUME ModulesInv, [ModulesNext]_moduleVars PROVE ModulesInv'
<1>1. ASSUME NEW e \in Engines, BeginConnection(e) \/ DeleteLastConnection(e) PROVE ModulesInv'
  <2>1. /\ used' \subseteq used /\ adding' \subseteq Engines
        /\ UNCHANGED <<stored, memory, update, moduleCrossed, locked>>
    BY <1>1 DEF BeginConnection, DeleteLastConnection, ModulesInv, Typed
  <2>2. UnderWay' = UnderWay
    BY <2>1 DEF UnderWay
  <2> QED BY <2>1, <2>2 DEF ModulesInv, Typed, Plans, AnEngineStaysOn, Safe
<1>2. CASE UNCHANGED moduleVars
  <2>1. UNCHANGED <<stored, memory, used, update, adding, moduleCrossed, locked>>
    BY <1>2 DEF moduleVars
  <2>2. UnderWay' = UnderWay
    BY <2>1 DEF UnderWay
  <2> QED BY <2>1, <2>2 DEF ModulesInv, Typed, Plans, AnEngineStaysOn, Safe
<1> QED
  BY <1>1, <1>2, PlanKeeps, CheckKeeps, StoreKeeps, MirrorKeeps, SaveConnectionKeeps, RestartKeeps
  DEF ModulesNext

LEMMA ModulesInvariance == ModulesSpec => []ModulesInv
BY ModulesInvInit, ModulesInvStep, PTL DEF ModulesSpec

(* Every variable keeps to its type.                                        *)
THEOREM ModulesTypeCorrect == ModulesSpec => []ModulesTypeOK
<1>1. ModulesInv => ModulesTypeOK
  BY DEF ModulesInv, Typed, UpdateOK, UnderWay, ModulesTypeOK
<1> QED BY <1>1, ModulesInvariance, PTL

(* Some engine stays on, stored and in memory, whatever updates overlap;    *)
(* and if none does, an engine in use is off only by force or because its   *)
(* connection was being created just then (planModuleChange, updateModules). *)
THEOREM ModulesStayOn == ModulesSpec => []ModulesHold
<1>1. ModulesInv => ModulesHold
  BY DEF ModulesInv, Plans, Safe, ModulesHold, OffOnPurpose
<1> QED BY <1>1, ModulesInvariance, PTL
-----------------------------------------------------------------------------
(***************************************************************************)
(* Why an app serves only a migrated database, and why the baseline is run *)
(* or recorded where it is true, for any number of migrations and deaths:  *)
(* who migrates goes with which container is up (Turns), and each stage of *)
(* a migration goes with what the database is by then (Stages).            *)
(***************************************************************************)

(* A job is the booting app's, or of the one-shot container with the app    *)
(* stopped.                                                                 *)
Turns ==
  /\ job.by = "nobody" => job = NoJob
  /\ job.by = "app" => box # "none" /\ swap # "migrate" /\ ~serving
  /\ job.by = "oneshot" => box = "none" /\ swap = "migrate" /\ ~serving
  /\ swap = "migrate" => job.by = "oneshot"
  /\ box = "none" => swap = "migrate"
  /\ ServesMigrated

(* The database counts as Prisma's, but its baseline is not recorded.       *)
BaselineDue == meta.tables /\ meta.tracked /\ ~meta.failed /\ 1 \notin meta.applied

BaselineFits == 1 \in meta.applied => meta.tables /\ meta.version \in {0, Latest}

Stages ==
  /\ ~meta.tables => meta.version = 0 /\ meta.applied = {} /\ ~meta.failed
  /\ meta.tables /\ ~meta.tracked => meta.version > 0
  /\ BaselineDue => job.at = "record" \/ halfway
  /\ job.at \in {"legacy", "resolve", "record"} => meta.tables /\ meta.version > 0
  /\ job.at \in {"resolve", "record"} => meta.version = Latest
  /\ job.at = "record" => meta.tracked
  /\ job.at = "deploy" => meta.tracked \/ ~meta.tables
  /\ job.at = "seed" => Pending(JobImage) = {}
  /\ BaselineFits

UpgradeInv == UpgradeTypeOK /\ Turns /\ Stages
-----------------------------------------------------------------------------
LEMMA Numbers ==
  /\ Latest \in Nat /\ Latest > 0 /\ Baselines \in Nat /\ Baselines > 0
  /\ Added \in Nat /\ MaxDeaths \in Nat
BY UpgradeAssumption

LEMMA NamesNest ==
  /\ \A image : 1 \in Names(image) /\ Names(image) \subseteq Names("new")
  /\ Names("new") \subseteq Nat
BY Numbers DEF Names

(* The migrations that are pending have a first one.                        *)
LEMMA FirstPending ==
  ASSUME NEW image, Pending(image) # {}
  PROVE  /\ NextOf(image) \in Pending(image) /\ NextOf(image) \in Names("new")
         /\ 1 \in Pending(image) => NextOf(image) = 1
<1> DEFINE P == Pending(image)
           R == OpToRel(<, Nat)
<1>1. P \subseteq Names("new") /\ P \subseteq Nat /\ \A m \in P : m >= 1
  BY NamesNest, Numbers DEF Pending, Names
<1>2. \A m, n \in Nat : m < n => <<m, n>> \in R
  BY DEF OpToRel
<1>3. \E m \in P : \A n \in P : ~(<<n, m>> \in R)
  <2>1. IsWellFoundedOn(R, Nat)
    BY NatLessThanWellFounded, Zenon
  <2> HIDE DEF P, R
  <2>2. P # {}
    BY DEF P
  <2> QED BY <1>1, <2>1, <2>2, WFMin
<1> HIDE DEF P, R
<1>4. PICK m \in P : \A n \in P : m <= n
  <2>1. PICK m \in P : \A n \in P : ~(<<n, m>> \in R)
    BY <1>3
  <2>2. \A n \in P : ~(n < m)
    BY <1>1, <1>2, <2>1
  <2> QED BY <1>1, <2>1, <2>2
<1>5. NextOf(image) = CHOOSE k \in P : \A n \in P : k <= n
  BY DEF NextOf, P
<1>6. NextOf(image) \in P /\ \A n \in P : NextOf(image) <= n
  BY <1>4, <1>5
<1>7. 1 \in P => NextOf(image) = 1
  <2>1. NextOf(image) \in Nat /\ NextOf(image) >= 1
    BY <1>1, <1>6
  <2>2. 1 \in P => NextOf(image) <= 1
    BY <1>6
  <2> QED BY <2>1, <2>2
<1>8. P = Pending(image)
  BY DEF P
<1> QED BY <1>1, <1>6, <1>7, <1>8

LEMMA UpgradeInvInit == UpgradeInit => UpgradeInv
<1> SUFFICES ASSUME UpgradeInit PROVE UpgradeInv
  OBVIOUS
<1>1. /\ job = NoJob /\ box = "old" /\ serving = FALSE /\ swap = "idle"
      /\ halfway = FALSE /\ deaths = 0
      /\ NoJob.by = "nobody" /\ NoJob.at = "status"
  BY DEF UpgradeInit, NoJob
<1> DEFINE Type == [version : 0..Latest, tables : BOOLEAN, tracked : BOOLEAN,
                    applied : SUBSET Names("new"), failed : BOOLEAN, seeded : BOOLEAN]
           Made(v) == [version |-> v, tables |-> TRUE, tracked |-> FALSE, applied |-> {},
                       failed |-> FALSE, seeded |-> v = Latest]
<1>2. /\ meta \in Type /\ ~meta.failed
      /\ \/ meta.version = 0 /\ ~meta.tables /\ ~meta.tracked /\ meta.applied = {}
         \/ meta.version \in 1..Latest /\ meta.tables /\ ~meta.tracked /\ meta.applied = {}
         \/ meta.version = Latest /\ meta.tables /\ meta.tracked /\ meta.applied = Names("old")
  <2>1. CASE meta = [version |-> 0, tables |-> FALSE, tracked |-> FALSE, applied |-> {},
                     failed |-> FALSE, seeded |-> FALSE]
    BY <2>1, Numbers
  <2>2. CASE \E v \in 1..Latest : meta = Made(v)
    BY <2>2, Numbers
  <2>3. CASE meta = [version |-> Latest, tables |-> TRUE, tracked |-> TRUE,
                     applied |-> Names("old"), failed |-> FALSE, seeded |-> TRUE]
    BY <2>3, Numbers, NamesNest
  <2> QED BY <2>1, <2>2, <2>3 DEF UpgradeInit
<1>3. UpgradeTypeOK
  <2>0. halfway = FALSE
    BY DEF UpgradeInit
  <2>1. job \in [by : {"nobody", "app", "oneshot"},
                at : {"status", "legacy", "resolve", "record", "deploy", "seed"}]
    BY <1>1 DEF NoJob
  <2>2. deaths \in 0..MaxDeaths
    BY <1>1, Numbers
  <2>3. meta \in [version : 0..Latest, tables : BOOLEAN, tracked : BOOLEAN,
                  applied : SUBSET Names("new"), failed : BOOLEAN, seeded : BOOLEAN]
    BY <1>2
  <2> HIDE DEF Type, Made
  <2> QED BY <1>1, <2>0, <2>1, <2>2, <2>3, Zenon DEF UpgradeTypeOK
<1>4. Turns
  BY <1>1 DEF Turns, ServesMigrated
<1> HIDE DEF Type, Made
<1>5. Stages
  BY <1>1, <1>2, Numbers, NamesNest DEF Stages, BaselineDue, BaselineFits
<1> QED BY <1>3, <1>4, <1>5 DEF UpgradeInv
-----------------------------------------------------------------------------
(* A migration that is over hands on to the app or to the helper.           *)
LEMMA SucceedsKeeps ==
  ASSUME UpgradeInv, job # NoJob, Pending(JobImage) = {}, Succeeds,
         meta'.applied = meta.applied
  PROVE  /\ Turns' /\ job' = NoJob /\ box' \in {"none", "old", "new"} /\ serving' \in BOOLEAN
         /\ swap' \in {"idle", "stop", "migrate"}
<1>1. job.by \in {"app", "oneshot"} /\ NoJob.by = "nobody"
  BY DEF UpgradeInv, UpgradeTypeOK, Turns, NoJob
<1>2. CASE job.by = "app"
  BY <1>1, <1>2 DEF UpgradeInv, UpgradeTypeOK, Turns, Succeeds, ServesMigrated, Pending, JobImage, Names
<1>3. CASE job.by = "oneshot"
  BY <1>1, <1>3 DEF UpgradeInv, UpgradeTypeOK, Turns, Succeeds, ServesMigrated
<1> QED BY <1>1, <1>2, <1>3

LEMMA FailsKeeps ==
  ASSUME UpgradeInv, job # NoJob, Fails
  PROVE  /\ Turns' /\ job' = NoJob /\ box' \in {"none", "old", "new"} /\ serving' \in BOOLEAN
         /\ swap' \in {"idle", "stop", "migrate"}
<1>1. job.by \in {"app", "oneshot"} /\ NoJob.by = "nobody"
  BY DEF UpgradeInv, UpgradeTypeOK, Turns, NoJob
<1>2. CASE job.by = "app"
  BY <1>1, <1>2 DEF UpgradeInv, UpgradeTypeOK, Turns, Fails, ServesMigrated
<1>3. CASE job.by = "oneshot"
  BY <1>1, <1>3 DEF UpgradeInv, UpgradeTypeOK, Turns, Fails, ServesMigrated
<1> QED BY <1>1, <1>2, <1>3

(* A migration under way goes on to its next step, or stays at it.          *)
LEMMA GoesKeeps ==
  ASSUME UpgradeInv, job.by # "nobody", UNCHANGED <<serving, swap, box>>,
         NEW step \in {"status", "legacy", "resolve", "record", "deploy", "seed"},
         job' = [job EXCEPT !.at = step]
  PROVE  /\ Turns' /\ job'.at = step /\ JobImage' = JobImage
         /\ job' \in [by : {"nobody", "app", "oneshot"},
                      at : {"status", "legacy", "resolve", "record", "deploy", "seed"}]
<1>1. /\ job'.by = job.by /\ job'.at = step
      /\ job' \in [by : {"nobody", "app", "oneshot"},
                   at : {"status", "legacy", "resolve", "record", "deploy", "seed"}]
  BY DEF UpgradeInv, UpgradeTypeOK
<1>2. ~serving
  BY DEF UpgradeInv, UpgradeTypeOK, Turns
<1> QED BY <1>1, <1>2 DEF UpgradeInv, Turns, ServesMigrated, JobImage

LEMMA MetaFields ==
  ASSUME UpgradeInv
  PROVE  /\ meta.version \in Nat /\ meta.version <= Latest
         /\ meta.tables \in BOOLEAN /\ meta.tracked \in BOOLEAN /\ meta.failed \in BOOLEAN
         /\ meta.seeded \in BOOLEAN /\ meta.applied \subseteq Names("new")
         /\ deaths \in Nat /\ deaths <= MaxDeaths
BY Numbers DEF UpgradeInv, UpgradeTypeOK

LEMMA BootKeeps == ASSUME UpgradeInv, Boot PROVE UpgradeInv'
<1>1. /\ box # "none" /\ ~serving /\ job = NoJob /\ NoJob.by = "nobody"
      /\ job' = [by |-> "app", at |-> "status"] /\ NoJob.at = "status"
      /\ UNCHANGED <<meta, box, serving, swap, halfway, deaths>>
  BY DEF Boot, NoJob
<1>2. job'.by = "app" /\ job'.at = "status" /\ swap # "migrate" /\ job.at = "status"
  BY <1>1 DEF UpgradeInv, Turns
<1>3. UpgradeTypeOK'
  BY <1>1 DEF UpgradeInv, UpgradeTypeOK
<1>4. Turns'
  BY <1>1, <1>2 DEF UpgradeInv, Turns, ServesMigrated
<1>5. Stages'
  BY <1>1, <1>2 DEF UpgradeInv, Stages, BaselineDue, BaselineFits
<1> QED BY <1>3, <1>4, <1>5 DEF UpgradeInv

(* The parts of Stages that follow from the database alone, which a job     *)
(* that is over leaves as they are.                                         *)
Tables ==
  /\ ~meta.tables => meta.version = 0 /\ meta.applied = {} /\ ~meta.failed
  /\ meta.tables /\ ~meta.tracked => meta.version > 0
  /\ BaselineDue => halfway
  /\ BaselineFits

LEMMA StagesOver ==
  ASSUME Tables', job' = NoJob PROVE Stages'
<1>1. job'.at = "status"
  BY DEF NoJob
<1> QED BY <1>1 DEF Stages, Tables

LEMMA TablesNow == UpgradeInv /\ job.at # "record" => Tables
BY DEF UpgradeInv, Stages, Tables

LEMMA StatusKeeps == ASSUME UpgradeInv, Status PROVE UpgradeInv'
<1>1. job # NoJob /\ job.at = "status" /\ UNCHANGED <<meta, halfway, deaths>>
  BY DEF Status
<1>2. Tables'
  BY <1>1, TablesNow DEF Tables, BaselineDue, BaselineFits
<1>3. CASE meta.tracked /\ Pending(JobImage) = {}
  <2>1. Succeeds
    BY <1>3 DEF Status
  <2>2. /\ Turns' /\ job' = NoJob /\ box' \in {"none", "old", "new"} /\ serving' \in BOOLEAN
        /\ swap' \in {"idle", "stop", "migrate"}
    BY <1>1, <1>3, <2>1, SucceedsKeeps
  <2>3. UpgradeTypeOK'
    BY <1>1, <2>2 DEF UpgradeInv, UpgradeTypeOK, NoJob
  <2>4. Stages'
    BY <1>2, <2>2, StagesOver
  <2> QED BY <2>2, <2>3, <2>4 DEF UpgradeInv
<1>4. CASE ~(meta.tracked /\ Pending(JobImage) = {})
  <2> DEFINE step == IF ~meta.tracked /\ meta.tables THEN "legacy" ELSE "deploy"
  <2>1. /\ job' = [job EXCEPT !.at = step] /\ UNCHANGED <<serving, swap, box>>
        /\ step \in {"status", "legacy", "resolve", "record", "deploy", "seed"}
    BY <1>4 DEF Status, Goes
  <2>2. job.by # "nobody"
    BY <1>1 DEF UpgradeInv, Turns
  <2>3. /\ Turns' /\ job'.at = step
        /\ job' \in [by : {"nobody", "app", "oneshot"},
                     at : {"status", "legacy", "resolve", "record", "deploy", "seed"}]
    BY <2>1, <2>2, GoesKeeps
  <2>4. UpgradeTypeOK'
    BY <1>1, <2>1, <2>3 DEF UpgradeInv, UpgradeTypeOK
  <2>5. Stages'
    BY <1>1, <1>2, <2>3, MetaFields DEF Stages, Tables
  <2> QED BY <2>3, <2>4, <2>5 DEF UpgradeInv
<1> QED BY <1>3, <1>4

LEMMA LegacyStepKeeps == ASSUME UpgradeInv, LegacyStep PROVE UpgradeInv'
<1>1. /\ job.by # "nobody" /\ job.at = "legacy" /\ UNCHANGED <<halfway, deaths>>
      /\ meta.tables /\ meta.version > 0
  BY DEF LegacyStep, UpgradeInv, Stages
<1>2. CASE meta.version < Latest
  <2>1. /\ meta' = [meta EXCEPT !.version = @ + 1, !.seeded = (meta.version + 1 = Latest)]
        /\ UNCHANGED <<job, serving, swap, box>>
    BY <1>2 DEF LegacyStep
  <2>2. /\ meta'.version = meta.version + 1 /\ meta'.tables = meta.tables
        /\ meta'.tracked = meta.tracked /\ meta'.applied = meta.applied
        /\ meta'.failed = meta.failed
    BY <2>1 DEF UpgradeInv, UpgradeTypeOK
  <2>3. UpgradeTypeOK'
    <3> DEFINE v == meta.version + 1
               last == (meta.version + 1 = Latest)
    <3>1. v \in 0..Latest /\ last \in BOOLEAN
      BY <1>2, MetaFields, Numbers
    <3> HIDE DEF v, last
    <3>2. meta' = [[meta EXCEPT !.version = v] EXCEPT !.seeded = last]
      BY <2>1, Zenon DEF v, last
    <3>3. meta' \in [version : 0..Latest, tables : BOOLEAN, tracked : BOOLEAN,
                    applied : SUBSET Names("new"), failed : BOOLEAN, seeded : BOOLEAN]
      BY <3>1, <3>2 DEF UpgradeInv, UpgradeTypeOK
    <3> QED BY <1>1, <2>1, <3>3 DEF UpgradeInv, UpgradeTypeOK
  <2>4. ~serving /\ Turns'
    BY <1>1, <2>1 DEF UpgradeInv, UpgradeTypeOK, Turns, ServesMigrated
  <2>5. 1 \notin meta.applied
    BY <1>1, <1>2, MetaFields, Numbers DEF UpgradeInv, Stages, BaselineDue, BaselineFits
  <2>6. Stages'
    BY <1>1, <2>1, <2>2, <2>5, MetaFields DEF UpgradeInv, Stages, BaselineDue, BaselineFits
  <2> QED BY <2>3, <2>4, <2>6 DEF UpgradeInv
<1>3. CASE ~(meta.version < Latest)
  <2>1. job' = [job EXCEPT !.at = "resolve"] /\ UNCHANGED <<meta, serving, swap, box>>
    BY <1>3 DEF LegacyStep, Goes
  <2>2. /\ Turns' /\ job'.at = "resolve"
        /\ job' \in [by : {"nobody", "app", "oneshot"},
                     at : {"status", "legacy", "resolve", "record", "deploy", "seed"}]
    BY <1>1, <2>1, GoesKeeps
  <2>3. UpgradeTypeOK'
    BY <1>1, <2>1, <2>2 DEF UpgradeInv, UpgradeTypeOK
  <2>4. meta.version = Latest
    BY <1>3, MetaFields, Numbers
  <2>5. Stages'
    BY <1>1, <2>1, <2>2, <2>4 DEF UpgradeInv, Stages, BaselineDue, BaselineFits
  <2> QED BY <2>2, <2>3, <2>5 DEF UpgradeInv
<1> QED BY <1>2, <1>3

LEMMA ResolveKeeps == ASSUME UpgradeInv, Resolve PROVE UpgradeInv'
<1>1. /\ job.by # "nobody" /\ job.at = "resolve" /\ UNCHANGED <<halfway, deaths>>
      /\ meta' = [meta EXCEPT !.tracked = TRUE]
      /\ job' = [job EXCEPT !.at = "record"] /\ UNCHANGED <<serving, swap, box>>
  BY DEF Resolve, Goes
<1>2. meta.tables /\ meta.version = Latest
  BY <1>1 DEF UpgradeInv, Stages
<1>3. /\ meta'.version = meta.version /\ meta'.tables = meta.tables
      /\ meta'.tracked = TRUE /\ meta'.applied = meta.applied
      /\ meta'.failed = meta.failed
      /\ meta' \in [version : 0..Latest, tables : BOOLEAN, tracked : BOOLEAN,
                    applied : SUBSET Names("new"), failed : BOOLEAN, seeded : BOOLEAN]
  BY <1>1 DEF UpgradeInv, UpgradeTypeOK
<1>4. /\ Turns' /\ job'.at = "record"
      /\ job' \in [by : {"nobody", "app", "oneshot"},
                   at : {"status", "legacy", "resolve", "record", "deploy", "seed"}]
  BY <1>1, GoesKeeps
<1>5. UpgradeTypeOK'
  BY <1>1, <1>3, <1>4 DEF UpgradeInv, UpgradeTypeOK
<1>6. Stages'
  BY <1>1, <1>2, <1>3, <1>4, Numbers DEF UpgradeInv, Stages, BaselineDue, BaselineFits
<1> QED BY <1>4, <1>5, <1>6 DEF UpgradeInv

LEMMA RecordBaselineKeeps == ASSUME UpgradeInv, RecordBaseline PROVE UpgradeInv'
<1>1. /\ job.by # "nobody" /\ job.at = "record" /\ UNCHANGED <<halfway, deaths>>
      /\ meta' = [meta EXCEPT !.applied = @ \cup {1}]
      /\ job' = [job EXCEPT !.at = "deploy"] /\ UNCHANGED <<serving, swap, box>>
  BY DEF RecordBaseline, Recorded, Goes
<1>2. meta.tables /\ meta.tracked /\ meta.version = Latest
  BY <1>1 DEF UpgradeInv, Stages
<1>3. /\ meta'.version = meta.version /\ meta'.tables = meta.tables
      /\ meta'.tracked = meta.tracked /\ meta'.applied = meta.applied \cup {1}
      /\ meta'.failed = meta.failed
      /\ meta' \in [version : 0..Latest, tables : BOOLEAN, tracked : BOOLEAN,
                    applied : SUBSET Names("new"), failed : BOOLEAN, seeded : BOOLEAN]
  BY <1>1, NamesNest DEF UpgradeInv, UpgradeTypeOK
<1>4. /\ Turns' /\ job'.at = "deploy"
      /\ job' \in [by : {"nobody", "app", "oneshot"},
                   at : {"status", "legacy", "resolve", "record", "deploy", "seed"}]
  BY <1>1, GoesKeeps
<1>5. UpgradeTypeOK'
  BY <1>1, <1>3, <1>4 DEF UpgradeInv, UpgradeTypeOK
<1>6. Stages'
  BY <1>1, <1>2, <1>3, <1>4 DEF UpgradeInv, Stages, BaselineDue, BaselineFits
<1> QED BY <1>4, <1>5, <1>6 DEF UpgradeInv

LEMMA DeployKeeps == ASSUME UpgradeInv, Deploy PROVE UpgradeInv'
<1>1. /\ job.by # "nobody" /\ job.at = "deploy" /\ Pending(JobImage) # {} /\ job # NoJob
      /\ meta.tracked \/ ~meta.tables
  BY DEF Deploy, UpgradeInv, Stages, NoJob
<1>2. CASE meta.failed
  <2>1. Fails /\ UNCHANGED <<meta, halfway, deaths>>
    BY <1>2 DEF Deploy
  <2>2. /\ Turns' /\ job' = NoJob /\ box' \in {"none", "old", "new"} /\ serving' \in BOOLEAN
        /\ swap' \in {"idle", "stop", "migrate"}
    BY <1>1, <2>1, FailsKeeps
  <2>3. UpgradeTypeOK'
    BY <2>1, <2>2 DEF UpgradeInv, UpgradeTypeOK, NoJob
  <2>4. Tables'
    BY <1>1, <2>1, TablesNow DEF Tables, BaselineDue, BaselineFits
  <2> QED BY <2>2, <2>3, <2>4, StagesOver DEF UpgradeInv
<1>3. CASE ~meta.failed
  <2> DEFINE m == NextOf(JobImage)
  <2>1. m \in Pending(JobImage) /\ m \in Names("new") /\ (1 \in Pending(JobImage) => m = 1)
    BY <1>1, FirstPending
  <2> DEFINE fails == m = 1 /\ meta.tables
  <2>2. CASE fails
    <3>1. /\ meta' = [meta EXCEPT !.tracked = TRUE, !.tables = TRUE, !.failed = TRUE]
          /\ Fails /\ UNCHANGED <<halfway, deaths>>
      BY <1>3, <2>2 DEF Deploy
    <3>2. /\ meta'.version = meta.version /\ meta'.tables = TRUE
          /\ meta'.applied = meta.applied /\ meta'.failed = TRUE /\ meta'.tracked = TRUE
          /\ meta' \in [version : 0..Latest, tables : BOOLEAN, tracked : BOOLEAN,
                        applied : SUBSET Names("new"), failed : BOOLEAN, seeded : BOOLEAN]
      BY <3>1 DEF UpgradeInv, UpgradeTypeOK
    <3>3. /\ Turns' /\ job' = NoJob /\ box' \in {"none", "old", "new"} /\ serving' \in BOOLEAN
          /\ swap' \in {"idle", "stop", "migrate"}
      BY <1>1, <3>1, FailsKeeps
    <3>4. UpgradeTypeOK'
      BY <3>1, <3>2, <3>3 DEF UpgradeInv, UpgradeTypeOK, NoJob
    <3>5. Tables'
      BY <1>1, <2>2, <3>2, TablesNow DEF Tables, BaselineDue, BaselineFits
    <3> QED BY <3>3, <3>4, <3>5, StagesOver DEF UpgradeInv
  <2>3. CASE ~fails
    <3>3. /\ meta' = [meta EXCEPT !.tracked = TRUE, !.tables = TRUE, !.failed = FALSE,
                                   !.applied = @ \cup {m}]
          /\ UNCHANGED <<job, serving, swap, box, halfway, deaths>>
      BY <1>3, <2>3 DEF Deploy
    <3>0. ~(m = 1 /\ meta.tables)
      BY <2>3
    <3> HIDE DEF m, fails
    <3>4. /\ meta'.version = meta.version /\ meta'.tables = TRUE
          /\ meta'.tracked = TRUE /\ meta'.applied = meta.applied \cup {m}
          /\ meta'.failed = FALSE
          /\ meta' \in [version : 0..Latest, tables : BOOLEAN, tracked : BOOLEAN,
                        applied : SUBSET Names("new"), failed : BOOLEAN, seeded : BOOLEAN]
      BY <2>1, <3>3 DEF UpgradeInv, UpgradeTypeOK
    <3>5. UpgradeTypeOK'
      BY <3>3, <3>4 DEF UpgradeInv, UpgradeTypeOK
    <3>6. Turns'
      BY <1>1, <3>3 DEF UpgradeInv, UpgradeTypeOK, Turns, ServesMigrated
    <3>7. 1 \in meta'.applied
      <4>1. 1 \in meta.applied \/ 1 \in Pending(JobImage)
        BY NamesNest DEF Pending
      <4> QED BY <2>1, <3>4, <4>1
    <3>8. meta.version \in {0, Latest}
      <4>1. CASE ~meta.tables
        BY <4>1 DEF UpgradeInv, Stages
      <4>2. CASE meta.tables
        <5>1. 1 \in meta.applied
          BY <2>1, <3>0, <4>2, NamesNest DEF Pending
        <5> QED BY <5>1 DEF UpgradeInv, Stages, BaselineFits
      <4> QED BY <4>1, <4>2
    <3>9. Stages'
      BY <1>1, <3>3, <3>4, <3>7, <3>8 DEF Stages, BaselineDue, BaselineFits
    <3> QED BY <3>5, <3>6, <3>9 DEF UpgradeInv
  <2> QED BY <2>2, <2>3
<1> QED BY <1>2, <1>3

LEMMA DeployBreaksKeeps == ASSUME UpgradeInv, DeployBreaks PROVE UpgradeInv'
<1>1. /\ job.by # "nobody" /\ job.at = "deploy" /\ job # NoJob /\ deaths < MaxDeaths
      /\ Fails /\ deaths' = deaths + 1 /\ UNCHANGED halfway
      /\ meta.tracked \/ ~meta.tables
  BY DEF DeployBreaks, NoJob, UpgradeInv, Stages
<1>2. /\ meta'.version = meta.version /\ meta'.applied = meta.applied /\ meta'.tracked = TRUE
      /\ \/ meta'.tables = TRUE /\ meta'.failed = TRUE
         \/ meta'.tables = meta.tables /\ meta'.failed = meta.failed
      /\ meta' \in [version : 0..Latest, tables : BOOLEAN, tracked : BOOLEAN,
                    applied : SUBSET Names("new"), failed : BOOLEAN, seeded : BOOLEAN]
  <2>1. CASE meta' = [meta EXCEPT !.tracked = TRUE, !.tables = TRUE, !.failed = TRUE]
    BY <2>1 DEF UpgradeInv, UpgradeTypeOK
  <2>2. CASE meta' = [meta EXCEPT !.tracked = TRUE]
    BY <2>2 DEF UpgradeInv, UpgradeTypeOK
  <2> QED BY <2>1, <2>2 DEF DeployBreaks
<1>3. deaths' \in 0..MaxDeaths /\ deaths' > 0
  BY <1>1, MetaFields, Numbers
<1>4. /\ Turns' /\ job' = NoJob /\ box' \in {"none", "old", "new"} /\ serving' \in BOOLEAN
      /\ swap' \in {"idle", "stop", "migrate"}
  BY <1>1, FailsKeeps
<1>5. UpgradeTypeOK'
  BY <1>1, <1>2, <1>3, <1>4 DEF UpgradeInv, UpgradeTypeOK, NoJob
<1>6. Tables'
  BY <1>1, <1>2, TablesNow DEF Tables, BaselineDue, BaselineFits
<1> QED BY <1>4, <1>5, <1>6, StagesOver DEF UpgradeInv

LEMMA DeployedKeeps == ASSUME UpgradeInv, Deployed PROVE UpgradeInv'
<1>1. /\ job.by # "nobody" /\ job.at = "deploy" /\ Pending(JobImage) = {} /\ UNCHANGED <<meta, halfway, deaths>>
      /\ job' = [job EXCEPT !.at = "seed"] /\ UNCHANGED <<serving, swap, box>>
  BY DEF Deployed, Goes
<1>2. /\ Turns' /\ job'.at = "seed" /\ JobImage' = JobImage
      /\ job' \in [by : {"nobody", "app", "oneshot"},
                   at : {"status", "legacy", "resolve", "record", "deploy", "seed"}]
  BY <1>1, GoesKeeps
<1>3. UpgradeTypeOK'
  BY <1>1, <1>2 DEF UpgradeInv, UpgradeTypeOK
<1>4. Pending(JobImage)' = {}
  BY <1>1, <1>2 DEF Pending
<1>5. Tables'
  BY <1>1, TablesNow DEF Tables, BaselineDue, BaselineFits
<1> QED BY <1>2, <1>3, <1>4, <1>5 DEF UpgradeInv, Stages, Tables

LEMMA SeedKeeps == ASSUME UpgradeInv, Seed PROVE UpgradeInv'
<1>1. /\ job.by # "nobody" /\ job.at = "seed" /\ job # NoJob /\ Succeeds /\ UNCHANGED <<halfway, deaths>>
      /\ meta' = [meta EXCEPT !.seeded = TRUE, !.version = Latest]
  BY DEF Seed, NoJob
<1>2. /\ meta'.version = Latest /\ meta'.tables = meta.tables
      /\ meta'.tracked = meta.tracked /\ meta'.applied = meta.applied
      /\ meta'.failed = meta.failed
      /\ meta' \in [version : 0..Latest, tables : BOOLEAN, tracked : BOOLEAN,
                    applied : SUBSET Names("new"), failed : BOOLEAN, seeded : BOOLEAN]
  <2>1. Latest \in 0..Latest
    BY Numbers
  <2> QED BY <1>1, <2>1 DEF UpgradeInv, UpgradeTypeOK
<1>3. Pending(JobImage) = {} /\ 1 \in meta.applied /\ meta.tables
  BY <1>1, NamesNest DEF UpgradeInv, Stages, Pending
<1>4. /\ Turns' /\ job' = NoJob /\ box' \in {"none", "old", "new"} /\ serving' \in BOOLEAN
      /\ swap' \in {"idle", "stop", "migrate"}
  BY <1>1, <1>2, <1>3, SucceedsKeeps
<1>5. UpgradeTypeOK'
  BY <1>1, <1>2, <1>4 DEF UpgradeInv, UpgradeTypeOK, NoJob
<1>6. Tables'
  BY <1>1, <1>2, <1>3, Numbers, TablesNow DEF Tables, BaselineDue, BaselineFits
<1> QED BY <1>4, <1>5, <1>6, StagesOver DEF UpgradeInv

LEMMA DieKeeps == ASSUME UpgradeInv, Die PROVE UpgradeInv'
<1>1. /\ deaths < MaxDeaths /\ deaths' = deaths + 1 /\ UNCHANGED meta
      /\ halfway' = (halfway \/ job.at = "record") /\ halfway' \in BOOLEAN
  BY DEF Die
<1>2. deaths' \in 0..MaxDeaths /\ deaths' > 0
  BY <1>1, MetaFields, Numbers
<1>3. Tables'
  BY <1>1 DEF UpgradeInv, Stages, Tables, BaselineDue, BaselineFits
<1>4. CASE job # NoJob /\ Fails
  <2>1. /\ Turns' /\ job' = NoJob /\ box' \in {"none", "old", "new"} /\ serving' \in BOOLEAN
        /\ swap' \in {"idle", "stop", "migrate"}
    BY <1>4, FailsKeeps
  <2>2. UpgradeTypeOK'
    BY <1>1, <1>2, <2>1 DEF UpgradeInv, UpgradeTypeOK, NoJob
  <2> QED BY <1>3, <2>1, <2>2, StagesOver DEF UpgradeInv
<1>5. CASE serving /\ serving' = FALSE /\ UNCHANGED <<job, swap, box>>
  <2>1. job = NoJob
    BY <1>5 DEF UpgradeInv, Turns, ServesMigrated
  <2>2. UpgradeTypeOK'
    BY <1>1, <1>2, <1>5 DEF UpgradeInv, UpgradeTypeOK
  <2>3. Turns'
    BY <1>5 DEF UpgradeInv, Turns, ServesMigrated
  <2> QED BY <1>3, <1>5, <2>1, <2>2, <2>3, StagesOver DEF UpgradeInv
<1> QED BY <1>4, <1>5 DEF Die

LEMMA ApplyKeeps == ASSUME UpgradeInv, Apply PROVE UpgradeInv'
<1>1. /\ serving /\ box = "old" /\ swap = "idle" /\ swap' = "stop"
      /\ UNCHANGED <<meta, job, box, serving, halfway, deaths>>
  BY DEF Apply
<1>2. job = NoJob /\ NoJob.by = "nobody" /\ job.at = "status"
  BY <1>1 DEF UpgradeInv, Turns, ServesMigrated, NoJob
<1>3. UpgradeTypeOK'
  BY <1>1 DEF UpgradeInv, UpgradeTypeOK
<1>4. Turns'
  BY <1>1, <1>2 DEF UpgradeInv, Turns, ServesMigrated, Pending
<1>5. Tables'
  BY <1>1, <1>2, TablesNow DEF Tables, BaselineDue, BaselineFits
<1> QED BY <1>1, <1>2, <1>3, <1>4, <1>5, StagesOver DEF UpgradeInv

LEMMA StopAppKeeps == ASSUME UpgradeInv, StopApp PROVE UpgradeInv'
<1>1. /\ box' = "none" /\ serving' = FALSE /\ swap' = "migrate"
      /\ job' = [by |-> "oneshot", at |-> "status"] /\ UNCHANGED <<meta, deaths>>
      /\ halfway' = (halfway \/ job.at = "record") /\ halfway' \in BOOLEAN
  BY DEF StopApp, Stopped
<1>2. UpgradeTypeOK'
  BY <1>1 DEF UpgradeInv, UpgradeTypeOK
<1>3. Turns'
  BY <1>1 DEF Turns, ServesMigrated
<1>4. Tables'
  BY <1>1 DEF UpgradeInv, Stages, Tables, BaselineDue, BaselineFits
<1>5. Stages'
  BY <1>1, <1>4 DEF Stages, Tables
<1> QED BY <1>2, <1>3, <1>5 DEF UpgradeInv
-----------------------------------------------------------------------------
LEMMA UpgradeInvStep == UpgradeInv /\ [UpgradeNext]_upgradeVars => UpgradeInv'
<1> SUFFICES ASSUME UpgradeInv, [UpgradeNext]_upgradeVars PROVE UpgradeInv'
  OBVIOUS
<1>1. CASE UpgradeNext
  BY <1>1, BootKeeps, StatusKeeps, LegacyStepKeeps, ResolveKeeps, RecordBaselineKeeps, DeployKeeps,
     DeployBreaksKeeps, DeployedKeeps, SeedKeeps, DieKeeps, ApplyKeeps, StopAppKeeps
     DEF UpgradeNext
<1>2. CASE UNCHANGED upgradeVars
  BY <1>2 DEF upgradeVars, UpgradeInv, UpgradeTypeOK, Turns, Stages, ServesMigrated,
     BaselineDue, BaselineFits, Pending, JobImage
<1> QED BY <1>1, <1>2

LEMMA UpgradeInvHolds == UpgradeSpec => []UpgradeInv
BY UpgradeInvInit, UpgradeInvStep, PTL DEF UpgradeSpec

(* The database, the migration under way and the containers keep their      *)
(* shapes, whatever dies.                                                   *)
THEOREM UpgradeTypeCorrect == UpgradeSpec => []UpgradeTypeOK
<1>1. UpgradeInv => UpgradeTypeOK
  BY DEF UpgradeInv
<1> QED BY <1>1, UpgradeInvHolds, PTL

(* No app serves while a migration works or one of its image's migrations   *)
(* is missing (runMigrations, metaSchemaStatus, dockerSelfUpdate).          *)
THEOREM MigratedBeforeServing == UpgradeSpec => []ServesMigrated
<1>1. UpgradeInv => ServesMigrated
  BY DEF UpgradeInv, Turns
<1> QED BY <1>1, UpgradeInvHolds, PTL

(* The baseline is recorded only over tables it describes, and is not run   *)
(* into tables that are there unless a death fell between the two writes of *)
(* the resolve (runMigrations, prisma).                                     *)
THEOREM BaselineRunsOnce == UpgradeSpec => []BaselineOnce
<1>1. UpgradeInv => BaselineOnce
  BY DEF UpgradeInv, Stages, BaselineDue, BaselineFits, BaselineOnce, Collides
<1> QED BY <1>1, UpgradeInvHolds, PTL
-----------------------------------------------------------------------------
(***************************************************************************)
(* Why a destination stays while it is named: a deletion and the one that   *)
(* names it take turns, unless one decided on what it had read before       *)
(* (NobodyNames).  Why a mark is true: what a deletion has read or erased   *)
(* does not come back (MarksTrue).  Why what is gone is marked or was       *)
(* pruned: whoever deletes copies has the marks as they are (MarksHeld).    *)
(***************************************************************************)

(* A request that is to delete the destination found nobody naming it; who  *)
(* names it since is late.                                                  *)
NobodyNames == named /\ ~lateName => config # 0 /\ At("delete") = {}

(* The deletion of an artifact has the marks as they are, and is alone.     *)
Deleting(j) == task[j].at \in {"erase", "mark"}

MarksTrue == \A s \in objects :
  /\ s \notin marked
  /\ \A j \in Jobs :
       /\ Deleting(j) => s \notin task[j].marks
       /\ task[j].at = "mark" => s \notin task[j].store

Told(marks) == Stores \ objects \subseteq marks \cup pruned

MarksHeld == \A j \in Jobs : Deleting(j) =>
  /\ task[j].marks = marked
  /\ \A k \in Jobs : Deleting(k) => k = j
  /\ task[j].at = "erase" => Told(marked)
  /\ task[j].at = "mark" => Told(marked \cup task[j].store)

AllTold ==
  ~lateMark /\ ~dissolved => MarksHeld /\ ((\A j \in Jobs : ~Deleting(j)) => Told(marked))

DestInv ==
  DestTypeOK /\ ClientFollowsConfig /\ NobodyNames /\ MarksTrue /\ AllTold
-----------------------------------------------------------------------------
TaskType ==
  [at : {"idle", "use", "write", "forget", "delete", "erase", "mark"},
   row : 0..MaxConfigs, store : SUBSET Stores, marks : SUBSET Stores]

LEMMA NoTaskType == NoTask \in TaskType
BY DestAssumption DEF NoTask, TaskType

(* Who is at a step, once one request has moved on.                         *)
LEMMA TaskMoves ==
  ASSUME DestTypeOK, NEW j \in Jobs, NEW t \in TaskType, task' = [task EXCEPT ![j] = t]
  PROVE  /\ task' \in [Jobs -> TaskType]
         /\ task'[j] = t /\ \A k \in Jobs \ {j} : task'[k] = task[k]
         /\ \A step : At(step)' = (At(step) \ {j}) \cup (IF t.at = step THEN {j} ELSE {})
<1>1. task' \in [Jobs -> TaskType] /\ task'[j] = t /\ \A k \in Jobs \ {j} : task'[k] = task[k]
  BY DEF DestTypeOK, TaskType
<1>2. ASSUME NEW step
      PROVE  At(step)' = (At(step) \ {j}) \cup (IF t.at = step THEN {j} ELSE {})
  BY <1>1 DEF At
<1> QED BY <1>1, <1>2

(* Steps that leave the artifacts alone, of a request that is or was not    *)
(* deleting one.                                                            *)
LEMMA MarksStay ==
  ASSUME DestInv, NEW j \in Jobs, ~Deleting(j), ~Deleting(j)',
         \A k \in Jobs \ {j} : task'[k] = task[k],
         UNCHANGED <<objects, marked, pruned, dissolved, lateMark>>
  PROVE  MarksTrue' /\ AllTold'
<1>1. \A k \in Jobs : Deleting(k)' => k # j /\ Deleting(k) /\ task'[k] = task[k]
  BY DEF Deleting
<1>2. \A k \in Jobs : Deleting(k) => k # j /\ task'[k] = task[k] /\ Deleting(k)'
  BY DEF Deleting
<1>3. \A k \in Jobs : task'[k].at = "mark" => Deleting(k)'
  BY DEF Deleting
<1>4. MarksTrue'
  BY <1>1, <1>3 DEF DestInv, MarksTrue
<1>5. AllTold'
  <2> SUFFICES ASSUME ~lateMark, ~dissolved
               PROVE  MarksHeld' /\ ((\A k \in Jobs : ~Deleting(k)') => Told(marked)')
    BY DEF AllTold
  <2>1. MarksHeld'
    BY <1>1, <1>2 DEF DestInv, AllTold, MarksHeld, Told
  <2> QED BY <1>2, <2>1 DEF DestInv, AllTold, Told
<1> QED BY <1>4, <1>5

LEMMA DestInvInit == DestInit => DestInv
<1> SUFFICES ASSUME DestInit PROVE DestInv
  OBVIOUS
<1>1. DestTypeOK
  <2>1. task \in [Jobs -> TaskType]
    BY NoTaskType DEF DestInit
  <2>2. 0 \in 0..MaxConfigs /\ 1 \in 0..MaxConfigs
    BY DestAssumption
  <2> QED BY <2>1, <2>2 DEF DestInit, DestTypeOK, TaskType
<1>2. \A j \in Jobs : ~Deleting(j) /\ task[j].at = "idle"
  BY DEF DestInit, Deleting, NoTask
<1>3. MarksHeld /\ Told(marked) /\ MarksTrue
  BY <1>2 DEF DestInit, MarksHeld, Told, MarksTrue, Deleting
<1> QED BY <1>1, <1>2, <1>3 DEF DestInit, DestInv, AllTold, ClientFollowsConfig, NobodyNames

LEMMA GetStorageKeeps ==
  ASSUME DestInv, NEW j \in Jobs, NEW step \in {"use", "write", "delete"}, GetStorage(j, step)
  PROVE  DestInv'
<1>1. PICK t \in TaskType : t = [NoTask EXCEPT !.at = step, !.row = config]
  BY DestAssumption DEF NoTask, TaskType, DestInv, DestTypeOK
<1>2. /\ task' = [task EXCEPT ![j] = t] /\ task[j] = NoTask /\ t.at = step /\ config # 0
      /\ step = "delete" => ~named
      /\ UNCHANGED <<config, client, named, objects, marked, pruned, dissolved, lateClient, lateName, lateMark>>
  BY <1>1 DEF GetStorage, Takes, NoTask
<1>3. /\ task' \in [Jobs -> TaskType] /\ task'[j] = t /\ \A k \in Jobs \ {j} : task'[k] = task[k]
      /\ \A s : At(s)' = (At(s) \ {j}) \cup (IF t.at = s THEN {j} ELSE {})
  BY <1>2, TaskMoves DEF DestInv
<1>4. ~Deleting(j) /\ ~Deleting(j)'
  BY <1>2, <1>3 DEF Deleting, NoTask
<1>5. DestTypeOK'
  BY <1>2, <1>3 DEF DestInv, DestTypeOK, TaskType
<1>6. At("forget")' = At("forget")
  BY <1>2, <1>3 DEF At, NoTask
<1>7. ClientFollowsConfig'
  BY <1>2, <1>6 DEF DestInv, ClientFollowsConfig
<1>8. NobodyNames'
  <2>1. CASE step = "delete"
    BY <1>2, <2>1 DEF NobodyNames
  <2>2. CASE step # "delete"
    <3>1. At("delete")' \subseteq At("delete")
      BY <1>2, <1>3, <2>2
    <3> QED BY <1>2, <3>1 DEF DestInv, NobodyNames
  <2> QED BY <2>1, <2>2
<1> QED BY <1>2, <1>3, <1>4, <1>5, <1>7, <1>8, MarksStay DEF DestInv

(* The steps of a request that holds the row: it uses the client, writes or *)
(* deletes the row, drops the client.                                       *)
LEMMA HolderKeeps ==
  ASSUME DestInv, NEW j \in Jobs, UseClient(j) \/ UpdateStorage(j) \/ DeleteStorage(j) \/ ForgetS3Client(j)
  PROVE  DestInv'
<1>1. PICK t \in TaskType :
        /\ task' = [task EXCEPT ![j] = t]
        /\ t.at = IF task[j].at \in {"write", "delete"} THEN "forget" ELSE "idle"
  <2>1. CASE UseClient(j) \/ ForgetS3Client(j)
    BY <2>1, NoTaskType DEF UseClient, ForgetS3Client, Ends, NoTask
  <2>2. CASE UpdateStorage(j) \/ DeleteStorage(j)
    <3>1. [task[j] EXCEPT !.at = "forget"] \in TaskType
      BY DEF DestInv, DestTypeOK, TaskType
    <3>2. task' = [task EXCEPT ![j] = [task[j] EXCEPT !.at = "forget"]]
      BY <2>2 DEF UpdateStorage, DeleteStorage
    <3>3. [task[j] EXCEPT !.at = "forget"].at = "forget" /\ task[j].at \in {"write", "delete"}
      BY <2>2 DEF UpdateStorage, DeleteStorage, DestInv, DestTypeOK
    <3> QED BY <3>1, <3>2, <3>3
  <2> QED BY <2>1, <2>2
<1>2. /\ task' \in [Jobs -> TaskType] /\ task'[j] = t /\ \A k \in Jobs \ {j} : task'[k] = task[k]
      /\ \A s : At(s)' = (At(s) \ {j}) \cup (IF t.at = s THEN {j} ELSE {})
  BY <1>1, TaskMoves DEF DestInv
<1>3. /\ task[j].at \in {"use", "write", "delete", "forget"} /\ task[j].row \in 0..MaxConfigs
      /\ UNCHANGED <<named, objects, marked, pruned, dissolved, lateName, lateMark>>
  BY DEF UseClient, UpdateStorage, DeleteStorage, ForgetS3Client, DestInv, DestTypeOK
<1>4. ~Deleting(j) /\ ~Deleting(j)'
  BY <1>1, <1>2, <1>3 DEF Deleting
<1>5. /\ config' \in 0..MaxConfigs /\ client' \in 0..MaxConfigs /\ lateClient' \in BOOLEAN
      /\ config' # config => config # 0 /\ t.at = "forget"
      /\ config' = 0 /\ config # 0 => task[j].at = "delete"
  <2>1. config \in 0..MaxConfigs /\ client \in 0..MaxConfigs /\ lateClient \in BOOLEAN /\ MaxConfigs \in Nat
    BY DestAssumption DEF DestInv, DestTypeOK
  <2>2. CASE UseClient(j)
    BY <1>3, <2>1, <2>2 DEF UseClient
  <2>3. CASE UpdateStorage(j)
    <3>1. config' = (IF config = 0 THEN 0 ELSE config + 1) /\ UNCHANGED <<client, lateClient>>
          /\ config < MaxConfigs /\ t.at = "forget"
      BY <1>1, <2>3 DEF UpdateStorage
    <3>2. config' \in 0..MaxConfigs /\ (config' # config => config # 0) /\ (config' = 0 => config = 0)
      BY <2>1, <3>1
    <3> QED BY <2>1, <3>1, <3>2
  <2>4. CASE DeleteStorage(j)
    BY <1>1, <2>1, <2>4 DEF DeleteStorage
  <2>5. CASE ForgetS3Client(j)
    <3>1. config' = config /\ client' = 0 /\ lateClient' = FALSE /\ 0 \in 0..MaxConfigs
      BY <2>1, <2>5 DEF ForgetS3Client, Forgotten
    <3> QED BY <2>1, <3>1
  <2> QED BY <2>2, <2>3, <2>4, <2>5
<1>6. DestTypeOK'
  BY <1>2, <1>3, <1>5 DEF DestInv, DestTypeOK, TaskType
<1>7. ClientFollowsConfig'
  <2>1. CASE UseClient(j)
    <3>1. At("forget")' = At("forget")
      BY <1>1, <1>2, <2>1 DEF UseClient, At
    <3> QED BY <2>1, <3>1 DEF UseClient, DestInv, ClientFollowsConfig
  <2>2. CASE UpdateStorage(j) \/ DeleteStorage(j)
    <3>1. j \in At("forget")'
      BY <1>1, <1>2, <2>2 DEF UpdateStorage, DeleteStorage
    <3> QED BY <3>1 DEF ClientFollowsConfig
  <2>3. CASE ForgetS3Client(j)
    BY <2>3 DEF ForgetS3Client, Forgotten, ClientFollowsConfig
  <2> QED BY <2>1, <2>2, <2>3
<1>8. NobodyNames'
  <2>1. At("delete")' \subseteq At("delete")
    BY <1>1, <1>2
  <2>2. task[j].at = "delete" => At("delete") # {}
    BY DEF At
  <2> QED BY <1>3, <1>5, <2>1, <2>2 DEF DestInv, NobodyNames
<1> QED BY <1>2, <1>3, <1>4, <1>6, <1>7, <1>8, MarksStay DEF DestInv

LEMMA NamesKeep ==
  ASSUME DestInv, NameStorage \/ DropName PROVE DestInv'
<1>1. UNCHANGED <<config, client, objects, marked, pruned, dissolved, task, lateClient, lateMark>>
  BY DEF NameStorage, DropName
<1>2. named' \in BOOLEAN /\ lateName' \in BOOLEAN
  BY DEF NameStorage, DropName, DestInv, DestTypeOK
<1>3. NobodyNames'
  BY <1>1 DEF NameStorage, DropName, NobodyNames, At
<1>4. MarksTrue' /\ AllTold'
  BY <1>1 DEF DestInv, MarksTrue, AllTold, MarksHeld, Told, Deleting
<1> QED BY <1>1, <1>2, <1>3, <1>4 DEF DestInv, DestTypeOK, ClientFollowsConfig, At

LEMMA DissolveWorkspaceKeeps ==
  ASSUME DestInv, NEW elsewhere \in BOOLEAN, DissolveWorkspace(elsewhere) PROVE DestInv'
<1>1. /\ dissolved' = TRUE /\ config' = 0 /\ lateClient' = (client # 0)
      /\ named' = (named /\ elsewhere) /\ lateName' = (lateName \/ named')
      /\ UNCHANGED <<client, objects, marked, pruned, task, lateMark>>
  BY DEF DissolveWorkspace
<1>2. named' \in BOOLEAN /\ lateName' \in BOOLEAN /\ lateClient' \in BOOLEAN /\ dissolved' \in BOOLEAN
  BY <1>1
<1>3. 0 \in 0..MaxConfigs
  BY DestAssumption
<1>4. DestTypeOK'
  BY <1>1, <1>2, <1>3 DEF DestInv, DestTypeOK
<1>5. ClientFollowsConfig' /\ NobodyNames'
  BY <1>1 DEF ClientFollowsConfig, NobodyNames
<1>6. MarksTrue' /\ AllTold'
  BY <1>1 DEF DestInv, MarksTrue, AllTold, Deleting
<1> QED BY <1>4, <1>5, <1>6 DEF DestInv

LEMMA PruneKeeps ==
  ASSUME DestInv, NEW s \in Stores, PruneOldBackups(s) PROVE DestInv'
<1>1. /\ objects' = objects \ {s} /\ pruned' = pruned \cup ({s} \cap objects)
      /\ UNCHANGED <<config, client, named, marked, dissolved, task, lateClient, lateName, lateMark>>
  BY DEF PruneOldBackups
<1>2. DestTypeOK'
  <2>1. objects' \subseteq Stores /\ pruned' \subseteq Stores
    BY <1>1 DEF DestInv, DestTypeOK
  <2> QED BY <1>1, <2>1 DEF DestInv, DestTypeOK
<1>3. ClientFollowsConfig' /\ NobodyNames'
  BY <1>1 DEF DestInv, ClientFollowsConfig, NobodyNames, At
<1>4. \A marks : Told(marks) => Stores \ objects' \subseteq marks \cup pruned'
  BY <1>1 DEF Told
<1>5. MarksTrue'
  <2>1. objects' \subseteq objects
    BY <1>1
  <2> QED BY <1>1, <2>1 DEF DestInv, MarksTrue, Deleting
<1>6. AllTold'
  <2> SUFFICES ASSUME ~lateMark, ~dissolved
               PROVE  MarksHeld' /\ ((\A k \in Jobs : ~Deleting(k)') => Told(marked)')
    BY <1>1 DEF AllTold
  <2>1. MarksHeld /\ ((\A k \in Jobs : ~Deleting(k)) => Told(marked))
    BY DEF DestInv, AllTold
  <2>2. \A k \in Jobs : Deleting(k)' <=> Deleting(k)
    BY <1>1 DEF Deleting
  <2>3. Told(marked) => Told(marked)'
    BY <1>1, <1>4 DEF Told
  <2>4. \A k \in Jobs : Told(marked \cup task[k].store) => Told(marked \cup task[k].store)'
    BY <1>1, <1>4 DEF Told
  <2>5. MarksHeld'
    BY <1>1, <2>1, <2>2, <2>3, <2>4 DEF MarksHeld
  <2> QED BY <2>1, <2>2, <2>3, <2>5
<1> QED BY <1>2, <1>3, <1>5, <1>6 DEF DestInv

(* The deletion of an artifact.  It moves between its own steps, and leaves *)
(* the row, the client and the names alone.                                 *)
LEMMA ArtifactKeeps ==
  ASSUME DestInv, NEW j \in Jobs, NEW t \in TaskType, task' = [task EXCEPT ![j] = t],
         t.at \in {"idle", "erase", "mark"}, task[j].at \in {"idle", "erase", "mark"},
         objects' \subseteq objects, marked' \subseteq Stores, lateMark' \in BOOLEAN,
         UNCHANGED <<config, client, named, pruned, dissolved, lateClient, lateName>>,
         (\A s \in objects' : s \notin marked'),
         t.at # "idle" => (\A s \in objects' : s \notin t.marks),
         t.at = "mark" => (\A s \in objects' : s \notin t.store),
         ~lateMark' /\ ~dissolved =>
           /\ \A k \in Jobs \ {j} : ~Deleting(k)
           /\ t.at # "idle" => t.marks = marked'
           /\ t.at \in {"idle", "erase"} => Told(marked)'
           /\ t.at = "mark" => Told(marked \cup t.store)'
  PROVE  DestInv'
<1>1. /\ task' \in [Jobs -> TaskType] /\ task'[j] = t /\ \A k \in Jobs \ {j} : task'[k] = task[k]
      /\ \A s : At(s)' = (At(s) \ {j}) \cup (IF t.at = s THEN {j} ELSE {})
  BY TaskMoves DEF DestInv
<1>2. DestTypeOK'
  BY <1>1 DEF DestInv, DestTypeOK, TaskType
<1>3. At("forget")' = At("forget") /\ At("delete")' = At("delete")
  BY <1>1 DEF At
<1>4. ClientFollowsConfig' /\ NobodyNames'
  BY <1>3 DEF DestInv, ClientFollowsConfig, NobodyNames
<1>5. MarksTrue'
  <2>1. \A k \in Jobs \ {j} : (Deleting(k)' => Deleting(k)) /\ task'[k] = task[k]
    BY <1>1 DEF Deleting
  <2>2. Deleting(j)' => t.at # "idle"
    BY <1>1 DEF Deleting
  <2>3. ASSUME NEW k \in Jobs \ {j}, NEW s \in objects'
        PROVE  /\ Deleting(k)' => s \notin task'[k].marks
               /\ task'[k].at = "mark" => s \notin task'[k].store
    <3>1. s \in objects /\ k \in Jobs /\ task'[k] = task[k] /\ (Deleting(k)' => Deleting(k))
      BY <2>1
    <3>2. Deleting(k) => s \notin task[k].marks
      BY <3>1 DEF DestInv, MarksTrue, Deleting
    <3>3. task[k].at = "mark" => s \notin task[k].store
      BY <3>1 DEF DestInv, MarksTrue, Deleting
    <3> QED BY <3>1, <3>2, <3>3
  <2>4. ASSUME NEW s \in objects'
        PROVE  /\ Deleting(j)' => s \notin task'[j].marks
               /\ task'[j].at = "mark" => s \notin task'[j].store
    BY <1>1, <2>2
  <2> QED BY <2>3, <2>4 DEF MarksTrue
<1>6. AllTold'
  <2> SUFFICES ASSUME ~lateMark', ~dissolved
               PROVE  MarksHeld' /\ ((\A k \in Jobs : ~Deleting(k)') => Told(marked)')
    BY DEF AllTold
  <2>1. \A k \in Jobs : Deleting(k)' => k = j
    BY <1>1 DEF Deleting
  <2>2. Deleting(j)' <=> t.at # "idle"
    BY <1>1 DEF Deleting
  <2>3. t.at = "mark" => Told(marked \cup task[j].store)'
    BY <1>1 DEF Told
  <2>4. MarksHeld'
    BY <1>1, <2>1, <2>2, <2>3 DEF MarksHeld
  <2> QED BY <2>2, <2>4
<1> QED BY <1>2, <1>4, <1>5, <1>6 DEF DestInv

LEMMA FindRunUploadKeeps ==
  ASSUME DestInv, NEW j \in Jobs, NEW s \in Stores, FindRunUpload(j, s) PROVE DestInv'
<1>1. PICK t \in TaskType : t = [NoTask EXCEPT !.at = "erase", !.store = {s}, !.marks = marked]
  <2>1. marked \subseteq Stores /\ {s} \subseteq Stores /\ 0 \in 0..MaxConfigs
    BY DestAssumption DEF DestInv, DestTypeOK
  <2>2. [NoTask EXCEPT !.at = "erase", !.store = {s}, !.marks = marked] \in TaskType
    BY <2>1, NoTaskType DEF TaskType
  <2> QED BY <2>2
<1>2. /\ task' = [task EXCEPT ![j] = t] /\ task[j].at = "idle" /\ t.at = "erase" /\ t.marks = marked
      /\ lateMark' = (lateMark \/ At("erase") \cup At("mark") # {})
      /\ UNCHANGED <<config, client, named, objects, marked, pruned, dissolved, lateClient, lateName>>
  BY <1>1 DEF FindRunUpload, NoTask
<1>3. objects' \subseteq objects /\ marked' \subseteq Stores /\ lateMark' \in BOOLEAN
      /\ (\A r \in objects : r \notin marked)
  BY <1>2 DEF DestInv, DestTypeOK, MarksTrue
<1>4. ASSUME ~lateMark', ~dissolved
      PROVE  (\A k \in Jobs : ~Deleting(k)) /\ Told(marked)'
  <2>1. ~lateMark /\ At("erase") = {} /\ At("mark") = {}
    BY <1>2, <1>4
  <2>2. \A k \in Jobs : ~Deleting(k)
    BY <2>1 DEF At, Deleting
  <2> QED BY <1>2, <1>4, <2>1, <2>2 DEF DestInv, AllTold, Told
<1> QED BY <1>2, <1>3, <1>4, ArtifactKeeps

LEMMA DeleteObjectsKeeps ==
  ASSUME DestInv, NEW j \in Jobs, NEW ok \in BOOLEAN, DeleteObjects(j, ok) PROVE DestInv'
<1>1. /\ task[j].at = "erase" /\ objects' = IF ok THEN objects \ task[j].store ELSE objects
      /\ UNCHANGED <<config, client, named, marked, pruned, dissolved, lateClient, lateName, lateMark>>
  BY DEF DeleteObjects
<1>2. PICK t \in TaskType :
        /\ task' = [task EXCEPT ![j] = t]
        /\ IF ok THEN t.at = "mark" /\ t.marks = task[j].marks /\ t.store = task[j].store ELSE t.at = "idle"
  <2>1. CASE ok
    <3>1. PICK t \in TaskType : t = [task[j] EXCEPT !.at = "mark"]
      BY DEF DestInv, DestTypeOK, TaskType
    <3>2. t.at = "mark" /\ t.marks = task[j].marks /\ t.store = task[j].store
      BY <3>1 DEF DestInv, DestTypeOK
    <3>3. task' = [task EXCEPT ![j] = t]
      BY <2>1, <3>1 DEF DeleteObjects
    <3> QED BY <2>1, <3>2, <3>3
  <2>2. CASE ~ok
    BY <2>2, NoTaskType DEF DeleteObjects, Ends, NoTask
  <2> QED BY <2>1, <2>2
<1>3. /\ objects' \subseteq objects /\ marked' \subseteq Stores /\ lateMark' \in BOOLEAN
      /\ (\A s \in objects' : s \notin marked') /\ (\A s \in objects' : s \notin task[j].marks)
  <2>1. objects' \subseteq objects /\ marked' \subseteq Stores /\ lateMark' \in BOOLEAN
    BY <1>1 DEF DestInv, DestTypeOK
  <2>2. Deleting(j)
    BY <1>1 DEF Deleting
  <2>3. \A s \in objects : s \notin marked /\ s \notin task[j].marks
    BY <2>2 DEF DestInv, MarksTrue, Deleting
  <2> QED BY <1>1, <2>1, <2>3
<1>4. ASSUME ~lateMark, ~dissolved
      PROVE  /\ \A k \in Jobs \ {j} : ~Deleting(k)
             /\ task[j].marks = marked /\ Told(marked)
  BY <1>1, <1>4 DEF DestInv, AllTold, MarksHeld, Deleting
<1>5. CASE ok
  <2>1. Told(marked) => Told(marked \cup t.store)'
    BY <1>1, <1>2, <1>5 DEF Told
  <2>2. (\A s \in objects' : s \notin t.store)
    BY <1>1, <1>2, <1>5
  <2> QED BY <1>1, <1>2, <1>3, <1>4, <1>5, <2>1, <2>2, ArtifactKeeps
<1>6. CASE ~ok
  <2>1. Told(marked) => Told(marked)'
    BY <1>1, <1>6 DEF Told
  <2> QED BY <1>1, <1>2, <1>3, <1>4, <1>6, <2>1, ArtifactKeeps
<1> QED BY <1>5, <1>6

LEMMA MarkKeeps ==
  ASSUME DestInv, NEW j \in Jobs, MarkRunUploadDeleted(j) PROVE DestInv'
<1>1. /\ task[j].at = "mark" /\ task' = [task EXCEPT ![j] = NoTask]
      /\ marked' = IF dissolved THEN marked ELSE task[j].marks \cup task[j].store
      /\ UNCHANGED <<config, client, named, objects, pruned, dissolved, lateClient, lateName, lateMark>>
  BY DEF MarkRunUploadDeleted, Marks, Ends
<1>2. /\ objects' \subseteq objects /\ marked' \subseteq Stores /\ lateMark' \in BOOLEAN
      /\ NoTask.at = "idle"
  BY <1>1 DEF DestInv, DestTypeOK, NoTask
<1>3. (\A s \in objects' : s \notin marked')
  <2>0. Deleting(j)
    BY <1>1 DEF Deleting
  <2>1. \A s \in objects : s \notin marked /\ s \notin task[j].marks /\ s \notin task[j].store
    BY <1>1, <2>0 DEF DestInv, MarksTrue, Deleting
  <2> QED BY <1>1, <2>1
<1>4. ASSUME ~lateMark, ~dissolved
      PROVE  (\A k \in Jobs \ {j} : ~Deleting(k)) /\ Told(marked)'
  BY <1>1, <1>4 DEF DestInv, AllTold, MarksHeld, Deleting, Told
<1> QED BY <1>1, <1>2, <1>3, <1>4, NoTaskType, ArtifactKeeps

LEMMA DestInvStep == DestInv /\ [DestNext]_destVars => DestInv'
<1> SUFFICES ASSUME DestInv, [DestNext]_destVars PROVE DestInv'
  OBVIOUS
<1>1. CASE UNCHANGED destVars
  BY <1>1 DEF destVars, DestInv, DestTypeOK, ClientFollowsConfig, NobodyNames, At, MarksTrue,
     AllTold, MarksHeld, Told, Deleting
<1>2. ASSUME NEW j \in Jobs, \E step \in {"use", "write", "delete"} : GetStorage(j, step) PROVE DestInv'
  BY <1>2, GetStorageKeeps
<1>3. ASSUME NEW j \in Jobs, UseClient(j) \/ UpdateStorage(j) \/ DeleteStorage(j) \/ ForgetS3Client(j)
      PROVE  DestInv'
  BY <1>3, HolderKeeps
<1>4. ASSUME NEW j \in Jobs, \E s \in Stores : FindRunUpload(j, s) PROVE DestInv'
  BY <1>4, FindRunUploadKeeps
<1>5. ASSUME NEW j \in Jobs, \E ok \in BOOLEAN : DeleteObjects(j, ok) PROVE DestInv'
  BY <1>5, DeleteObjectsKeeps
<1>6. ASSUME NEW j \in Jobs, MarkRunUploadDeleted(j) PROVE DestInv'
  BY <1>6, MarkKeeps
<1>7. CASE NameStorage \/ DropName
  BY <1>7, NamesKeep
<1>8. CASE \E elsewhere \in BOOLEAN : DissolveWorkspace(elsewhere)
  BY <1>8, DissolveWorkspaceKeeps
<1>9. CASE \E s \in Stores : PruneOldBackups(s)
  BY <1>9, PruneKeeps
<1> QED BY <1>1, <1>2, <1>3, <1>4, <1>5, <1>6, <1>7, <1>8, <1>9 DEF DestNext

LEMMA DestInvariance == DestSpec => []DestInv
BY DestInvInit, DestInvStep, PTL DEF DestSpec

(* Rows, clients, artifacts and requests keep their shapes.                 *)
THEOREM DestTypeCorrect == DestSpec => []DestTypeOK
<1>1. DestInv => DestTypeOK
  BY DEF DestInv
<1> QED BY <1>1, DestInvariance, PTL

(* For any number of requests, edits and stores: what is read of a          *)
(* destination is of it as it is now, but where a request came late; a mark *)
(* is never untrue, and what is gone without one was pruned, deleted        *)
(* together with another, or of a workspace that is gone (storage.js,       *)
(* forgetS3Client, isStorageInUse and pruneOldBackups; history.js).         *)
THEOREM DestinationsStay == DestSpec => []DestinationsHold
<1>1. DestInv => DestinationsHold
  <2>1. ASSUME DestInv PROVE HistoryTellsGone
    <3>1. SUFFICES ASSUME ~lateMark, ~dissolved, At("mark") = {} PROVE Told(marked)
      BY <2>1 DEF HistoryTellsGone, DestInv, MarksTrue, Told
    <3>2. \A j \in Jobs : task[j].at # "mark"
      BY <3>1 DEF At
    <3> QED BY <2>1, <3>1, <3>2 DEF DestInv, AllTold, MarksHeld, Deleting
  <2> QED BY <2>1 DEF DestInv, NobodyNames, NamedStays, DestinationsHold
<1> QED BY <1>1, DestInvariance, PTL
-----------------------------------------------------------------------------
(***************************************************************************)
(* Why nothing is left open and edits take hold.  A caller inside a tunnel  *)
(* is in the current one, in its own test's, or in one known to have been   *)
(* let go of too early (CallerHolds); what a pool was made from has         *)
(* answered, so that only edits take its tunnel away (PoolHolds); an edit   *)
(* writes back the key it read, the current host's (KeyHolds).              *)
(***************************************************************************)

(* The caller is in a tunnel.                                               *)
Inside(c) == caller[c].at \in {"listening", "login", "reached"}
Answered == {"up", "closed"}

Numbered == \E n \in 0..MaxTunnels : Opened = 1..n

(* What a caller has read; where it is in a tunnel, one of its own gateway  *)
(* row: a test's own, the current one, or one let go of around it.          *)
CallerHolds(c) ==
  LET x == caller[c]
      t == x.tunnel
  IN  /\ x.at # "idle" => x.conn \in Versions /\ x.target \in Versions
      /\ x.at \notin {"idle", "row"} => x.gate \in Versions /\ x.host \in Versions
      /\ Inside(c) =>
           /\ t \in Opened /\ tunnel[t].gate = x.gate
           /\ IF x.test THEN t # current /\ On(t) = {c} ELSE t = current \/ t \in tunnelCrossed
      /\ x.at \in {"login", "reached"} => tunnel[t].listener \in Answered

PoolHolds == pool # NoPool =>
  /\ pool.tunnel \in Opened /\ tunnel[pool.tunnel].listener \in Answered
  /\ ~poolCrossed =>
       /\ pool.tunnel = current
       /\ editor.at # "saved" => pool.conn = rows.conn /\ tunnel[current].gate = rows.gate

(* The key on record is the current host's, and so is what an edit that has *)
(* read it will write back.                                                 *)
KeyHolds == ~keyCrossed =>
  /\ hostKey # 0 => hostKey = rows.host
  /\ editor.at = "read" /\ editor.key # 0 => editor.key = rows.host

EditHolds ==
  /\ \A r \in {"conn", "target", "gate", "host"} : rows[r] <= edits + (IF editor.at = "read" THEN 0 ELSE 1)
  /\ editor.at = "read" => editor.what \in {{"conn"}, {"conn", "target"}, {"gate"}, {"gate", "host"}}

(* A tunnel that is open, and can still be found or has been let go of too  *)
(* early.                                                                   *)
Quiet(t) == tunnel[t].listener \in {"failed", "closed"} /\ tunnel[t].ssh = "none"

TunnelInv ==
  /\ TunnelTypeOK /\ Numbered
  /\ \A c \in Callers : CallerHolds(c)
  /\ NothingLeftOpen /\ PoolHolds /\ KeyHolds /\ EditHolds
-----------------------------------------------------------------------------
LEMMA TunnelParts ==
  ASSUME TunnelInv
  PROVE  /\ TunnelTypeOK /\ Numbered /\ NothingLeftOpen /\ PoolHolds /\ KeyHolds /\ EditHolds
         /\ \A c \in Callers : CallerHolds(c)
         /\ \A t \in Opened : InUse(t) \/ t \in tunnelCrossed \/ Quiet(t)
BY DEF TunnelInv, NothingLeftOpen, Quiet

LEMMA TunnelTypes ==
  ASSUME TunnelTypeOK
  PROVE  /\ \A t \in Opened : /\ tunnel[t] \in TunnelType /\ t \in Tunnels /\ t # 0
                              /\ tunnel[t].gate \in Versions /\ tunnel[t].host \in Versions
                              /\ tunnel[t].key \in 0..(MaxEdits + 1)
                              /\ tunnel[t].listener \in {"opening", "up", "failed", "closed"}
                              /\ tunnel[t].ssh \in {"none", "login", "up"}
         /\ \A c \in Callers : /\ caller[c] \in CallerType /\ caller[c].test \in BOOLEAN
                               /\ caller[c].tunnel \in {0} \cup Opened
         /\ Versions \subseteq 0..(MaxEdits + 1)
         /\ rows.conn \in Versions /\ rows.target \in Versions
         /\ rows.gate \in Versions /\ rows.host \in Versions
BY TunnelAssumption DEF TunnelTypeOK, TunnelType, CallerType, Tunnels, Versions

LEMMA IdleIsCaller ==
  IdleCaller \in CallerType /\ IdleCaller.at = "idle" /\ IdleCaller.tunnel = 0
BY TunnelAssumption DEF IdleCaller, CallerType

LEMMA CallerMoves ==
  ASSUME TunnelTypeOK, NEW c \in Callers, NEW x \in CallerType, caller' = [caller EXCEPT ![c] = x]
  PROVE  /\ caller' \in [Callers -> CallerType]
         /\ caller'[c] = x /\ \A d \in Callers \ {c} : caller'[d] = caller[d]
BY DEF TunnelTypeOK

LEMMA ClosedIs ==
  ASSUME NEW x \in TunnelType
  PROVE  /\ Closed(x) \in TunnelType
         /\ Closed(x).gate = x.gate
         /\ Closed(x).listener = (IF x.listener = "up" THEN "closed" ELSE x.listener)
         /\ Closed(x).ssh = (IF x.ssh = "up" THEN "none" ELSE x.ssh)
BY DEF Closed, TunnelType

(* The tunnels are still there, of the same gateway row, and answer if they *)
(* did; a caller is out, or where it was.                                   *)
TunnelsKept ==
  /\ Opened \subseteq Opened' /\ tunnelCrossed \subseteq tunnelCrossed'
  /\ \A u \in Opened : /\ tunnel'[u].gate = tunnel[u].gate
                       /\ tunnel[u].listener \in Answered => tunnel'[u].listener \in Answered

Follows(d) ==
  \/ caller'[d].at = "idle"
  \/ /\ caller[d].at # "idle"
     /\ caller'[d].at \notin {"idle", "row"} => caller[d].at \notin {"idle", "row"}
     /\ Inside(d)' => Inside(d)
     /\ caller'[d].at \in {"login", "reached"} => caller[d].at \in {"login", "reached"}
     /\ caller'[d].conn = caller[d].conn /\ caller'[d].target = caller[d].target /\ caller'[d].gate = caller[d].gate
     /\ caller'[d].host = caller[d].host /\ caller'[d].tunnel = caller[d].tunnel
     /\ caller'[d].test = caller[d].test

(* A caller c does something, perhaps comes into a tunnel; the others       *)
(* follow.  Who is in the current tunnel as it changes crosses that.        *)
LEMMA CallersKeep ==
  ASSUME TunnelInv, TunnelsKept, NEW c,
         \A d \in Callers \ {c} : Follows(d),
         current' \in {current, 0} \/ current' \notin Opened,
         current' # current =>
           \A d \in Callers \ {c} : Inside(d)' /\ caller'[d].tunnel = current => current \in tunnelCrossed',
         c \in Callers =>
           /\ CallerHolds(c)'
           /\ \A d \in Callers \ {c} :
                Inside(c)' /\ Inside(d) /\ caller[d].test => caller[d].tunnel # caller'[c].tunnel
  PROVE  \A d \in Callers : CallerHolds(d)'
<1>1. SUFFICES ASSUME NEW d \in Callers, d # c PROVE CallerHolds(d)'
  OBVIOUS
<1>2. Follows(d) /\ CallerHolds(d)
  BY <1>1 DEF TunnelInv
<1>3. CASE caller'[d].at = "idle"
  BY <1>3 DEF CallerHolds, Inside
<1>4. CASE caller'[d].at # "idle"
  <2>0. PICK t : t = caller[d].tunnel
    OBVIOUS
  <2>1. /\ caller[d].at # "idle"
        /\ caller'[d].at \notin {"idle", "row"} => caller[d].at \notin {"idle", "row"}
        /\ Inside(d)' => Inside(d)
        /\ caller'[d].at \in {"login", "reached"} => caller[d].at \in {"login", "reached"}
        /\ caller'[d].conn = caller[d].conn /\ caller'[d].target = caller[d].target /\ caller'[d].gate = caller[d].gate
        /\ caller'[d].host = caller[d].host /\ caller'[d].tunnel = t
        /\ caller'[d].test = caller[d].test
    BY <1>2, <1>4, <2>0 DEF Follows
  <2>2. Inside(d) => t \in Opened /\ t \in Opened' /\ tunnel'[t].gate = tunnel[t].gate
    BY <1>2, <2>0 DEF CallerHolds, TunnelsKept
  <2>3. caller'[d].at \in {"login", "reached"} => tunnel'[t].listener \in Answered
    BY <1>2, <2>0, <2>1, <2>2 DEF CallerHolds, TunnelsKept, Inside
  <2>4. ASSUME Inside(d)', caller[d].test PROVE t # current' /\ On(t)' = {d}
    <3>1. Inside(d) /\ t # current /\ On(t) = {d} /\ t \in Opened /\ t # 0
      BY <1>2, <2>0, <2>1, <2>2, <2>4, TunnelTypes DEF CallerHolds, TunnelInv
    <3>2. d \in On(t)'
      BY <2>1, <2>4 DEF On, Inside
    <3>3. ASSUME NEW e \in Callers, e \in On(t)' PROVE e = d
      <4>1. caller'[e].at \in {"listening", "login", "reached"} /\ caller'[e].tunnel = t
        BY <3>3 DEF On
      <4>2. Inside(e)'
        BY <4>1 DEF Inside
      <4>3. CASE e = c
        BY <1>1, <2>0, <2>4, <3>1, <4>1, <4>3 DEF Inside
      <4>4. CASE e # c
        <5>1. Inside(e) /\ caller[e].tunnel = t
          BY <4>1, <4>2, <4>4 DEF Follows
        <5>2. e \in On(t)
          BY <5>1 DEF On, Inside
        <5> QED BY <3>1, <5>2
      <4> QED BY <4>3, <4>4
    <3>4. On(t)' = {d}
      BY <3>2, <3>3 DEF On
    <3> QED BY <3>1, <3>4
  <2>5. ASSUME Inside(d)', ~caller[d].test PROVE t = current' \/ t \in tunnelCrossed'
    BY <1>1, <1>2, <2>0, <2>1, <2>5 DEF CallerHolds, TunnelsKept
  <2>6. caller[d].test \in BOOLEAN
    BY TunnelTypes DEF TunnelInv
  <2> QED BY <1>2, <2>0, <2>1, <2>2, <2>3, <2>4, <2>5, <2>6 DEF CallerHolds, Inside, On
<1> QED BY <1>3, <1>4

(* Tunnels that a step does not touch are left as they should be.           *)
Left(u) == InUse(u) \/ u \in tunnelCrossed \/ Quiet(u)

LEMMA OthersLeft ==
  ASSUME TunnelInv, tunnelCrossed \subseteq tunnelCrossed', NEW T, Opened' \subseteq Opened \cup T,
         \A u \in Opened \ T : tunnel'[u] = tunnel[u] /\ (u = current => u = current'),
         \A d \in Callers : Inside(d) /\ caller[d].test /\ caller[d].tunnel \notin T =>
           Inside(d)' /\ caller'[d].test /\ caller'[d].tunnel = caller[d].tunnel,
         \A u \in Opened' \cap T : Left(u)'
  PROVE  NothingLeftOpen'
<1>1. ASSUME NEW u \in Opened' PROVE Left(u)'
  <2>1. CASE u \in T
    BY <2>1
  <2>2. CASE u \notin T
    <3>1. u \in Opened /\ tunnel'[u] = tunnel[u] /\ (u = current => u = current')
      BY <2>2
    <3>2. Left(u)
      BY <3>1 DEF TunnelInv, NothingLeftOpen, Left, Quiet
    <3>3. InUse(u) => InUse(u)'
      <4>1. ASSUME NEW d \in Callers, d \in On(u), caller[d].test
            PROVE  d \in On(u)' /\ caller'[d].test
        <5>1. Inside(d) /\ caller[d].tunnel = u
          BY <4>1 DEF On, Inside
        <5>2. Inside(d)' /\ caller'[d].test /\ caller'[d].tunnel = u
          BY <2>2, <4>1, <5>1
        <5> QED BY <5>2 DEF On, Inside
      <4> QED BY <3>1, <4>1 DEF InUse, On
    <3> QED BY <3>1, <3>2, <3>3 DEF Left, Quiet
  <2> QED BY <2>1, <2>2
<1> QED BY <1>1 DEF NothingLeftOpen, Left, Quiet

LEMMA PoolStays ==
  ASSUME TunnelInv, TunnelsKept, UNCHANGED <<pool, poolCrossed, rows>>,
         editor'.at = "saved" \/ editor.at # "saved",
         current' = current \/ pool = NoPool \/ poolCrossed
  PROVE  PoolHolds'
BY DEF TunnelInv, PoolHolds, TunnelsKept

LEMMA EditsStay ==
  ASSUME TunnelInv, UNCHANGED <<rows, hostKey, editor, edits, keyCrossed>>
  PROVE  KeyHolds' /\ EditHolds'
BY DEF TunnelInv, KeyHolds, EditHolds

LEMMA TunnelInvInit == TunnelInit => TunnelInv
<1> SUFFICES ASSUME TunnelInit PROVE TunnelInv
  OBVIOUS
<1>1. Opened = 1..0 /\ Opened = {} /\ tunnel \in [Opened -> TunnelType]
  BY DEF TunnelInit, Opened
<1>2. 1 \in Versions /\ 0 \in 0..(MaxEdits + 1) /\ 0 \in 0..MaxTunnels /\ 0 \in 0..MaxEdits
  BY TunnelAssumption DEF Versions
<1>3. \A c \in Callers : caller[c] = IdleCaller
  BY DEF TunnelInit
<1>4. TunnelTypeOK
  <2>1. caller \in [Callers -> CallerType] /\ \A c \in Callers : caller[c].tunnel \in {0} \cup Opened
    BY <1>3, IdleIsCaller DEF TunnelInit
  <2>2. rows \in [conn : Versions, target : Versions, gate : Versions, host : Versions] /\ hostKey \in 0..(MaxEdits + 1)
    BY <1>2 DEF TunnelInit
  <2> QED BY <1>1, <1>2, <2>1, <2>2 DEF TunnelInit, TunnelTypeOK, NoPool, NoEditor
<1>5. \A c \in Callers : CallerHolds(c)
  BY <1>3, IdleIsCaller DEF CallerHolds, Inside
<1>6. NothingLeftOpen /\ PoolHolds /\ KeyHolds /\ Numbered
  <2>1. NothingLeftOpen
    BY <1>1 DEF NothingLeftOpen
  <2>2. PoolHolds /\ KeyHolds
    BY DEF TunnelInit, PoolHolds, KeyHolds, NoEditor
  <2>3. Numbered
    BY <1>1, <1>2 DEF Numbered
  <2> QED BY <2>1, <2>2, <2>3
<1>7. EditHolds
  BY DEF TunnelInit, EditHolds, NoEditor
<1> QED BY <1>4, <1>5, <1>6, <1>7 DEF TunnelInv

(* A caller reads, or comes into a tunnel that is there.                    *)
LEMMA CallerStepKeeps ==
  ASSUME TunnelInv, NEW c \in Callers, NEW x \in CallerType, caller' = [caller EXCEPT ![c] = x],
         x.tunnel \in {0} \cup Opened, CallerHolds(c)', ~Inside(c),
         \A d \in Callers \ {c} : Inside(c)' /\ Inside(d) /\ caller[d].test => caller[d].tunnel # x.tunnel,
         UNCHANGED <<rows, hostKey, tunnel, current, pool, editor, edits, tunnelCrossed, poolCrossed, keyCrossed>>
  PROVE  TunnelInv'
<1>1. /\ caller' \in [Callers -> CallerType]
      /\ caller'[c] = x /\ \A d \in Callers \ {c} : caller'[d] = caller[d]
  BY CallerMoves DEF TunnelInv
<1>2. TunnelsKept /\ Opened' = Opened
  BY DEF TunnelsKept, Opened
<1>3. TunnelTypeOK'
  BY <1>1, <1>2 DEF TunnelInv, TunnelTypeOK
<1>4. \A d \in Callers \ {c} : Follows(d) /\ (Inside(d) <=> Inside(d)')
  BY <1>1 DEF Follows, Inside
<1>5. \A d \in Callers : CallerHolds(d)'
  <2>1. \A d \in Callers \ {c} :
          Inside(c)' /\ Inside(d) /\ caller[d].test => caller[d].tunnel # caller'[c].tunnel
    BY <1>1
  <2>2. current' = current
    OBVIOUS
  <2> QED BY <1>1, <1>2, <1>4, <2>1, <2>2, CallersKeep
<1>6. NothingLeftOpen'
  <2>1. \A d \in Callers : Inside(d) =>
          Inside(d)' /\ caller'[d].test = caller[d].test /\ caller'[d].tunnel = caller[d].tunnel
    BY <1>1, <1>4
  <2>2. PICK T : T = {}
    OBVIOUS
  <2>3. /\ \A u \in Opened \ T : tunnel'[u] = tunnel[u] /\ (u = current => u = current')
        /\ \A u \in Opened' \cap T : Left(u)'
        /\ Opened' \subseteq Opened \cup T /\ tunnelCrossed \subseteq tunnelCrossed'
    BY <1>2, <2>2
  <2> QED BY <2>1, <2>3, OthersLeft
<1>7. PoolHolds' /\ KeyHolds' /\ EditHolds' /\ Numbered'
  BY <1>2, PoolStays, EditsStay DEF TunnelInv, Numbered
<1> QED BY <1>3, <1>5, <1>6, <1>7 DEF TunnelInv

LEMMA GetConnectionKeeps ==
  ASSUME TunnelInv, NEW c \in Callers, GetConnection(c) PROVE TunnelInv'
<1>1. PICK test \in BOOLEAN :
        caller' = [caller EXCEPT ![c] =
          [IdleCaller EXCEPT !.at = "row", !.conn = rows.conn, !.target = rows.target, !.test = test]]
  BY DEF GetConnection
<1>2. /\ rows.conn \in Versions /\ rows.conn \in 0..(MaxEdits + 1)
      /\ rows.target \in Versions /\ rows.target \in 0..(MaxEdits + 1)
  BY TunnelTypes DEF TunnelInv
<1>3. PICK x \in CallerType : /\ caller' = [caller EXCEPT ![c] = x] /\ x.at = "row" /\ x.tunnel = 0
                              /\ x.conn \in Versions /\ x.target \in Versions
  <2>1. PICK x : x = [IdleCaller EXCEPT !.at = "row", !.conn = rows.conn, !.target = rows.target, !.test = test]
    OBVIOUS
  <2>2. x \in CallerType /\ x.at = "row" /\ x.conn = rows.conn /\ x.target = rows.target /\ x.tunnel = 0
    BY <1>2, <2>1, IdleIsCaller DEF CallerType
  <2> QED BY <1>1, <1>2, <2>1, <2>2
<1>4. caller'[c] = x /\ ~Inside(c) /\ ~Inside(c)'
  <2>1. caller[c].at = "idle"
    BY IdleIsCaller DEF GetConnection
  <2>2. caller'[c] = x
    BY <1>3, CallerMoves DEF TunnelInv
  <2> QED BY <1>3, <2>1, <2>2 DEF Inside
<1>5. CallerHolds(c)'
  BY <1>3, <1>4 DEF CallerHolds
<1> QED BY <1>3, <1>4, <1>5, CallerStepKeeps DEF GetConnection

LEMMA GetGatewayKeeps ==
  ASSUME TunnelInv, NEW c \in Callers, GetGateway(c) PROVE TunnelInv'
<1>1. PICK x : x = [caller[c] EXCEPT !.at = "gateway", !.gate = rows.gate, !.host = rows.host, !.key = hostKey]
  OBVIOUS
<1>2. /\ caller[c] \in CallerType /\ rows.gate \in Versions /\ rows.host \in Versions
      /\ rows.gate \in 0..(MaxEdits + 1) /\ rows.host \in 0..(MaxEdits + 1) /\ hostKey \in 0..(MaxEdits + 1)
      /\ caller[c].tunnel \in {0} \cup Opened
  BY TunnelTypes DEF TunnelInv, TunnelTypeOK
<1>3. /\ x \in CallerType /\ x.at = "gateway" /\ x.conn = caller[c].conn /\ x.target = caller[c].target /\ x.gate = rows.gate
      /\ x.host = rows.host /\ x.tunnel = caller[c].tunnel
  BY <1>1, <1>2 DEF CallerType
<1>4. caller' = [caller EXCEPT ![c] = x]
  BY <1>1, <1>2 DEF GetGateway, CallerType, TunnelInv, TunnelTypeOK
<1>5. caller'[c] = x /\ ~Inside(c) /\ ~Inside(c)'
  <2>1. caller[c].at = "row"
    BY DEF GetGateway
  <2>2. caller'[c] = x
    BY <1>3, <1>4, CallerMoves DEF TunnelInv
  <2> QED BY <1>3, <2>1, <2>2 DEF Inside
<1>6. CallerHolds(c)'
  <2>1. caller[c].conn \in Versions /\ caller[c].target \in Versions
    BY DEF GetGateway, TunnelInv, CallerHolds
  <2> QED BY <1>2, <1>3, <1>5, <2>1 DEF CallerHolds
<1> QED BY <1>2, <1>3, <1>4, <1>5, <1>6, CallerStepKeeps DEF GetGateway

LEMMA ShareKeeps ==
  ASSUME TunnelInv, NEW c \in Callers, Share(c) PROVE TunnelInv'
<1>1. PICK x : x = [caller[c] EXCEPT !.at = "listening", !.tunnel = current]
  OBVIOUS
<1>2. /\ caller[c] \in CallerType /\ current \in Opened /\ current \in Tunnels
      /\ caller[c].at = "gateway" /\ caller[c].test = FALSE
      /\ tunnel[current].gate = caller[c].gate
  BY TunnelTypes DEF TunnelInv, TunnelTypeOK, Share, Stale, SignatureOf
<1>3. /\ x \in CallerType /\ x.at = "listening" /\ x.conn = caller[c].conn /\ x.target = caller[c].target /\ x.gate = caller[c].gate
      /\ x.host = caller[c].host /\ x.tunnel = current /\ x.test = caller[c].test
  BY <1>1, <1>2 DEF CallerType
<1>4. caller' = [caller EXCEPT ![c] = x]
  BY <1>1, <1>2 DEF Share, CallerType, TunnelInv, TunnelTypeOK
<1>5. caller'[c] = x /\ ~Inside(c) /\ UNCHANGED <<tunnel, current, tunnelCrossed>>
  BY <1>2, <1>3, <1>4, CallerMoves DEF TunnelInv, Inside, Share
<1>6. CallerHolds(c)'
  <2>1. caller[c].conn \in Versions /\ caller[c].target \in Versions /\ caller[c].gate \in Versions /\ caller[c].host \in Versions
    BY <1>2 DEF TunnelInv, CallerHolds
  <2>2. current \in Opened'
    BY <1>2, <1>5 DEF Opened
  <2> QED BY <1>2, <1>3, <1>5, <2>1, <2>2 DEF CallerHolds
<1>7. \A d \in Callers \ {c} : Inside(d) /\ caller[d].test => caller[d].tunnel # x.tunnel
  BY <1>3 DEF TunnelInv, CallerHolds
<1> QED BY <1>2, <1>3, <1>4, <1>5, <1>6, <1>7, CallerStepKeeps DEF Share

-----------------------------------------------------------------------------
(* A step that touches one tunnel at most, or lets go of it.                *)
Moves(t, c) ==
  /\ Opened' = Opened /\ tunnel' \in [Opened -> TunnelType]
  /\ \A u \in Opened \ {t} : tunnel'[u] = tunnel[u]
  /\ t \in Opened => /\ tunnel'[t].gate = tunnel[t].gate
                     /\ tunnel[t].listener \in Answered => tunnel'[t].listener \in Answered
                     /\ Left(t)'
  /\ current' \in {current, 0} /\ (current' # current => t = current)
  /\ tunnelCrossed \subseteq tunnelCrossed' /\ tunnelCrossed' \subseteq Opened
  /\ current' # current =>
       \A d \in Callers \ {c} : Inside(d)' /\ caller'[d].tunnel = current => current \in tunnelCrossed'

CallersMove(t, c) ==
  /\ caller' \in [Callers -> CallerType] /\ \A d \in Callers : caller'[d].tunnel \in {0} \cup Opened
  /\ \A d \in Callers \ {c} : Follows(d)
  /\ \A d \in Callers : Inside(d) /\ caller[d].test /\ caller[d].tunnel # t =>
       Inside(d)' /\ caller'[d].test /\ caller'[d].tunnel = caller[d].tunnel
  /\ c \in Callers =>
       /\ CallerHolds(c)'
       /\ \A d \in Callers \ {c} :
            Inside(c)' /\ Inside(d) /\ caller[d].test => caller[d].tunnel # caller'[c].tunnel

LEMMA TunnelStepKeeps ==
  ASSUME TunnelInv, NEW t, NEW c, Moves(t, c), CallersMove(t, c),
         UNCHANGED <<rows, edits>>,
         hostKey' \in 0..(MaxEdits + 1), keyCrossed' \in BOOLEAN, poolCrossed' \in BOOLEAN,
         pool' \in [tunnel : {0} \cup Opened, conn : 0..(MaxEdits + 1)],
         editor' \in [at : {"idle", "read", "saved"}, what : SUBSET {"conn", "target", "gate", "host"},
                      key : 0..(MaxEdits + 1)],
         PoolHolds', KeyHolds', EditHolds'
  PROVE  TunnelInv'
<1>1. TunnelTypeOK'
  BY DEF Moves, CallersMove, TunnelInv, TunnelTypeOK
<1>2. TunnelsKept
  BY DEF Moves, TunnelsKept
<1>3. \A d \in Callers : CallerHolds(d)'
  <2>1. /\ current' \in {current, 0}
        /\ current' # current =>
             \A d \in Callers \ {c} : Inside(d)' /\ caller'[d].tunnel = current => current \in tunnelCrossed'
    BY DEF Moves
  <2>2. /\ \A d \in Callers \ {c} : Follows(d)
        /\ c \in Callers =>
             /\ CallerHolds(c)'
             /\ \A d \in Callers \ {c} :
                  Inside(c)' /\ Inside(d) /\ caller[d].test => caller[d].tunnel # caller'[c].tunnel
    BY DEF CallersMove
  <2> QED BY <1>2, <2>1, <2>2, CallersKeep
<1>4. NothingLeftOpen'
  <2>1. PICK T : T = {t}
    OBVIOUS
  <2>2. \A u \in Opened \ T : tunnel'[u] = tunnel[u] /\ (u = current => u = current')
    BY <2>1 DEF Moves
  <2>3. \A d \in Callers : Inside(d) /\ caller[d].test /\ caller[d].tunnel \notin T =>
          Inside(d)' /\ caller'[d].test /\ caller'[d].tunnel = caller[d].tunnel
    BY <2>1 DEF CallersMove
  <2>4. \A u \in Opened' \cap T : Left(u)'
    BY <2>1 DEF Moves
  <2>5. Opened' \subseteq Opened \cup T /\ tunnelCrossed \subseteq tunnelCrossed'
    BY DEF Moves
  <2> QED BY <2>2, <2>3, <2>4, <2>5, OthersLeft
<1>5. Numbered'
  BY DEF Moves, TunnelInv, Numbered
<1> QED BY <1>1, <1>3, <1>4, <1>5 DEF TunnelInv

(* One tunnel's listener or login goes on, the others and what leads to     *)
(* them stay.                                                               *)
LEMMA OneTunnelKeeps ==
  ASSUME TunnelInv, NEW t \in Opened, NEW y \in TunnelType, tunnel' = [tunnel EXCEPT ![t] = y], NEW c,
         y.gate = tunnel[t].gate, tunnel[t].listener \in Answered => y.listener \in Answered,
         (y.listener \in {"failed", "closed"} /\ y.ssh = "none") \/ InUse(t)' \/ t \in tunnelCrossed,
         CallersMove(t, c),
         hostKey' \in 0..(MaxEdits + 1), keyCrossed' \in BOOLEAN, KeyHolds',
         UNCHANGED <<rows, current, pool, editor, edits, tunnelCrossed, poolCrossed>>
  PROVE  TunnelInv'
<1>1. /\ Opened' = Opened /\ tunnel' \in [Opened -> TunnelType]
      /\ tunnel'[t] = y /\ \A u \in Opened \ {t} : tunnel'[u] = tunnel[u]
  BY DEF TunnelInv, TunnelTypeOK, Opened
<1>2. TunnelsKept
  BY <1>1 DEF TunnelsKept
<1>3. PoolHolds'
  BY <1>2, PoolStays
<1>4. EditHolds'
  BY DEF TunnelInv, EditHolds
<1>5. Left(t)'
  BY <1>1 DEF Left, Quiet
<1>6. /\ pool' \in [tunnel : {0} \cup Opened, conn : 0..(MaxEdits + 1)] /\ poolCrossed' \in BOOLEAN
      /\ editor' \in [at : {"idle", "read", "saved"}, what : SUBSET {"conn", "target", "gate", "host"},
                      key : 0..(MaxEdits + 1)]
      /\ tunnelCrossed \subseteq tunnelCrossed' /\ tunnelCrossed' \subseteq Opened
      /\ current' = current
  BY DEF TunnelInv, TunnelTypeOK
<1>7. t \in Opened => /\ tunnel'[t].gate = tunnel[t].gate
                      /\ tunnel[t].listener \in Answered => tunnel'[t].listener \in Answered
                      /\ Left(t)'
  BY <1>1, <1>5
<1>8. Moves(t, c)
  BY <1>1, <1>6, <1>7 DEF Moves
<1> QED BY <1>3, <1>4, <1>6, <1>8, TunnelStepKeeps

(* A step that only moves one tunnel on.                                    *)
LEMMA NetworkKeeps ==
  ASSUME TunnelInv, NEW t \in Opened,
         (\E ok \in BOOLEAN : Listen(t, ok)) \/ Hangup(t) \/ Redial(t)
  PROVE  TunnelInv'
<1>1. UNCHANGED <<rows, hostKey, current, pool, caller, editor, edits, tunnelCrossed, poolCrossed, keyCrossed>>
  BY DEF Listen, Hangup, Redial
<1>2. /\ tunnel[t] \in TunnelType
      /\ tunnel[t].listener \in {"opening", "up", "failed", "closed"}
      /\ tunnel[t].ssh \in {"none", "login", "up"}
      /\ InUse(t) \/ t \in tunnelCrossed \/ Quiet(t)
  BY TunnelParts, TunnelTypes
<1>3. PICK y \in TunnelType :
        /\ tunnel' = [tunnel EXCEPT ![t] = y]
        /\ y.gate = tunnel[t].gate /\ (tunnel[t].listener \in Answered => y.listener \in Answered)
        /\ Quiet(t) => y.listener = tunnel[t].listener /\ y.ssh = "none"
  <2>1. CASE \E ok \in BOOLEAN : Listen(t, ok)
    <3>1. PICK s \in {"up", "failed"} : tunnel' = [tunnel EXCEPT ![t] = [tunnel[t] EXCEPT !.listener = s]]
      BY <2>1 DEF Listen
    <3>2. tunnel[t].listener = "opening"
      BY <2>1 DEF Listen
    <3>3. /\ [tunnel[t] EXCEPT !.listener = s] \in TunnelType
          /\ [tunnel[t] EXCEPT !.listener = s].gate = tunnel[t].gate
      BY <1>2 DEF TunnelType
    <3> QED BY <3>1, <3>2, <3>3 DEF Answered, Quiet
  <2>2. CASE Hangup(t) \/ Redial(t)
    <3>1. PICK s \in {"none", "login"} : /\ tunnel' = [tunnel EXCEPT ![t] = [tunnel[t] EXCEPT !.ssh = s]]
                                         /\ Quiet(t) => s = "none"
      BY <2>2 DEF Hangup, Redial, Quiet
    <3>2. /\ [tunnel[t] EXCEPT !.ssh = s] \in TunnelType
          /\ [tunnel[t] EXCEPT !.ssh = s].gate = tunnel[t].gate
          /\ [tunnel[t] EXCEPT !.ssh = s].listener = tunnel[t].listener
          /\ [tunnel[t] EXCEPT !.ssh = s].ssh = s
      BY <1>2 DEF TunnelType
    <3> QED BY <3>1, <3>2
  <2> QED BY <2>1, <2>2
<1>4. InUse(t)' <=> InUse(t)
  BY <1>1 DEF InUse, On
<1>5. (y.listener \in {"failed", "closed"} /\ y.ssh = "none") \/ InUse(t)' \/ t \in tunnelCrossed
  BY <1>2, <1>3, <1>4 DEF Quiet
<1>6. \A d \in Callers : Follows(d) /\ (Inside(d)' <=> Inside(d))
  BY <1>1 DEF Follows, Inside
<1>7. PICK c : c \notin Callers
  BY NoSetContainsEverything
<1>8. KeyHolds' /\ hostKey' \in 0..(MaxEdits + 1) /\ keyCrossed' \in BOOLEAN
  BY <1>1, EditsStay DEF TunnelInv, TunnelTypeOK
<1>9. /\ caller' \in [Callers -> CallerType] /\ \A d \in Callers : caller'[d].tunnel \in {0} \cup Opened
      /\ \A d \in Callers : Inside(d) => /\ Inside(d)' /\ caller'[d].test = caller[d].test
                                         /\ caller'[d].tunnel = caller[d].tunnel
  BY <1>1, <1>6 DEF TunnelInv, TunnelTypeOK
<1>10. CallersMove(t, c)
  BY <1>6, <1>7, <1>9 DEF CallersMove
<1> QED BY <1>1, <1>3, <1>5, <1>8, <1>10, OneTunnelKeeps

LEMMA EnsureSshKeeps ==
  ASSUME TunnelInv, NEW c \in Callers, EnsureSsh(c) PROVE TunnelInv'
<1>1. PICK t : t = caller[c].tunnel
  OBVIOUS
<1>2. PICK s \in {"login", "reached"} : caller' = [caller EXCEPT ![c] = [caller[c] EXCEPT !.at = s]]
  BY <1>1 DEF EnsureSsh, SetCaller, TunnelInv, TunnelTypeOK
<1>3. /\ Inside(c) /\ CallerHolds(c) /\ caller[c] \in CallerType /\ caller[c].at = "listening"
      /\ t \in Opened /\ tunnel[t] \in TunnelType /\ c \in On(t)
      /\ tunnel[t].listener \in Answered /\ tunnel[t].ssh \in {"none", "login", "up"}
      /\ caller[c].test \in BOOLEAN
  BY <1>1, TunnelParts, TunnelTypes DEF EnsureSsh, Inside, CallerHolds, On, Answered
<1>4. PICK x \in CallerType :
        /\ caller' = [caller EXCEPT ![c] = x] /\ x.at = s
        /\ x.conn = caller[c].conn /\ x.target = caller[c].target /\ x.gate = caller[c].gate /\ x.host = caller[c].host
        /\ x.test = caller[c].test /\ x.tunnel = t
  <2>1. PICK x : x = [caller[c] EXCEPT !.at = s]
    OBVIOUS
  <2>2. /\ x \in CallerType /\ x.at = s /\ x.test = caller[c].test /\ x.tunnel = t
        /\ x.conn = caller[c].conn /\ x.target = caller[c].target /\ x.gate = caller[c].gate /\ x.host = caller[c].host
    BY <1>1, <1>3, <2>1 DEF CallerType
  <2> QED BY <1>2, <2>1, <2>2
<1>5. /\ caller' \in [Callers -> CallerType] /\ caller'[c] = x
      /\ \A d \in Callers \ {c} : caller'[d] = caller[d]
  BY <1>4, CallerMoves DEF TunnelInv
<1>6. PICK y \in TunnelType : /\ tunnel' = [tunnel EXCEPT ![t] = y] /\ y.gate = tunnel[t].gate
                              /\ y.listener = tunnel[t].listener
  <2>1. PICK z \in {"none", "login", "up"} : tunnel' = [tunnel EXCEPT ![t] = [tunnel[t] EXCEPT !.ssh = z]]
    <3>1. tunnel' = [tunnel EXCEPT ![t] = [tunnel[t] EXCEPT
                       !.ssh = IF tunnel[t].ssh = "none" THEN "login" ELSE tunnel[t].ssh]]
      BY <1>1, <1>3 DEF EnsureSsh, TunnelType
    <3>2. (IF tunnel[t].ssh = "none" THEN "login" ELSE tunnel[t].ssh) \in {"none", "login", "up"}
      BY <1>3
    <3> QED BY <3>1, <3>2
  <2>2. /\ [tunnel[t] EXCEPT !.ssh = z] \in TunnelType
        /\ [tunnel[t] EXCEPT !.ssh = z].gate = tunnel[t].gate
        /\ [tunnel[t] EXCEPT !.ssh = z].listener = tunnel[t].listener
    BY <1>3 DEF TunnelType
  <2> QED BY <2>1, <2>2
<1>7. UNCHANGED <<rows, hostKey, current, pool, editor, edits, tunnelCrossed, poolCrossed, keyCrossed>>
  BY DEF EnsureSsh
<1>8. Inside(c)' /\ On(t)' = On(t)
  BY <1>3, <1>4, <1>5 DEF Inside, On
<1>9. CallerHolds(c)'
  <2>1. Opened' = Opened /\ tunnel'[t] = y
    BY <1>3, <1>6 DEF Opened, TunnelInv, TunnelTypeOK
  <2>2. caller[c].conn \in Versions /\ caller[c].target \in Versions /\ caller[c].gate \in Versions /\ caller[c].host \in Versions
    BY <1>3 DEF CallerHolds
  <2>3. /\ tunnel[t].gate = caller[c].gate
        /\ IF caller[c].test THEN t # current /\ On(t) = {c} ELSE t = current \/ t \in tunnelCrossed
    BY <1>1, <1>3 DEF CallerHolds
  <2> QED BY <1>3, <1>4, <1>5, <1>6, <1>7, <1>8, <2>1, <2>2, <2>3 DEF CallerHolds
<1>10. \A d \in Callers \ {c} : Inside(d) /\ caller[d].test => caller[d].tunnel # caller'[c].tunnel
  BY <1>3, <1>4, <1>5, TunnelParts DEF CallerHolds
<1>11. InUse(t)' \/ t \in tunnelCrossed
  BY <1>1, <1>3, <1>4, <1>5, <1>7, <1>8 DEF CallerHolds, InUse
<1>12. \A d \in Callers \ {c} : Follows(d) /\ (Inside(d)' <=> Inside(d))
  BY <1>5 DEF Follows, Inside
<1>13. \A d \in Callers : caller'[d].tunnel \in {0} \cup Opened
  BY <1>3, <1>4, <1>5 DEF TunnelInv, TunnelTypeOK
<1>14. KeyHolds' /\ hostKey' \in 0..(MaxEdits + 1) /\ keyCrossed' \in BOOLEAN
  BY <1>7, EditsStay DEF TunnelInv, TunnelTypeOK
<1>15. \A d \in Callers : Inside(d) /\ caller[d].test /\ caller[d].tunnel # t =>
         Inside(d)' /\ caller'[d].test /\ caller'[d].tunnel = caller[d].tunnel
  BY <1>1, <1>5, <1>12
<1>16. CallersMove(t, c)
  BY <1>5, <1>9, <1>10, <1>12, <1>13, <1>15 DEF CallersMove
<1> QED BY <1>3, <1>6, <1>7, <1>11, <1>14, <1>16, OneTunnelKeeps

(* The host's key is learned, or not: which is known only afterwards.        *)
LEMMA PinKeeps ==
  ASSUME TunnelInv, NEW t \in Opened, Pins(t), UNCHANGED <<rows, editor>>
  PROVE  KeyHolds' /\ hostKey' \in 0..(MaxEdits + 1) /\ keyCrossed' \in BOOLEAN
<1>1. hostKey' = hostKey \/ hostKey' = tunnel[t].host
  BY DEF Pins, Pinned
<1>2. keyCrossed' = (keyCrossed \/ (hostKey' # hostKey /\ tunnel[t].host # rows.host))
  BY DEF Pins
<1>3. hostKey' \in 0..(MaxEdits + 1) /\ keyCrossed' \in BOOLEAN
  BY <1>1, <1>2, TunnelTypes DEF TunnelInv, TunnelTypeOK
<1>4. KeyHolds'
  BY <1>1, <1>2 DEF TunnelInv, TunnelTypeOK, KeyHolds
<1> QED BY <1>3, <1>4

(* A login ends, well or not: who waits for it gets on, or gives up.        *)
LEMMA LoggedInKeeps ==
  ASSUME TunnelInv, NEW t \in Opened, LoggedIn(t) PROVE TunnelInv'
<1>1. /\ tunnel[t] \in TunnelType /\ tunnel[t].ssh = "login" /\ tunnel[t].host \in Versions
      /\ InUse(t) \/ t \in tunnelCrossed
  BY TunnelParts, TunnelTypes DEF LoggedIn, Quiet
<1>2. PICK y \in TunnelType : /\ tunnel' = [tunnel EXCEPT ![t] = y] /\ y.gate = tunnel[t].gate
                              /\ y.listener = tunnel[t].listener
  <2>1. tunnel' = [tunnel EXCEPT ![t] = [tunnel[t] EXCEPT !.ssh = "up"]]
    BY <1>1 DEF LoggedIn, TunnelType
  <2>2. /\ [tunnel[t] EXCEPT !.ssh = "up"] \in TunnelType
        /\ [tunnel[t] EXCEPT !.ssh = "up"].gate = tunnel[t].gate
        /\ [tunnel[t] EXCEPT !.ssh = "up"].listener = tunnel[t].listener
    BY <1>1 DEF TunnelType
  <2> QED BY <2>1, <2>2
<1>3. /\ caller' = [c \in Callers |-> IF caller[c].at = "login" /\ caller[c].tunnel = t
                                      THEN [caller[c] EXCEPT !.at = "reached"] ELSE caller[c]]
      /\ UNCHANGED <<rows, current, pool, editor, edits, tunnelCrossed, poolCrossed>>
  BY DEF LoggedIn
<1>4. \A d \in Callers :
        /\ caller'[d] \in CallerType
        /\ \/ caller'[d] = caller[d]
           \/ caller[d].at = "login" /\ caller'[d].at = "reached"
        /\ caller'[d].conn = caller[d].conn /\ caller'[d].target = caller[d].target /\ caller'[d].gate = caller[d].gate
        /\ caller'[d].host = caller[d].host /\ caller'[d].tunnel = caller[d].tunnel
        /\ caller'[d].test = caller[d].test
  <2> SUFFICES ASSUME NEW d \in Callers, caller[d].at = "login", caller[d].tunnel = t
               PROVE  /\ caller'[d] \in CallerType /\ caller'[d].at = "reached"
                      /\ caller'[d].conn = caller[d].conn /\ caller'[d].target = caller[d].target /\ caller'[d].gate = caller[d].gate
                      /\ caller'[d].host = caller[d].host /\ caller'[d].tunnel = caller[d].tunnel
                      /\ caller'[d].test = caller[d].test
    BY <1>3 DEF TunnelInv, TunnelTypeOK
  <2>1. caller[d] \in CallerType /\ caller'[d] = [caller[d] EXCEPT !.at = "reached"]
    BY <1>3 DEF TunnelInv, TunnelTypeOK
  <2> QED BY <2>1 DEF CallerType
<1>5. \A d \in Callers : Follows(d) /\ (Inside(d)' <=> Inside(d))
  BY <1>4 DEF Follows, Inside
<1>6. On(t)' = On(t)
  BY <1>4, <1>5 DEF On, Inside
<1>7. InUse(t)' \/ t \in tunnelCrossed
  BY <1>1, <1>3, <1>4, <1>6 DEF InUse, On
<1>8. KeyHolds' /\ hostKey' \in 0..(MaxEdits + 1) /\ keyCrossed' \in BOOLEAN
  BY <1>1, <1>3, PinKeeps DEF LoggedIn
<1>9. PICK c : c \notin Callers
  BY NoSetContainsEverything
<1>10. caller' \in [Callers -> CallerType] /\ \A d \in Callers : caller'[d].tunnel \in {0} \cup Opened
  BY <1>3, <1>4 DEF TunnelInv, TunnelTypeOK
<1>11. tunnel[t].listener \in Answered => y.listener \in Answered
  BY <1>2
<1>12. \A d \in Callers : Inside(d) /\ caller[d].test /\ caller[d].tunnel # t =>
         Inside(d)' /\ caller'[d].test /\ caller'[d].tunnel = caller[d].tunnel
  BY <1>4, <1>5
<1>13. (y.listener \in {"failed", "closed"} /\ y.ssh = "none") \/ InUse(t)' \/ t \in tunnelCrossed
  BY <1>7
<1>14. y.gate = tunnel[t].gate /\ tunnel' = [tunnel EXCEPT ![t] = y]
  BY <1>2
<1>15. CallersMove(t, c)
  BY <1>5, <1>9, <1>10, <1>12 DEF CallersMove
<1> QED BY <1>3, <1>8, <1>11, <1>13, <1>14, <1>15, OneTunnelKeeps

LEMMA LoginFailedKeeps ==
  ASSUME TunnelInv, NEW t \in Opened, LoginFailed(t) PROVE TunnelInv'
<1>1. /\ tunnel[t] \in TunnelType /\ tunnel[t].ssh = "login" 
      /\ InUse(t) \/ t \in tunnelCrossed
  BY TunnelParts, TunnelTypes DEF LoginFailed, Quiet
<1>2. PICK y \in TunnelType : /\ tunnel' = [tunnel EXCEPT ![t] = y] /\ y.gate = tunnel[t].gate
                              /\ y.ssh = "none"
                              /\ IF \E c \in On(t) : caller[c].test THEN y.listener = "closed"
                                 ELSE y.listener = tunnel[t].listener
  <2>1. PICK z \in {"closed", tunnel[t].listener} :
          /\ tunnel' = [tunnel EXCEPT ![t] = [tunnel[t] EXCEPT !.ssh = "none", !.listener = z]]
          /\ z = IF \E c \in On(t) : caller[c].test THEN "closed" ELSE tunnel[t].listener
    BY <1>1 DEF LoginFailed, TunnelType
  <2>2. PICK y : y = [tunnel[t] EXCEPT !.ssh = "none", !.listener = z]
    OBVIOUS
  <2>3. y \in TunnelType /\ y.gate = tunnel[t].gate /\ y.listener = z /\ y.ssh = "none"
    BY <1>1, <2>2 DEF TunnelType
  <2> QED BY <2>1, <2>2, <2>3
<1>3. /\ caller' = [c \in Callers |-> IF caller[c].at = "login" /\ caller[c].tunnel = t
                                      THEN IdleCaller ELSE caller[c]]
      /\ UNCHANGED <<rows, current, pool, editor, edits, tunnelCrossed, poolCrossed>>
  BY DEF LoginFailed
<1>4. \A d \in Callers : \/ caller'[d] = caller[d]
                         \/ caller'[d] = IdleCaller /\ caller[d].tunnel = t
  BY <1>3
<1>5. \A d \in Callers : Follows(d)
  BY <1>4, IdleIsCaller DEF Follows, Inside
<1>6. (y.listener \in {"failed", "closed"} /\ y.ssh = "none") \/ InUse(t)' \/ t \in tunnelCrossed
  BY <1>1, <1>2, <1>3 DEF InUse
<1>7. tunnel[t].listener \in Answered => y.listener \in Answered
  BY <1>2 DEF Answered
<1>8. KeyHolds' /\ hostKey' \in 0..(MaxEdits + 1) /\ keyCrossed' \in BOOLEAN
  <2>1. CASE Pins(t)
    BY <1>3, <2>1, PinKeeps
  <2>2. CASE UNCHANGED <<hostKey, keyCrossed>>
    BY <1>3, <2>2, EditsStay DEF TunnelInv, TunnelTypeOK
  <2> QED BY <2>1, <2>2 DEF LoginFailed
<1>9. PICK c : c \notin Callers
  BY NoSetContainsEverything
<1>10. caller' \in [Callers -> CallerType] /\ \A d \in Callers : caller'[d].tunnel \in {0} \cup Opened
  BY <1>3, <1>4, IdleIsCaller DEF TunnelInv, TunnelTypeOK
<1>11. \A d \in Callers : Inside(d) /\ caller[d].test /\ caller[d].tunnel # t =>
         Inside(d)' /\ caller'[d].test /\ caller'[d].tunnel = caller[d].tunnel
  BY <1>4 DEF Inside
<1>12. CallersMove(t, c)
  BY <1>5, <1>9, <1>10, <1>11 DEF CallersMove
<1> QED BY <1>2, <1>3, <1>6, <1>7, <1>8, <1>12, OneTunnelKeeps

(* A caller goes, and perhaps takes its tunnel with it.                     *)
LEMMA GoneIs ==
  ASSUME TunnelInv, NEW c \in Callers, NEW t, NEW close, LetGo(c, t, close)
  PROVE  /\ caller'[c] = IdleCaller /\ \A d \in Callers \ {c} : caller'[d] = caller[d]
         /\ caller' \in [Callers -> CallerType] /\ \A d \in Callers : caller'[d].tunnel \in {0} \cup Opened
         /\ \A d \in Callers : Follows(d) /\ (d # c => (Inside(d)' <=> Inside(d)))
         /\ CallerHolds(c)' /\ ~Inside(c)'
<1>1. /\ caller'[c] = IdleCaller /\ \A d \in Callers \ {c} : caller'[d] = caller[d]
      /\ caller' \in [Callers -> CallerType] /\ \A d \in Callers : caller'[d].tunnel \in {0} \cup Opened
  BY IdleIsCaller DEF LetGo, TunnelInv, TunnelTypeOK
<1>2. \A d \in Callers : Follows(d) /\ (d # c => (Inside(d)' <=> Inside(d)))
  BY <1>1, IdleIsCaller DEF Follows, Inside
<1>3. CallerHolds(c)' /\ ~Inside(c)'
  BY <1>1, IdleIsCaller DEF CallerHolds, Inside
<1> QED BY <1>1, <1>2, <1>3

LEMMA GoneMoves ==
  ASSUME TunnelInv, NEW c \in Callers, NEW t, NEW close, LetGo(c, t, close), t = caller[c].tunnel
  PROVE  CallersMove(t, c)
<1>1. \A d \in Callers \ {c} : caller'[d] = caller[d] /\ (Inside(d)' <=> Inside(d))
  BY GoneIs
<1>2. \A d \in Callers : Inside(d) /\ caller[d].test /\ caller[d].tunnel # t =>
        Inside(d)' /\ caller'[d].test /\ caller'[d].tunnel = caller[d].tunnel
  BY <1>1
<1>3. /\ caller' \in [Callers -> CallerType] /\ \A d \in Callers : caller'[d].tunnel \in {0} \cup Opened
      /\ \A d \in Callers \ {c} : Follows(d)
      /\ CallerHolds(c)' /\ ~Inside(c)'
  BY GoneIs
<1> QED BY <1>2, <1>3 DEF CallersMove

(* A tunnel that is closed is shut, or known to have been closed too early. *)
LEMMA ClosedMoves ==
  ASSUME TunnelInv, NEW t \in Opened, NEW c, NEW others,
         tunnel' = [tunnel EXCEPT ![t] = Closed(@)], CloseNote(t, others),
         current' = IF current = t THEN 0 ELSE current,
         others = {} => \A d \in Callers \ {c} : Inside(d)' => caller'[d].tunnel # t
  PROVE  Moves(t, c) /\ TunnelsKept
<1>1. PICK y : y = Closed(tunnel[t])
  OBVIOUS
<1>2. tunnel[t] \in TunnelType /\ tunnel[t].listener \in {"opening", "up", "failed", "closed"}
      /\ tunnel[t].ssh \in {"none", "login", "up"}
  BY TunnelTypes DEF TunnelInv
<1>3. /\ y \in TunnelType /\ y.gate = tunnel[t].gate
      /\ y.listener = (IF tunnel[t].listener = "up" THEN "closed" ELSE tunnel[t].listener)
      /\ y.ssh = (IF tunnel[t].ssh = "up" THEN "none" ELSE tunnel[t].ssh)
  BY <1>1, <1>2, ClosedIs
<1>4. tunnel' = [tunnel EXCEPT ![t] = y]
  BY <1>1
<1>5. /\ Opened' = Opened /\ tunnel' \in [Opened -> TunnelType]
      /\ tunnel'[t] = y /\ \A u \in Opened \ {t} : tunnel'[u] = tunnel[u]
  BY <1>3, <1>4 DEF TunnelInv, TunnelTypeOK, Opened
<1>6. Left(t)'
  BY <1>2, <1>3, <1>5 DEF Left, Quiet, CloseNote
<1>7. /\ current' \in {current, 0} /\ (current' # current => t = current)
      /\ current' # current =>
           \A d \in Callers \ {c} : Inside(d)' /\ caller'[d].tunnel = current => current \in tunnelCrossed'
  BY DEF CloseNote
<1>8. tunnelCrossed \subseteq tunnelCrossed' /\ tunnelCrossed' \subseteq Opened
  BY DEF CloseNote, TunnelInv, TunnelTypeOK
<1>9. t \in Opened => /\ tunnel'[t].gate = tunnel[t].gate
                      /\ tunnel[t].listener \in Answered => tunnel'[t].listener \in Answered
                      /\ Left(t)'
  BY <1>2, <1>3, <1>5, <1>6 DEF Answered
<1>10. Moves(t, c)
  BY <1>5, <1>7, <1>8, <1>9 DEF Moves
<1>11. TunnelsKept
  BY <1>5, <1>8, <1>9 DEF TunnelsKept
<1> QED BY <1>10, <1>11

(* A tunnel that is left alone, and found or let go of before.              *)
LEMMA StillMoves ==
  ASSUME TunnelInv, NEW t, NEW c, UNCHANGED <<tunnel, current, tunnelCrossed>>,
         t = current \/ t \in tunnelCrossed
  PROVE  Moves(t, c) /\ TunnelsKept
<1>1. Opened' = Opened /\ tunnel' \in [Opened -> TunnelType]
  BY DEF TunnelInv, TunnelTypeOK, Opened
<1>2. Left(t)'
  BY DEF Left, InUse
<1>3. tunnelCrossed' \subseteq Opened
  BY DEF TunnelInv, TunnelTypeOK
<1> QED BY <1>1, <1>2, <1>3 DEF Moves, TunnelsKept

LEMMA NoListenerKeeps ==
  ASSUME TunnelInv, NEW c \in Callers, NoListener(c) PROVE TunnelInv'
<1>1. PICK t : t = caller[c].tunnel
  OBVIOUS
<1>2. PICK close \in BOOLEAN : close <=> (current = t \/ caller[c].test)
  OBVIOUS
<1>3. /\ LetGo(c, t, close) /\ tunnel[t].listener = "failed" /\ Inside(c)
      /\ UNCHANGED <<rows, hostKey, pool, editor, edits, poolCrossed, keyCrossed>>
  BY <1>1, <1>2 DEF NoListener, Inside, LetGo
<1>4. /\ t \in Opened
      /\ IF caller[c].test THEN t # current /\ On(t) = {c} ELSE t = current \/ t \in tunnelCrossed
  BY <1>1, <1>3, TunnelParts DEF CallerHolds
<1>5. CallersMove(t, c)
  BY <1>1, <1>3, GoneMoves
<1>6. Moves(t, c) /\ TunnelsKept
  <2>1. CASE close
    <3>1. /\ tunnel' = [tunnel EXCEPT ![t] = Closed(@)] /\ CloseNote(t, On(t) \ {c})
          /\ current' = IF current = t THEN 0 ELSE current
      BY <1>3, <2>1 DEF LetGo
    <3>2. On(t) \ {c} = {} => \A d \in Callers \ {c} : Inside(d)' => caller'[d].tunnel # t
      BY <1>3, GoneIs DEF On, Inside
    <3>3. PICK others : others = On(t) \ {c}
      OBVIOUS
    <3> QED BY <1>4, <3>1, <3>2, <3>3, ClosedMoves
  <2>2. CASE ~close
    <3>1. t \in tunnelCrossed /\ UNCHANGED <<tunnel, current, tunnelCrossed>>
      BY <1>2, <1>3, <1>4, <2>2 DEF LetGo
    <3> QED BY <3>1, StillMoves
  <2> QED BY <2>1, <2>2
<1>7. PoolHolds'
  <2>1. current' = current \/ pool = NoPool \/ poolCrossed
    BY <1>3, TunnelParts DEF LetGo, PoolHolds, Answered
  <2> QED BY <1>3, <1>6, <2>1, PoolStays
<1>8. KeyHolds' /\ EditHolds'
  BY <1>3, EditsStay
<1>9. /\ hostKey' \in 0..(MaxEdits + 1) /\ keyCrossed' \in BOOLEAN /\ poolCrossed' \in BOOLEAN
      /\ pool' \in [tunnel : {0} \cup Opened, conn : 0..(MaxEdits + 1)]
      /\ editor' \in [at : {"idle", "read", "saved"}, what : SUBSET {"conn", "target", "gate", "host"},
                      key : 0..(MaxEdits + 1)]
  BY <1>3 DEF TunnelInv, TunnelTypeOK
<1> QED BY <1>3, <1>5, <1>6, <1>7, <1>8, <1>9, TunnelStepKeeps

LEMMA UseKeeps ==
  ASSUME TunnelInv, NEW c \in Callers, Use(c) PROVE TunnelInv'
<1>1. PICK t : t = caller[c].tunnel
  OBVIOUS
<1>2. PICK close \in BOOLEAN : close <=> caller[c].test
  OBVIOUS
<1>3. PICK makes \in BOOLEAN : makes <=> (~caller[c].test /\ pool = NoPool)
  OBVIOUS
<1>4. /\ LetGo(c, t, close) /\ Inside(c) /\ UNCHANGED <<rows, hostKey, editor, edits, keyCrossed>>
      /\ pool' = IF makes THEN [tunnel |-> t, conn |-> caller[c].conn] ELSE pool
      /\ poolCrossed' = IF makes THEN (t # current \/ caller[c].conn # rows.conn \/ caller[c].gate # rows.gate)
                        ELSE poolCrossed
  BY <1>1, <1>2, <1>3 DEF Use, Inside, LetGo
<1>5. /\ t \in Opened /\ tunnel[t].listener \in Answered /\ tunnel[t].gate = caller[c].gate
      /\ IF caller[c].test THEN t # current /\ On(t) = {c} ELSE t = current \/ t \in tunnelCrossed
      /\ caller[c].conn \in Versions /\ caller[c].test \in BOOLEAN
  <2>1. caller[c].at = "reached"
    BY DEF Use
  <2> QED BY <1>1, <1>4, <2>1, TunnelParts, TunnelTypes DEF CallerHolds
<1>6. CallersMove(t, c)
  BY <1>1, <1>4, GoneMoves
<1>7. Moves(t, c) /\ TunnelsKept /\ current' = current
  <2>1. CASE close
    <3>1. /\ tunnel' = [tunnel EXCEPT ![t] = Closed(@)] /\ CloseNote(t, On(t) \ {c})
          /\ current' = IF current = t THEN 0 ELSE current
      BY <1>4, <2>1 DEF LetGo
    <3>2. On(t) \ {c} = {} => \A d \in Callers \ {c} : Inside(d)' => caller'[d].tunnel # t
      BY <1>4, GoneIs DEF On, Inside
    <3>3. PICK others : others = On(t) \ {c}
      OBVIOUS
    <3> QED BY <1>2, <1>5, <2>1, <3>1, <3>2, <3>3, ClosedMoves
  <2>2. CASE ~close
    <3>1. (t = current \/ t \in tunnelCrossed) /\ UNCHANGED <<tunnel, current, tunnelCrossed>>
      BY <1>2, <1>4, <1>5, <2>2 DEF LetGo
    <3> QED BY <3>1, StillMoves
  <2> QED BY <2>1, <2>2
<1>8. PoolHolds'
  <2>1. CASE makes
    <3>1. /\ pool'.tunnel = t /\ pool'.conn = caller[c].conn
          /\ poolCrossed' = (t # current \/ caller[c].conn # rows.conn \/ caller[c].gate # rows.gate)
      BY <1>4, <2>1
    <3>2. /\ t \in Opened' /\ tunnel'[t].listener \in Answered /\ tunnel'[t].gate = caller[c].gate
      BY <1>5, <1>7 DEF TunnelsKept
    <3> QED BY <1>4, <1>7, <3>1, <3>2 DEF PoolHolds
  <2>2. CASE ~makes
    BY <1>4, <1>7, <2>2, PoolStays
  <2> QED BY <2>1, <2>2
<1>9. KeyHolds' /\ EditHolds'
  BY <1>4, EditsStay
<1>10. /\ hostKey' \in 0..(MaxEdits + 1) /\ keyCrossed' \in BOOLEAN /\ poolCrossed' \in BOOLEAN
       /\ editor' \in [at : {"idle", "read", "saved"}, what : SUBSET {"conn", "target", "gate", "host"},
                       key : 0..(MaxEdits + 1)]
  BY <1>4 DEF TunnelInv, TunnelTypeOK
<1>11. pool' \in [tunnel : {0} \cup Opened, conn : 0..(MaxEdits + 1)]
  <2>1. pool \in [tunnel : {0} \cup Opened, conn : 0..(MaxEdits + 1)] /\ caller[c].conn \in 0..(MaxEdits + 1)
    BY <1>5, TunnelTypes DEF TunnelInv, TunnelTypeOK
  <2> QED BY <1>4, <1>5, <2>1
<1> QED BY <1>4, <1>6, <1>7, <1>8, <1>9, <1>10, <1>11, TunnelStepKeeps

(* The connection's handles are dropped.                                    *)
LEMMA ReleaseKeeps ==
  ASSUME TunnelInv, Release \/ DropHandles PROVE TunnelInv'
<1>1. ReleaseAll /\ UNCHANGED <<rows, hostKey, caller, edits, keyCrossed>>
  BY DEF Release, DropHandles
<1>2. editor' = editor \/ (editor.at = "saved" /\ editor' = NoEditor)
  BY DEF Release, DropHandles
<1>3. PICK c : c \notin Callers
  BY NoSetContainsEverything
<1>4. CallersMove(current, c)
  <2>1. \A d \in Callers : Follows(d) /\ (Inside(d)' <=> Inside(d))
    BY <1>1 DEF Follows, Inside
  <2>2. /\ caller' \in [Callers -> CallerType] /\ \A d \in Callers : caller'[d].tunnel \in {0} \cup Opened
    BY <1>1 DEF TunnelInv, TunnelTypeOK
  <2> QED BY <1>1, <1>3, <2>1, <2>2 DEF CallersMove
<1>5. Moves(current, c)
  <2>1. CASE current = 0
    <3>1. UNCHANGED <<tunnel, tunnelCrossed>> /\ current' = current
      BY <1>1, <2>1 DEF ReleaseAll
    <3> QED BY <3>1, StillMoves
  <2>2. CASE current # 0
    <3>1. /\ tunnel' = [tunnel EXCEPT ![current] = Closed(@)] /\ CloseNote(current, On(current))
          /\ current' = 0 /\ current \in Opened
      BY <1>1, <2>2 DEF ReleaseAll, TunnelInv, TunnelTypeOK
    <3>2. On(current) = {} => \A d \in Callers \ {c} : Inside(d)' => caller'[d].tunnel # current
      BY <1>1 DEF On, Inside
    <3>3. PICK others : others = On(current)
      OBVIOUS
    <3>4. PICK t : t = current
      OBVIOUS
    <3>5. /\ t \in Opened /\ tunnel' = [tunnel EXCEPT ![t] = Closed(@)] /\ CloseNote(t, others)
          /\ current' = (IF current = t THEN 0 ELSE current)
          /\ others = {} => \A d \in Callers \ {c} : Inside(d)' => caller'[d].tunnel # t
      BY <3>1, <3>2, <3>3, <3>4
    <3>6. Moves(t, c)
      BY <3>5, ClosedMoves
    <3> QED BY <3>4, <3>6
  <2> QED BY <2>1, <2>2
<1>6. PoolHolds' /\ KeyHolds' /\ EditHolds'
  <2>1. PoolHolds'
    BY <1>1 DEF ReleaseAll, PoolHolds
  <2>2. KeyHolds' /\ EditHolds'
    BY <1>1, <1>2 DEF NoEditor, TunnelInv, KeyHolds, EditHolds
  <2> QED BY <2>1, <2>2
<1>7. /\ hostKey' \in 0..(MaxEdits + 1) /\ keyCrossed' \in BOOLEAN /\ poolCrossed' \in BOOLEAN
  BY <1>1 DEF ReleaseAll, TunnelInv, TunnelTypeOK
<1>8. pool' \in [tunnel : {0} \cup Opened, conn : 0..(MaxEdits + 1)]
  BY <1>1, TunnelAssumption DEF ReleaseAll, NoPool
<1>9. editor' \in [at : {"idle", "read", "saved"}, what : SUBSET {"conn", "target", "gate", "host"},
                   key : 0..(MaxEdits + 1)]
  BY <1>2, TunnelAssumption DEF NoEditor, TunnelInv, TunnelTypeOK
<1> QED BY <1>1, <1>4, <1>5, <1>6, <1>7, <1>8, <1>9, TunnelStepKeeps

(* An edit begins, or is saved: nobody's tunnel changes.                    *)
LEMMA EditStepKeeps ==
  ASSUME TunnelInv, (\E what \in {{"conn"}, {"conn", "target"}, {"gate"}, {"gate", "host"}} : BeginEdit(what)) \/ SaveEdit
  PROVE  TunnelInv'
<1>1. UNCHANGED <<tunnel, current, pool, caller, tunnelCrossed, poolCrossed, keyCrossed>>
  BY DEF BeginEdit, SaveEdit
<1>2. Numbered' /\ NothingLeftOpen' /\ (\A c \in Callers : CallerHolds(c)')
  <2>1. Numbered' /\ NothingLeftOpen'
    BY <1>1 DEF TunnelInv, Numbered, Opened, NothingLeftOpen, InUse, On
  <2>2. \A c \in Callers : CallerHolds(c)'
    BY <1>1 DEF TunnelInv, CallerHolds, Inside, Opened, On
  <2> QED BY <2>1, <2>2
<1>3. CASE \E what \in {{"conn"}, {"conn", "target"}, {"gate"}, {"gate", "host"}} : BeginEdit(what)
  <2>1. PICK what \in {{"conn"}, {"conn", "target"}, {"gate"}, {"gate", "host"}} : BeginEdit(what)
    BY <1>3
  <2>2. /\ editor' = [at |-> "read", what |-> what, key |-> hostKey] /\ edits' = edits + 1
        /\ editor.at = "idle" /\ edits < MaxEdits /\ UNCHANGED <<rows, hostKey>>
    BY <2>1 DEF BeginEdit
  <2>3. TunnelTypeOK'
    <3>1. hostKey \in 0..(MaxEdits + 1) /\ what \in SUBSET {"conn", "target", "gate", "host"}
      BY DEF TunnelInv, TunnelTypeOK
    <3>2. editor' \in [at : {"idle", "read", "saved"}, what : SUBSET {"conn", "target", "gate", "host"},
                       key : 0..(MaxEdits + 1)]
      BY <2>2, <3>1
    <3>3. edits' \in 0..MaxEdits
      BY <2>2, TunnelAssumption DEF TunnelInv, TunnelTypeOK
    <3> QED BY <1>1, <2>2, <3>2, <3>3 DEF TunnelInv, TunnelTypeOK, Opened
  <2>4. PoolHolds' /\ KeyHolds'
    BY <1>1, <2>2 DEF TunnelInv, PoolHolds, KeyHolds, Opened
  <2>5. EditHolds'
    BY <2>2 DEF TunnelInv, EditHolds
  <2> QED BY <1>2, <2>3, <2>4, <2>5 DEF TunnelInv
<1>4. CASE SaveEdit
  <2>1. /\ editor.at = "read" /\ editor' = [editor EXCEPT !.at = "saved"] /\ UNCHANGED edits
        /\ rows' = [r \in DOMAIN rows |-> IF r \in editor.what THEN rows[r] + 1 ELSE rows[r]]
        /\ hostKey' = IF "gate" \in editor.what THEN SavedKey ELSE hostKey
    BY <1>4 DEF SaveEdit
  <2>2. /\ editor.what \in {{"conn"}, {"conn", "target"}, {"gate"}, {"gate", "host"}}
        /\ rows \in [conn : Versions, target : Versions, gate : Versions, host : Versions]
        /\ edits \in 0..MaxEdits
        /\ editor \in [at : {"idle", "read", "saved"}, what : SUBSET {"conn", "target", "gate", "host"},
                       key : 0..(MaxEdits + 1)]
        /\ rows.conn <= edits /\ rows.target <= edits /\ rows.gate <= edits /\ rows.host <= edits
    BY <2>1 DEF TunnelInv, TunnelTypeOK, EditHolds
  <2>3. /\ rows' \in [conn : Versions, target : Versions, gate : Versions, host : Versions]
        /\ rows'.conn = (IF "conn" \in editor.what THEN rows.conn + 1 ELSE rows.conn)
        /\ rows'.target = (IF "target" \in editor.what THEN rows.target + 1 ELSE rows.target)
        /\ rows'.gate = (IF "gate" \in editor.what THEN rows.gate + 1 ELSE rows.gate)
        /\ rows'.host = (IF "host" \in editor.what THEN rows.host + 1 ELSE rows.host)
    <3>1. DOMAIN rows = {"conn", "target", "gate", "host"}
      BY <2>2
    <3>2. /\ rows.conn \in Versions /\ rows.target \in Versions
          /\ rows.gate \in Versions /\ rows.host \in Versions
          /\ rows.conn + 1 \in Versions /\ rows.target + 1 \in Versions
          /\ rows.gate + 1 \in Versions /\ rows.host + 1 \in Versions
      BY <2>2, TunnelAssumption DEF Versions
    <3> QED BY <2>1, <3>1, <3>2
  <2>4. /\ editor'.at = "saved"
        /\ editor' \in [at : {"idle", "read", "saved"}, what : SUBSET {"conn", "target", "gate", "host"},
                        key : 0..(MaxEdits + 1)]
    BY <2>1, <2>2
  <2>5. TunnelTypeOK'
    <3>1. hostKey' \in 0..(MaxEdits + 1)
      BY <2>1, <2>2, TunnelAssumption DEF SavedKey, TunnelInv, TunnelTypeOK
    <3> QED BY <1>1, <2>1, <2>3, <2>4, <3>1 DEF TunnelInv, TunnelTypeOK, Opened
  <2>6. PoolHolds'
    BY <1>1, <2>4 DEF TunnelInv, PoolHolds, Opened
  <2>7. KeyHolds'
    <3>1. "host" \in editor.what => "gate" \in editor.what
      BY <2>2
    <3>2. ~keyCrossed => /\ hostKey # 0 => hostKey = rows.host
                         /\ editor.key # 0 => editor.key = rows.host
      BY <2>1 DEF TunnelInv, KeyHolds
    <3> QED BY <1>1, <2>1, <2>3, <2>4, <3>1, <3>2 DEF KeyHolds, SavedKey
  <2>8. EditHolds'
    <3>1. \A r \in {"conn", "target", "gate", "host"} : rows'[r] <= edits + 1
      BY <2>2, <2>3 DEF Versions
    <3> QED BY <2>1, <2>4, <3>1 DEF EditHolds
  <2> QED BY <1>2, <2>5, <2>6, <2>7, <2>8 DEF TunnelInv
<1> QED BY <1>3, <1>4

(* The numbers given out are those from 1 on.                               *)
LEMMA NextTunnel ==
  ASSUME Numbered
  PROVE  /\ Cardinality(Opened) + 1 \notin Opened /\ Cardinality(Opened) + 1 # 0
         /\ \A t : t = Cardinality(Opened) + 1 /\ t \in Tunnels =>
              \E n \in 0..MaxTunnels : Opened \cup {t} = 1..n
<1>1. PICK n \in 0..MaxTunnels : Opened = 1..n
  BY DEF Numbered
<1>2. Cardinality(Opened) = n
  BY <1>1, FS_Interval, TunnelAssumption
<1>3. ASSUME n + 1 \in Tunnels
      PROVE  n + 1 \in 0..MaxTunnels /\ Opened \cup {n + 1} = 1..(n + 1)
  BY <1>1, <1>3, TunnelAssumption DEF Tunnels
<1> QED BY <1>1, <1>2, <1>3

(* A caller opens a tunnel, in place of the one of an older signature.      *)
LEMMA OpenKeeps ==
  ASSUME TunnelInv, NEW c \in Callers, Open(c) PROVE TunnelInv'
<1>1. PICK t : t = Cardinality(Opened) + 1
  OBVIOUS
<1>2. PICK replaces \in BOOLEAN : replaces <=> (Stale(c) /\ ~caller[c].test)
  OBVIOUS
<1>3. /\ caller[c].at = "gateway" /\ (caller[c].test \/ current = 0 \/ Stale(c))
      /\ t \in Tunnels
      /\ tunnel' = [u \in Opened \cup {t} |->
                      IF u = t THEN NewTunnel(c)
                      ELSE IF replaces /\ u = current THEN Closed(tunnel[u]) ELSE tunnel[u]]
      /\ pool' = (IF replaces THEN NoPool ELSE pool)
      /\ (IF replaces THEN CloseNote(current, On(current)) ELSE UNCHANGED tunnelCrossed)
      /\ current' = (IF caller[c].test THEN current ELSE t)
      /\ caller' = [caller EXCEPT ![c].at = "listening", ![c].tunnel = t]
      /\ UNCHANGED <<rows, hostKey, editor, edits, poolCrossed, keyCrossed>>
  BY <1>1, <1>2 DEF Open
<1>4. /\ caller[c] \in CallerType /\ CallerHolds(c) /\ current \in {0} \cup Opened
      /\ caller[c].test \in BOOLEAN /\ TunnelTypeOK
      /\ t \notin Opened /\ t # 0 /\ (replaces => current \in Opened)
  <2>1. t \notin Opened /\ t # 0
    BY <1>1, NextTunnel, TunnelParts
  <2>2. caller[c] \in CallerType /\ CallerHolds(c) /\ current \in {0} \cup Opened /\ caller[c].test \in BOOLEAN
    BY TunnelParts, TunnelTypes DEF TunnelTypeOK
  <2> QED BY <1>2, <2>1, <2>2, TunnelParts DEF Stale
<1>5. /\ caller[c].conn \in Versions /\ caller[c].target \in Versions /\ caller[c].gate \in Versions /\ caller[c].host \in Versions
      /\ caller[c].key \in 0..(MaxEdits + 1) /\ ~Inside(c)
  BY <1>3, <1>4 DEF CallerHolds, CallerType, Inside
<1>6. PICK x \in CallerType :
        /\ caller' = [caller EXCEPT ![c] = x] /\ x.at = "listening" /\ x.tunnel = t
        /\ x.conn = caller[c].conn /\ x.target = caller[c].target /\ x.gate = caller[c].gate /\ x.host = caller[c].host
        /\ x.test = caller[c].test
  <2>1. PICK x : x = [caller[c] EXCEPT !.at = "listening", !.tunnel = t]
    OBVIOUS
  <2>2. /\ x \in CallerType /\ x.at = "listening" /\ x.test = caller[c].test /\ x.tunnel = t
        /\ x.conn = caller[c].conn /\ x.target = caller[c].target /\ x.gate = caller[c].gate /\ x.host = caller[c].host
    BY <1>3, <1>4, <2>1 DEF CallerType
  <2>3. caller' = [caller EXCEPT ![c] = x]
    BY <1>3, <1>4, <2>1 DEF CallerType, TunnelTypeOK
  <2> QED BY <2>2, <2>3
<1>7. /\ caller' \in [Callers -> CallerType] /\ caller'[c] = x
      /\ \A d \in Callers \ {c} : caller'[d] = caller[d]
  BY <1>4, <1>6, CallerMoves
<1>8. PICK y \in TunnelType : y = NewTunnel(c) /\ y.gate = caller[c].gate
  <2>1. NewTunnel(c) \in TunnelType
    BY <1>5 DEF NewTunnel, TunnelType
  <2>2. NewTunnel(c).gate = caller[c].gate
    BY DEF NewTunnel
  <2> QED BY <2>1, <2>2
<1>9. /\ Opened' = Opened \cup {t} /\ tunnel'[t] = y
      /\ \A u \in Opened : tunnel'[u] = IF replaces /\ u = current THEN Closed(tunnel[u]) ELSE tunnel[u]
      /\ tunnel' \in [Opened' -> TunnelType]
  <2>1. /\ Opened' = Opened \cup {t} /\ tunnel'[t] = y
        /\ \A u \in Opened : tunnel'[u] = IF replaces /\ u = current THEN Closed(tunnel[u]) ELSE tunnel[u]
    BY <1>3, <1>4, <1>8 DEF Opened
  <2>2. \A u \in Opened : tunnel'[u] \in TunnelType
    BY <1>4, <2>1, TunnelTypes, ClosedIs
  <2>3. tunnel' \in [Opened' -> TunnelType]
    BY <1>3, <2>1, <2>2, <1>8
  <2> QED BY <2>1, <2>3
<1>10. tunnelCrossed \subseteq tunnelCrossed' /\ tunnelCrossed' \subseteq Opened
  BY <1>3, <1>4 DEF CloseNote, TunnelTypeOK
<1>11. TunnelsKept
  <2>1. \A u \in Opened : /\ tunnel'[u].gate = tunnel[u].gate
                          /\ tunnel[u].listener \in Answered => tunnel'[u].listener \in Answered
    <3> SUFFICES ASSUME NEW u \in Opened
                 PROVE  /\ tunnel'[u].gate = tunnel[u].gate
                        /\ tunnel[u].listener \in Answered => tunnel'[u].listener \in Answered
      OBVIOUS
    <3>1. tunnel[u] \in TunnelType
      BY <1>4, TunnelTypes
    <3>2. /\ Closed(tunnel[u]).gate = tunnel[u].gate
          /\ Closed(tunnel[u]).listener = (IF tunnel[u].listener = "up" THEN "closed" ELSE tunnel[u].listener)
      BY <3>1, ClosedIs
    <3> QED BY <1>9, <3>2 DEF Answered
  <2> QED BY <1>9, <1>10, <2>1 DEF TunnelsKept
<1>12. TunnelTypeOK'
  <2>1. \A d \in Callers : caller'[d].tunnel \in {0} \cup Opened'
    BY <1>4, <1>6, <1>7, <1>9 DEF TunnelTypeOK
  <2>2. pool' \in [tunnel : {0} \cup Opened', conn : 0..(MaxEdits + 1)]
    BY <1>3, <1>4, <1>9, TunnelAssumption DEF TunnelTypeOK, NoPool
  <2>3. Opened' \subseteq Tunnels /\ current' \in {0} \cup Opened' /\ tunnelCrossed' \subseteq Opened'
    BY <1>3, <1>4, <1>9, <1>10 DEF TunnelTypeOK
  <2> QED BY <1>3, <1>4, <1>7, <1>9, <2>1, <2>2, <2>3 DEF TunnelTypeOK
<1>13. Numbered'
  BY <1>1, <1>3, <1>9, NextTunnel DEF TunnelInv, Numbered
<1>14. \A d \in Callers \ {c} : Follows(d) /\ (Inside(d)' <=> Inside(d))
  BY <1>7 DEF Follows, Inside
<1>15. Inside(c)' /\ c \in On(t)'
  BY <1>6, <1>7 DEF Inside, On
<1>16. CallerHolds(c)'
  <2>1. On(t)' = {c}
    <3>1. \A d \in Callers \ {c} : caller'[d].tunnel # t
      BY <1>4, <1>7 DEF TunnelTypeOK
    <3> QED BY <1>15, <3>1 DEF On
  <2> QED BY <1>3, <1>4, <1>5, <1>6, <1>7, <1>8, <1>9, <2>1 DEF CallerHolds
<1>17. \A d \in Callers \ {c} :
         Inside(c)' /\ Inside(d) /\ caller[d].test => caller[d].tunnel # caller'[c].tunnel
  BY <1>4, <1>6, <1>7, TunnelParts DEF CallerHolds
<1>18. current' # current =>
         \A d \in Callers \ {c} : Inside(d)' /\ caller'[d].tunnel = current => current \in tunnelCrossed'
  <2> SUFFICES ASSUME current' # current, NEW d \in Callers \ {c}, Inside(d)', caller'[d].tunnel = current
               PROVE  current \in tunnelCrossed'
    OBVIOUS
  <2>1. Inside(d) /\ caller[d].tunnel = current /\ current \in Opened
    BY <1>7, <1>14, TunnelParts DEF CallerHolds
  <2>2. d \in On(current) /\ current # 0
    BY <1>4, <2>1, TunnelTypes DEF On, Inside
  <2>3. replaces
    BY <1>2, <1>3, <2>2
  <2> QED BY <1>3, <2>2, <2>3 DEF CloseNote
<1>19. \A d \in Callers : CallerHolds(d)'
  <2>1. current' \in {current, 0} \/ current' \notin Opened
    BY <1>3, <1>4
  <2> QED BY <1>11, <1>14, <1>16, <1>17, <1>18, <2>1, CallersKeep
<1>20. NothingLeftOpen'
  <2>1. PICK T : T = {current, t}
    OBVIOUS
  <2>2. \A u \in Opened \ T : tunnel'[u] = tunnel[u] /\ (u = current => u = current')
    BY <1>9, <2>1
  <2>3. \A d \in Callers : Inside(d) /\ caller[d].test /\ caller[d].tunnel \notin T =>
          Inside(d)' /\ caller'[d].test /\ caller'[d].tunnel = caller[d].tunnel
    BY <1>5, <1>7, <1>14
  <2>4. Left(t)'
    <3>1. InUse(t)'
      BY <1>3, <1>4, <1>6, <1>7, <1>15 DEF InUse
    <3> QED BY <3>1 DEF Left
  <2>5. \A v : v = current /\ v \in Opened' => Left(v)'
    <3> SUFFICES ASSUME NEW v, v = current, v \in Opened' PROVE Left(v)'
      OBVIOUS
    <3>1. CASE ~replaces
      <4>1. current' = current
        BY <1>1, <1>2, <1>3, <1>4, <1>9, <3>1, TunnelTypes
      <4> QED BY <4>1 DEF Left, InUse
    <3>2. CASE replaces
      <4>1. /\ v \in Opened /\ tunnel'[v] = Closed(tunnel[v]) /\ CloseNote(v, On(v))
            /\ tunnel[v] \in TunnelType /\ tunnel[v].listener \in {"opening", "up", "failed", "closed"}
            /\ tunnel[v].ssh \in {"none", "login", "up"}
        BY <1>3, <1>4, <1>9, <3>2, TunnelTypes
      <4>2. /\ tunnel'[v].listener = (IF tunnel[v].listener = "up" THEN "closed" ELSE tunnel[v].listener)
            /\ tunnel'[v].ssh = (IF tunnel[v].ssh = "up" THEN "none" ELSE tunnel[v].ssh)
        BY <4>1, ClosedIs
      <4> QED BY <4>1, <4>2 DEF Left, Quiet, CloseNote
    <3> QED BY <3>1, <3>2
  <2>6. \A u \in Opened' \cap T : Left(u)'
    BY <2>1, <2>4, <2>5
  <2>7. Opened' \subseteq Opened \cup T /\ tunnelCrossed \subseteq tunnelCrossed'
    BY <1>9, <1>10, <2>1
  <2> QED BY <2>2, <2>3, <2>6, <2>7, OthersLeft
<1>21. PoolHolds'
  <2>1. CASE replaces
    BY <1>3, <2>1 DEF PoolHolds
  <2>2. CASE ~replaces
    <3>1. current' = current \/ current = 0
      BY <1>2, <1>3, <2>2
    <3>2. current' = current \/ pool = NoPool \/ poolCrossed
      BY <1>4, <3>1, TunnelParts, TunnelTypes DEF PoolHolds
    <3> QED BY <1>3, <1>11, <2>2, <3>2, PoolStays
  <2> QED BY <2>1, <2>2
<1>22. KeyHolds' /\ EditHolds'
  BY <1>3, EditsStay
<1> QED BY <1>12, <1>13, <1>19, <1>20, <1>21, <1>22 DEF TunnelInv
-----------------------------------------------------------------------------
LEMMA TunnelStays ==
  ASSUME TunnelInv, UNCHANGED tunnelVars PROVE TunnelInv'
<1>1. TunnelTypeOK' /\ Numbered' /\ NothingLeftOpen' /\ PoolHolds' /\ KeyHolds' /\ EditHolds'
  BY DEF TunnelInv, tunnelVars, TunnelTypeOK, Numbered, NothingLeftOpen, PoolHolds, KeyHolds, EditHolds,
         Opened, InUse, On
<1>2. \A c \in Callers : CallerHolds(c)'
  BY DEF TunnelInv, tunnelVars, CallerHolds, Inside, Opened, On
<1> QED BY <1>1, <1>2 DEF TunnelInv

LEMMA TunnelInvNext == TunnelInv /\ [TunnelNext]_tunnelVars => TunnelInv'
<1> SUFFICES ASSUME TunnelInv, [TunnelNext]_tunnelVars PROVE TunnelInv'
  OBVIOUS
<1>1. ASSUME NEW c \in Callers,
             \/ GetConnection(c) \/ GetGateway(c) \/ Share(c) \/ Open(c) \/ NoListener(c)
             \/ EnsureSsh(c) \/ Use(c)
      PROVE  TunnelInv'
  BY <1>1, GetConnectionKeeps, GetGatewayKeeps, ShareKeeps, OpenKeeps, NoListenerKeeps, EnsureSshKeeps,
     UseKeeps
<1>2. ASSUME NEW t \in Opened,
             \/ \E ok \in BOOLEAN : Listen(t, ok)
             \/ LoggedIn(t) \/ LoginFailed(t) \/ Hangup(t) \/ Redial(t)
      PROVE  TunnelInv'
  BY <1>2, NetworkKeeps, LoggedInKeeps, LoginFailedKeeps
<1>3. CASE \/ Release \/ SaveEdit \/ DropHandles
           \/ \E what \in {{"conn"}, {"conn", "target"}, {"gate"}, {"gate", "host"}} : BeginEdit(what)
  BY <1>3, ReleaseKeeps, EditStepKeeps
<1>4. CASE UNCHANGED tunnelVars
  BY <1>4, TunnelStays
<1> QED BY <1>1, <1>2, <1>3, <1>4 DEF TunnelNext

LEMMA TunnelInvariant == TunnelSpec => []TunnelInv
<1>1. TunnelInit => TunnelInv
  BY TunnelInvInit
<1>2. TunnelInv /\ [TunnelNext]_tunnelVars => TunnelInv'
  BY TunnelInvNext
<1> QED BY <1>1, <1>2, PTL DEF TunnelSpec

(* The map of tunnels, the pool and the requests keep their shape.          *)
THEOREM TunnelTypeCorrect == TunnelSpec => []TunnelTypeOK
<1>1. TunnelInv => TunnelTypeOK
  BY DEF TunnelInv
<1> QED BY <1>1, TunnelInvariant, PTL

(* A tunnel nobody can find again is shut: close() was called on it         *)
(* (tunnel.js), or somebody was in it when it was.                          *)
THEOREM NothingStaysOpen == TunnelSpec => []NothingLeftOpen
<1>1. TunnelInv => NothingLeftOpen
  BY DEF TunnelInv
<1> QED BY <1>1, TunnelInvariant, PTL

(* Outside an edit the driver's pool is aimed at the current tunnel and     *)
(* made from the current rows (db/index.js), and the pinned key is the      *)
(* current host's (ssh.js), unless one was read before the edit.            *)
THEOREM EditsHold == TunnelSpec => []EditsTakeHold
<1>1. TunnelInv => EditsTakeHold
  BY DEF TunnelInv, PoolHolds, KeyHolds, EditsTakeHold
<1> QED BY <1>1, TunnelInvariant, PTL
-----------------------------------------------------------------------------
(***************************************************************************)
(* The run of all that is kept up to date, in the server and in the browser *)
(* (ClientProofs), is a run of each of its components.                      *)
(***************************************************************************)

(* Each component takes its own steps in MCUpkeep, or none.                 *)
THEOREM UpkeepImplements ==
  UpkeepSpec => /\ TunnelSpec /\ DestSpec /\ ModulesSpec /\ UpgradeSpec
                /\ TabsSpec /\ StageSpec /\ DesignSpec
<1>1. UpkeepInit => /\ TunnelInit /\ DestInit /\ ModulesInit /\ UpgradeInit
                    /\ TabsInit /\ StageInit /\ DesignInit
  BY DEF UpkeepInit
<1>2. [UpkeepNext]_upkeepVars => [TunnelNext]_tunnelVars
  BY DEF UpkeepNext, upkeepVars, tunnelVars
<1>3. [UpkeepNext]_upkeepVars => [DestNext]_destVars
  BY DEF UpkeepNext, upkeepVars, destVars
<1>4. [UpkeepNext]_upkeepVars => [ModulesNext]_moduleVars
  BY DEF UpkeepNext, upkeepVars, moduleVars
<1>5. [UpkeepNext]_upkeepVars => [UpgradeNext]_upgradeVars
  BY DEF UpkeepNext, upkeepVars, upgradeVars
<1>6. [UpkeepNext]_upkeepVars => [TabsNext]_tabVars
  BY DEF UpkeepNext, upkeepVars, tabVars
<1>7. [UpkeepNext]_upkeepVars => [StageNext]_stageVars
  BY DEF UpkeepNext, upkeepVars, stageVars
<1>8. [UpkeepNext]_upkeepVars => [DesignNext]_designVars
  BY DEF UpkeepNext, upkeepVars, designVars
<1> QED BY <1>1, <1>2, <1>3, <1>4, <1>5, <1>6, <1>7, <1>8, PTL
        DEF UpkeepSpec, TunnelSpec, DestSpec, ModulesSpec, UpgradeSpec, TabsSpec, StageSpec,
            DesignSpec

(* What each of them keeps typed is typed in the run (UpkeepTypeOK).        *)
THEOREM UpkeepTypeCorrect == UpkeepSpec => []UpkeepTypeOK
<1>1. /\ TunnelTypeOK /\ DestTypeOK /\ ModulesTypeOK /\ UpgradeTypeOK
      /\ TabsTypeOK /\ StageTypeOK /\ DesignTypeOK
      => UpkeepTypeOK
  BY DEF UpkeepTypeOK
<1> QED BY <1>1, UpkeepImplements, TunnelTypeCorrect, DestTypeCorrect, ModulesTypeCorrect,
           UpgradeTypeCorrect, TabsTypeCorrect, StageTypeCorrect, DesignTypeCorrect, PTL
=============================================================================
