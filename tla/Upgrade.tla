------------------------------ MODULE Upgrade -------------------------------
(***************************************************************************)
(* The metadata migrator (server/migrator), run by every boot of the app    *)
(* and by the in-app update's one-shot container, and the update's swap of   *)
(* containers (server/system-update.js, dockerSelfUpdate).  Any of these     *)
(* processes may die between two steps and be started again.               *)
(***************************************************************************)
EXTENDS Naturals, FiniteSets

CONSTANTS
  Latest,     \* LEGACY_VERSION
  Baselines,  \* the migrations of the old image: 1..Baselines, 0_baseline being 1
  Added,      \* how many more the new image has
  MaxDeaths   \* bound on the deaths and failed migrations

ASSUME UpgradeAssumption ==
  /\ {Latest, Baselines} \subseteq Nat \ {0} /\ {Added, MaxDeaths} \subseteq Nat

VARIABLES
  meta,     \* the metadata database
  job,      \* the migration under way: whose, and its next step
  box,      \* the image of the app's container that is up, or "none"
  serving,  \* the app is past its boot
  swap,     \* the helper's next step
  halfway,  \* history: a stop fell between the two writes of the resolve
  deaths

upgradeVars == <<meta, job, box, serving, swap, halfway, deaths>>

NoJob == [by |-> "nobody", at |-> "status"]

(* migrationNames() of an image.                                            *)
Names(image) == 1..(Baselines + (IF image = "new" THEN Added ELSE 0))
JobImage == IF job.by = "app" THEN box ELSE "new"
Pending(image) == Names(image) \ meta.applied

UpgradeTypeOK ==
  /\ meta \in [version : 0..Latest, tables : BOOLEAN, tracked : BOOLEAN,
               applied : SUBSET Names("new"), failed : BOOLEAN, seeded : BOOLEAN]
  /\ job \in [by : {"nobody", "app", "oneshot"},
              at : {"status", "legacy", "resolve", "record", "deploy", "seed"}]
  /\ box \in {"none", "old", "new"} /\ serving \in BOOLEAN
  /\ swap \in {"idle", "stop", "migrate"} /\ halfway \in BOOLEAN /\ deaths \in 0..MaxDeaths

(* Empty, made before Prisma at some version, or up to date.                *)
UpgradeInit ==
  /\ meta \in
       {[version |-> 0, tables |-> FALSE, tracked |-> FALSE, applied |-> {}, failed |-> FALSE, seeded |-> FALSE]}
       \cup {[version |-> v, tables |-> TRUE, tracked |-> FALSE, applied |-> {}, failed |-> FALSE,
              seeded |-> v = Latest] : v \in 1..Latest}
       \cup {[version |-> Latest, tables |-> TRUE, tracked |-> TRUE, applied |-> Names("old"),
              failed |-> FALSE, seeded |-> TRUE]}
  /\ job = NoJob /\ box = "old" /\ serving = FALSE /\ swap = "idle"
  /\ halfway = FALSE /\ deaths = 0
-----------------------------------------------------------------------------
(* runMigrations is through: the app serves, or the helper goes on.         *)
Succeeds ==
  /\ job' = NoJob
  /\ serving' = (job.by = "app")
  /\ swap' = IF job.by = "app" THEN swap ELSE "idle"
  /\ box' = IF job.by = "app" THEN box ELSE "new"

(* It throws or dies: the app's container is started again, the helper      *)
(* brings the old one back.                                                 *)
Fails ==
  /\ job' = NoJob
  /\ swap' = IF job.by = "app" THEN swap ELSE "idle"
  /\ box' = IF job.by = "app" THEN box ELSE "old"
  /\ UNCHANGED serving

Goes(step) == job' = [job EXCEPT !.at = step] /\ UNCHANGED <<serving, swap, box>>

(* Server.js imports the migrator first.                                    *)
Boot ==
  /\ box # "none" /\ ~serving /\ job = NoJob
  /\ job' = [by |-> "app", at |-> "status"]
  /\ UNCHANGED <<meta, box, serving, swap, halfway, deaths>>

(* metaSchemaStatus: with nothing pending there is nothing to do.           *)
Status ==
  /\ job # NoJob /\ job.at = "status"
  /\ IF meta.tracked /\ Pending(JobImage) = {} THEN Succeeds
     ELSE Goes(IF ~meta.tracked /\ meta.tables THEN "legacy" ELSE "deploy")
  /\ UNCHANGED <<meta, halfway, deaths>>

(* A legacy step and its version number are one transaction; the steps also *)
(* make the roles and the root.                                             *)
LegacyStep ==
  /\ job.by # "nobody" /\ job.at = "legacy"
  /\ IF meta.version < Latest
     THEN /\ meta' = [meta EXCEPT !.version = @ + 1, !.seeded = (meta.version + 1 = Latest)]
          /\ UNCHANGED <<job, serving, swap, box>>
     ELSE Goes("resolve") /\ UNCHANGED meta
  /\ UNCHANGED <<halfway, deaths>>

(* prisma migrate resolve --applied 0_baseline (external) makes the history *)
(* table, then writes the baseline's row.                                   *)
Resolve ==
  /\ job.by # "nobody" /\ job.at = "resolve"
  /\ meta' = [meta EXCEPT !.tracked = TRUE]
  /\ Goes("record")
  /\ UNCHANGED <<halfway, deaths>>

(* A slip: the row is left for deploy to write.                             *)
BrokenRecorded == meta.applied

Recorded == meta.applied \cup {1}

RecordBaseline ==
  /\ job.by # "nobody" /\ job.at = "record"
  /\ meta' = [meta EXCEPT !.applied = Recorded]
  /\ Goes("deploy")
  /\ UNCHANGED <<halfway, deaths>>

(* prisma migrate deploy: in name order, and not at all after a migration   *)
(* that failed.  The baseline's tables must not be there yet.               *)
NextOf(image) == CHOOSE m \in Pending(image) : \A n \in Pending(image) : m <= n

Deploy ==
  /\ job.by # "nobody" /\ job.at = "deploy" /\ Pending(JobImage) # {}
  /\ IF meta.failed THEN Fails /\ UNCHANGED <<meta, halfway, deaths>>
     ELSE LET m == NextOf(JobImage)
              fails == m = 1 /\ meta.tables
          IN  /\ meta' = [meta EXCEPT !.tracked = TRUE, !.tables = TRUE, !.failed = fails,
                                      !.applied = IF fails THEN @ ELSE @ \cup {m}]
              /\ IF fails THEN Fails ELSE UNCHANGED <<job, serving, swap, box>>
              /\ UNCHANGED <<halfway, deaths>>

(* A migration stops in the middle and leaves its row unfinished, or prisma *)
(* stops with no more done than the history table.                          *)
DeployBreaks ==
  /\ job.by # "nobody" /\ job.at = "deploy" /\ Pending(JobImage) # {} /\ deaths < MaxDeaths
  /\ \/ meta' = [meta EXCEPT !.tracked = TRUE, !.tables = TRUE, !.failed = TRUE]
     \/ meta' = [meta EXCEPT !.tracked = TRUE]
  /\ Fails
  /\ deaths' = deaths + 1
  /\ UNCHANGED halfway

Deployed ==
  /\ job.by # "nobody" /\ job.at = "deploy" /\ Pending(JobImage) = {}
  /\ Goes("seed")
  /\ UNCHANGED <<meta, halfway, deaths>>

Seed ==
  /\ job.by # "nobody" /\ job.at = "seed"
  /\ meta' = [meta EXCEPT !.seeded = TRUE, !.version = Latest]
  /\ Succeeds
  /\ UNCHANGED <<halfway, deaths>>

(* The process that migrates dies; so does an app that serves.              *)
Die ==
  /\ deaths < MaxDeaths
  /\ \/ job # NoJob /\ Fails
     \/ serving /\ serving' = FALSE /\ UNCHANGED <<job, swap, box>>
  /\ halfway' = (halfway \/ job.at = "record")
  /\ deaths' = deaths + 1
  /\ UNCHANGED meta
-----------------------------------------------------------------------------
(* dockerSelfUpdate: the containers are made, the helper started.           *)
Apply ==
  /\ serving /\ box = "old" /\ swap = "idle"
  /\ swap' = "stop"
  /\ UNCHANGED <<meta, job, box, serving, halfway, deaths>>

(* The app is stopped, whatever it does, and the one-shot container run.    *)
BrokenStopped == box

Stopped == "none"

StopApp ==
  /\ swap = "stop"
  /\ box' = Stopped
  /\ serving' = (serving /\ box' # "none")
  /\ job' = [by |-> "oneshot", at |-> "status"]
  /\ swap' = "migrate"
  /\ halfway' = (halfway \/ job.at = "record")
  /\ UNCHANGED <<meta, deaths>>

UpgradeNext ==
  \/ Boot \/ Status \/ LegacyStep \/ Resolve \/ RecordBaseline \/ Deploy \/ DeployBreaks
  \/ Deployed \/ Seed \/ Die \/ Apply \/ StopApp

UpgradeSpec == UpgradeInit /\ [][UpgradeNext]_upgradeVars
-----------------------------------------------------------------------------
(* "On SQLite nothing else may hold the file open" while the migrator works *)
(* (migrator/index.js), and an app serves only a database that has all of   *)
(* its image's migrations, whatever died before.                            *)
ServesMigrated ==
  serving => job = NoJob /\ Pending(box) = {}

(* Deploy is about to run the baseline into tables that exist.              *)
Collides ==
  job.at = "deploy" /\ ~meta.failed /\ 1 \notin meta.applied /\ meta.tables

(* What the history records is what the tables are: the baseline is recorded *)
(* only over a database at the last legacy version or one built from it, and *)
(* is not run into tables that exist ("running it would collide"), whatever  *)
(* died before -- but for a death between the two writes of the resolve,     *)
(* after which the database counts as Prisma's with its baseline pending.    *)
BaselineOnce ==
  /\ 1 \in meta.applied => meta.tables /\ meta.version \in {0, Latest}
  /\ Collides => halfway

(* "A run that died between deploy and seed finishes the job next time"     *)
(* (migrator/index.js, seed): an app that serves has its roles and its root. *)
ServesSeeded == serving => meta.seeded
=============================================================================
