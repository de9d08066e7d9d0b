---------------------------- MODULE Destinations ----------------------------
(***************************************************************************)
(* A storage destination (server/storage.js): its row, the S3 client kept   *)
(* for it, the workflows that name it, and the artifacts of one backup run  *)
(* stored there and elsewhere (server/backup/history.js).  The client is    *)
(* made from the row a request holds and dropped after the row is written;  *)
(* an artifact goes by a request, which marks it, or by the retention of a  *)
(* later run, which does not.                                               *)
(***************************************************************************)
EXTENDS Naturals, FiniteSets

CONSTANTS
  Jobs,         \* the requests and runs under way
  Stores,       \* the destinations one backup run was stored in
  MaxConfigs    \* bound on the settings a destination goes through

ASSUME DestAssumption == MaxConfigs \in Nat \ {0}

VARIABLES
  config,     \* which settings the row has, 0 once it is deleted
  client,     \* the settings `s3Clients' has a client of, 0 for none
  named,      \* some workflow's graph names the destination
  objects,    \* the stores that hold the run's artifact
  marked,     \* run.uploads: those marked deleted
  pruned,     \* history: those a later run's retention deleted
  dissolved,  \* the workspace of the destination and of the run is gone
  task,       \* the requests
  lateClient, \* history: the client is of a row written since, or outlived it with the workspace
  lateName,   \* history: a workflow names it past its deletion or the check of one
  lateMark    \* history: two artifacts of the run were deleted at the same time

destVars ==
  <<config, client, named, objects, marked, pruned, dissolved, task, lateClient, lateName, lateMark>>

NoTask == [at |-> "idle", row |-> 0, store |-> {}, marks |-> {}]
At(step) == {j \in Jobs : task[j].at = step}

DestTypeOK ==
  /\ config \in 0..MaxConfigs /\ client \in 0..MaxConfigs /\ named \in BOOLEAN
  /\ objects \subseteq Stores /\ marked \subseteq Stores /\ pruned \subseteq Stores
  /\ dissolved \in BOOLEAN
  /\ task \in [Jobs -> [at : {"idle", "use", "write", "forget", "delete", "erase", "mark"},
                        row : 0..MaxConfigs, store : SUBSET Stores, marks : SUBSET Stores]]
  /\ lateClient \in BOOLEAN /\ lateName \in BOOLEAN /\ lateMark \in BOOLEAN

DestInit ==
  /\ config = 1 /\ client = 0 /\ named = FALSE
  /\ objects = Stores /\ marked = {} /\ pruned = {} /\ dissolved = FALSE
  /\ task = [j \in Jobs |-> NoTask]
  /\ lateClient = FALSE /\ lateName = FALSE /\ lateMark = FALSE
-----------------------------------------------------------------------------
Takes(j, step, row) == task' = [task EXCEPT ![j] = [NoTask EXCEPT !.at = step, !.row = row]]
Ends(j) == task' = [task EXCEPT ![j] = NoTask]

(* getStorage, by whatever is about to use, change or delete it.            *)
GetStorage(j, step) ==
  /\ task[j] = NoTask /\ config # 0
  /\ step = "delete" => ~named                   \* isStorageInUse
  /\ Takes(j, step, config)
  /\ UNCHANGED <<config, client, named, objects, marked, pruned, dissolved, lateClient, lateName, lateMark>>

(* getS3Client: an upload, a listing, a download, a prune or a test.        *)
UseClient(j) ==
  /\ task[j].at = "use"
  /\ client' = IF client = 0 THEN task[j].row ELSE client
  /\ lateClient' = IF client = 0 THEN task[j].row # config ELSE lateClient
  /\ Ends(j)
  /\ UNCHANGED <<config, named, objects, marked, pruned, dissolved, lateName, lateMark>>

(* updateStorage: the row, then the client.                                 *)
UpdateStorage(j) ==
  /\ task[j].at = "write" /\ config < MaxConfigs
  /\ config' = IF config = 0 THEN 0 ELSE config + 1
  /\ task' = [task EXCEPT ![j].at = "forget"]
  /\ UNCHANGED <<client, named, objects, marked, pruned, dissolved, lateClient, lateName, lateMark>>

DeleteStorage(j) ==
  /\ task[j].at = "delete"
  /\ config' = 0
  /\ task' = [task EXCEPT ![j].at = "forget"]
  /\ UNCHANGED <<client, named, objects, marked, pruned, dissolved, lateClient, lateName, lateMark>>

Forgotten == 0

ForgetS3Client(j) ==
  /\ task[j].at = "forget"
  /\ client' = Forgotten /\ lateClient' = FALSE
  /\ Ends(j)
  /\ UNCHANGED <<config, named, objects, marked, pruned, dissolved, lateName, lateMark>>

(* A workflow is saved with the destination, which nobody looks up, or      *)
(* without it.                                                              *)
NameStorage ==
  /\ named' = TRUE
  /\ lateName' = (config = 0 \/ At("delete") # {})
  /\ UNCHANGED <<config, client, objects, marked, pruned, dissolved, task, lateClient, lateMark>>

DropName ==
  /\ named' = FALSE
  /\ UNCHANGED <<config, client, objects, marked, pruned, dissolved, task, lateClient, lateName, lateMark>>

(* deleteWorkspaceCascade: the row goes with the workspace, with its runs   *)
(* and its workflows.  Nobody drops the client, or asks who names it: a     *)
(* workflow elsewhere may.                                                  *)
DissolveWorkspace(elsewhere) ==
  /\ ~dissolved
  /\ dissolved' = TRUE /\ config' = 0
  /\ lateClient' = (client # 0)
  /\ named' = (named /\ elsewhere)
  /\ lateName' = (lateName \/ named')
  /\ UNCHANGED <<client, objects, marked, pruned, task, lateMark>>
-----------------------------------------------------------------------------
(* DELETE of an artifact: the run is read, the object deleted, the run's    *)
(* uploads written back with one more mark.  Of two at once the second      *)
(* writes over the first one's mark.                                        *)
FindRunUpload(j, s) ==
  /\ task[j] = NoTask /\ s \in Stores \ marked /\ ~dissolved
  /\ task' = [task EXCEPT ![j] = [NoTask EXCEPT !.at = "erase", !.store = {s}, !.marks = marked]]
  /\ lateMark' = (lateMark \/ At("erase") \cup At("mark") # {})
  /\ UNCHANGED <<config, client, named, objects, marked, pruned, dissolved, lateClient, lateName>>

(* The destination may be gone or not answer: then nothing is marked.       *)
DeleteObjects(j, ok) ==
  /\ task[j].at = "erase"
  /\ objects' = IF ok THEN objects \ task[j].store ELSE objects
  /\ IF ok THEN task' = [task EXCEPT ![j].at = "mark"] ELSE Ends(j)
  /\ UNCHANGED <<config, client, named, marked, pruned, dissolved, lateClient, lateName, lateMark>>

BrokenMarks(j) == task[j].store

Marks(j) == task[j].marks \cup task[j].store

MarkRunUploadDeleted(j) ==
  /\ task[j].at = "mark"
  /\ marked' = IF dissolved THEN marked ELSE Marks(j)
  /\ Ends(j)
  /\ UNCHANGED <<config, client, named, objects, pruned, dissolved, lateClient, lateName, lateMark>>

(* pruneOldBackups, after an upload of a later run: an old artifact goes    *)
(* from a store, and the run that left it there is not told.                *)
PruneOldBackups(s) ==
  /\ objects' = objects \ {s}
  /\ pruned' = pruned \cup ({s} \cap objects)
  /\ UNCHANGED <<config, client, named, marked, dissolved, task, lateClient, lateName, lateMark>>

DestNext ==
  \/ \E j \in Jobs :
       \/ \E step \in {"use", "write", "delete"} : GetStorage(j, step)
       \/ UseClient(j) \/ UpdateStorage(j) \/ DeleteStorage(j) \/ ForgetS3Client(j)
       \/ \E s \in Stores : FindRunUpload(j, s)
       \/ \E ok \in BOOLEAN : DeleteObjects(j, ok)
       \/ MarkRunUploadDeleted(j)
  \/ NameStorage \/ DropName
  \/ \E elsewhere \in BOOLEAN : DissolveWorkspace(elsewhere)
  \/ \E s \in Stores : PruneOldBackups(s)

DestSpec == DestInit /\ [][DestNext]_destVars
-----------------------------------------------------------------------------
(* "Dropped when the destination's config changes" (storage.js, s3Clients): *)
(* with no change under way the client is of the row's settings, unless it  *)
(* was made after the change by a request that had read the row before it,  *)
(* or the row went with its workspace.                                      *)
ClientFollowsConfig ==
  client # 0 /\ ~lateClient /\ At("forget") = {} => client = config

(* No workflow names a destination that is gone, unless it was saved past   *)
(* the deletion or its check ("deleting it out from under a scheduled       *)
(* backup would fail silently", storage.js), or the workspace is gone.      *)
NamedStays == named /\ ~lateName => config # 0

(* The history says of an artifact that it is gone ("Restore/Download       *)
(* disappear", server.js) only when it is, whatever overlaps; and it says   *)
(* so of all that are, but for those the retention took and the deletions   *)
(* that overlapped.                                                         *)
HistoryTellsGone ==
  /\ marked \cap objects = {}
  /\ ~lateMark /\ ~dissolved /\ At("mark") = {} => Stores \ objects \subseteq marked \cup pruned

(* What is read of a destination is of it as it now is.                     *)
DestinationsHold == ClientFollowsConfig /\ NamedStays /\ HistoryTellsGone
=============================================================================
