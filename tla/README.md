# TabletsGo: models, checks and proofs

TabletsGo is a self-hosted database console. One Node process (`src/server.js`
over `src/server/`) serves a React client (`src/src/`), keeps everything it
knows in a metadata store (SQLite by default, PostgreSQL optionally, both
through Prisma) and reaches the users' databases through drivers. Several such
processes may share one PostgreSQL store.

Almost every route of the server does the same thing: it awaits a few reads,
decides, and awaits a few writes. Node runs one piece of JavaScript at a time,
but between any two awaits any other request may run. What this project is
about are the places where that matters: state that one request read and
another changed, two copies of the same fact that must not drift apart, limits
that are checked in one step and used in another, and what a restart leaves
behind. The client has the same difficulty in another form: a handler works on
the render it was made in.

The modules are checked by TLC on small instances. What their runs check of
safety is also proved, with TLAPS, for every value of the constants: the type
invariant and the safety properties of each component, and that the scheduler
implements its abstract specification.

## 1. The system

| Component | State it keeps | Operations | What makes it correct |
| --- | --- | --- | --- |
| Metadata gate, `server/meta.js` | `readers`, `writing`, `queued`, parked resolvers; one SQLite connection | `gate.read` around each plain query, `gate.write` around each transaction | a transaction is alone on the connection; nobody is left parked; transactions are not starved |
| Permission memo, `server/resource-tree.js` | `resolveCache` with a policy version and a generation; `transactionsOpen` | `memo`, `invalidateResolution`, and every write that must call it | what it serves is what a fresh computation would give |
| Resource tree, `server/resource-tree.js` | `resource_nodes` (parent, materialized path, depth, workspace), `resource_grants` | create, file, move, delete a node; make and remove a grant; the cascades | path = parent's path + id; everything hangs on the root; nodes mirror resources; grants name what exists |
| Accounts and membership, `server/users.js`, `server/workspaces.js` | `users.role`, `node_members`, grants and `owner_id` of a workspace's node | setup, promote, demote, delete; seat, regrade, remove; hand over | an admin is left; a workspace keeps an owner; roster and grants agree; admins hold no seat |
| Roles and the policy, `server/permissions.js` | `roles`, `role_permissions`, the copy of both in memory | load, create, edit, delete a role; grants that name one | memory follows the tables; no grant names a role that is gone; owners can manage |
| Login sessions, `server/sessions/hybrid.js`, `db.js`, `memory.js` | a row per token, a cached copy per process, `persistedAt` | sign in, use, sign out, sweep, restart | a login in use is kept; a revoked one ends |
| Connection sessions, `server/sessions/index.js`, `server/db/index.js` | a record and a handle per target, the drivers' pools | enter, touch, close one or all, sweep, run an operation | the limit; no phantom sessions; no pool without a handle |
| Sign-in guard, `server/login-guard.js` | the lock fields of a user's row | refuse, count a failure, block, lapse, unblock | blocked exactly after so many failures in a row |
| Backups, `server/backup/` | `backup_schedules.next_run_at`, `backup_runs` with their uploads | claim, run, retry, edit a schedule; delete an artifact | a slot is run once and no slot is left due; the history says what is there |
| Workflows, `server/workflow.js`, `workflow-store.js` | graphs, `next_run_at`, a stack of calls per run | claim, edit; walk a graph | as for slots; each branch as often as it was asked for, and an end |
| SSH tunnels, `server/db/tunnel.js`, `server/ssh.js` | a tunnel per connection: listener, SSH client; the host key on record | reach, replace, close; log in, pin the key; edit | one login at a time; close leaves nothing open; the pool is aimed at what is current |
| Storage destinations, `server/storage.js` | rows, S3 clients by row | use, edit, delete | the client is of the settings on record; nobody names a destination that is gone |
| Modules, `server/module-registry.js`, `module-settings.js` | which engines and features are on, stored and in memory | plan and apply an update | one engine stays on; engines in use go off on purpose only |
| Folders, `server/folders.js` | `parent_id` per folder, `folder_id` per item | create, move, delete, file | no cycle, the depth cap, nothing filed in a folder that is gone |
| Migrator and update, `server/migrator/`, `server/system-update.js` | the metadata's version, its migration history, the seed; which container is up | each boot, the one-shot container, the swap | an app serves what its image expects; the baseline is recorded where it is true |
| Browser application, `src/src/` | tabs and panes, staged changes, forms, views | event handlers, calls to the API | each pane shows its own tabs; no change is lost or run twice |
| Schema drafts, `useSchemaDraftController.ts`, `server/schema-drafts.js` | a row per design, the statements on the page | save, sync, release, link, unlink | a design is somewhere; no statement is lost or run twice |
| Drivers, transfer, settings, mail | mostly the outside world's | I/O, single rows | not modelled, see section 7 |

How they interact:

- Every server component reads and writes through the metadata gate. The gate
  does not make a *request* atomic: only a query, or a transaction.
- `transaction()` joins a transaction that is already open on the same
  asynchronous context, so a cascade over three modules
  (`deleteWorkspaceCascade`) is one transaction, which is why the models take it
  as one step.
- The permission memo reads the tree's tables and the policy in memory, and is
  dropped by the writes of the tree, of membership and of roles.
- A connection's session is entered by the gated driver operations, which reach
  the database through a tunnel if the connection has a gateway; editing or
  deleting a connection or a gateway ends sessions, tunnels and pools alike.
- Membership *is* the roster of a workspace's node plus a grant on that node:
  routes of the tree and routes of membership write the same two tables.
- Two timers, the scheduler's tick and the sweepers', run beside the requests.
  A tick's runs name destinations, which routes edit and delete.
- Turning a module off locks its connections and stops its part of the tick.

What is hard here, in one line each (`PROJECT.json` lists all of it under
"hazards", at the line where it bites): checks that are awaits away from the
write they guard (the gate itself, the last admin, the last owner, the session
limit, the target of a move, the emptiness of a group, a role's usage, an
engine's); answers computed over several queries and then cached; handles made
from a row that has been edited since (a memo, a pool, an S3 client, a pinned
key); two clocks for one session; several processes with a cache each; a
restart or a death between two writes that belong together; a count kept by
read-modify-write; whole rows written back from an earlier read (a claim, an
edit of a schedule, a plan of modules, a run's uploads, a list of tabs);
answers of dropped calls.

## 2. Modules

| Module | Models | Runs | Proofs |
| --- | --- | --- | --- |
| `MetaGate` | `createGate` microtask by microtask, and the connection behind it | `progress`, `gate_isolation` | `MetaGateProofs` |
| `Scheduler` | schedules of backups and workflows, the tick, the claim, runs and retries | `progress` | `JobsProofs` |
| `DueSlots` | the abstract promise of a scheduler, which `Scheduler` implements | `progress` | `JobsProofs` |
| `WorkflowRun` | one run over any small graph | `progress` | `JobsProofs` |
| `ResolveCache` | the memo against every kind of write | `access` | `ResolveCacheProofs` |
| `AuthSessions` | one login on several processes | `access`, `login_sign_out`, `login_revoked` | `SessionsProofs` |
| `LoginGuard` | one account under concurrent sign-ins | `access` | `AccessProofs` |
| `ConnSessions` | one connection's sessions in one process | `access`, `conn_listed` | `SessionsProofs` |
| `RolePolicy` | role tables, the copy in memory, grants by slug | `access` | `AccessProofs` |
| `Membership` | accounts, roles, rosters, owners | `records`, `membership_owner` | `RecordsProofs` |
| `ResourceTree` | nodes, paths, grants to groups | `records`, `tree_detached` | `RecordsProofs` |
| `FolderTree` | the folders of one type, and what is filed in them | `records` | `RecordsProofs` |
| `Tunnel` | a connection's tunnel and pool, the pinned host key | `upkeep` | `UpkeepProofs` |
| `Destinations` | a destination, its client, one backup run's artifacts | `upkeep` | `UpkeepProofs` |
| `ModuleSettings` | modules stored and in memory, and the engines in use | `upkeep` | `UpkeepProofs` |
| `Upgrade` | migrations, the boot, the swap of containers, deaths | `upkeep`, `upgrade_seeded` | `UpkeepProofs` |
| `ConsoleTabs` | the console's tabs and two panes | `upkeep`, `topic_tabs` | `ClientProofs` |
| `StagedChanges` | the console's staged changes and their commits | `upkeep` | `ClientProofs` |
| `SchemaDesign` | one schema design's page: save, sync, release, move | `upkeep` | `ClientProofs` |

The modules `MCProgress`, `MCAccess`, `MCRecords` and `MCUpkeep` put several
components into one run. The components in such a module share no state: where
two of them write one table in the program (the grants a role is named by and
those that make a member), each models the rows it is about. A behaviour of the
run is therefore a behaviour of one component, chosen at the start in the
variable `part`, while the others stay at their initial state; the state space
is the sum, not the product, and each property is about one part. The other
`MC` modules hold what TLC needs beside a component: symmetry, definitions for
constants. Definitions named `Broken...` stand before the definition they vary:
each is a slip one could make in that code, and the properties are tested
against them (`PROJECT.json`, "mutants").

Several modules have history variables which record that two requests passed
one another in a way the code has no rule for. The properties leave out what
follows, and the table in section 3 lists every such exemption.

### MetaGate

State: the closure's four variables `readers`, `writing`, `queued`, `waiters`;
`jobs`, the microtasks the gate's promises have scheduled, in order; `phase`,
where each caller is; `conn`, the transaction that is open on the adapter's
connection (external code, modelled from how `meta.js` uses it: one connection,
one transaction at a time, plain queries run on it whatever is open).

Actions: `CallRead` and `CallWrite` are `gate.read` and `gate.write` up to their
first await. `Recheck` is a woken caller's turn round the loop in `until`.
`AdmitQuery`, `AdmitTransaction` are what runs one microtask after the check
held; that the two are apart is the point of the module. `SettleQuery`,
`SettleTransaction` end `fn()`; `LeaveRead`, `LeaveWrite` are the finally
blocks; `Begin` is the adapter getting to a transaction.

### Scheduler and DueSlots

`schedule` is the row of a backup schedule or of a workflow: whether it is
there, enabled, how often, `next_run_at`. `Tick` is the minute's read of the due
rows into `pending`; `Claim` writes the next slot from the row *as it was read*,
one row at a time and one kind after the other (each runner has its own loop);
`Launch` is the answer of `getConnection`, after which the run goes on by
itself: `EndAttempt`, `Retry`. An edit is two steps, `ReadForEdit` and
`WriteEdit`, and differs between the kinds as in the code: a backup's PUT writes
every field, those the body left out from the row it read; a workflow's writes
those it has, and `next_run_at`. `SwitchEngine` and `SwitchBackups` are the
modules that lock a connection or stop the tick's half. `Restart` loses what is
in memory and the minute's tick. `ComputeNextRun` is the arithmetic of
`computeNextRun` with an hour of one tick and a day of two.

`DueSlots` says what that comes to: a job has at most one slot ahead; a slot is
taken when its time has come, by nobody else, and leaves only a later one; a
crash may lose a slot that was about to be taken. The refinement mapping
(`Slots`) takes a job's slot to be the one a tick has read and not launched yet,
and otherwise `next_run_at`: the claim's write is a stutter, the launch is the
taking.

### WorkflowRun

`runWorkflow` as a walk with an explicit `stack` of the calls of `walk()`. A
graph is any assignment of the three kinds of node (one handle, a choice of two,
a loop's body and what follows) and any edges; cycles and shared nodes are
saved as they are drawn. `Walk` is a call up to the handle that is chosen,
`Follow` one edge of it, `NextItem` the loop's next item, `OutOfSteps` the
budget, `Throw` a node's error or the deadline, `Settle` the end. A leaf may be
"waiting" for a database, a web server or a store until it is answered
(`Answer`), and nothing in the code says that it will be: a query and a `fetch`
have no timeout, and `guard()` looks at the clock only when the next node is
walked. An edge may leave a node by a handle it has not got, as one kept from an
earlier drawing does; nobody follows it.

### ResolveCache

One key of the memo: one node, one user. The node is filed under a place, the
user may be on a group's roster, the group may hold a grant at places, and the
role may carry the permission. A request holds the node row (`GetNode`), asks
the memo (`AskMemo`, which notes the generation), reads the roster and the
grants in separate steps, computes with the policy in memory, and perhaps keeps
the answer (`Keep`, guarded by `MayKeep`). Writers are of three kinds: an
autocommitted write that invalidates after it, a transaction that invalidates
inside (`setPrincipalGrant`), one that invalidates after its commit (`moveNode`,
`deleteNode`); each may roll back. `InstallPolicy` is a finished `loadPolicy`
(`RolePolicy` has its two queries).

### AuthSessions

`row` is the session row's `expires_at`, `cache` and `persisted` each process's
cached copy and its `persistedAt` entry. A use is cut wherever the code awaits
the store: `BeginRead`, `AskSource`, `Backfill` (or `Miss`, `PurgeExpired`),
`Touch`, `Renew`, `Renewed`. The revocation is `BeginRevoke`, `DeleteRow`,
`FinishRevoke`; `SweepExpired` and a process's restart may come at any time.
Time is a counter.

### LoginGuard

The account's lock fields and role. A sign-in reads them (`ReadRow`), is refused
or allowed by its copy, perhaps clears a lapsed lock (`ClearExpired`), and
writes from the copy (`WrongPassword`, `RightPassword`). As history the module
counts wrong passwords in a row as the documentation means them; `overlap` notes
that two sign-ins overlapped.

### ConnSessions

Per target a record (its expiry), a handle (`lastSeenAt`), and the driver's
pools. A request: `FastTouch`, or `SlowTouch`, `CheckLimit`, `Register`; then
`OpenPool`, `EndOp`. Closing, ending all and the sweep go through `Forget`,
which is `releaseLocal`. The in-memory store answers at once, so between the
count and the registration lie microtasks and the metadata reads that resolve
the limit; other requests can pass there.

### RolePolicy

`roleIds` and `rolePerms` are the two tables, `rolePolicy` the `cache` in
memory. Every write ends in a load of two queries (`ReadRoles`, `ReadPerms`)
whose answers are installed when both are there (`InstallRoles`). A deletion
counts usage first (`CountUsage`, `DeleteRole`); a grant looks the role up in
memory first (`CheckCriteria`, `GrantRole`). `UniqueSlug` looks in memory only,
the unique index at the table. A grant carries, as history, the id of the role
that was meant, since a slug can be used again.

### Membership

`account` is `users.role` with "new" and "gone" around it; per workspace
`roster`, `grant` (the roles a user holds on the workspace's node: one through
the members routes, any number through the tree's grants route) and `nodeOwner`.
Of the roles only two things matter, whether they carry `workspace.manage`
(`Managing`) and whether `roleGrantableOn` admits them on a workspace
(`Grantable`); they stay as they are. A route is cut into its checks (`Check`,
whose content is `Holds`) and each of its transactions. The check on the last
owner is the code's: `LastGrant` counts owning *grants* as `countOwners` does,
and `MayLoseOwner` asks about one of the user's roles, whichever `memberRole`
finds first. `Seat` is `addMember` and `setMemberRole` with the answers of
`addNodeMember` and `addGrant` dropped, as the code drops them: the grants that
were there are deleted, and a role that is refused then is not put in their
place. `Writes` sets `stale` when a request's checks no longer hold as it
writes; `adrift` notes the workspaces that lost their last owner in a way no
check of the code covers.

### ResourceTree

`row` maps an id to its `resource_nodes` row. A path is the sequence of ids.
Requests read (`ReadFor...`), and hold copies of the rows they read, then write
in one transaction from the copies: `Insert`, `MoveNode`, `DeleteGroup`,
`AddShare`, `RemoveShare`. `Moved` is the rewriting of the descendants that
still have the old path before theirs. `home` is `connections.workspace_id`, so
that a connection and the node that mirrors it can be compared. Workspaces come
and go in one transaction. A restart drops what is under way. Rosters, access
lists and grants to users are left out: they are deleted along with what is
modelled (`Membership` has them).

`treeStale`: a request has written although what it had read was no longer so.
`crossed`: a node was filed under a node of another workspace (`moveNode` and
`POST /api/connections` allow it). `unfiled`: a restart came between a
connection's row and its node.

### FolderTree

`above` is `parent_id`, `filed` an item's `folder_id`. A table or a dashboard is
filed by a route that looks the folder up (`BeginFile`, `File`), a saved query
or a workflow under whatever id it is sent (`FileUnchecked`, for the items in
`Loose`); `misfiled` keeps those whose folder was not there. Each check of a
route is a step of its own, and a query that walks the tree (`FolderDepth`,
`FolderHasAncestor`, `FolderHeight`) is answered from the tree as it is then;
the walk down from a folder in a cycle does not end in the code and refuses the
move here. `Delete` lifts what the folder holds in one transaction, to the
parent that was read before it. A folder's `Lineage` is where the walk up from
it has been: the least set that has the folder and, with each folder that is
there, its parent.

### Tunnel

A caller reads the connection (`GetConnection`), the gateway (`GetGateway`),
shares the tunnel of the same signature or opens one (`Share`, `Open`, which
closes another and drops the pool aimed at it), waits for the listener, then for
the login that is under way or starts one (`EnsureSsh`), and uses the pool or
makes one (`Use`). A tunnel's signature is the gateway as saved and the
target's host and port; what else of the connection an edit changes leaves it
alone. A login that gets as far as the host's key pins it if the row read had
none (`Pins`), whether the probe after it succeeds (`LoggedIn`) or not
(`LoginFailed`).
`Redial` is a socket of the pool after a `Hangup`. An edit is three steps: what
it read, the row saved, the handles dropped. `Release` is the end of the last
session.

### Destinations

A request holds the row it read and later asks for the client (`UseClient`),
which is made from that row if there is none; an edit or a deletion writes the
row (`UpdateStorage`, `DeleteStorage`) and then drops the client
(`ForgetS3Client`). `named` is whether a workflow's graph names the destination.
An artifact's deletion is `FindRunUpload`, `DeleteObjects` and
`MarkRunUploadDeleted`, which writes the whole list of uploads back. The
retention of a later run deletes objects too (`PruneOldBackups`) and tells no
history (`pruned`). `DissolveWorkspace` is the end of the workspace: the row
goes with the runs and the workflows, and its client stays.

### ModuleSettings

`Plan` computes the next state from memory, `CheckEngine` looks for connections
of each engine that is off in it, `Store` writes the row, `SetModuleState`
copies the plan into memory. A connection is created in two steps, the check of
its engine and the row.

### Upgrade

`meta` is the metadata database: the legacy `version`, whether tables are there,
whether Prisma's history is (`tracked`), what it records (`applied`, `failed`),
whether roles and root are (`seeded`). A migration (`job`) is a boot's or the
one-shot container's and goes `Status`, `LegacyStep`s, `Resolve` and
`RecordBaseline` (`prisma migrate resolve` makes the history table, then writes
the baseline's row), `Deploy`s, `Seed`; it may die before any of them (`Die`) or
a migration may break (`DeployBreaks`). `halfway` keeps that a stop fell between
the two writes of the resolve. `Apply` and `StopApp` are the helper's script; if
the one-shot fails, the old container is started again. `prisma migrate` is
modelled from how the migrator uses it.

### ConsoleTabs

One `<<key, pane>>` per tab, in order. `Rearrange` is `setTabs` and
`settlePanes` together with the pane that is focused. `FinishCreate` opens the
tab of an item whose creation was awaited, in the pane focused in the render
where it began. `TopicDeleted` drops a tab per view, each time on the list of
the same render. A filter of the list is the recursive function in `Without`.

### StagedChanges

`staged` is the list, newest first; a batch is one call of `runChangeBatch`, the
commit's or that of a change made under "direct execute". A statement may run
and not be answered for, because the answer was lost or came after `runQuery`'s
timeout, which gives up in the browser only (`RunStatement`, `unanswered`):
`AfterRun` takes it for a failure, stops there and collects the rest, that
statement included; `EndBatch` puts what is left in the place of the list.

### SchemaDesign

`designs` are the rows a design moves through: a workspace's draft, or a
connection's saved query. `onPage` is `pending`. Every operation works on the
statements of the render it began in: `Save` and `SyncSchema` write them,
`OpenRelease` makes them the plan once the database was read, a release runs the
plan and writes the rest (`Remaining`), a move copies them. Cancelling the
dialog leaves its read running (`CloseRelease`); leaving the page leaves all but
its state (`Reopen`). `Covered` is what a modal keeps from being clicked; the
browser's Back button under a modal is left out.

## 3. What the runs check

Four runs pass:

- **progress**: `CountersAgree` (the gate's counters are the callers that are in
  and that wait), `NoLostWakeup`, `NoQueryAdmittedWhileWriting`, and, under
  fairness, `TransactionsGetIn`. `SlotsTakenOnce`: the scheduler implements
  `DueSlots`. `PausedStaysQuiet`: a paused job runs no slot that came due after
  the pause. `DueIsTaken`, under fairness. `EveryBranchWalked`: a run that ends
  well has followed each edge as often as its node asked for that handle.
  `RunEnds`, under fairness: a run whose nodes are answered comes to an end,
  however its graph loops.
- **access**: `LoginKept`, a login that was used lasts `Ttl` less `PersistAfter`
  from then (and less `2 * Delay`, what the calls of a use may take);
  `RevocationTakesHold`, a revoked one is used nowhere after `PersistAfter +
  CacheTtl` (and `3 * Delay`), which is not the minute that the comments speak
  of (see **login_revoked**). `CountedWhenAlone`, `NeverBlockedEarly`: the
  guard counts what happened. `HandlesAccountFor`: a handle is of a session
  somebody entered (`NoPhantomSession`), and a pool has a handle
  (`UntrackedOnlyIfCrossed`); `OverrunBounded`: the limit is exceeded by no more
  than the requests that passed together. `PolicyFollowsTables`, `OwnerManages`
  and `GrantsNameTheirRole` for the roles. `ServedAnswerIsCurrent`, once every
  committed write has invalidated, what the memo would serve is what a
  computation from the same node row gives now; `NothingKeptAcrossCommit`,
  nothing is cached while `setPrincipalGrant` is past its invalidation and
  before the end of its transaction.
- **records**: `RosterAgrees` (`GrantsOnRoster`, `SeatsAreUsers`,
  `NodeOwnerOnRoster`), `OwnerKept`, `AdminKept`; `PathsFollowParents`;
  `NothingDangles` (`GrantsStayInside`, `NodesMirrorConnections`);
  `FoldersNest`.
- **upkeep**: `NothingLeftOpen`, `EditsTakeHold` (the pool, the host key) for
  the tunnel; `DestinationsHold` (`ClientFollowsConfig`, `NamedStays`,
  `HistoryTellsGone`); `ModulesHold` (`AnEngineStaysOn`, `OffOnPurpose`);
  `ServesMigrated` and `BaselineOnce`: no app serves during a migration or short
  of its own, and the baseline is recorded only where it is true and never run
  into tables that exist, but for one death; `PanesShowTheirTabs`;
  `ChangesAccounted` (`ChangesWait`, `RunOnceInOrder`); `DesignKept`: a design
  is always in some row, a staged statement is on the page, ran, or was given
  up, and what a release ran is not offered again.

Where a property is a conjunction, the conjuncts have names and comments of
their own.

Eight runs show where the code does not do what a comment of it says
(`PROJECT.json`, "findings", quotes both):

- **gate_isolation**: `until` goes on a microtask after its check held. A query
  and a transaction called in the same tick both pass, and a plain query runs
  inside an open transaction. Two transactions woken together also both pass.
- **tree_detached**: two groups moved into one another by overlapping requests
  both pass the check made before the transaction, and leave the root.
- **membership_owner**: the tree's grants route removes the last owner's grant.
- **login_sign_out**: a read that missed the cache and asked the source before a
  sign-out backfills the cache after it, and the session is found again on the
  process that ended it.
- **login_revoked**: each use slides the cached copy, and the source is asked
  only once `PERSIST_AFTER` of the login's term has gone by. A session in
  constant use outlives its revocation on another process by days, where the
  comment on `CACHE_TTL_MS` has it end within the minute.
- **conn_listed**: the fast path renews the handle and never the record, so a
  session in constant use drops off the list, and out of the limit's count.
- **upgrade_seeded**: a first boot that dies between the last migration and the
  seed leaves nothing pending; the next one serves without roles and root.
- **topic_tabs**: of a deleted topic's tabs only the last view's is dropped.

Where a property is weaker than a comment suggests, the comment's version is a
violation run, or one of these exemptions says what is left out:

| Flag | Set when | Property that stops there |
| --- | --- | --- |
| `stale`, `treeStale`, `overtaken` | a request writes on checks or rows another write has changed | the properties of `records` |
| `crossed`, `unfiled` of `ResourceTree` | a node is filed across workspaces; a restart comes between a connection and its node | parts of `NothingDangles` |
| `adrift` | the last owner goes in a way no route counts: by the tree's grants or roster routes, by claiming the instance, by a restart before the first member is seated, holding two roles on the node (`countOwners` counts both, `memberRole` finds one), or given a role that is refused once the former ones are deleted | `OwnerKept` for that workspace, until it has an owner |
| `misfiled` | a saved query or a workflow is filed in a folder that is not there | `FoldersNest` for that item |
| (no flag) | a cached login is used at least once in `CacheTtl`: it is not read again before `PersistAfter` | the bound of `RevocationTakesHold` is `PersistAfter` longer than `RevokedQuickly`, which fails |
| `crossed` of `ConnSessions` | a close or a sweep crosses a request that had entered its session | `UntrackedOnlyIfCrossed` |
| `lapsed` | a row's term, or the one a call took it to have, ran out while the call waited | `LoginKept` |
| `overlap` | two sign-ins overlap | `CountedWhenAlone` |
| `loadsCrossed` | the last write of a role came while another's load was under way | `PolicyFollowsTables` (not `OwnerManages`) |
| `grantCrossed` | a grant passes the deletion of its role | `GrantsNameTheirRole` |
| `tunnelCrossed` | a tunnel is let go of while a caller or a login is in it | `NothingLeftOpen` for that tunnel |
| `poolCrossed` | the pool is made from rows or a tunnel already let go of | the pool's part of `EditsTakeHold` until the pool is dropped |
| `keyCrossed` | a gateway is saved across a first login | the key's part of `EditsTakeHold` |
| `lateClient`, `lateName`, `lateMark` | a client is made of an edited row, or its row goes with the workspace; a workflow is saved with a destination past its deletion or the check of it, or names one of a workspace that goes; two artifacts of a run are deleted at once | the conjuncts of `DestinationsHold`, one each (of `HistoryTellsGone` the part that what is gone is marked) |
| `pruned`, `dissolved` | a later run's retention deletes an artifact without telling the history; the workspace goes, and the history with it | that part of `HistoryTellsGone`, for that artifact or altogether |
| `halfway` | a stop falls between the two writes of `prisma migrate resolve` | `BaselineOnce`'s part on running the baseline: the next deploy does, and every later one refuses |
| `moduleCrossed`, `locked` | two updates overlap; an engine is turned off by force or while a connection is being created | `OffOnPurpose` (not `AnEngineStaysOn`) |
| `strayed` | a tab is opened in a pane that has gone, or a topic is deleted | `PanesShowTheirTabs` |
| `unanswered` | a statement runs and its answer is lost or late | `RunOnceInOrder` for that change: it stays staged and may run again |
| `stageCrossed` | a change is staged, or the list cleared, during a commit | `ChangesWait` for that change |
| `late`, `tangled` of `SchemaDesign` | a statement is staged during a save, a sync cancelled in the release dialog, or a release; another operation overlaps a release, a statement runs past the client's timeout, or the release's final write fails | `DesignKept` for that statement; its last part |

Each of them can happen in the code. They have no violation run of their own
where no comment of the code promises otherwise; the hazards in `PROJECT.json`
keep the lines. Met on the way and not modelled: `isStorageInUse`
(`storage.js:117-124`) looks at workflows only, so a destination that a backup
schedule names can be deleted; two updates applied at once start two helpers
(`server.js:3951`); closing several tabs at once leaves their query state behind
(`useConsoleTabs.ts`, the bulk closes).

## 4. Bounds

- `progress`. Gate: three transactions are the fewest for one to be open, one to
  pass beside it and one to wait; two queries the fewest for one to be in while
  another parks. Nothing in the gate compares callers. Schedulers: one backup
  and one workflow, so that both loops claim at once, of which one is live at
  the start; a clock of three minutes with an hour of one and a day of two sees
  a slot taken, retried past the next one, and edited from either frequency to
  the other; one restart, two edits, one retry. Runs: every graph of at most
  three nodes and three edges, up to the names of the nodes (`Sorted`: nodes
  come in the order of their types and out-degrees, which every graph does after
  a renaming), two items per loop and a budget of four calls, so that some walks
  fit and others run out.
- `access`. Logins: times are in ticks with `CacheTtl < PersistAfter < Ttl` (2,
  3, 6; the code has one minute, 3 days, 30 days), up to tick 12: two full
  lives; `Delay = 0`: calls interleave at every await but none outlasts a tick;
  the theorems take any `Delay` with `CacheTtl + PersistAfter + 2 * Delay <=
  Ttl`. Guard: three attempts, so that two failures are not yet a block and a
  stale count can be told from a fresh one; lockouts last a `Window` or more.
  Sessions: limit 1 and two requests are the fewest that overrun; three targets
  leave one for a third session; `TouchInterval * 3 <= IdleTtl` as in the code.
  Roles: two admins, a name that leads to two slugs, two roles ever made beside
  the owner's, so that a slug is freed and used again. Memo: `MaxGeneration` and
  `MaxVersion` end the counters at 2, and the constraint `Few` their sum at 3,
  and at 4 with the open transactions: a request can see a generation older than
  the present by two, and a new policy with one. Two requests let one's answer
  overwrite the other's; two writers let transactions overlap.
- `records`. Three accounts give an admin, an owner and another; one workspace
  is enough since workspaces share nothing but accounts. Four roles: two that
  own and may be granted, one that owns and is refused on a workspace, one that
  owns nothing. `FewGrants` stops at three grants on the workspace: one member
  has three, or one has two and another one. Two groups nest in one
  another with the connection below them, in either of two workspaces; one share
  is enough since each is judged alone. Three folders under a cap of two levels
  can be moved too deep in both ways (by depth, by height); one item is filed by
  a route that looks, one by a route that does not. The constraint
  `Undisturbed` stops a behaviour where a request's reads have been overtaken:
  the properties say nothing of what follows. It also lets one request at a time
  go on once something was filed across workspaces, and without grants: the
  proofs have neither bound.
- `upkeep`. Two callers and two tunnels: one replaces the other while it is in
  use; one edit, since a second finds nothing the first did not leave;
  `FewCrossed` stops where both tunnels were let go of in use, and are exempt.
  Three jobs on a destination (a use, an edit, a deletion) that is edited once,
  two stores of a run's artifacts. Two engines and a feature, two updates.
  Legacy versions up to 3, two migrations in the old image and two more in the
  new, so that each loop can be cut in the middle; three deaths. Two single tabs
  and two views of a topic; three changes, five statements run of them: each
  once, and two again. Two statements, a design that moves once, three
  operations (a save, a release, and the page left or a move between them); the
  theorem has any number of each.
- The violation runs have the smallest instance that shows the behaviour.

Symmetry is used over actors and ids that no definition tells apart, and not in
`progress`, which checks liveness. In the runs of several components, values of
different components have the same names in the `.cfg` (the reads of logins, the
attempts, the requests of sessions, the admins): no definition relates two of
them, a permutation of the names permutes each component's values, and the group
stays small. `CHECK_DEADLOCK FALSE` where a bound on a clock, a counter or the
supply of ids ends every behaviour, or where a component is meant to
end (a workflow's run); `gate_isolation` checks for deadlock as well.

## 5. Fairness

Only `progress` needs it.

- Gate. `RunJob`: Node drains its microtask queue before anything else. `Begin`:
  the adapter serves a transaction that waits for the connection. `SettleQuery`,
  `SettleTransaction`: a query or transaction ends, by an answer, an error, or
  Prisma's transaction timeout. No caller is assumed ever to make a call, and
  new queries may keep coming.
- Schedulers. `Tick` and `Minute`: cron fires each minute, and time passes.
  `Claim`, `Launch`: the metadata queries of a tick are answered. Nothing is
  assumed of runs, which may take for ever, nor of edits.
- Workflow runs. `Step`: what the walk itself does goes on. That a node is
  answered is not assumed, since nothing bounds a query or a `fetch`: `RunEnds`
  is about the runs that do not wait for ever. `Throw` is not required.

Weak fairness suffices for each: none is disabled again before it happens.

## 6. What is proved

**MetaGateProofs**, from `GateAssumption` (finite disjoint sets of callers):

- `TypeCorrect`, `CountersCorrect`, `WakeupsCorrect`, `AdmissionCorrect`: the
  gate's safety properties of run `progress`, for any number of callers.

`CountersAgree` is not inductive: it does not say that the calls in `jobs` are
the ones whose phase says so, each once (`Links`), and admission needs the order
of that queue. The invariant `IInv` adds both. `QueriesFirst` is the heart of
it: no query has passed its check while `writing`, and a query that has passed
is ahead in `jobs` of every transaction that has: it is in before the
transaction raises `writing`. From it `NoQueryAdmittedWhileWriting` follows
although the check was made a microtask earlier. The proof has a lemma per
conjunct and a step per action in each.

**ResolveCacheProofs**, from `CacheAssumption`:

- `TypeCorrect`; `ServedCorrect`, the property `ServedAnswerIsCurrent`;
  `WindowCorrect`, that is `NothingKeptAcrossCommit`; for any number of
  requests, writers and places.

`ServedAnswerIsCurrent` needs, inductively: that `open` counts the transactions
that are under way (`OpenCounts`), that no noted generation lies in the future
(`Stamps`), that a computation that could still be kept has crossed no
invalidation (`NoCrossing`), and that what such a computation has read so far is
what the tables hold, unless a committed write has yet to invalidate
(`ReadsCurrent`).

**JobsProofs**, of the scheduler, from `SchedAssumption` (a limit and a bound
that are numbers, an hour of at least a tick and no longer than the day):

- `SchedTypeCorrect`; `PausesHold`, the property `PausedStaysQuiet`;
  `Refinement`, that the scheduler implements `DueSlots` (`SlotsTakenOnce`).

All three rest on one invariant, `SchedInv`. What a tick has in hand is due, of
each job one row, either not yet claimed or being launched (`BeforeTick`,
`InHand`). Meanwhile the row in the table is as it was read or waits for
something later (`Standing`), because every write of `next_run_at` computes it
from the present and none copies what was read: this is what an edit that
crosses a claim could break. A run's slot lies before everything its job still
has, in hand or in the table (`Behind`), so no slot is taken twice. A slot in
hand of a job that has been paused since came due before the pause (`Pauses`).
The refinement then goes step by step: `AwaitedRead` says what the mapping's
CHOOSE comes to under the invariant, and there is a lemma for each action that
moves a slot (`TickMaps`, `ClaimMaps`, `LaunchMaps`, `RestartMaps`, and
`RowWritten` for those of the routes). `MaxTime` ends the clock in the model and
is arbitrary in the proofs.

Of a workflow's run, from `RunAssumption` (the loops' items and the budget are
numbers):

- `RunTypeCorrect`; `BranchesAreWalked`, the property `EveryBranchWalked`, for
  any graph.

What a node asked for of an edge is what was followed of it and what the calls
on the stack still owe of it (`Accounted`). The sum over the stack is stated as
a sequence of its partial sums (`Owed`), so that pushing a call, popping one and
taking an edge off the top each change it in one place, and the proof needs no
induction over the stack. At the end of a good run the stack is empty.

**SessionsProofs**, of the logins, from `TimesAssumption` (times that are
numbers; a cached copy is short-lived against a login, and so is what a use may
take: `CacheTtl + PersistAfter + 2 * Delay <= Ttl`):

- `LoginsTypeCorrect`; `LoginStays`, the property `LoginKept`;
  `RevocationHolds`, the property `RevocationTakesHold`; for any number of
  processes and uses, and calls that wait up to any `Delay`.

`LoginKept` is not inductive: a use may be answered from a copy, and a renewal
may be due on a process that remembers an older one. While nobody signs out,
each process's copy ends before the row does, or a call of that process is under
way which was given the row (`Backed`), and what a process remembers to have
persisted is in the row. After a sign-out everything that is cached ends by
`LastCopy`, but for a copy whose renewal is out: its answer takes the copy away
(`Ending`). Both rest on `InTime`: what was stamped lies in the past, and no
call waits longer than `Delay`.

Of the connection sessions, from `SessionsAssumption` (finitely many targets and
requests, limits of at least one, three touches to an idle time):

- `ConnTypeCorrect`; `HandlesTell`, the property `HandlesAccountFor`;
  `OverrunStaysBounded`, the property `OverrunBounded`.

The count of what is active is not bounded inductively, since a request that
passed the check may come to register at any time. What is bounded is the set of
the active targets and of those of the requests that were admitted (`Filling`):
a check that admits one more finds fewer than the limit active, and the others
admitted are fewer than the requests.

**AccessProofs**, of the roles, from `RolesAssumption` (a bound that is a
number, and a `NoRole` that is none of the values it stands beside):

- `PolicyTypeCorrect`; `OwnersManage`, that is `OwnerManages`; `MemoryFollows`,
  that is `PolicyFollowsTables`; `GrantsHold`, that is `GrantsNameTheirRole`.

`OwnerManages` is about the copy in memory, which comes from loads that may be
older than the tables. It is inductive only together with the same fact about
every answer a load holds (`Owners`): a load that has read the owner role has
read "manage" with it, so no order of installing them can lose it. For the other
two: as long as no write has crossed a load, there is one load and what it has
read is what the tables hold (`Fresh`), and as long as no grant has passed a
deletion, a role that is about to be deleted is granted to nobody and is not
being granted (`Meant`). `Rows` says that no two slugs share an id, without
which a deleted role could take another's permissions with it.

Of the sign-in guard, from `GuardAssumption` (finitely many attempts, limits
that are numbers, at least one failure allowed):

- `GuardTypeCorrect`; `BlockedInTime`, the property `CountedWhenAlone`;
  `NotBlockedEarly`, the property `NeverBlockedEarly`, under `LongLocks`: each
  kind of lock lasts a window or more, or until an admin lifts it. The code does
  not demand that of its settings, and without it an attempt that clears a short
  lock counts on from its older copy of the row.

`Counts` ties the row to what happened: the count is the number of wrong
passwords in a row until the account is locked. Each write starts from the
attempt's copy, so the invariant also says that the one attempt under way holds
the row as it is (`HoldsRow`), or has cleared a lapsed lock, of which the copy
still tells (`HeldPast`); a count from such a copy starts afresh because by then
the window is over too (`Blocked`).

**RecordsProofs**, of the membership, from `MembershipAssumption` (nobody is not
a user, nowhere not a workspace; some roles, "owner" among them, manage, and
some may be granted on a workspace):

- `MemberTypeCorrect`; `RosterStaysAgreed`, the property `RosterAgrees`;
  `OwnersAreKept`, that is `OwnerKept`; `AdminsAreKept`, the action property
  `AdminKept`; for any number of users, workspaces and requests and any roles.

The invariant says of the tables what the properties say of them, of closed
workspaces that nobody is left in them (`ClosedEmpty`), and of an open one that
it has an owner or a request under way that is about to seat one (`Founding`).
Where nobody holds two roles, two owning grants are two owners: a request that
found more than one (`LastGrant`) leaves one, and a role that is granted takes
the place of the one it replaces. All of it as long as no request has written on
stale checks: that each write then finds what its checks had found is the step
`Holds` gives.

Of the resource tree, from `TreeAssumption` (the root, spaces, groups and
connections are four kinds of id) and `NoneIsNoRow`:

- `TreeTypeCorrect`; `PathsAreKept`, the property `PathsFollowParents`;
  `NothingIsLeftDangling`, that is `NothingDangles`; for trees of any size and
  depth.

A path is compared with its parent's, and a move rewrites the paths of all
descendants by their prefix. Inductive is that the path of each node names, at
each position, a node that is there and whose own path is the path up to that
position (`Chained`): then the descendants are exactly the nodes whose path goes
through the one that moves, and all of their paths change by the same prefix
(`MoveRebases`). `Homed` says that the workspace of a node is the second of its
path, `Mirrored` that a connection and its node agree but for a request that is
about to file it, of which there is one (`FiledOnce`). What a request holds is
typed and came from its checks whatever is outdated since (`WorkHolds`).

Of the folders, from `FoldersAssumption` (finitely many ids, a cap of at least
one):

- `FoldersTypeCorrect`; `FoldersStayNested`, the property `FoldersNest`; for
  trees of any size and cap, and any number of requests.

The tree is as nested as the property says, and a request whose checks no write
has followed still finds what they found (`Meant`), so that its write keeps the
tree so. A lineage is a least set and not a recursion, which makes the proof one
about sets: adding a folder leaves the ways up of the others alone
(`AddedNests`), lifting what a deleted one held takes it out of them
(`LiftedNests`), and a move replaces the part of a way above the folder that
moves by the way of its new parent (`MovedNests`); the height below it and the
depth above it bound the two parts. Where the routes that do not look have put
an item is its own business until it is filed again or its folder is deleted.

**UpkeepProofs**, of the modules, from `ModulesAssumption` (there is an engine):

- `ModulesTypeCorrect`; `ModulesStayOn`, the property `ModulesHold`.

An update writes a whole next state that it planned awaits earlier, so that
`AnEngineStaysOn` needs the same of every plan under way (`Plans`). `Safe` says,
while no two updates overlap, what each of an update's steps still owes: the
engines in use that the plan turns off are locked or yet to be checked, and
memory and table differ only between the two writes.

Of the migrator, from `UpgradeAssumption` (versions and migrations are numbers,
a legacy version and a baseline exist):

- `UpgradeTypeCorrect`; `MigratedBeforeServing`, the property `ServesMigrated`;
  `BaselineRunsOnce`, the property `BaselineOnce`; for any number of migrations
  and of deaths.

`Turns` says whose migration may be under way with which container up, and
`Stages` what the database is by each step of one: that a history which is
tracked over tables and has not failed records the baseline, or is about to, or
was left `halfway`, that "deploy" is reached with tables only when they are
tracked, that "seed" finds nothing pending. The baseline is then not recorded
over a database that is not at its version, and runs into tables only after that
one death. `FirstPending`, that pending migrations have a first, uses that the
naturals are well-founded.

Of the storage destinations, from `DestAssumption` (a bound that is positive):

- `DestTypeCorrect`; `DestinationsStay`, the property `DestinationsHold`.

A request that is past the check of a deletion found nobody naming the
destination (`NobodyNames`). Whatever overlaps, what a deletion marks or is
about to mark is gone (`MarksTrue`). The deletion of an artifact has the marks
as they are in the row, and is the only one (`MarksHeld`), unless two
overlapped: it writes them all back, and what is gone by then and not marked is
what it deleted or what retention did.

Of the tunnels, from `TunnelAssumption` (bounds that are numbers):

- `TunnelTypeCorrect`; `NothingStaysOpen`, the property `NothingLeftOpen`;
  `EditsHold`, the property `EditsTakeHold`; for any number of callers, tunnels
  and edits.

A caller that is in a tunnel is in the current one, in its own, or in one that
was let go of around it (`CallerHolds`). The pool is aimed at the current tunnel
and of the current rows but while an edit has saved and not dropped it yet
(`PoolHolds`), and an edit that is to write a key back holds the current one
(`KeyHolds`).

**ClientProofs**, of the staged changes, from `StageAssumption` (the bounds are
numbers):

- `StageTypeCorrect`; `ChangesStayAccounted`, the property `ChangesAccounted`,
  for any number of changes and of batches that overlap.

The list is newest first and a batch runs oldest first, so the invariant says of
each batch that what it has still to run comes after what it has given up, each
in the order it was made (`BatchHolds`), and that no two batches hold the same
change. The list holds nothing that a commit has not copied, run or marked; when
the commit puts what is left in the place of the list nothing is lost by it. Of
what ran, the list and the batches hold again only what went unanswered.

Of a schema design's page, from `DesignAssumption` (bounds that are numbers, at
least one design):

- `DesignTypeCorrect`; `DesignStaysKept`, the property `DesignKept`, for any
  number of statements, rows and operations.

Each operation writes the statements of the render it began in, over whatever
came since. Inductive is that everything any of them carries (the page, a save,
a sync, a plan, a move) still has every statement that did not run, was not
taken off and was not staged meanwhile (`Carried`, `WorkHolds`): any of them may
then come last. That what a release ran is not offered again needs that the
release is alone with the page (`Alone`), which is what `tangled` keeps account
of.

Of the console's tabs, from `TabsAssumption` (the views are a sequence, and no
tab is the one that stands for none):

- `TabsTypeCorrect`; `PanesAgree`, the property `PanesShowTheirTabs`; for any
  number of tabs, views and creations.

The property is inductive with the types, of which it needs that no key is in
the strip twice. What takes the proof are the lists: what a filter keeps
(`WithoutKeeps`), what comes of a tab put elsewhere (`InsertKeeps`), and that a
recursive function over the positions exists and steps as it is written
(`Iterates`), which the well-founded order of the naturals gives.

The theorems are of each module's own specification (`Spec`, `SchedSpec` and so
on). That the runs are of these is proved as well: `AccessImplements`,
`RecordsImplements` and `UpkeepImplements` say that a behaviour of the module
which puts several components into one run is one of each component, with the
steps of the others as stutters, and `AccessTypeCorrect`, `RecordsTypeCorrect`
and `UpkeepTypeCorrect` put the type invariants together. `ProgressImplements`
says the same of the gate in `MCProgress`, its fairness included;
`ProgressTypeCorrect` takes the invariants of the scheduler and of a workflow's
run over, because there the run may begin as one that is over (`OverKeeps`).

Only model-checked are:

- the liveness properties `TransactionsGetIn`, `DueIsTaken` and `RunEnds`: the
  prover does not reason about fairness and ENABLED;
- what the violation runs show, since a counterexample is a single behaviour.

## 7. What is not modelled, and why

- Drivers, dump and restore, uploads, data transfer, mail, webhooks: what they
  do happens in other systems; their own state is a cache or a temporary file.
- SQL and Kafka command generation, formatting, parsing: stateless functions
  over text.
- Saved queries, dashboards, settings: single-row reads and writes, last write
  wins. Of schema drafts: forks by "Save as", the unsaved canvas, the diagram's
  arrangement and the tables kept as DDL by an unlink.
- Most of the browser application: forms, views, diagrams and charts, whose
  state is what is on screen. It is the larger part of the 77,000 lines, so the
  share of lines that the models stand for stays small however much of the
  server's control they cover.
- Of modelled components: what `PROJECT.json` says in each component's note.

Known limits of the models themselves:

- Ids are never reused (they are UUIDs).
- Reads that follow one another in a route of the tree are one step, and so is
  each transaction (two transactions that overlap because of the gate's gap are
  `MetaGate`'s subject, and not taken up again elsewhere).
- A browser's call that fails has changed nothing, except for a statement of a
  commit or of a release. A page's last write that answers once the page shows
  another design (`useSchemaDraftController.ts:227`) is taken to leave that page
  alone.
- `Minute` waits for a tick's claims. A tick whose queries take longer than a
  minute would let the next one read the rows it has not claimed yet, and take
  their slots twice.
- `CreateRole` picks the slug and writes the role in one step; two that pick the
  same one at once meet the table's unique index, and one of them fails.
- In `ResourceTree` a grant is to a group. `addGrant` takes a workspace's own
  node as the one a grant is for as well, which lives and dies with its
  workspace; the state space does not carry both.
- A workspace that nobody owns, a database whose resolve was cut short, an
  artifact that is gone without a mark stay as they are: no route, boot or sweep
  looks for them.

## 8. Plan

Done: every component above whose control is more than a row's, and proofs of
the type invariant and of every safety property that a passing run checks.

Proofs that could follow: of `ConnSessions` with `Tunnel`, once they are
composed, that the last session takes the tunnel with it; and of the gate, that
it implements an abstract lock.

Models that could follow: `RolePolicy` composed with `ResolveCache` in place of
its one-step reload, `Tunnel` with `ConnSessions`, and an abstract specification
of the gate (a readers-writers lock without isolation, as the code has it). All
modules are written without RECURSIVE operators so that they can be proved
about.
