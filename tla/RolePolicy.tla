----------------------------- MODULE RolePolicy -----------------------------
(***************************************************************************)
(* The roles an admin defines (server/permissions.js): two tables, the copy *)
(* of both in memory that every permission check reads, and the grants that *)
(* name a role by its slug.  Every write ends with loadPolicy(), which      *)
(* reads the two tables in two queries and installs what it got.            *)
(***************************************************************************)
EXTENDS Naturals, Sequences, FiniteSets, Functions

CONSTANTS
  Admins,    \* the requests under way
  Custom,    \* the slugs one role name leads to, in the order uniqueSlug tries them
  MaxRoles,  \* bound on the roles ever made
  NoRole

VARIABLES
  roleIds,       \* roles: slug -> id, or NoRole
  rolePerms,     \* role_permissions: id -> permissions
  rolePolicy,    \* `cache': slug -> [id, perms], or NoRole
  grants,        \* resource_grants, as <<slug, id of the role that was meant>>
  task,          \* the requests
  loadsCrossed,  \* history: the last write came while another's load was under way
  grantCrossed   \* history: a grant was written past a deletion of its role

policyVars == <<roleIds, rolePerms, rolePolicy, grants, task, loadsCrossed, grantCrossed>>

Owner == "owner"
Slugs == {Owner} \cup Range(Custom)
Perms == {"manage"}          \* OWNER_PERMISSION; the others are not told apart
Ids == 0..MaxRoles           \* the owner role has id 0
NoTask == [step |-> "idle"]

ASSUME RolesAssumption ==
  /\ MaxRoles \in Nat
  /\ NoRole \notin Ids /\ \A P \in SUBSET Perms : P # NoRole
  /\ \A P \in SUBSET Perms, i \in Ids : [id |-> i, perms |-> P] # NoRole

InMemory(s) == rolePolicy[s] # NoRole
AsStored(ids, perms) ==
  [s \in Slugs |-> IF ids[s] = NoRole THEN NoRole ELSE [id |-> ids[s], perms |-> perms[ids[s]]]]

MadeSoFar == {i \in Ids : rolePerms[i] # NoRole}

PolicyTypeOK ==
  /\ roleIds \in [Slugs -> Ids \cup {NoRole}]
  /\ rolePerms \in [Ids -> (SUBSET Perms) \cup {NoRole}]
  /\ rolePolicy \in [Slugs -> [id : Ids, perms : SUBSET Perms] \cup {NoRole}]
  /\ grants \subseteq Slugs \X Ids
  /\ \A i, j \in Range(Custom) : i # j /\ roleIds[i] # NoRole => roleIds[i] # roleIds[j]

PolicyInit ==
  /\ roleIds = [s \in Slugs |-> IF s = Owner THEN 0 ELSE NoRole]
  /\ rolePerms = [i \in Ids |-> IF i = 0 THEN Perms ELSE NoRole]
  /\ rolePolicy = AsStored(roleIds, rolePerms)
  /\ grants = {} /\ task = [a \in Admins |-> NoTask]
  /\ loadsCrossed = FALSE /\ grantCrossed = FALSE
-----------------------------------------------------------------------------
(* A task is idle, about to write, loading (what it has read so far), or    *)
(* deleting or granting with a check behind it.                             *)
TaskGoes(a, to) == task' = [task EXCEPT ![a] = to]

NowLoads(a) == TaskGoes(a, [step |-> "load", ids |-> NoRole, perms |-> NoRole])

Loading == {a \in Admins : task[a].step = "load"}

(* Two loads that overlap install what they read in the order they finish:  *)
(* the older answer may be what stays in memory.                            *)
NoteLoads(a) == loadsCrossed' = (Loading \ {a} # {})

(* createRole: the slug is the first that memory does not have.             *)
UniqueSlug(s) ==
  \E i \in DOMAIN Custom : /\ s = Custom[i] /\ ~InMemory(s)
                           /\ \A j \in 1..(i - 1) : InMemory(Custom[j])

CreateRole(a, perms) ==
  /\ task[a] = NoTask
  /\ \E s \in Slugs, i \in Ids \ MadeSoFar :
       /\ UniqueSlug(s) /\ i = Cardinality(MadeSoFar)
       /\ roleIds[s] = NoRole                    \* or the unique index refuses
       /\ roleIds' = [roleIds EXCEPT ![s] = i]
       /\ rolePerms' = [rolePerms EXCEPT ![i] = perms]
  /\ NowLoads(a) /\ NoteLoads(a)
  /\ UNCHANGED <<rolePolicy, grants, grantCrossed>>

(* updateRole: the row is found in memory and written by its id.            *)
BrokenKeptPerms(s, perms) == perms

KeptPerms(s, perms) == IF s = Owner THEN perms \cup {"manage"} ELSE perms

UpdateRole(a, s, perms) ==
  /\ task[a] = NoTask /\ InMemory(s)
  /\ roleIds[s] = rolePolicy[s].id                   \* or there is no row to update
  /\ rolePerms' = [rolePerms EXCEPT ![rolePolicy[s].id] = KeptPerms(s, perms)]
  /\ NowLoads(a) /\ NoteLoads(a)
  /\ UNCHANGED <<roleIds, rolePolicy, grants, grantCrossed>>

(* DELETE /api/admin/roles/:slug: usage is counted, then the role deleted.  *)
BrokenCountRoleUsage(s) == {g \in grants : g[2] # rolePolicy[s].id}

CountRoleUsage(s) == {g \in grants : g[1] = s}

CountUsage(a, s) ==
  /\ task[a] = NoTask /\ InMemory(s) /\ s # Owner
  /\ CountRoleUsage(s) = {}
  /\ TaskGoes(a, [step |-> "delete", slug |-> s])
  /\ UNCHANGED <<roleIds, rolePerms, rolePolicy, grants, loadsCrossed, grantCrossed>>

DeleteRole(a) ==
  /\ task[a].step = "delete"
  /\ LET s == task[a].slug
     IN  IF InMemory(s) /\ roleIds[s] = rolePolicy[s].id
         THEN /\ roleIds' = [roleIds EXCEPT ![s] = NoRole]
              /\ rolePerms' = [rolePerms EXCEPT ![rolePolicy[s].id] = {}]
              /\ NowLoads(a) /\ NoteLoads(a)
         ELSE TaskGoes(a, NoTask) /\ UNCHANGED <<roleIds, rolePerms, loadsCrossed>>
  /\ UNCHANGED <<rolePolicy, grants, grantCrossed>>

(* loadPolicy: two queries at once, each answered when it is.               *)
ReadRoles(a) ==
  /\ a \in Loading /\ task[a].ids = NoRole
  /\ TaskGoes(a, [task[a] EXCEPT !.ids = roleIds])
  /\ UNCHANGED <<roleIds, rolePerms, rolePolicy, grants, loadsCrossed, grantCrossed>>

ReadPerms(a) ==
  /\ a \in Loading /\ task[a].perms = NoRole
  /\ TaskGoes(a, [task[a] EXCEPT !.perms = rolePerms])
  /\ UNCHANGED <<roleIds, rolePerms, rolePolicy, grants, loadsCrossed, grantCrossed>>

BrokenInstalled(a) == rolePolicy

Installed(a) ==
  [s \in Slugs |->
     IF task[a].ids[s] = NoRole THEN NoRole
     ELSE [id |-> task[a].ids[s],
           perms |-> IF task[a].perms[task[a].ids[s]] = NoRole THEN {}
                     ELSE task[a].perms[task[a].ids[s]]]]

InstallRoles(a) ==
  /\ a \in Loading /\ task[a].ids # NoRole /\ task[a].perms # NoRole
  /\ rolePolicy' = Installed(a)
  /\ TaskGoes(a, NoTask)
  /\ UNCHANGED <<roleIds, rolePerms, grants, loadsCrossed, grantCrossed>>
-----------------------------------------------------------------------------
(* addGrant: the criteria are read in memory, the row is written later.     *)
CheckCriteria(a, s) ==
  /\ task[a] = NoTask /\ InMemory(s)
  /\ TaskGoes(a, [step |-> "grant", slug |-> s, id |-> rolePolicy[s].id])
  /\ UNCHANGED <<roleIds, rolePerms, rolePolicy, grants, loadsCrossed, grantCrossed>>

GrantRole(a) ==
  /\ task[a].step = "grant"
  /\ grants' = grants \cup {<<task[a].slug, task[a].id>>}
  /\ grantCrossed' = \/ grantCrossed \/ roleIds[task[a].slug] # task[a].id
                     \/ \E b \in Admins : task[b].step = "delete" /\ task[b].slug = task[a].slug
  /\ TaskGoes(a, NoTask)
  /\ UNCHANGED <<roleIds, rolePerms, rolePolicy, loadsCrossed>>

RevokeRole(g) ==
  /\ grants' = grants \ {g}
  /\ UNCHANGED <<roleIds, rolePerms, rolePolicy, task, loadsCrossed, grantCrossed>>

PolicyNext ==
  \/ \E a \in Admins :
       \/ \E perms \in SUBSET Perms : CreateRole(a, perms)
       \/ \E s \in Slugs : \/ \E perms \in SUBSET Perms : UpdateRole(a, s, perms)
                           \/ CountUsage(a, s) \/ CheckCriteria(a, s)
       \/ DeleteRole(a) \/ ReadRoles(a) \/ ReadPerms(a) \/ InstallRoles(a) \/ GrantRole(a)
  \/ \E g \in grants : RevokeRole(g)

PolicySpec == PolicyInit /\ [][PolicyNext]_policyVars
-----------------------------------------------------------------------------
(* "The whole policy lives in memory: loadPolicy() reads it ... again after *)
(* every write here" (permissions.js).  With no load under way, memory is   *)
(* what the tables say, unless the last write overtook another's load.      *)
PolicyFollowsTables ==
  Loading = {} /\ ~loadsCrossed => rolePolicy = AsStored(roleIds, rolePerms)

(* "A workspace whose owners can't manage it is a workspace nobody can fix" *)
(* (permissions.js): whatever loads overtake one another, the owner role    *)
(* manages, in the tables and in memory.                                    *)
OwnerManages == "manage" \in rolePerms[0] /\ InMemory(Owner) /\ "manage" \in rolePolicy[Owner].perms

(* Nobody holds a role that is gone, nor one that later took its slug,      *)
(* unless the grant and the deletion passed one another.                    *)
GrantsNameTheirRole ==
  ~grantCrossed => \A g \in grants : roleIds[g[1]] = g[2]
=============================================================================
