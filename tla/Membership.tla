----------------------------- MODULE Membership -----------------------------
(***************************************************************************)
(* Accounts, the two system roles, and who belongs to which workspace as   *)
(* what (server/users.js, server/workspaces.js and their routes).  A route *)
(* reads what its checks need, then writes in one transaction or several.  *)
(* A request is cut there: its checks are one step, each transaction is    *)
(* another.  No two ids are ever the same, so nobody comes back who went.  *)
(***************************************************************************)
EXTENDS FiniteSets

CONSTANTS
  Users,       \* account ids
  Workspaces,  \* workspace ids
  Requests,    \* concurrent requests
  Roles,       \* the slugs of the roles
  Managing,    \* of those, the ones that carry workspace.manage
  Grantable,   \* of those, the ones roleGrantableOn admits on a workspace's node
  Nobody,      \* no account
  Nowhere      \* no workspace

ASSUME MembershipAssumption ==
  /\ Nobody \notin Users /\ Nowhere \notin Workspaces
  /\ "owner" \in Managing /\ "member" \in Roles
  /\ Managing \subseteq Roles /\ Grantable \subseteq Roles

VARIABLES
  account,    \* per user: users.role, "new" before the row is there, "gone" after
  open,       \* workspaces that exist
  opened,     \* workspaces that exist or did
  roster,     \* per workspace: node_members of its node
  grant,      \* per workspace and user: the roles granted on its node
  nodeOwner,  \* per workspace: owner_id of its node
  call,       \* the requests, between their checks and their last write
  stale,      \* history: a request wrote although its checks no longer held
  adrift      \* history: workspaces that lost their owners in a way no check covers

seats == <<open, opened, roster, grant, nodeOwner>>
memberVars == <<account, seats, call, stale, adrift>>

Here == {"pending", "user", "admin"}
SeatCall(op, w, u, role) == [op |-> op, ws |-> w, user |-> u, role |-> role]
UserCall(op, u) == SeatCall(op, Nowhere, u, "none")
Idle == UserCall("idle", Nobody)

CallType ==
  {Idle}
  \cup {UserCall(op, u) : op \in {"setup", "claim", "promote", "demote", "delete", "tidy"}, u \in Users}
  \cup {SeatCall(op, w, u, "owner") : op \in {"create", "open", "found"}, w \in Workspaces, u \in Users}
  \cup {SeatCall("reseat", w, u, "member") : w \in Workspaces, u \in Users}
  \cup {SeatCall(op, w, u, role) :
          op \in {"add", "regrade", "grant"}, w \in Workspaces, u \in Users, role \in Roles}
  \cup {SeatCall("remove", w, u, "none") : w \in Workspaces, u \in Users}
  \cup {SeatCall("handover", w, u, "none") : w \in Workspaces, u \in Users \cup {Nobody}}

MemberTypeOK ==
  /\ account \in [Users -> Here \cup {"new", "gone"}]
  /\ open \subseteq opened /\ opened \subseteq Workspaces
  /\ roster \in [Workspaces -> SUBSET Users]
  /\ grant \in [Workspaces -> [Users -> SUBSET Grantable]]
  /\ nodeOwner \in [Workspaces -> Users \cup {Nobody}]
  /\ call \in [Requests -> CallType]
  /\ stale \in BOOLEAN /\ adrift \subseteq Workspaces

(* An empty install, or a legacy one: accounts, workspaces and no admin.    *)
MemberInit ==
  /\ \/ /\ account = [u \in Users |-> "new"]
        /\ opened = {}
        /\ nodeOwner = [w \in Workspaces |-> Nobody]
     \/ /\ account = [u \in Users |-> "user"]
        /\ opened = Workspaces
        /\ nodeOwner \in [Workspaces -> Users]
  /\ open = opened
  /\ roster = [w \in Workspaces |-> {nodeOwner[w]} \ {Nobody}]
  /\ grant = [w \in Workspaces |-> [u \in Users |-> IF nodeOwner[w] = u THEN {"owner"} \cap Grantable ELSE {}]]
  /\ call = [r \in Requests |-> Idle]
  /\ stale = FALSE /\ adrift = IF "owner" \in Grantable THEN {} ELSE open

Exists(u) == account[u] \in Here
Admins == {u \in Users : account[u] = "admin"}
(* Who may manage a workspace; countOwners counts their grants.             *)
Owners(w) == {u \in roster[w] : grant[w][u] \cap Managing # {}}
OwningGrants(w) == {g \in roster[w] \X Managing : g[2] \in grant[w][g[1]]}
LastGrant(w) == \A g, h \in OwningGrants(w) : g = h  \* countOwners(w) <= 1

(* listUserSoleOwnerships.                                                  *)
Sole(u) == {w \in open : u \in Owners(w) /\ LastGrant(w)}

(* Definitions named "Broken..." are slips the properties must tell from    *)
(* the code.                                                                *)
BrokenOtherAdmins(u) == Admins # {}

OtherAdmins(u) == Admins \ {u} # {}

MayBeNoOwner(w, u) == grant[w][u] = {} \/ grant[w][u] \ Managing # {}

BrokenMayLoseOwner(w, u) == OwningGrants(w) # {} \/ MayBeNoOwner(w, u)

(* The check on the last owner.  memberRole takes the first grant it finds, *)
(* so one that is not an owner's will do.                                   *)
MayLoseOwner(w, u) == ~LastGrant(w) \/ MayBeNoOwner(w, u)
-----------------------------------------------------------------------------
(* What each route has found to be true before it writes.                   *)
Holds(c) ==
  CASE c.op = "setup"    -> Admins = {} /\ ~\E u \in Users : Exists(u)
    [] c.op = "claim"    -> Admins = {} /\ account[c.user] = "user"
    [] c.op = "promote"  -> account[c.user] \in {"pending", "user"} /\ Sole(c.user) = {}
    [] c.op = "demote"   -> account[c.user] = "admin" /\ OtherAdmins(c.user)
    [] c.op = "delete"   -> Exists(c.user) /\ OtherAdmins(c.user) /\ Sole(c.user) = {}
    [] c.op = "tidy"     -> account[c.user] = "pending" /\ \A w \in open : c.user \notin roster[w]
    [] c.op = "create"   -> account[c.user] = "user"
    [] c.op = "open"     -> account[c.user] \in {"pending", "user"}
    [] c.op = "found"    -> account[c.user] \in {"pending", "user"} /\ c.ws \in open
    [] c.op = "add"      -> account[c.user] \in {"pending", "user"} /\ c.ws \in open
                              /\ c.user \notin roster[c.ws]
    [] c.op = "reseat"   -> account[c.user] \in {"pending", "user"} /\ c.ws \in open
    [] c.op = "regrade"  -> account[c.user] \in {"pending", "user"} /\ c.ws \in open
                              /\ c.user \in roster[c.ws]
                              /\ (c.role \in Managing \/ MayLoseOwner(c.ws, c.user))
    [] c.op = "remove"   -> c.ws \in open /\ c.user \in roster[c.ws] /\ MayLoseOwner(c.ws, c.user)
    [] c.op = "grant"    -> Exists(c.user) /\ c.ws \in open /\ c.user \in roster[c.ws]
                              /\ c.role \in Grantable
    [] c.op = "handover" -> c.ws \in open
                              /\ (c.user # Nobody => /\ account[c.user] \in {"pending", "user"}
                                                    /\ c.user \in roster[c.ws])

(* A route that begins and passes its checks.  "found" and "tidy" go on     *)
(* from a write of their own route.                                         *)
Check(r, c) ==
  /\ call[r] = Idle /\ c.op \notin {"found", "tidy"}
  /\ Holds(c)
  /\ c.op \in {"promote", "open"} => Admins # {}  \* their caller
  /\ c.op \in {"create", "open"} => c.ws \notin opened
  /\ call' = [call EXCEPT ![r] = c]
  /\ UNCHANGED <<account, seats, stale, adrift>>

(* Request r does call c's write and is over, or goes on as `next'.         *)
Writes(r, op, next) ==
  /\ call[r].op = op
  /\ call' = [call EXCEPT ![r] = next]
  /\ stale' = (stale \/ ~Holds(call[r]))

MembershipsOf(u) == {w \in open : u \in roster[w]}

(* Where a user holds a second role on the node beside the first.           *)
TwiceSeated(u) == {w \in MembershipsOf(u) : \E one, other \in grant[w][u] : one # other}

(* Workspaces that are without an owner now, `cause' among the reasons.     *)
Adrift(cause) ==
  adrift' = {w \in open' \cap (adrift \cup cause) :
               {u \in roster'[w] : grant'[w][u] \cap Managing # {}} = {}}
-----------------------------------------------------------------------------
BrokenSeat(w, u, role, joins) ==
  LET present == IF joins /\ Exists(u) THEN roster[w] \cup {u} ELSE roster[w]
  IN  /\ roster' = [roster EXCEPT ![w] = present]
      /\ grant' = [grant EXCEPT ![w][u] = IF Exists(u) /\ u \in present THEN {role} ELSE {}]
      /\ nodeOwner' = [nodeOwner EXCEPT ![w] =
                          IF @ = Nobody /\ role \in Managing THEN u ELSE @]

(* addMember and setMemberRole.  addNodeMember refuses an account that is   *)
(* not there; setPrincipalGrant takes the grants there were, then addGrant  *)
(* refuses a role that is not for workspaces and a user who is not there or *)
(* not on the roster.  Nobody looks at what they answer, and a node without *)
(* an owner takes an owner whatever they answered.                          *)
Seat(w, u, role, joins) ==
  LET present == IF joins /\ Exists(u) THEN roster[w] \cup {u} ELSE roster[w]
  IN  /\ roster' = [roster EXCEPT ![w] = present]
      /\ grant' = [grant EXCEPT ![w][u] =
                      IF role \in Grantable /\ Exists(u) /\ u \in present THEN {role} ELSE {}]
      /\ nodeOwner' = [nodeOwner EXCEPT ![w] =
                          IF @ = Nobody /\ role \in Managing THEN u ELSE @]

SeatIfOpen(w, u, role, joins) ==
  IF w \in open THEN Seat(w, u, role, joins) ELSE UNCHANGED <<roster, grant, nodeOwner>>

(* A seat leaves no owner where it gives a role that is not for workspaces. *)
Refused(w, role) == IF role \in Grantable THEN {} ELSE {w}

BrokenUnseatOwner(W, u) ==
  /\ roster' = [w \in Workspaces |-> IF w \in W THEN roster[w] \ {u} ELSE roster[w]]
  /\ grant' = [w \in Workspaces |-> IF w \in W THEN [grant[w] EXCEPT ![u] = {}] ELSE grant[w]]
  /\ UNCHANGED nodeOwner

(* removeMember, for each workspace of W.                                   *)
Unseat(W, u) ==
  /\ roster' = [w \in Workspaces |-> IF w \in W THEN roster[w] \ {u} ELSE roster[w]]
  /\ grant' = [w \in Workspaces |-> IF w \in W THEN [grant[w] EXCEPT ![u] = {}] ELSE grant[w]]
  /\ nodeOwner' = [w \in Workspaces |->
                     IF w \in W /\ nodeOwner[w] = u THEN Nobody ELSE nodeOwner[w]]

-----------------------------------------------------------------------------
(* POST /api/setup on an empty instance, and on one without an admin.       *)
SetUp(r) ==
  /\ Writes(r, "setup", Idle)
  /\ account[call[r].user] = "new"
  /\ account' = [account EXCEPT ![call[r].user] = "admin"]
  /\ UNCHANGED <<seats, adrift>>

(* setSystemRole to admin, which ends every membership: from setup, and     *)
(* from PUT /api/admin/users/:id.                                           *)
Promote(r, op) ==
  LET u == call[r].user
  IN  /\ op \in {"claim", "promote"}
      /\ Writes(r, op, Idle)
      /\ account' = [account EXCEPT ![u] = IF Exists(u) THEN "admin" ELSE @]
      /\ Unseat(MembershipsOf(u), u)
      /\ UNCHANGED <<open, opened>>
      /\ Adrift(IF op = "claim" THEN MembershipsOf(u) ELSE TwiceSeated(u))

Demote(r) ==
  LET u == call[r].user
  IN  /\ Writes(r, "demote", Idle)
      /\ account' = [account EXCEPT ![u] = IF Exists(u) THEN "user" ELSE @]
      /\ UNCHANGED <<seats, adrift>>

(* deleteUser clears memberships, then whatever is left of the account.     *)
DeleteUser(r) ==
  LET u == call[r].user
  IN  /\ Writes(r, "delete", Idle)
      /\ account' = [account EXCEPT ![u] = "gone"]
      /\ Unseat(Workspaces, u)
      /\ UNCHANGED <<open, opened>>
      /\ Adrift(TwiceSeated(u))

(* POST /api/admin/users, and the account an invitation makes.              *)
CreateUser(u, kind) ==
  /\ account[u] = "new"
  /\ Admins # {} \/ (kind = "pending" /\ open # {})
  /\ account' = [account EXCEPT ![u] = kind]
  /\ UNCHANGED <<seats, call, stale, adrift>>

(* POST /api/invite/:token/accept.                                          *)
Accept(u) ==
  /\ account[u] = "pending"
  /\ account' = [account EXCEPT ![u] = "user"]
  /\ UNCHANGED <<seats, call, stale, adrift>>
-----------------------------------------------------------------------------
(* POST /api/workspaces: the caller's workspace, in one transaction.        *)
CreateOwnWorkspace(r) ==
  LET c == call[r]
  IN  /\ Writes(r, "create", Idle)
      /\ c.ws \notin opened
      /\ open' = open \cup {c.ws} /\ opened' = opened \cup {c.ws}
      /\ Seat(c.ws, c.user, c.role, TRUE)
      /\ UNCHANGED account
      /\ Adrift(Refused(c.ws, c.role))

(* POST /api/admin/workspaces: the workspace, then its owner.               *)
OpenWorkspace(r) ==
  LET c == call[r]
  IN  /\ Writes(r, "open", SeatCall("found", c.ws, c.user, "owner"))
      /\ c.ws \notin opened
      /\ open' = open \cup {c.ws} /\ opened' = opened \cup {c.ws}
      /\ UNCHANGED <<account, roster, grant, nodeOwner, adrift>>

(* The rest of it; an invitation or a new seat from the admin area; and the *)
(* roster route of the tree, which seats somebody as a member whatever they *)
(* were before.                                                             *)
AddMember(r, op) ==
  LET c == call[r]
  IN  /\ op \in {"found", "add", "reseat"}
      /\ Writes(r, op, Idle)
      /\ SeatIfOpen(c.ws, c.user, c.role, TRUE)
      /\ UNCHANGED <<account, open, opened>>
      /\ Adrift(IF op = "reseat" THEN {c.ws} ELSE Refused(c.ws, c.role))

(* PUT .../members/:userId, of the workspace and of the admin area.         *)
SetMemberRole(r) ==
  LET c == call[r]
  IN  /\ Writes(r, "regrade", Idle)
      /\ SeatIfOpen(c.ws, c.user, c.role, FALSE)
      /\ UNCHANGED <<account, open, opened>>
      /\ Adrift(TwiceSeated(c.user) \cup Refused(c.ws, c.role))

(* DELETE .../members/:userId; the workspace's route goes on to tidy up a   *)
(* pending account that is left without a workspace.                        *)
RemoveMember(r) ==
  LET c == call[r]
  IN  /\ \E next \in {Idle, UserCall("tidy", c.user)} :
           /\ Writes(r, "remove", next)
           /\ next # Idle => account[c.user] = "pending" /\ MembershipsOf(c.user) \subseteq {c.ws}
      /\ Unseat({c.ws}, c.user)
      /\ UNCHANGED <<account, open, opened>>
      /\ Adrift(TwiceSeated(c.user))

TidyPending(r) ==
  LET u == call[r].user
  IN  /\ Writes(r, "tidy", Idle)
      /\ account' = [account EXCEPT ![u] = IF Exists(u) THEN "gone" ELSE @]
      /\ UNCHANGED <<seats, adrift>>

(* PUT /api/resource-tree/:id/owner on the workspace's node: to somebody, or *)
(* to nobody.                                                               *)
HandOver(r) ==
  LET c == call[r]
  IN  /\ Writes(r, "handover", Idle)
      /\ nodeOwner' = [nodeOwner EXCEPT ![c.ws] = IF c.ws \in open THEN c.user ELSE @]
      /\ UNCHANGED <<account, open, opened, roster, grant, adrift>>

(* POST and DELETE /api/resource-tree/:id/grants on the workspace's node:   *)
(* addGrant's checks and its upsert, and removeGrant.                       *)
AddGrant(r) ==
  LET c == call[r]
  IN  /\ Writes(r, "grant", Idle)
      /\ grant' = [grant EXCEPT ![c.ws][c.user] = @ \cup ({c.role} \cap Grantable)]
      /\ UNCHANGED <<account, open, opened, roster, nodeOwner>>
      /\ Adrift({})

RemoveGrant(w, u, role) ==
  /\ role \in grant[w][u] /\ w \in open
  /\ grant' = [grant EXCEPT ![w][u] = @ \ {role}]
  /\ UNCHANGED <<account, open, opened, roster, nodeOwner, call, stale>>
  /\ Adrift({w})

(* deleteWorkspaceCascade, from either route.                               *)
DropWorkspace(w) ==
  /\ w \in open
  /\ open' = open \ {w}
  /\ roster' = [roster EXCEPT ![w] = {}]
  /\ grant' = [grant EXCEPT ![w] = [u \in Users |-> {}]]
  /\ nodeOwner' = [nodeOwner EXCEPT ![w] = Nobody]
  /\ adrift' = adrift \ {w}
  /\ UNCHANGED <<account, opened, call, stale>>

(* The server restarts: requests under way are lost.                        *)
Restart ==
  /\ call' = [r \in Requests |-> Idle]
  /\ UNCHANGED <<account, seats, stale>>
  /\ Adrift({call[r].ws : r \in {q \in Requests : call[q].op = "found"}})

MemberNext ==
  \/ \E r \in Requests :
       \/ \E c \in CallType \ {Idle} : Check(r, c)
       \/ SetUp(r) \/ Demote(r) \/ DeleteUser(r) \/ TidyPending(r)
       \/ \E op \in {"claim", "promote"} : Promote(r, op)
       \/ CreateOwnWorkspace(r) \/ OpenWorkspace(r)
       \/ \E op \in {"found", "add", "reseat"} : AddMember(r, op)
       \/ SetMemberRole(r) \/ RemoveMember(r) \/ HandOver(r) \/ AddGrant(r)
  \/ \E u \in Users : Accept(u) \/ \E kind \in Here : CreateUser(u, kind)
  \/ \E w \in Workspaces :
       \/ DropWorkspace(w)
       \/ \E u \in Users, role \in Grantable : RemoveGrant(w, u, role)
  \/ Restart

MemberSpec == MemberInit /\ [][MemberNext]_memberVars
-----------------------------------------------------------------------------
(* A grant on a workspace's node is held by somebody on its roster, and a   *)
(* workspace that is gone leaves neither: the two tables say the same thing *)
(* (workspaces.js, syncMemberGrant).  Here and below: as long as no request *)
(* has acted on checks that no longer held.                                 *)
GrantsOnRoster ==
  ~stale => \A w \in Workspaces : \A u \in Users :
    grant[w][u] # {} => w \in open /\ u \in roster[w]

(* "an instance admin may not own or belong to a workspace" (users.js), and *)
(* nothing names an account that is not there.                              *)
SeatsAreUsers ==
  ~stale => \A w \in Workspaces : \A u \in Users :
    u \in roster[w] \/ nodeOwner[w] = u => account[u] \in {"pending", "user"}

(* Who owns the node, and so may do anything under it, is on the roster.    *)
NodeOwnerOnRoster ==
  ~stale => \A w \in Workspaces : nodeOwner[w] \in roster[w] \cup {Nobody}

(* The roster, the grants and the accounts say the same thing.              *)
RosterAgrees == GrantsOnRoster /\ SeatsAreUsers /\ NodeOwnerOnRoster

(* "The instance needs at least one admin" (server.js), once it is set up.  *)
AdminKept == [][Admins # {} /\ ~stale' => Admins' # {}]_memberVars

(* Of the ways a workspace can be without an owner there are six: setup, a  *)
(* founding a restart cut short, the tree's roster and grants routes, a     *)
(* role held beside another, and a role that is refused after the former    *)
(* ones went.  The last-owner checks leave no other.                        *)
OwnerKept ==
  ~stale => \A w \in open \ adrift :
    Owners(w) # {} \/ \E r \in Requests : call[r].op = "found" /\ call[r].ws = w

(* "a workspace can have any number of owners but never zero" (server.js),  *)
(* once it has one and while the instance has an admin.                     *)
NeverWithoutOwner ==
  [][\A w \in open \cap open' :
       Owners(w) # {} /\ Admins # {} /\ ~stale' => Owners(w)' # {}]_memberVars
=============================================================================
