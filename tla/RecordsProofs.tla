--------------------------- MODULE RecordsProofs ----------------------------
(***************************************************************************)
(* What holds of accounts and rosters, of the resource tree, and of folders.*)
(***************************************************************************)
EXTENDS MCRecords, SequenceTheorems, FiniteSetTheorems,
        NaturalsInduction, WellFoundedInduction, TLAPS
-----------------------------------------------------------------------------
(***************************************************************************)
(* Why accounts, rosters and grants agree and owners stay: a request whose  *)
(* checks still hold when it writes keeps Agreed and Owned, whatever else   *)
(* is under way.  The exceptions are marked as they happen (stale, adrift). *)
(***************************************************************************)

(* A workspace that is not there has nobody on its roster.                  *)
ClosedEmpty == \A w \in Workspaces \ open : roster[w] = {} /\ nodeOwner[w] = Nobody

(* The three tables, and the owners, as long as nobody acts on stale checks.*)
Agreed ==
  /\ \A w \in Workspaces : \A u \in Users : grant[w][u] # {} => w \in open /\ u \in roster[w]
  /\ \A w \in Workspaces : \A u \in Users :
       u \in roster[w] \/ nodeOwner[w] = u => account[u] \in {"pending", "user"}
  /\ \A w \in Workspaces : nodeOwner[w] \in roster[w] \cup {Nobody}

Founding(w) == \E r \in Requests : call[r].op = "found" /\ call[r].ws = w
Owned == \A w \in open \ adrift : Owners(w) # {} \/ Founding(w)

MemberInv ==
  /\ MemberTypeOK
  /\ ~stale => ClosedEmpty /\ Agreed /\ Owned
-----------------------------------------------------------------------------
SeatOps == {"create", "open", "found", "add", "reseat", "regrade", "remove", "grant", "handover"}
UserOps == {"setup", "claim", "promote", "demote", "delete", "tidy"}

(* Who and what a request is about.                                         *)
LEMMA CallTypes ==
  ASSUME NEW c \in CallType
  PROVE  /\ c.op \in SeatOps \cup UserOps \cup {"idle"}
         /\ c.op \in SeatOps => c.ws \in Workspaces
         /\ c.op \in SeatOps \ {"remove", "handover"} => c.role \in Roles
         /\ c.op \in {"create", "open", "found"} => c.role = "owner"
         /\ c.op \notin {"idle", "handover"} => c.user \in Users
         /\ c.op = "handover" => c.user \in Users \cup {Nobody}
         /\ c.op = "idle" <=> c = Idle
BY MembershipAssumption DEF CallType, SeatOps, UserOps, Idle, UserCall, SeatCall

LEMMA CallsMade ==
  /\ Idle \in CallType
  /\ \A u \in Users : UserCall("tidy", u) \in CallType
  /\ \A w \in Workspaces : \A u \in Users : SeatCall("found", w, u, "owner") \in CallType
BY DEF CallType

(* What a write may rely on, as long as its checks hold.                    *)
LEMMA HoldsFor ==
  ASSUME NEW c, Holds(c)
  PROVE  /\ c.op \in {"promote", "delete"} => Sole(c.user) = {}
         /\ c.op \in {"demote", "delete"} => OtherAdmins(c.user)
         /\ c.op = "claim" => account[c.user] = "user"
         /\ c.op = "promote" => account[c.user] \in {"pending", "user"}
         /\ c.op = "tidy" => account[c.user] = "pending" /\ \A w \in open : c.user \notin roster[w]
         /\ c.op = "create" => account[c.user] = "user"
         /\ c.op \in {"found", "add", "reseat", "regrade"} =>
              account[c.user] \in {"pending", "user"} /\ c.ws \in open
         /\ c.op \in {"remove", "grant", "handover"} => c.ws \in open
         /\ c.op \in {"regrade", "remove", "grant"} => c.user \in roster[c.ws]
         /\ c.op = "handover" /\ c.user # Nobody =>
              account[c.user] \in {"pending", "user"} /\ c.user \in roster[c.ws]
         /\ c.op = "add" => c.user \notin roster[c.ws]
         /\ c.op = "regrade" => c.role \in Managing \/ MayLoseOwner(c.ws, c.user)
         /\ c.op = "remove" => MayLoseOwner(c.ws, c.user)
         /\ c.op = "grant" => Exists(c.user)
<1>1. /\ c.op \in {"promote", "delete"} => Sole(c.user) = {}
      /\ c.op \in {"demote", "delete"} => OtherAdmins(c.user)
      /\ c.op = "grant" => Exists(c.user)
  BY DEF Holds
<1>2. /\ c.op = "claim" => account[c.user] = "user"
      /\ c.op = "create" => account[c.user] = "user"
      /\ c.op = "promote" => account[c.user] \in {"pending", "user"}
      /\ c.op = "tidy" => account[c.user] = "pending" /\ \A w \in open : c.user \notin roster[w]
  BY DEF Holds
<1>3. c.op \in {"found", "add", "reseat", "regrade"} =>
        account[c.user] \in {"pending", "user"} /\ c.ws \in open
  BY DEF Holds
<1>4. /\ c.op \in {"remove", "grant", "handover"} => c.ws \in open
      /\ c.op \in {"regrade", "remove", "grant"} => c.user \in roster[c.ws]
      /\ c.op = "handover" /\ c.user # Nobody =>
           account[c.user] \in {"pending", "user"} /\ c.user \in roster[c.ws]
  BY DEF Holds
<1>5. /\ c.op = "add" => c.user \notin roster[c.ws]
      /\ c.op = "regrade" => c.role \in Managing \/ MayLoseOwner(c.ws, c.user)
      /\ c.op = "remove" => MayLoseOwner(c.ws, c.user)
  BY DEF Holds
<1> QED BY <1>1, <1>2, <1>3, <1>4, <1>5

LEMMA WriteFor ==
  ASSUME NEW r, NEW op, NEW next, Writes(r, op, next), ~stale'
  PROVE  ~stale /\ Holds(call[r]) /\ call[r].op = op /\ call' = [call EXCEPT ![r] = next]
BY DEF Writes

LEMMA MemberTypes ==
  ASSUME MemberTypeOK
  PROVE  /\ \A w \in Workspaces : roster[w] \in SUBSET Users /\ nodeOwner[w] \in Users \cup {Nobody}
         /\ \A w \in Workspaces : \A u \in Users : grant[w][u] \in SUBSET Grantable
         /\ \A r \in Requests : call[r] \in CallType
         /\ open \subseteq Workspaces
BY DEF MemberTypeOK

(* Owners, pointwise.                                                       *)
LEMMA OwnersAre ==
  ASSUME NEW w, NEW u PROVE u \in Owners(w) <=> u \in roster[w] /\ grant[w][u] \cap Managing # {}
BY DEF Owners

(* The last owner by a single grant is what both checks refuse.             *)
LEMMA LastOwnerIsSeen ==
  ASSUME NEW u \in Users, NEW w \in open, Owners(w) = {u}, w \notin TwiceSeated(u)
  PROVE  w \in Sole(u) /\ ~MayLoseOwner(w, u)
<1>1. u \in roster[w] /\ \A one, other \in grant[w][u] : one = other
  BY DEF Owners, TwiceSeated, MembershipsOf
<1>2. PICK role \in grant[w][u] : role \in Managing
  BY DEF Owners
<1>3. LastGrant(w)
  <2> SUFFICES ASSUME NEW g \in OwningGrants(w), NEW h \in OwningGrants(w) PROVE g = h
    BY DEF LastGrant
  <2>1. g[1] \in Owners(w) /\ h[1] \in Owners(w)
    BY DEF OwningGrants, Owners
  <2>2. g[2] \in grant[w][u] /\ h[2] \in grant[w][u] /\ g[1] = h[1]
    BY <2>1 DEF OwningGrants
  <2> QED BY <1>1, <2>2 DEF OwningGrants
<1>4. ~MayBeNoOwner(w, u)
  BY <1>1, <1>2 DEF MayBeNoOwner
<1> QED BY <1>3, <1>4 DEF Sole, MayLoseOwner

LEMMA MemberInvInit == MemberInit => MemberInv
<1> SUFFICES ASSUME MemberInit PROVE MemberInv
  OBVIOUS
<1>1. MemberTypeOK
  <2>1. account \in [Users -> Here \cup {"new", "gone"}]
    BY DEF MemberInit, Here
  <2>2. nodeOwner \in [Workspaces -> Users \cup {Nobody}] /\ opened \subseteq Workspaces /\ open = opened
    BY DEF MemberInit
  <2>3. roster \in [Workspaces -> SUBSET Users]
    BY <2>2 DEF MemberInit
  <2>4. grant \in [Workspaces -> [Users -> SUBSET Grantable]]
    BY MembershipAssumption DEF MemberInit
  <2>5. call \in [Requests -> CallType] /\ stale \in BOOLEAN /\ adrift \subseteq Workspaces
    BY <2>2, CallsMade DEF MemberInit
  <2> QED BY <2>1, <2>2, <2>3, <2>4, <2>5 DEF MemberTypeOK
<1>2. ClosedEmpty
  BY DEF MemberInit, ClosedEmpty
<1>3. Agreed
  BY MembershipAssumption DEF MemberInit, Agreed
<1>5. ASSUME NEW w \in open \ adrift PROVE Owners(w) # {}
  <2>1. nodeOwner[w] \in Users /\ w \in Workspaces
    BY <1>5 DEF MemberInit
  <2>2. nodeOwner[w] \in Owners(w)
    BY <1>5, <2>1, MembershipAssumption DEF MemberInit, Owners
  <2> QED BY <2>2
<1> QED BY <1>1, <1>2, <1>3, <1>5 DEF MemberInv, Owned

(* Seats taken: w's roster has u, who holds that role and no other, or none.*)
LEMMA SeatDoes ==
  ASSUME MemberTypeOK, NEW w \in Workspaces, NEW u \in Users, NEW role \in Roles, NEW joins \in BOOLEAN,
         Exists(u), joins \/ u \in roster[w], Seat(w, u, role, joins)
  PROVE  /\ roster' \in [Workspaces -> SUBSET Users] /\ nodeOwner' \in [Workspaces -> Users \cup {Nobody}]
         /\ grant' \in [Workspaces -> [Users -> SUBSET Grantable]]
         /\ roster'[w] = roster[w] \cup {u} /\ \A v \in Workspaces \ {w} : roster'[v] = roster[v]
         /\ grant'[w][u] = {role} \cap Grantable
         /\ \A v \in Workspaces : \A x \in Users : v # w \/ x # u => grant'[v][x] = grant[v][x]
         /\ nodeOwner'[w] \in {nodeOwner[w], u}
         /\ \A v \in Workspaces \ {w} : nodeOwner'[v] = nodeOwner[v]
<1>1. w \in Workspaces
  OBVIOUS
<1>2. /\ roster' = [roster EXCEPT ![w] = roster[w] \cup {u}]
      /\ grant' = [grant EXCEPT ![w][u] = {role} \cap Grantable]
      /\ nodeOwner' = [nodeOwner EXCEPT ![w] = IF @ = Nobody /\ role \in Managing THEN u ELSE @]
  BY DEF Seat
<1>3. nodeOwner'[w] \in {nodeOwner[w], u} /\ nodeOwner' \in [Workspaces -> Users \cup {Nobody}]
  BY <1>1, <1>2 DEF MemberTypeOK
<1>4. grant' \in [Workspaces -> [Users -> SUBSET Grantable]]
  BY <1>1, <1>2 DEF MemberTypeOK
<1> QED BY <1>1, <1>2, <1>3, <1>4 DEF MemberTypeOK

(* Seats given up.                                                          *)
LEMMA UnseatDoes ==
  ASSUME MemberTypeOK, NEW W \in SUBSET Workspaces, NEW u \in Users, Unseat(W, u)
  PROVE  /\ roster' \in [Workspaces -> SUBSET Users] /\ nodeOwner' \in [Workspaces -> Users \cup {Nobody}]
         /\ grant' \in [Workspaces -> [Users -> SUBSET Grantable]]
         /\ \A v \in W : roster'[v] = roster[v] \ {u} /\ grant'[v][u] = {}
                           /\ nodeOwner'[v] = IF nodeOwner[v] = u THEN Nobody ELSE nodeOwner[v]
         /\ \A v \in W : \A x \in Users \ {u} : grant'[v][x] = grant[v][x]
         /\ \A v \in Workspaces \ W : roster'[v] = roster[v] /\ grant'[v] = grant[v]
                                        /\ nodeOwner'[v] = nodeOwner[v]
BY DEF Unseat, MemberTypeOK

LEMMA SeatTyped ==
  ASSUME MemberTypeOK, NEW w \in Workspaces, NEW u \in Users, NEW role \in Roles, NEW joins,
         Seat(w, u, role, joins)
  PROVE  /\ roster' \in [Workspaces -> SUBSET Users] /\ nodeOwner' \in [Workspaces -> Users \cup {Nobody}]
         /\ grant' \in [Workspaces -> [Users -> SUBSET Grantable]]
<1> DEFINE present == IF joins /\ Exists(u) THEN roster[w] \cup {u} ELSE roster[w]
           roles == IF role \in Grantable /\ Exists(u) /\ u \in present THEN {role} ELSE {}
           owner == IF nodeOwner[w] = Nobody /\ role \in Managing THEN u ELSE nodeOwner[w]
<1>1. present \in SUBSET Users /\ roles \in SUBSET Grantable /\ owner \in Users \cup {Nobody}
  BY MemberTypes
<1>2. /\ roster' = [roster EXCEPT ![w] = present] /\ grant' = [grant EXCEPT ![w][u] = roles]
      /\ nodeOwner' = [nodeOwner EXCEPT ![w] = owner]
  BY DEF Seat, MemberTypeOK
<1> HIDE DEF present, roles, owner
<1> QED BY <1>1, <1>2 DEF MemberTypeOK

(* A request goes on as `next'.                                             *)
LEMMA CallMoves ==
  ASSUME MemberInv, NEW r \in Requests, NEW op, NEW next \in CallType, Writes(r, op, next)
  PROVE  /\ call' \in [Requests -> CallType] /\ stale' \in BOOLEAN
         /\ call[r] \in CallType /\ call[r].op = op
         /\ \A q \in Requests \ {r} : call'[q] = call[q]
         /\ call'[r] = next
         /\ ~stale' => ~stale /\ Holds(call[r]) /\ ClosedEmpty /\ Agreed /\ Owned
         /\ op # "found" => \A w \in Workspaces : Founding(w) => Founding(w)'
<1>1. call' = [call EXCEPT ![r] = next] /\ call[r].op = op /\ stale' = (stale \/ ~Holds(call[r]))
  BY DEF Writes
<1>2. MemberTypeOK /\ call \in [Requests -> CallType]
  BY DEF MemberInv, MemberTypeOK
<1>3. stale' \in BOOLEAN
  BY <1>1, <1>2 DEF MemberTypeOK
<1>4. ~stale' => ~stale /\ Holds(call[r]) /\ ClosedEmpty /\ Agreed /\ Owned
  BY <1>1 DEF MemberInv
<1>5. /\ call' \in [Requests -> CallType] /\ call'[r] = next
      /\ \A q \in Requests \ {r} : call'[q] = call[q]
  BY <1>1, <1>2
<1>7. op # "found" => \A w \in Workspaces : Founding(w) => Founding(w)'
  BY <1>1, <1>5 DEF Founding
<1> QED BY <1>1, <1>2, <1>3, <1>4, <1>5, <1>7

(* A workspace that loses its last owner is adrift, unless what was written *)
(* cannot take one away.                                                    *)
LEMMA OwnersStay ==
  ASSUME Owned, NEW cause, Adrift(cause),
         \A w \in open' \ cause :
           \/ Owners(w)' # {}
           \/ w \in open /\ Owners(w) = {} /\ (Founding(w) => Founding(w)')
  PROVE  Owned'
<1>1. adrift' = {w \in open' \cap (adrift \cup cause) : Owners(w)' = {}}
  BY DEF Adrift, Owners
<1> QED BY <1>1 DEF Owned

LEMMA OwnersStayUnchanged ==
  ASSUME Owned, UNCHANGED <<open, roster, grant, adrift>>,
         \A w \in open : Founding(w) => Founding(w)'
  PROVE  Owned'
BY DEF Owned, Owners

LEMMA AdriftTyped ==
  ASSUME NEW cause, Adrift(cause), open' \subseteq Workspaces PROVE adrift' \subseteq Workspaces
BY DEF Adrift
-----------------------------------------------------------------------------
LEMMA CheckKeeps ==
  ASSUME MemberInv, NEW r \in Requests, NEW c \in CallType, Check(r, c) PROVE MemberInv'
<1>1. /\ UNCHANGED <<account, open, opened, roster, grant, nodeOwner, stale, adrift>>
      /\ call[r] = Idle /\ c.op # "found" /\ call' = [call EXCEPT ![r] = c]
  BY DEF Check, seats
<1>2. MemberTypeOK
  BY DEF MemberInv
<1>3. MemberTypeOK'
  BY <1>1, <1>2 DEF MemberTypeOK
<1>4. \A w \in open : Founding(w) => Founding(w)'
  BY <1>1, <1>2 DEF Founding, Idle, UserCall, SeatCall, MemberTypeOK
<1>5. Owned => Owned'
  BY <1>1, <1>4, OwnersStayUnchanged
<1> QED BY <1>1, <1>3, <1>5 DEF MemberInv, ClosedEmpty, Agreed

(* Writes that touch accounts alone: nobody in a seat loses their account,  *)
(* or is made an admin.                                                     *)
LEMMA AccountWriteKeeps ==
  ASSUME MemberInv, NEW r \in Requests, SetUp(r) \/ Demote(r) \/ TidyPending(r)
  PROVE  MemberInv'
<1> DEFINE u == call[r].user
           c == call[r]
<1>1. UNCHANGED <<open, opened, roster, grant, nodeOwner, adrift>>
  BY DEF SetUp, Demote, TidyPending, seats
<1>2. PICK op \in {"setup", "demote", "tidy"} : Writes(r, op, Idle)
  BY DEF SetUp, Demote, TidyPending
<1>3. Idle \in CallType /\ Idle.op # "found"
  BY CallsMade DEF Idle, UserCall, SeatCall
<1>4. /\ call' \in [Requests -> CallType] /\ stale' \in BOOLEAN
      /\ c \in CallType /\ c.op = op
      /\ ~stale' => ~stale /\ Holds(c) /\ ClosedEmpty /\ Agreed /\ Owned
      /\ \A w \in Workspaces : Founding(w) => Founding(w)'
  BY <1>2, <1>3, CallMoves
<1>5. u \in Users
  BY <1>4, CallTypes DEF SeatOps, UserOps
<1>6. MemberTypeOK
  BY DEF MemberInv
<1>7. /\ account' \in [Users -> Here \cup {"new", "gone"}]
      /\ \A x \in Users \ {u} : account'[x] = account[x]
      /\ \/ op = "setup" /\ account[u] = "new"
         \/ op = "demote" /\ account'[u] \in {account[u], "user"}
         \/ op = "tidy"
  BY <1>4, <1>5, <1>6 DEF SetUp, Demote, TidyPending, MemberTypeOK, Here, Writes
<1>8. MemberTypeOK'
  BY <1>1, <1>4, <1>6, <1>7 DEF MemberTypeOK
<1>9. ASSUME ~stale' PROVE ClosedEmpty' /\ Agreed' /\ Owned'
  <2>1. \A w \in Workspaces : u \in roster[w] \/ nodeOwner[w] = u => account'[u] \in {"pending", "user"}
    <3>1. CASE op = "setup"
      BY <1>4, <1>5, <1>7, <1>9, <3>1 DEF Agreed
    <3>2. CASE op = "demote"
      BY <1>4, <1>5, <1>7, <1>9, <3>2 DEF Agreed
    <3>3. CASE op = "tidy"
      <4>1. \A w \in open : u \notin roster[w]
        BY <1>4, <1>9, <3>3, HoldsFor
      <4>2. \A w \in Workspaces : u \notin roster[w]
        BY <1>4, <1>9, <4>1 DEF ClosedEmpty
      <4> QED BY <1>4, <1>5, <1>9, <4>2, MembershipAssumption DEF Agreed
    <3> QED BY <3>1, <3>2, <3>3
  <2>2. Agreed'
    BY <1>1, <1>4, <1>7, <1>9, <2>1 DEF Agreed
  <2>3. open \subseteq Workspaces
    BY <1>6 DEF MemberTypeOK
  <2>4. Owned'
    BY <1>1, <1>4, <1>9, <2>3, OwnersStayUnchanged
  <2> QED BY <1>1, <1>4, <1>9, <2>2, <2>4 DEF ClosedEmpty
<1> QED BY <1>4, <1>8, <1>9 DEF MemberInv

(* Accounts that come: nobody had a seat under such an id.  Invitations     *)
(* that are accepted leave the seats.                                       *)
LEMMA NewAccountKeeps ==
  ASSUME MemberInv, NEW u \in Users, Accept(u) \/ \E kind \in Here : CreateUser(u, kind)
  PROVE  MemberInv'
<1>1. UNCHANGED <<open, opened, roster, grant, nodeOwner, adrift, call, stale>>
  BY DEF Accept, CreateUser, seats
<1>2. MemberTypeOK
  BY DEF MemberInv
<1>3. /\ account' \in [Users -> Here \cup {"new", "gone"}]
      /\ \A x \in Users \ {u} : account'[x] = account[x]
      /\ account[u] = "new" \/ account'[u] = "user"
  BY <1>2 DEF Accept, CreateUser, MemberTypeOK, Here
<1>4. MemberTypeOK'
  BY <1>1, <1>2, <1>3 DEF MemberTypeOK
<1>5. Agreed => Agreed'
  BY <1>1, <1>3 DEF Agreed
<1>6. Owned => Owned'
  BY <1>1, OwnersStayUnchanged DEF Founding
<1> QED BY <1>1, <1>4, <1>5, <1>6 DEF MemberInv, ClosedEmpty

(* Memberships end.  No workspace loses its last owner here but a cause.    *)
LEMMA UnseatKeeps ==
  ASSUME MemberInv, NEW r \in Requests, NEW op \in UserOps \cup {"remove"}, NEW next \in CallType,
         Writes(r, op, next),
         NEW W \in SUBSET Workspaces, NEW u \in Users, Unseat(W, u), UNCHANGED <<open, opened>>,
         account' \in [Users -> Here \cup {"new", "gone"}],
         \A x \in Users \ {u} : account'[x] = account[x],
         NEW cause, Adrift(cause),
         ~stale' => \/ MembershipsOf(u) \subseteq W
                    \/ account' = account,
         ~stale' => \A w \in open \cap W : Owners(w) = {u} => w \in cause
  PROVE  MemberInv'
<1>1. /\ call' \in [Requests -> CallType] /\ stale' \in BOOLEAN
      /\ ~stale' => ~stale /\ Holds(call[r]) /\ ClosedEmpty /\ Agreed /\ Owned
      /\ \A w \in Workspaces : Founding(w) => Founding(w)'
  BY CallMoves DEF UserOps
<1>2. MemberTypeOK /\ open \subseteq Workspaces
  BY DEF MemberInv, MemberTypeOK
<1>3. /\ roster' \in [Workspaces -> SUBSET Users] /\ nodeOwner' \in [Workspaces -> Users \cup {Nobody}]
      /\ grant' \in [Workspaces -> [Users -> SUBSET Grantable]]
      /\ \A v \in W : roster'[v] = roster[v] \ {u} /\ grant'[v][u] = {}
                        /\ nodeOwner'[v] = IF nodeOwner[v] = u THEN Nobody ELSE nodeOwner[v]
      /\ \A v \in W : \A x \in Users \ {u} : grant'[v][x] = grant[v][x]
      /\ \A v \in Workspaces \ W : roster'[v] = roster[v] /\ grant'[v] = grant[v]
                                     /\ nodeOwner'[v] = nodeOwner[v]
  BY <1>2, UnseatDoes
<1>4. MemberTypeOK'
  BY <1>1, <1>2, <1>3, AdriftTyped DEF MemberTypeOK
<1>5. ASSUME ~stale' PROVE ClosedEmpty'
  BY <1>1, <1>3, <1>5 DEF ClosedEmpty
<1>6. ASSUME ~stale' PROVE Agreed'
  <2>1. ASSUME account' # account, NEW w \in Workspaces PROVE u \notin roster'[w] /\ nodeOwner'[w] # u
    <3>1. w \in W \/ u \notin roster[w]
      BY <1>1, <1>6, <2>1 DEF MembershipsOf, ClosedEmpty
    <3>2. nodeOwner[w] \in roster[w] \cup {Nobody}
      BY <1>1, <1>6 DEF Agreed
    <3> QED BY <1>3, <3>1, <3>2, MembershipAssumption
  <2>2. \A w \in Workspaces : \A x \in Users : x \in roster'[w] => x \in roster[w]
    BY <1>3
  <2>3. \A w \in Workspaces : nodeOwner'[w] \in {nodeOwner[w], Nobody}
    BY <1>3
  <2>4. \A w \in Workspaces : \A x \in Users :
          x \in roster'[w] \/ nodeOwner'[w] = x => account'[x] \in {"pending", "user"}
    BY <1>1, <1>6, <2>1, <2>2, <2>3, MembershipAssumption DEF Agreed
  <2>5. ASSUME NEW w \in Workspaces, NEW x \in Users, grant'[w][x] # {}
        PROVE  w \in open /\ x \in roster'[w]
    <3>1. grant[w][x] # {} => w \in open /\ x \in roster[w]
      BY <1>1, <1>6 DEF Agreed
    <3>2. CASE w \in W
      BY <1>3, <2>5, <3>1, <3>2
    <3>3. CASE w \notin W
      BY <1>3, <2>5, <3>1, <3>3
    <3> QED BY <3>2, <3>3
  <2>6. ASSUME NEW w \in Workspaces PROVE nodeOwner'[w] \in roster'[w] \cup {Nobody}
    <3>1. nodeOwner[w] \in roster[w] \cup {Nobody}
      BY <1>1, <1>6 DEF Agreed
    <3> QED BY <1>3, <3>1
  <2> QED BY <2>4, <2>5, <2>6 DEF Agreed
<1>7. ASSUME ~stale' PROVE Owned'
  <2>1. ASSUME NEW w \in open \ cause, Owners(w) # {} PROVE Owners(w)' # {}
    <3>1. \E x \in Owners(w) : w \notin W \/ x # u
      BY <1>2, <1>7, <2>1
    <3>2. PICK x \in Owners(w) : w \notin W \/ x # u
      BY <3>1
    <3>3. x \in roster[w] /\ grant[w][x] \cap Managing # {} /\ w \in Workspaces /\ x \in Users
      BY <1>2, MemberTypes DEF Owners
    <3>4. x \in roster'[w] /\ grant'[w][x] \cap Managing # {}
      BY <1>3, <3>2, <3>3
    <3> QED BY <3>4 DEF Owners
  <2> QED BY <1>1, <1>2, <1>7, <2>1, OwnersStay
<1> QED BY <1>1, <1>4, <1>5, <1>6, <1>7 DEF MemberInv

LEMMA PromoteKeeps ==
  ASSUME MemberInv, NEW r \in Requests, NEW op, Promote(r, op) PROVE MemberInv'
<1> DEFINE u == call[r].user
           cause == IF op = "claim" THEN MembershipsOf(u) ELSE TwiceSeated(u)
<1>1. /\ op \in {"claim", "promote"} /\ Writes(r, op, Idle) /\ Unseat(MembershipsOf(u), u)
      /\ account' = [account EXCEPT ![u] = IF Exists(u) THEN "admin" ELSE @]
      /\ UNCHANGED <<open, opened>> /\ Adrift(cause)
  BY DEF Promote
<1>2. MemberTypeOK /\ call[r] \in CallType /\ call[r].op = op
  BY <1>1, MemberTypes DEF MemberInv, Writes
<1>3. u \in Users /\ MembershipsOf(u) \in SUBSET Workspaces
  BY <1>1, <1>2, CallTypes DEF UserOps, MembershipsOf, MemberTypeOK
<1>4. account' \in [Users -> Here \cup {"new", "gone"}] /\ \A x \in Users \ {u} : account'[x] = account[x]
  BY <1>1, <1>2, <1>3 DEF MemberTypeOK, Here
<1>5. ~stale' => \A w \in open \cap MembershipsOf(u) : Owners(w) = {u} => w \in cause
  BY <1>1, <1>2, <1>3, WriteFor, HoldsFor, LastOwnerIsSeen
<1>6. Idle \in CallType
  BY CallsMade
<1> HIDE DEF u, cause
<1> QED BY <1>1, <1>3, <1>4, <1>5, <1>6, UnseatKeeps DEF UserOps

LEMMA DeleteUserKeeps ==
  ASSUME MemberInv, NEW r \in Requests, DeleteUser(r) PROVE MemberInv'
<1> DEFINE u == call[r].user
<1>1. /\ Writes(r, "delete", Idle) /\ Unseat(Workspaces, u)
      /\ account' = [account EXCEPT ![u] = "gone"]
      /\ UNCHANGED <<open, opened>> /\ Adrift(TwiceSeated(u))
  BY DEF DeleteUser
<1>2. MemberTypeOK /\ call[r] \in CallType /\ call[r].op = "delete"
  BY <1>1, MemberTypes DEF MemberInv, Writes
<1>3. u \in Users /\ Workspaces \in SUBSET Workspaces /\ MembershipsOf(u) \subseteq Workspaces
  BY <1>1, <1>2, CallTypes DEF UserOps, MembershipsOf, MemberTypeOK
<1>4. account' \in [Users -> Here \cup {"new", "gone"}] /\ \A x \in Users \ {u} : account'[x] = account[x]
  BY <1>1, <1>2, <1>3 DEF MemberTypeOK, Here
<1>5. ~stale' => \A w \in open \cap Workspaces : Owners(w) = {u} => w \in TwiceSeated(u)
  BY <1>1, <1>2, <1>3, WriteFor, HoldsFor, LastOwnerIsSeen
<1>6. Idle \in CallType
  BY CallsMade
<1> HIDE DEF u
<1> QED BY <1>1, <1>3, <1>4, <1>5, <1>6, UnseatKeeps DEF UserOps

LEMMA RemoveMemberKeeps ==
  ASSUME MemberInv, NEW r \in Requests, RemoveMember(r) PROVE MemberInv'
<1> DEFINE u == call[r].user
           w == call[r].ws
<1>1. PICK next \in {Idle, UserCall("tidy", u)} : Writes(r, "remove", next)
  BY DEF RemoveMember
<1>2. Unseat({w}, u) /\ UNCHANGED <<account, open, opened>> /\ Adrift(TwiceSeated(u))
  BY DEF RemoveMember
<1>3. MemberTypeOK /\ call[r] \in CallType /\ call[r].op = "remove"
  BY <1>1, MemberTypes DEF MemberInv, Writes
<1>4. u \in Users /\ {w} \in SUBSET Workspaces /\ account' \in [Users -> Here \cup {"new", "gone"}]
  BY <1>2, <1>3, CallTypes DEF SeatOps, MemberTypeOK
<1>5. next \in CallType
  BY <1>4, CallsMade
<1>6. ASSUME ~stale' PROVE \A v \in open \cap {w} : Owners(v) = {u} => v \in TwiceSeated(u)
  <2>1. MayLoseOwner(w, u)
    BY <1>1, <1>3, <1>6, WriteFor, HoldsFor
  <2> QED BY <1>4, <2>1, LastOwnerIsSeen
<1> HIDE DEF u, w
<1> QED BY <1>1, <1>2, <1>4, <1>5, <1>6, UnseatKeeps

(* Somebody takes a seat, or another role in it.  An owner's seat is taken  *)
(* away here only by a cause.                                               *)
LEMMA SeatKeeps ==
  ASSUME MemberInv, NEW r \in Requests, NEW op \in {"found", "add", "reseat", "regrade"},
         Writes(r, op, Idle), NEW joins \in BOOLEAN, joins <=> op # "regrade",
         SeatIfOpen(call[r].ws, call[r].user, call[r].role, joins), UNCHANGED <<account, open, opened>>,
         NEW cause, Adrift(cause),
         op = "reseat" => call[r].ws \in cause,
         op = "regrade" => TwiceSeated(call[r].user) \subseteq cause,
         op # "reseat" => Refused(call[r].ws, call[r].role) \subseteq cause
  PROVE  MemberInv'
<1> DEFINE c == call[r]
           u == call[r].user
           w == call[r].ws
<1>1. Idle \in CallType
  BY CallsMade
<1>2. /\ call' \in [Requests -> CallType] /\ stale' \in BOOLEAN
      /\ c \in CallType /\ c.op = op /\ call'[r] = Idle
      /\ \A q \in Requests \ {r} : call'[q] = call[q]
      /\ ~stale' => ~stale /\ Holds(c) /\ ClosedEmpty /\ Agreed /\ Owned
  BY <1>1, CallMoves
<1>3. MemberTypeOK /\ open \subseteq Workspaces
  BY DEF MemberInv, MemberTypeOK
<1>4. w \in Workspaces /\ u \in Users /\ c.role \in Roles
  BY <1>2, CallTypes DEF SeatOps
<1>5. MemberTypeOK'
  <2>1. /\ roster' \in [Workspaces -> SUBSET Users] /\ nodeOwner' \in [Workspaces -> Users \cup {Nobody}]
        /\ grant' \in [Workspaces -> [Users -> SUBSET Grantable]]
    <3>1. CASE w \in open
      BY <1>3, <1>4, <3>1, SeatTyped DEF SeatIfOpen
    <3>2. CASE w \notin open
      BY <1>3, <3>2 DEF SeatIfOpen, MemberTypeOK
    <3> QED BY <3>1, <3>2
  <2> QED BY <1>2, <1>3, <2>1, AdriftTyped DEF MemberTypeOK
<1>6. SUFFICES ASSUME ~stale' PROVE ClosedEmpty' /\ Agreed' /\ Owned'
  BY <1>2, <1>5 DEF MemberInv
<1>7. /\ account[u] \in {"pending", "user"} /\ w \in open /\ Exists(u)
      /\ op = "regrade" => u \in roster[w] /\ (c.role \in Managing \/ MayLoseOwner(w, u))
      /\ op = "add" => u \notin roster[w]
      /\ op = "found" => c.role = "owner"
  BY <1>2, <1>3, <1>6, HoldsFor, CallTypes DEF Exists, Here
<1>8. /\ roster'[w] = roster[w] \cup {u} /\ \A v \in Workspaces \ {w} : roster'[v] = roster[v]
      /\ grant'[w][u] = {c.role} \cap Grantable
      /\ \A v \in Workspaces : \A x \in Users : v # w \/ x # u => grant'[v][x] = grant[v][x]
      /\ nodeOwner'[w] \in {nodeOwner[w], u}
      /\ \A v \in Workspaces \ {w} : nodeOwner'[v] = nodeOwner[v]
  BY <1>3, <1>4, <1>7, SeatDoes DEF SeatIfOpen
<1> HIDE DEF c, u, w
<1>9. ClosedEmpty'
  BY <1>2, <1>6, <1>7, <1>8 DEF ClosedEmpty
<1>10. Agreed'
  <2>1. \A v \in Workspaces : \A x \in Users : grant'[v][x] # {} => v \in open /\ x \in roster'[v]
    BY <1>2, <1>4, <1>6, <1>7, <1>8 DEF Agreed
  <2>2. \A v \in Workspaces : \A x \in Users : x \in roster'[v] => x \in roster[v] \/ x = u
    BY <1>4, <1>8
  <2>3. \A v \in Workspaces : nodeOwner'[v] = nodeOwner[v] \/ (v = w /\ nodeOwner'[v] = u)
    BY <1>4, <1>8
  <2>4. \A v \in Workspaces : \A x \in Users :
          x \in roster'[v] \/ nodeOwner'[v] = x => account[x] \in {"pending", "user"}
    BY <1>2, <1>6, <1>7, <2>2, <2>3 DEF Agreed
  <2>5. \A v \in Workspaces : nodeOwner'[v] \in roster'[v] \cup {Nobody}
    BY <1>2, <1>4, <1>6, <1>8 DEF Agreed
  <2> QED BY <2>1, <2>4, <2>5 DEF Agreed
<1>11. Owned'
  <2>1. ASSUME NEW v \in Workspaces, v = w, c.role \in Managing, v \notin cause PROVE Owners(v)' # {}
    <3>1. op # "reseat" /\ c.role \in Grantable
      BY <2>1 DEF Refused, c, w
    <3>2. u \in roster'[v] /\ c.role \in grant'[v][u]
      BY <1>4, <1>8, <2>1, <3>1
    <3> QED BY <2>1, <3>2 DEF Owners
  <2>2. ASSUME NEW v \in open \ cause, Owners(v) # {} PROVE Owners(v)' # {}
    <3>1. CASE v # w \/ \E x \in Owners(v) : x # u
      <4>1. PICK x \in Owners(v) : v # w \/ x # u
        BY <2>2, <3>1
      <4>2. x \in roster[v] /\ grant[v][x] \cap Managing # {} /\ v \in Workspaces /\ x \in Users
        BY <1>3, MemberTypes DEF Owners
      <4>3. x \in roster'[v] /\ grant'[v][x] \cap Managing # {}
        BY <1>4, <1>8, <4>1, <4>2
      <4> QED BY <4>3 DEF Owners
    <3>2. CASE v = w /\ Owners(v) = {u}
      <4>1. u \in roster[w] /\ op \in {"found", "regrade"} /\ w \notin cause
        BY <1>7, <2>2, <3>2 DEF Owners, w
      <4>2. c.role \in Managing
        <5>1. CASE op = "found"
          BY <1>7, <5>1, MembershipAssumption
        <5>2. CASE op = "regrade"
          <6>1. w \notin TwiceSeated(u)
            BY <2>2, <3>2, <5>2 DEF u
          <6> QED BY <1>4, <1>7, <3>2, <5>2, <6>1, LastOwnerIsSeen
        <5> QED BY <4>1, <5>1, <5>2
      <4> QED BY <1>4, <2>1, <3>2, <4>1, <4>2
    <3> QED BY <2>2, <3>1, <3>2
  <2>3. ASSUME NEW v \in open \ cause, Founding(v) PROVE Owners(v)' # {} \/ Founding(v)'
    <3>1. PICK q \in Requests : call[q].op = "found" /\ call[q].ws = v
      BY <2>3 DEF Founding
    <3>2. CASE q # r
      BY <1>2, <3>1, <3>2 DEF Founding
    <3>3. CASE q = r
      <4>1. op = "found" /\ v = w
        BY <1>2, <3>1, <3>3 DEF c, w
      <4> QED BY <1>4, <1>7, <2>1, <2>3, <4>1, MembershipAssumption
    <3> QED BY <3>2, <3>3
  <2> QED BY <1>2, <1>6, <2>2, <2>3, OwnersStay
<1> QED BY <1>9, <1>10, <1>11

LEMMA AddMemberKeeps ==
  ASSUME MemberInv, NEW r \in Requests, NEW op, AddMember(r, op) PROVE MemberInv'
<1> DEFINE cause == IF op = "reseat" THEN {call[r].ws} ELSE Refused(call[r].ws, call[r].role)
<1>1. /\ op \in {"found", "add", "reseat"} /\ Writes(r, op, Idle)
      /\ SeatIfOpen(call[r].ws, call[r].user, call[r].role, TRUE)
      /\ UNCHANGED <<account, open, opened>> /\ Adrift(cause)
  BY DEF AddMember
<1>2. /\ op = "reseat" => call[r].ws \in cause
      /\ op # "reseat" => Refused(call[r].ws, call[r].role) \subseteq cause
  OBVIOUS
<1> HIDE DEF cause
<1> QED BY <1>1, <1>2, SeatKeeps

LEMMA SetMemberRoleKeeps ==
  ASSUME MemberInv, NEW r \in Requests, SetMemberRole(r) PROVE MemberInv'
<1> DEFINE cause == TwiceSeated(call[r].user) \cup Refused(call[r].ws, call[r].role)
<1>1. /\ Writes(r, "regrade", Idle) /\ SeatIfOpen(call[r].ws, call[r].user, call[r].role, FALSE)
      /\ UNCHANGED <<account, open, opened>> /\ Adrift(cause)
  BY DEF SetMemberRole
<1>2. TwiceSeated(call[r].user) \subseteq cause /\ Refused(call[r].ws, call[r].role) \subseteq cause
  OBVIOUS
<1> HIDE DEF cause
<1> QED BY <1>1, <1>2, SeatKeeps

(* A workspace opens with the caller in the owner's seat.                   *)
LEMMA CreateOwnWorkspaceKeeps ==
  ASSUME MemberInv, NEW r \in Requests, CreateOwnWorkspace(r) PROVE MemberInv'
<1> DEFINE c == call[r]
           w == call[r].ws
           u == call[r].user
<1>1. /\ Writes(r, "create", Idle) /\ w \notin opened
      /\ open' = open \cup {w} /\ opened' = opened \cup {w} /\ account' = account
      /\ Seat(w, u, c.role, TRUE) /\ Adrift(Refused(w, c.role))
  BY DEF CreateOwnWorkspace
<1>2. MemberTypeOK /\ c \in CallType /\ c.op = "create" /\ Idle \in CallType
  BY <1>1, CallsMade, MemberTypes DEF MemberInv, Writes
<1>3. w \in Workspaces /\ u \in Users /\ c.role = "owner" /\ c.role \in Roles
  BY <1>2, CallTypes DEF SeatOps
<1>4. /\ call' \in [Requests -> CallType] /\ stale' \in BOOLEAN
      /\ ~stale' => /\ ~stale /\ ClosedEmpty /\ Agreed /\ Owned
                    /\ account[u] = "user"
      /\ \A v \in Workspaces : Founding(v) => Founding(v)'
  BY <1>1, <1>2, CallMoves, HoldsFor
<1> HIDE DEF c, w, u
<1>5. MemberTypeOK'
  <2>1. /\ roster' \in [Workspaces -> SUBSET Users] /\ nodeOwner' \in [Workspaces -> Users \cup {Nobody}]
        /\ grant' \in [Workspaces -> [Users -> SUBSET Grantable]]
    BY <1>1, <1>2, <1>3, SeatTyped
  <2>2. adrift' \subseteq Workspaces /\ open' \subseteq opened' /\ opened' \subseteq Workspaces
    BY <1>1, <1>2, <1>3, AdriftTyped DEF MemberTypeOK
  <2> QED BY <1>1, <1>2, <1>4, <2>1, <2>2 DEF MemberTypeOK
<1>6. ASSUME ~stale' PROVE ClosedEmpty' /\ Agreed' /\ Owned'
  <2>1. account[u] = "user" /\ Exists(u) /\ w \notin open
    BY <1>1, <1>2, <1>4, <1>6 DEF Exists, Here, MemberTypeOK
  <2>2. /\ roster'[w] = {u} /\ \A v \in Workspaces \ {w} : roster'[v] = roster[v]
        /\ grant'[w][u] = {c.role} \cap Grantable
        /\ \A v \in Workspaces : \A x \in Users : v # w \/ x # u => grant'[v][x] = grant[v][x]
        /\ nodeOwner'[w] \in {Nobody, u}
        /\ \A v \in Workspaces \ {w} : nodeOwner'[v] = nodeOwner[v]
    <3>1. roster[w] = {} /\ nodeOwner[w] = Nobody
      BY <1>3, <1>4, <1>6, <2>1 DEF ClosedEmpty
    <3> QED BY <1>1, <1>2, <1>3, <2>1, <3>1, SeatDoes
  <2>3. ClosedEmpty'
    BY <1>1, <1>4, <1>6, <2>2 DEF ClosedEmpty
  <2>4. \A v \in Workspaces : \A x \in Users : grant'[v][x] # {} => v \in open' /\ x \in roster'[v]
    BY <1>1, <1>3, <1>4, <1>6, <2>1, <2>2 DEF Agreed
  <2>5. \A v \in Workspaces : \A x \in Users :
          x \in roster'[v] \/ nodeOwner'[v] = x => account'[x] \in {"pending", "user"}
    BY <1>1, <1>3, <1>4, <1>6, <2>1, <2>2, MembershipAssumption DEF Agreed
  <2>6. \A v \in Workspaces : nodeOwner'[v] \in roster'[v] \cup {Nobody}
    BY <1>3, <1>4, <1>6, <2>2 DEF Agreed
  <2>7. ASSUME NEW v \in Workspaces, v = w, v \notin Refused(w, c.role) PROVE Owners(v)' # {}
    <3>1. u \in roster'[v] /\ c.role \in grant'[v][u] /\ c.role \in Managing
      BY <1>3, <2>2, <2>7, MembershipAssumption DEF Refused
    <3> QED BY <3>1 DEF Owners
  <2>8. \A v \in open : v # w /\ v \in Workspaces /\ Owners(v)' = Owners(v)
    <3>1. \A v \in open : v # w /\ v \in Workspaces
      BY <1>2, <2>1 DEF MemberTypeOK
    <3>2. \A v \in open : roster'[v] = roster[v] /\ \A x \in Users : grant'[v][x] = grant[v][x]
      BY <2>2, <3>1
    <3>3. \A v \in open : roster[v] \in SUBSET Users
      BY <1>2, <3>1, MemberTypes
    <3> QED BY <3>1, <3>2, <3>3 DEF Owners
  <2>9. Owned'
    <3>1. ASSUME NEW v \in open' \ Refused(w, c.role), v \notin open PROVE Owners(v)' # {}
      BY <1>1, <1>3, <2>7, <3>1
    <3> HIDE DEF Refused
    <3> QED BY <1>1, <1>4, <1>6, <2>8, <3>1, OwnersStay
  <2> QED BY <2>3, <2>4, <2>5, <2>6, <2>9 DEF Agreed
<1> QED BY <1>4, <1>5, <1>6 DEF MemberInv

(* A workspace opens empty, with its founding under way.                    *)
LEMMA OpenWorkspaceKeeps ==
  ASSUME MemberInv, NEW r \in Requests, OpenWorkspace(r) PROVE MemberInv'
<1> DEFINE w == call[r].ws
           next == SeatCall("found", w, call[r].user, "owner")
<1>1. /\ Writes(r, "open", next) /\ w \notin opened
      /\ open' = open \cup {w} /\ opened' = opened \cup {w}
      /\ UNCHANGED <<account, roster, grant, nodeOwner, adrift>>
  BY DEF OpenWorkspace
<1>2. MemberTypeOK /\ call[r] \in CallType /\ call[r].op = "open"
  BY <1>1, MemberTypes DEF MemberInv, Writes
<1>3. w \in Workspaces /\ next \in CallType /\ next.op = "found" /\ next.ws = w
  BY <1>2, CallTypes, CallsMade DEF SeatOps, SeatCall
<1> HIDE DEF next, w
<1>4. /\ call' \in [Requests -> CallType] /\ stale' \in BOOLEAN
      /\ call'[r] = next
      /\ ~stale' => ~stale /\ ClosedEmpty /\ Agreed /\ Owned
      /\ \A v \in Workspaces : Founding(v) => Founding(v)'
  BY <1>1, <1>3, CallMoves
<1>5. MemberTypeOK'
  BY <1>1, <1>2, <1>3, <1>4 DEF MemberTypeOK
<1>6. ASSUME ~stale' PROVE Owned'
  <2>1. ASSUME NEW v \in Workspaces, v = w PROVE Founding(v)'
    BY <1>3, <1>4, <2>1 DEF Founding
  <2>2. \A v \in Workspaces : Owners(v)' = Owners(v)
    BY <1>1 DEF Owners
  <2>3. ASSUME NEW v \in open' \ adrift' PROVE Owners(v)' # {} \/ Founding(v)'
    <3>1. v \in Workspaces
      BY <1>1, <1>2, <1>3, <2>3 DEF MemberTypeOK
    <3>2. CASE v = w
      BY <2>1, <3>1, <3>2
    <3>3. CASE v # w
      BY <1>1, <1>4, <1>6, <2>2, <2>3, <3>1, <3>3 DEF Owned
    <3> QED BY <3>2, <3>3
  <2> QED BY <2>3 DEF Owned
<1> QED BY <1>1, <1>4, <1>5, <1>6 DEF MemberInv, ClosedEmpty, Agreed

LEMMA HandOverKeeps ==
  ASSUME MemberInv, NEW r \in Requests, HandOver(r) PROVE MemberInv'
<1> DEFINE w == call[r].ws
           u == call[r].user
           owner == IF w \in open THEN u ELSE nodeOwner[w]
<1>1. /\ Writes(r, "handover", Idle) /\ nodeOwner' = [nodeOwner EXCEPT ![w] = owner]
      /\ UNCHANGED <<account, open, opened, roster, grant, adrift>>
  BY DEF HandOver
<1>2. MemberTypeOK /\ call[r] \in CallType /\ call[r].op = "handover" /\ open \subseteq Workspaces
  BY <1>1, MemberTypes DEF MemberInv, Writes
<1>3. w \in Workspaces /\ u \in Users \cup {Nobody} /\ owner \in Users \cup {Nobody}
  BY <1>2, CallTypes DEF SeatOps, MemberTypeOK
<1>4. Idle \in CallType /\ Idle.op # "found"
  BY CallsMade DEF Idle, UserCall, SeatCall
<1>5. /\ call' \in [Requests -> CallType] /\ stale' \in BOOLEAN
      /\ ~stale' => ~stale /\ Holds(call[r]) /\ ClosedEmpty /\ Agreed /\ Owned
      /\ \A v \in Workspaces : Founding(v) => Founding(v)'
  BY <1>1, <1>4, CallMoves
<1>6. ASSUME ~stale' PROVE ClosedEmpty' /\ Agreed' /\ Owned'
  <2>1. w \in open /\ (u # Nobody => account[u] \in {"pending", "user"} /\ u \in roster[w])
    BY <1>2, <1>5, <1>6, HoldsFor
  <2>2. nodeOwner'[w] = u /\ \A v \in Workspaces \ {w} : nodeOwner'[v] = nodeOwner[v]
    BY <1>1, <1>2, <1>3, <2>1 DEF MemberTypeOK
  <2> HIDE DEF u, w, owner
  <2>3. ClosedEmpty' /\ Agreed'
    BY <1>1, <1>3, <1>5, <1>6, <2>1, <2>2, MembershipAssumption DEF ClosedEmpty, Agreed
  <2>4. Owned'
    BY <1>1, <1>2, <1>5, <1>6, OwnersStayUnchanged
  <2> QED BY <2>3, <2>4
<1>7. MemberTypeOK'
  <2> HIDE DEF owner, u, w
  <2> QED BY <1>1, <1>2, <1>3, <1>5 DEF MemberTypeOK
<1> QED BY <1>5, <1>6, <1>7 DEF MemberInv

LEMMA AddGrantKeeps ==
  ASSUME MemberInv, NEW r \in Requests, AddGrant(r) PROVE MemberInv'
<1> DEFINE w == call[r].ws
           u == call[r].user
           roles == grant[w][u] \cup ({call[r].role} \cap Grantable)
<1>1. MemberTypeOK /\ call[r] \in CallType /\ call[r].op = "grant" /\ open \subseteq Workspaces
  BY MemberTypes DEF MemberInv, Writes, AddGrant
<1>2. w \in Workspaces /\ u \in Users /\ roles \in SUBSET Grantable
  BY <1>1, CallTypes, MemberTypes DEF SeatOps
<1>3. /\ Writes(r, "grant", Idle) /\ grant' = [grant EXCEPT ![w][u] = roles]
      /\ UNCHANGED <<account, open, opened, roster, nodeOwner>> /\ Adrift({})
  BY <1>1, <1>2 DEF AddGrant, MemberTypeOK
<1>4. Idle \in CallType /\ Idle.op # "found"
  BY CallsMade DEF Idle, UserCall, SeatCall
<1>5. /\ call' \in [Requests -> CallType] /\ stale' \in BOOLEAN
      /\ ~stale' => ~stale /\ Holds(call[r]) /\ ClosedEmpty /\ Agreed /\ Owned
      /\ \A v \in Workspaces : Founding(v) => Founding(v)'
  BY <1>3, <1>4, CallMoves
<1>6. /\ grant' \in [Workspaces -> [Users -> SUBSET Grantable]]
      /\ \A v \in Workspaces : \A x \in Users :
           (grant'[v][x] = grant[v][x]) \/ (v = w /\ x = u /\ grant'[v][x] = roles)
  <2> HIDE DEF roles, u, w
  <2> QED BY <1>1, <1>2, <1>3 DEF MemberTypeOK
<1>7. MemberTypeOK'
  BY <1>1, <1>3, <1>5, <1>6, AdriftTyped DEF MemberTypeOK
<1>8. ASSUME ~stale' PROVE ClosedEmpty' /\ Agreed' /\ Owned'
  <2>1. w \in open /\ u \in roster[w]
    BY <1>1, <1>5, <1>8, HoldsFor
  <2>2. ClosedEmpty' /\ Agreed'
    BY <1>3, <1>5, <1>6, <1>8, <2>1 DEF ClosedEmpty, Agreed
  <2>3. \A v \in open : Owners(v) # {} => Owners(v)' # {}
    <3>1. \A v \in open : \A x \in Owners(v) : x \in Owners(v)'
      BY <1>1, <1>3, <1>6, MemberTypes DEF Owners
    <3> QED BY <3>1
  <2>4. Owned'
    BY <1>1, <1>3, <1>5, <1>8, <2>3, OwnersStay
  <2> QED BY <2>2, <2>4
<1> QED BY <1>5, <1>7, <1>8 DEF MemberInv

LEMMA RemoveGrantKeeps ==
  ASSUME MemberInv, NEW w \in Workspaces, NEW u \in Users, NEW role \in Grantable, RemoveGrant(w, u, role)
  PROVE  MemberInv'
<1> DEFINE roles == grant[w][u] \ {role}
<1>1. MemberTypeOK /\ open \subseteq Workspaces /\ roles \in SUBSET Grantable
  BY MemberTypes DEF MemberInv
<1>2. /\ grant' = [grant EXCEPT ![w][u] = roles] /\ Adrift({w})
      /\ UNCHANGED <<account, open, opened, roster, nodeOwner, call, stale>>
  BY <1>1 DEF RemoveGrant, MemberTypeOK
<1> HIDE DEF roles
<1>3. /\ grant' \in [Workspaces -> [Users -> SUBSET Grantable]]
      /\ \A v \in Workspaces : \A x \in Users :
           (grant'[v][x] = grant[v][x]) \/ (v = w /\ x = u /\ grant'[v][x] = roles)
  BY <1>1, <1>2 DEF MemberTypeOK
<1>4. MemberTypeOK'
  BY <1>1, <1>2, <1>3, AdriftTyped DEF MemberTypeOK
<1>5. ASSUME ~stale' PROVE ClosedEmpty' /\ Agreed' /\ Owned'
  <2>1. ~stale /\ ClosedEmpty /\ Agreed /\ Owned
    BY <1>2, <1>5 DEF MemberInv
  <2>2. ClosedEmpty' /\ Agreed'
    BY <1>2, <1>3, <2>1 DEF ClosedEmpty, Agreed, roles
  <2>3. \A v \in open \ {w} : Owners(v) # {} => Owners(v)' # {}
    <3>1. \A v \in open \ {w} : \A x \in Owners(v) : x \in Owners(v)'
      BY <1>1, <1>2, <1>3, MemberTypes DEF Owners
    <3> QED BY <3>1
  <2>4. \A v \in open : Founding(v) => Founding(v)'
    BY <1>2 DEF Founding
  <2>5. Owned'
    BY <1>2, <2>1, <2>3, <2>4, OwnersStay
  <2> QED BY <2>2, <2>5
<1> QED BY <1>4, <1>5 DEF MemberInv

LEMMA DropWorkspaceKeeps ==
  ASSUME MemberInv, NEW w \in Workspaces, DropWorkspace(w) PROVE MemberInv'
<1>1. MemberTypeOK /\ open \subseteq Workspaces
  BY MemberTypes DEF MemberInv
<1>2. /\ open' = open \ {w} /\ adrift' = adrift \ {w} /\ UNCHANGED <<account, opened, call, stale>>
      /\ roster' = [roster EXCEPT ![w] = {}] /\ nodeOwner' = [nodeOwner EXCEPT ![w] = Nobody]
      /\ grant' = [grant EXCEPT ![w] = [u \in Users |-> {}]]
  BY DEF DropWorkspace
<1>3. /\ roster'[w] = {} /\ nodeOwner'[w] = Nobody /\ \A u \in Users : grant'[w][u] = {}
      /\ \A v \in Workspaces \ {w} :
           roster'[v] = roster[v] /\ nodeOwner'[v] = nodeOwner[v] /\ grant'[v] = grant[v]
  BY <1>1, <1>2 DEF MemberTypeOK
<1>4. MemberTypeOK'
  BY <1>1, <1>2 DEF MemberTypeOK
<1>5. ASSUME ~stale' PROVE ClosedEmpty' /\ Agreed' /\ Owned'
  <2>1. ~stale /\ ClosedEmpty /\ Agreed /\ Owned
    BY <1>2, <1>5 DEF MemberInv
  <2>2. ClosedEmpty' /\ Agreed'
    BY <1>2, <1>3, <2>1, MembershipAssumption DEF ClosedEmpty, Agreed
  <2>3. \A v \in open' : Owners(v)' = Owners(v) /\ (Founding(v) => Founding(v)')
    BY <1>1, <1>2, <1>3 DEF Owners, Founding
  <2> QED BY <1>2, <2>1, <2>2, <2>3 DEF Owned
<1> QED BY <1>4, <1>5 DEF MemberInv

(* A restart forgets the requests; a founding it cuts short is a cause.     *)
LEMMA MemberRestartKeeps ==
  ASSUME MemberInv, Restart PROVE MemberInv'
<1> DEFINE cause == {call[r].ws : r \in {q \in Requests : call[q].op = "found"}}
<1>1. /\ call' = [r \in Requests |-> Idle] /\ Adrift(cause)
      /\ UNCHANGED <<account, open, opened, roster, grant, nodeOwner, stale>>
  BY DEF Restart, seats
<1>2. MemberTypeOK /\ open \subseteq Workspaces
  BY MemberTypes DEF MemberInv
<1>3. Idle \in CallType /\ Idle.op # "found"
  BY CallsMade DEF Idle, UserCall, SeatCall
<1>4. MemberTypeOK'
  <2>1. adrift' \subseteq Workspaces
    BY <1>1, <1>2, AdriftTyped
  <2> QED BY <1>1, <1>2, <1>3, <2>1 DEF MemberTypeOK
<1>5. Owned => Owned'
  <2>1. adrift' = {w \in open \cap (adrift \cup cause) : Owners(w)' = {}}
    BY <1>1 DEF Adrift, Owners
  <2>2. \A w \in open : Owners(w)' = Owners(w) /\ (Founding(w) => w \in cause)
    BY <1>1 DEF Owners, Founding
  <2> QED BY <1>1, <2>1, <2>2 DEF Owned
<1> QED BY <1>1, <1>4, <1>5 DEF MemberInv, ClosedEmpty, Agreed

LEMMA MemberInvStep == MemberInv /\ [MemberNext]_memberVars => MemberInv'
<1> SUFFICES ASSUME MemberInv, [MemberNext]_memberVars PROVE MemberInv'
  OBVIOUS
<1>1. CASE \E r \in Requests : \E c \in CallType \ {Idle} : Check(r, c)
  BY <1>1, CheckKeeps
<1>2. CASE \E r \in Requests : SetUp(r) \/ Demote(r) \/ DeleteUser(r) \/ TidyPending(r)
  BY <1>2, AccountWriteKeeps, DeleteUserKeeps
<1>3. CASE \E r \in Requests : \E op \in {"claim", "promote"} : Promote(r, op)
  BY <1>3, PromoteKeeps
<1>4. CASE \E r \in Requests : \E op \in {"found", "add", "reseat"} : AddMember(r, op)
  BY <1>4, AddMemberKeeps
<1>5. CASE \E r \in Requests : CreateOwnWorkspace(r) \/ OpenWorkspace(r) \/ SetMemberRole(r) \/ RemoveMember(r) \/ HandOver(r) \/ AddGrant(r)
  BY <1>5, CreateOwnWorkspaceKeeps, OpenWorkspaceKeeps, SetMemberRoleKeeps, RemoveMemberKeeps, HandOverKeeps, AddGrantKeeps
<1>6. CASE \E u \in Users : Accept(u) \/ \E kind \in Here : CreateUser(u, kind)
  BY <1>6, NewAccountKeeps
<1>7. CASE \E w \in Workspaces : DropWorkspace(w)
  BY <1>7, DropWorkspaceKeeps
<1>8. CASE \E w \in Workspaces : \E u \in Users, role \in Grantable : RemoveGrant(w, u, role)
  BY <1>8, RemoveGrantKeeps
<1>9. CASE Restart
  BY <1>9, MemberRestartKeeps
<1>10. CASE UNCHANGED memberVars
  BY <1>10 DEF memberVars, seats, MemberInv, MemberTypeOK, ClosedEmpty, Agreed, Owned, Owners, Founding
<1> QED BY <1>1, <1>2, <1>3, <1>4, <1>5, <1>6, <1>7, <1>8, <1>9, <1>10 DEF MemberNext

LEMMA MemberInvariance == MemberSpec => []MemberInv
BY MemberInvInit, MemberInvStep, PTL DEF MemberSpec

(* Accounts, rosters, grants and requests keep their shapes.                *)
THEOREM MemberTypeCorrect == MemberSpec => []MemberTypeOK
<1>1. MemberInv => MemberTypeOK
  BY DEF MemberInv
<1> QED BY <1>1, MemberInvariance, PTL

(* For any number of accounts, workspaces and requests: whoever holds a     *)
(* grant, a seat or a node is there to hold it, and the tables agree        *)
(* (workspaces.js, users.js).                                               *)
THEOREM RosterStaysAgreed == MemberSpec => []RosterAgrees
<1>1. MemberInv => RosterAgrees
  BY DEF MemberInv, Agreed, RosterAgrees, GrantsOnRoster, SeatsAreUsers, NodeOwnerOnRoster
<1> QED BY <1>1, MemberInvariance, PTL

(* A workspace has an owner, or one of the causes Adrift names took the last*)
(* away, whatever the roles carry and wherever they may be granted: the     *)
(* checks of the routes on countOwners leave no other way (server.js,       *)
(* listUserSoleOwnerships).                                                 *)
THEOREM OwnersAreKept == MemberSpec => []OwnerKept
<1>1. MemberInv => OwnerKept
  BY DEF MemberInv, Owned, OwnerKept, Founding
<1> QED BY <1>1, MemberInvariance, PTL

(* No step takes the last admin, as long as its checks still hold: there is *)
(* another, or the account was none (setSystemRole, deleteUser).            *)
THEOREM AdminsAreKept == MemberSpec => AdminKept
<1>1. ASSUME MemberInv, MemberNext, Admins # {}, ~stale' PROVE Admins' # {}
  <2>1. MemberTypeOK
    BY <1>1 DEF MemberInv
  <2>2. PICK a \in Users : account[a] = "admin"
    BY <1>1 DEF Admins
  <2>3. ASSUME account' = account PROVE Admins' # {}
    BY <1>1, <2>3 DEF Admins
  <2>4. ASSUME NEW u \in Users, NEW value, account' = [account EXCEPT ![u] = value],
               value = "admin" \/ account[u] # "admin" \/ OtherAdmins(u)
        PROVE  Admins' # {}
    <3>1. CASE value = "admin"
      BY <2>1, <2>4, <3>1 DEF Admins, MemberTypeOK
    <3>2. CASE account[u] # "admin"
      BY <2>1, <2>2, <2>4, <3>2 DEF Admins, MemberTypeOK
    <3>3. CASE OtherAdmins(u)
      BY <2>1, <2>4, <3>3 DEF Admins, OtherAdmins, MemberTypeOK
    <3> QED BY <2>4, <3>1, <3>2, <3>3
  <2>5. ASSUME NEW r \in Requests, NEW op, NEW next, Writes(r, op, next), op \in UserOps
        PROVE  call[r].user \in Users /\ Holds(call[r]) /\ call[r].op = op
    BY <1>1, <2>1, <2>5, WriteFor, MemberTypes, CallTypes DEF UserOps
  <2>6. ASSUME NEW r \in Requests, SetUp(r) PROVE Admins' # {}
    BY <2>4, <2>5, <2>6 DEF SetUp, UserOps
  <2>7. ASSUME NEW r \in Requests, Demote(r) PROVE Admins' # {}
    BY <2>4, <2>5, <2>7, HoldsFor DEF Demote, UserOps
  <2>8. ASSUME NEW r \in Requests, DeleteUser(r) PROVE Admins' # {}
    BY <2>4, <2>5, <2>8, HoldsFor DEF DeleteUser, UserOps
  <2>9. ASSUME NEW r \in Requests, TidyPending(r) PROVE Admins' # {}
    BY <2>4, <2>5, <2>9, HoldsFor DEF TidyPending, UserOps
  <2>10. ASSUME NEW r \in Requests, NEW op, Promote(r, op) PROVE Admins' # {}
    <3>1. op \in UserOps /\ Writes(r, op, Idle)
      BY <2>10 DEF Promote, UserOps
    <3>2. call[r].user \in Users /\ Exists(call[r].user)
      BY <2>5, <2>10, <3>1, HoldsFor DEF Promote, Exists, Here
    <3> QED BY <2>4, <2>10, <3>2 DEF Promote
  <2>11. ASSUME NEW u \in Users, Accept(u) \/ \E kind \in Here : CreateUser(u, kind) PROVE Admins' # {}
    BY <2>1, <2>4, <2>11 DEF Accept, CreateUser
  <2>12. CASE \E r \in Requests : \/ \E c \in CallType \ {Idle} : Check(r, c)
                                  \/ OpenWorkspace(r) \/ SetMemberRole(r) \/ RemoveMember(r)
                                  \/ HandOver(r) \/ AddGrant(r) \/ CreateOwnWorkspace(r)
                                  \/ \E op \in {"found", "add", "reseat"} : AddMember(r, op)
    BY <2>3, <2>12
    DEF Check, OpenWorkspace, SetMemberRole, RemoveMember, HandOver, AddGrant, CreateOwnWorkspace, AddMember
  <2>13. CASE \E w \in Workspaces : \/ DropWorkspace(w)
                                    \/ \E u \in Users, role \in Grantable : RemoveGrant(w, u, role)
    BY <2>3, <2>13 DEF DropWorkspace, RemoveGrant
  <2>14. CASE Restart
    BY <2>3, <2>14 DEF Restart
  <2> QED BY <1>1, <2>6, <2>7, <2>8, <2>9, <2>10, <2>11, <2>12, <2>13, <2>14 DEF MemberNext
<1>2. MemberInv /\ [MemberNext]_memberVars => [Admins # {} /\ ~stale' => Admins' # {}]_memberVars
  BY <1>1
<1> QED BY <1>2, MemberInvariance, PTL DEF MemberSpec, AdminKept
-----------------------------------------------------------------------------
(***************************************************************************)
(* Why the paths follow the parents.  Of each row the whole path is stated: *)
(* its nodes are there, each with the path up to it (Chained), so that what *)
(* a move writes for a whole subtree, or a deletion leaves, is known from   *)
(* the paths alone.  Rows and requests under way are sound in themselves    *)
(* whatever is outdated (RowsHold, WorkHolds).                              *)
(***************************************************************************)

(* A row counts its path right.                                             *)
Tidy(x) == x \in RowType /\ x.path # <<>> /\ x.depth = Len(x.path) - 1

(* The rows, whatever has been written on outdated reads.                   *)
RowsHold ==
  /\ row \in [Nodes -> RowType \cup {None}]
  /\ row[Root] = Row(None, <<Root>>, None)
  /\ \A n \in Live : Tidy(row[n]) /\ (n # Root => row[n].parent \in Nodes)

IsFiling(c) == c.op \in {"file", "insert"}

(* What a request under way is about, and what it found when it read it.    *)
WorkHolds(c) ==
  /\ IsFiling(c) =>
       /\ c.node \in (Groups \cup Connections) \cap used /\ row[c.node] = None
       /\ c.parent \in Spaces \cup Groups /\ c.ws \in Spaces \cup {None}
       /\ c.node \in Connections => home[c.node] \in {c.ws, None}
  /\ c.op = "file" => c.node \in Connections /\ c.ws \in Spaces
  /\ c.op = "insert" => Tidy(c.under)
  /\ c.op = "move" =>
       /\ c.node \in Nodes \ {Root} /\ c.parent \in Nodes /\ CanParent(c.parent, c.node)
       /\ Tidy(c.seen) /\ Tidy(c.under) /\ ~Inside(c)
  /\ c.op = "delete" => c.node \in Groups /\ Tidy(c.seen)
  /\ c.op = "share" => c.node \in Groups
  /\ c.op = "grant" =>
       /\ c.node \in Nodes /\ c.parent \in Groups /\ Tidy(c.seen) /\ Tidy(c.under)
       /\ c.seen.ws # None => c.under.ws = c.seen.ws

(* No two requests file the same node.                                      *)
FilersOf(n) == {r \in Workers : IsFiling(work[r]) /\ work[r].node = n}
FiledOnce == \A n \in Nodes : \A r, q \in FilersOf(n) : r = q

(* The path of n names nodes that are there, each with the path up to it;   *)
(* the last is n, the one before it n's parent.                             *)
Chained(n) ==
  LET s == row[n].path
  IN  /\ s[Len(s)] = n
      /\ n # Root => /\ Len(s) > 1
                     /\ row[n].parent = s[Len(s) - 1]
                     /\ CanParent(row[n].parent, n)
      /\ \A i \in 1..Len(s) :
           /\ s[i] \in Live /\ Len(row[s[i]].path) = i
           /\ \A j \in 1..i : row[s[i]].path[j] = s[j]

(* A node's workspace is the one its path goes through.                     *)
Homed(n) == n # Root => row[n].ws = row[n].path[2]

GrantsHeld == \A g \in shares :
  g[1] \in Live /\ g[2] \in Live /\ (crossed \/ row[g[1]].ws \in {row[g[2]].ws, None})

Mirrored(c) ==
  IF c \in Live THEN home[c] # None /\ row[c].ws = home[c]
  ELSE home[c] = None \/ c \in unfiled \/ FilersOf(c) # {}

AllChained == \A n \in Live : Chained(n)
AllHomed == \A n \in Live : Homed(n)
AllMirrored == \A c \in Connections : Mirrored(c)

WorkPart == FiledOnce /\ \A r \in Workers : WorkHolds(work[r])

Sound ==
  ~treeStale => AllChained /\ GrantsHeld /\ (~crossed => AllHomed /\ AllMirrored)

TreeInv == TreeTypeOK /\ RowsHold /\ WorkPart /\ Sound
-----------------------------------------------------------------------------
(* Of paths.                                                                *)
LEMMA PrefixIs ==
  ASSUME NEW S, NEW s \in Seq(S), NEW t \in Seq(S)
  PROVE  IsPrefix(s, t) <=> Len(s) <= Len(t) /\ \A j \in 1..Len(s) : t[j] = s[j]
<1>1. SubSeq(s, 1, Len(s)) = s
  BY SubSeqFull
<1>2. CASE Len(s) <= Len(t)
  <2>1. /\ SubSeq(t, 1, Len(s)) \in Seq(S) /\ Len(SubSeq(t, 1, Len(s))) = Len(s)
        /\ \A j \in 1..Len(s) : SubSeq(t, 1, Len(s))[j] = t[j]
    BY <1>2
  <2>2. s = SubSeq(t, 1, Len(s)) <=> \A j \in 1..Len(s) : t[j] = s[j]
    BY <2>1, SeqEqual
  <2> QED BY <1>1, <1>2, <2>2 DEF IsPrefix
<1>3. CASE ~(Len(s) <= Len(t))
  BY <1>3 DEF IsPrefix
<1> QED BY <1>2, <1>3

LEMMA ThroughIs ==
  ASSUME NEW x, Tidy(x), NEW y, Tidy(y)
  PROVE  RunsThrough(x, y) <=>
           Len(y.path) < Len(x.path) /\ \A j \in 1..Len(y.path) : x.path[j] = y.path[j]
<1>1. x.path \in Seq(Nodes) /\ y.path \in Seq(Nodes)
  BY DEF Tidy, RowType
<1>2. Len(x.path) \in Nat /\ Len(y.path) \in Nat
  BY <1>1
<1> QED BY <1>1, <1>2, PrefixIs DEF RunsThrough

LEMMA Joined ==
  ASSUME NEW S, NEW a \in Seq(S), NEW b \in Seq(S)
  PROVE  /\ a \o b \in Seq(S) /\ Len(a \o b) = Len(a) + Len(b)
         /\ \A i \in 1..Len(a) : (a \o b)[i] = a[i]
         /\ \A i \in 1..Len(b) : (a \o b)[Len(a) + i] = b[i]
<1>1. Len(a) \in Nat /\ Len(b) \in Nat
  OBVIOUS
<1>2. a \o b \in Seq(S) /\ Len(a \o b) = Len(a) + Len(b)
  BY ConcatProperties
<1>3. ASSUME NEW i \in 1..Len(a) PROVE (a \o b)[i] = a[i]
  BY <1>1, ConcatProperties
<1>4. ASSUME NEW i \in 1..Len(b) PROVE (a \o b)[Len(a) + i] = b[i]
  <2>1. Len(a) + i \in 1..(Len(a) + Len(b)) /\ ~(Len(a) + i <= Len(a)) /\ Len(a) + i - Len(a) = i
    BY <1>1
  <2> QED BY <2>1, ConcatProperties
<1> QED BY <1>2, <1>3, <1>4

(* The path t without its first k ids, put behind q and x.                  *)
Rebase(k, t, q, x) == Append(q, x) \o SubSeq(t, k + 1, Len(t))

Rebased(new, S, k, t, q, x) ==
  /\ new \in Seq(S) /\ Len(new) = Len(q) + 1 + Len(t) - k
  /\ \A i \in 1..Len(q) : new[i] = q[i]
  /\ new[Len(q) + 1] = x
  /\ \A i \in (Len(q) + 2)..(Len(q) + 1 + Len(t) - k) : new[i] = t[i - (Len(q) + 1) + k]

LEMMA Rebasing ==
  ASSUME NEW S, NEW k \in Nat, NEW t \in Seq(S), NEW q \in Seq(S), NEW x \in S, k <= Len(t)
  PROVE  Rebased(Rebase(k, t, q, x), S, k, t, q, x)
<1> DEFINE new == Rebase(k, t, q, x)
           a == Append(q, x)
           b == SubSeq(t, k + 1, Len(t))
<1>1. /\ a \in Seq(S) /\ Len(a) = Len(q) + 1 /\ a[Len(q) + 1] = x
      /\ \A i \in 1..Len(q) : a[i] = q[i]
  OBVIOUS
<1>2. /\ b \in Seq(S) /\ Len(b) = Len(t) - k
      /\ \A i \in 1..(Len(t) - k) : b[i] = t[k + i]
  <2>1. CASE k = Len(t)
    BY <2>1, SubSeqEmpty
  <2>2. CASE k < Len(t)
    BY <2>2
  <2> QED BY <2>1, <2>2
<1>3. Len(q) \in Nat /\ Len(t) \in Nat /\ new = a \o b
  BY DEF Rebase
<1> HIDE DEF new, a, b
<1>4. /\ new \in Seq(S) /\ Len(new) = Len(a) + Len(b)
      /\ \A i \in 1..Len(a) : new[i] = a[i]
      /\ \A i \in 1..Len(b) : new[Len(a) + i] = b[i]
  <2>1. a \in Seq(S) /\ b \in Seq(S)
    BY <1>1, <1>2
  <2>2. /\ a \o b \in Seq(S) /\ Len(a \o b) = Len(a) + Len(b)
        /\ \A i \in 1..Len(a) : (a \o b)[i] = a[i]
        /\ \A i \in 1..Len(b) : (a \o b)[Len(a) + i] = b[i]
    BY <2>1, Joined
  <2> QED BY <2>2, <1>3
<1>5. /\ \A i \in 1..(Len(q) + 1) : new[i] = a[i]
      /\ \A i \in 1..(Len(t) - k) : new[Len(q) + 1 + i] = b[i]
  BY <1>1, <1>2, <1>4
<1>6. Len(new) = Len(q) + 1 + Len(t) - k
  <2>1. Len(new) = Len(q) + 1 + (Len(t) - k)
    BY <1>1, <1>2, <1>4
  <2> QED BY <1>3, <2>1
<1>7. ASSUME NEW i \in (Len(q) + 2)..(Len(q) + 1 + Len(t) - k)
      PROVE  new[i] = t[i - (Len(q) + 1) + k]
  <2>1. PICK j \in 1..(Len(t) - k) : j = i - (Len(q) + 1)
    <3>1. i - (Len(q) + 1) \in 1..(Len(t) - k)
      BY <1>3
    <3> QED BY <3>1
  <2>2. Len(q) + 1 + j = i /\ k + j = i - (Len(q) + 1) + k
    BY <1>3, <2>1
  <2>3. new[Len(q) + 1 + j] = b[j] /\ b[j] = t[k + j]
    BY <1>2, <1>5
  <2> QED BY <2>2, <2>3
<1>8. \A i \in 1..Len(q) : new[i] = q[i]
  <2>1. \A i \in 1..Len(q) : i \in 1..(Len(q) + 1)
    BY <1>3
  <2> QED BY <1>1, <1>5, <2>1
<1>9. new[Len(q) + 1] = x
  BY <1>1, <1>3, <1>5
<1> QED BY <1>4, <1>6, <1>7, <1>8, <1>9 DEF new, Rebased

LEMMA Tidies ==
  ASSUME NEW x, Tidy(x)
  PROVE  /\ x \in RowType /\ x # None
         /\ x.parent \in Nodes \cup {None} /\ x.path \in Seq(Nodes) /\ x.ws \in Spaces \cup {None}
         /\ Len(x.path) \in Nat /\ Len(x.path) >= 1 /\ x.depth = Len(x.path) - 1
BY NoneIsNoRow DEF Tidy, RowType

LEMMA RowTidy ==
  ASSUME NEW parent \in Nodes, NEW path \in Seq(Nodes), NEW n \in Nodes, NEW ws \in Spaces \cup {None}
  PROVE  Tidy(Row(parent, Append(path, n), ws))
<1>1. Append(path, n) \in Seq(Nodes) /\ Len(Append(path, n)) = Len(path) + 1 /\ Len(path) \in Nat
  OBVIOUS
<1>2. Append(path, n) # <<>>
  BY <1>1
<1> QED BY <1>1, <1>2 DEF Row, Tidy, RowType

LEMMA Kinds ==
  /\ Root \in Nodes /\ Spaces \subseteq Nodes /\ Groups \subseteq Nodes /\ Connections \subseteq Nodes
  /\ Root \notin Spaces \cup Groups \cup Connections /\ None \notin Nodes
  /\ \A p, n \in Nodes : CanParent(p, n) =>
       /\ p = Root <=> n \in Spaces
       /\ n # Root /\ p \notin Connections
BY TreeAssumption DEF Nodes, CanParent

LEMMA RootRow ==
  ASSUME RowsHold
  PROVE  /\ Root \in Live /\ Tidy(row[Root]) /\ row[Root].ws = None
         /\ Len(row[Root].path) = 1 /\ row[Root].path[1] = Root
<1>1. row[Root].path = <<Root>> /\ row[Root].ws = None /\ row[Root] = Row(None, <<Root>>, None)
  BY DEF RowsHold, Row
<1>2. Tidy(row[Root])
  BY <1>1, Kinds, TreeAssumption DEF Row, Tidy, RowType
<1> QED BY <1>1, <1>2, Tidies, Kinds DEF Live

LEMMA RowsAre ==
  ASSUME RowsHold, NEW n \in Live
  PROVE  /\ n \in Nodes /\ Tidy(row[n]) /\ row[n] # None /\ row[n].path \in Seq(Nodes)
         /\ Len(row[n].path) \in Nat /\ Len(row[n].path) >= 1
         /\ row[n].depth = Len(row[n].path) - 1 /\ row[n].ws \in Spaces \cup {None}
         /\ n # Root => row[n].parent \in Nodes
BY Tidies DEF RowsHold, Live

(* The three ways the rows change: a node comes, nodes go, nodes move.      *)
LEMMA Added ==
  ASSUME RowsHold, NEW n \in Nodes \ {Root}, NEW new, Tidy(new), new.parent \in Nodes,
         row' = [row EXCEPT ![n] = new]
  PROVE  /\ RowsHold' /\ row'[n] = new
         /\ Live' = Live \cup {n} /\ \A m \in Nodes \ {n} : row'[m] = row[m]
<1>1. row'[n] = new /\ \A m \in Nodes \ {n} : row'[m] = row[m]
  BY DEF RowsHold
<1>2. row' \in [Nodes -> RowType \cup {None}]
  BY DEF RowsHold, Tidy
<1>3. Live' = Live \cup {n}
  BY <1>1, Tidies DEF Live
<1>4. ASSUME NEW m \in Live' PROVE Tidy(row'[m]) /\ (m # Root => row'[m].parent \in Nodes)
  <2>1. CASE m = n
    BY <1>1, <2>1
  <2>2. CASE m # n
    BY <1>1, <1>3, <2>2, RowsAre
  <2> QED BY <2>1, <2>2
<1>5. row'[Root] = Row(None, <<Root>>, None)
  BY <1>1, Kinds DEF RowsHold
<1>6. RowsHold'
  BY <1>2, <1>4, <1>5 DEF RowsHold
<1> QED BY <1>1, <1>3, <1>6

LEMMA Dropped ==
  ASSUME RowsHold, NEW D, Root \notin D, row' = [n \in Nodes |-> IF n \in D THEN None ELSE row[n]]
  PROVE  /\ RowsHold' /\ Live' = Live \ D /\ \A n \in Live \ D : row'[n] = row[n]
         /\ \A n \in Nodes : row[n] = None => row'[n] = None
<1>1. \A n \in Nodes : row'[n] = IF n \in D THEN None ELSE row[n]
  OBVIOUS
<1>2. Live' = Live \ D /\ \A n \in Live \ D : row'[n] = row[n]
  BY <1>1 DEF Live
<1>3. row' \in [Nodes -> RowType \cup {None}] /\ row'[Root] = Row(None, <<Root>>, None)
  BY <1>1, Kinds DEF RowsHold
<1>4. RowsHold'
  BY <1>2, <1>3, RowsAre DEF RowsHold
<1> QED BY <1>1, <1>2, <1>4

LEMMA RootStays ==
  ASSUME RowsHold, NEW n \in Nodes \ {Root}, NEW x, Tidy(x)
  PROVE  Root \notin Subtree(n, x) /\ ~RunsThrough(row[Root], x)
<1>1. ~(Len(x.path) < Len(row[Root].path))
  BY RootRow, Tidies
<1> QED BY <1>1 DEF Subtree, RunsThrough

(* The path z is s without its first k ids, behind q and n.                 *)
PathRebased(z, s, k, q, n) ==
  /\ Len(z) = Len(q) + 1 + Len(s) - k
  /\ \A i \in 1..Len(q) : z[i] = q[i]
  /\ z[Len(q) + 1] = n
  /\ \A i \in (Len(q) + 2)..(Len(q) + 1 + Len(s) - k) : z[i] = s[i - (Len(q) + 1) + k]

RowRebased(x, seen, under, n) ==
  [parent |-> x.parent, path |-> Rebase(Len(seen.path), x.path, under.path, n),
   depth |-> x.depth + under.depth + 1 - seen.depth, ws |-> under.ws]

LEMMA MoveRebases ==
  ASSUME NEW x, Tidy(x), NEW seen, Tidy(seen), NEW under, Tidy(under), NEW n \in Nodes,
         Len(seen.path) <= Len(x.path)
  PROVE  LET y == RowRebased(x, seen, under, n)
         IN  /\ Tidy(y) /\ y.parent = x.parent /\ y.ws = under.ws
             /\ PathRebased(y.path, x.path, Len(seen.path), under.path, n)
<1> DEFINE k == Len(seen.path)
           t == x.path
           q == under.path
           path == Rebase(k, t, q, n)
           depth == x.depth + under.depth + 1 - seen.depth
           y == [parent |-> x.parent, path |-> path, depth |-> depth, ws |-> under.ws]
<1>1. /\ k \in Nat /\ t \in Seq(Nodes) /\ q \in Seq(Nodes) /\ k <= Len(t)
      /\ Len(q) \in Nat /\ Len(t) \in Nat
      /\ x.depth = Len(t) - 1 /\ under.depth = Len(q) - 1 /\ seen.depth = k - 1
  BY Tidies
<1> HIDE DEF k, t, q
<1>2. depth = Len(q) + Len(t) - k
  BY <1>1
<1> HIDE DEF depth
<1>3. /\ path \in Seq(Nodes) /\ Len(path) = Len(q) + 1 + Len(t) - k
      /\ \A i \in 1..Len(q) : path[i] = q[i]
      /\ path[Len(q) + 1] = n
      /\ \A i \in (Len(q) + 2)..(Len(q) + 1 + Len(t) - k) : path[i] = t[i - (Len(q) + 1) + k]
  <2>1. k \in Nat /\ t \in Seq(Nodes) /\ q \in Seq(Nodes) /\ k <= Len(t) /\ n \in Nodes
    BY <1>1
  <2>2. Rebased(Rebase(k, t, q, n), Nodes, k, t, q, n)
    BY <2>1, Rebasing
  <2> QED BY <2>2 DEF Rebased
<1> HIDE DEF path
<1>4. depth = Len(path) - 1 /\ Len(path) >= 1 /\ depth \in Nat
  BY <1>1, <1>2, <1>3
<1>5. path # <<>>
  BY <1>3, <1>4
<1>6. Tidy(y) /\ y.parent = x.parent /\ y.ws = under.ws /\ y.path = path
  <2>1. x.parent \in Nodes \cup {None} /\ under.ws \in Spaces \cup {None}
    BY Tidies
  <2> QED BY <1>3, <1>4, <1>5, <2>1 DEF Tidy, RowType
<1>7. PathRebased(path, t, k, q, n)
  BY <1>3 DEF PathRebased
<1>8. y = RowRebased(x, seen, under, n)
  BY DEF RowRebased, path, depth, k, t, q
<1> QED BY <1>6, <1>7, <1>8 DEF k, t, q
-----------------------------------------------------------------------------
(* The path s begins with t.                                                *)
Starts(s, t) == Len(t) <= Len(s) /\ \A j \in 1..Len(t) : s[j] = t[j]

LEMMA Chains ==
  ASSUME RowsHold, NEW n \in Live, Chained(n)
  PROVE  /\ row[n].path[Len(row[n].path)] = n
         /\ n # Root => /\ Len(row[n].path) > 1
                        /\ row[n].parent = row[n].path[Len(row[n].path) - 1]
                        /\ CanParent(row[n].parent, n)
         /\ \A i \in 1..Len(row[n].path) :
              /\ row[n].path[i] \in Live /\ Len(row[row[n].path[i]].path) = i
              /\ \A j \in 1..i : row[row[n].path[i]].path[j] = row[n].path[j]
BY DEF Chained

LEMMA ChainedIf ==
  ASSUME NEW n, NEW s, row[n].path = s, s[Len(s)] = n,
         n # Root => Len(s) > 1 /\ row[n].parent = s[Len(s) - 1] /\ CanParent(row[n].parent, n),
         \A i \in 1..Len(s) : /\ s[i] \in Live /\ Len(row[s[i]].path) = i
                              /\ \A j \in 1..i : row[s[i]].path[j] = s[j]
  PROVE  Chained(n)
BY DEF Chained

LEMMA SubtreeIs ==
  ASSUME RowsHold, NEW m \in Live, NEW n \in Live, Chained(m), Chained(n)
  PROVE  /\ m \in Subtree(n, row[n]) <=> Starts(row[m].path, row[n].path)
         /\ RunsThrough(row[m], row[n]) <=> m # n /\ Starts(row[m].path, row[n].path)
<1> DEFINE s == row[m].path
           t == row[n].path
<1>1. RunsThrough(row[m], row[n]) <=> Len(t) < Len(s) /\ \A j \in 1..Len(t) : s[j] = t[j]
  BY RowsAre, ThroughIs
<1>2. /\ Len(t) \in Nat /\ Len(s) \in Nat /\ Len(t) >= 1
      /\ s[Len(s)] = m /\ t[Len(t)] = n
  BY RowsAre, Chains
<1> HIDE DEF s, t
<1>3. m = n => s = t
  BY DEF s, t
<1>4. Starts(s, t) <=> Len(t) <= Len(s) /\ \A j \in 1..Len(t) : s[j] = t[j]
  BY DEF Starts
<1>5. Starts(s, t) /\ Len(t) = Len(s) => m = n
  BY <1>2, <1>4
<1>6. m = n => Starts(s, t)
  BY <1>2, <1>3, <1>4
<1>7. RunsThrough(row[m], row[n]) <=> m # n /\ Starts(s, t)
  BY <1>1, <1>2, <1>3, <1>4, <1>5
<1>8. m \in Subtree(n, row[n]) <=> m = n \/ RunsThrough(row[m], row[n])
  BY DEF Subtree
<1> QED BY <1>6, <1>7, <1>8 DEF s, t

LEMMA StartsTrans ==
  ASSUME NEW s, NEW t, NEW u, Len(s) \in Nat, Len(t) \in Nat, Len(u) \in Nat,
         Starts(s, t), Starts(t, u)
  PROVE  Starts(s, u)
BY DEF Starts

(* What a path begins with, its nodes that come later begin with.           *)
LEMMA StartsBelow ==
  ASSUME RowsHold, AllChained, NEW m \in Live, NEW t, Len(t) \in Nat, NEW i \in 1..Len(row[m].path),
         Len(t) <= i
  PROVE  Starts(row[row[m].path[i]].path, t) <=> Starts(row[m].path, t)
<1> DEFINE s == row[m].path
           u == row[row[m].path[i]].path
<1>1. Len(s) \in Nat /\ Len(u) = i /\ \A j \in 1..i : u[j] = s[j]
  BY RowsAre, Chains DEF AllChained
<1> HIDE DEF s, u
<1>2. i \in 1..Len(s)
  BY DEF s
<1> QED BY <1>1, <1>2 DEF Starts, s, u

(* The workspace's node comes second on every path.                         *)
LEMMA SecondIsSpace ==
  ASSUME RowsHold, AllChained, NEW n \in Live \ {Root}
  PROVE  /\ row[n].path[1] = Root /\ row[n].path[2] \in Spaces
         /\ n \in Spaces => row[n].path[2] = n /\ Len(row[n].path) = 2
<1> DEFINE s == row[n].path
<1>1. Len(s) \in Nat /\ Len(s) > 1 /\ s[Len(s)] = n /\ row[n].parent = s[Len(s) - 1]
  BY RowsAre, Chains DEF AllChained
<1>2. \A i \in 1..Len(s) : s[i] \in Live /\ Len(row[s[i]].path) = i
  BY Chains DEF AllChained
<1>3. s[1] \in Live /\ Len(row[s[1]].path) = 1
  <2>1. 1 \in 1..Len(s)
    BY <1>1
  <2> QED BY <1>2, <2>1
<1>4. s[1] = Root
  <2>1. CASE s[1] # Root
    <3>1. Len(row[s[1]].path) > 1
      BY <1>3, <2>1, Chains DEF AllChained
    <3> QED BY <1>3, <3>1
  <2> QED BY <2>1
<1>5. s[2] \in Live /\ Len(row[s[2]].path) = 2 /\ row[s[2]].path[1] = s[1]
  <2>1. 2 \in 1..Len(s) /\ 1 \in 1..2
    BY <1>1
  <2> QED BY <2>1, Chains DEF AllChained
<1>6. s[2] # Root
  BY <1>5, RootRow
<1>7. row[s[2]].parent = Root /\ CanParent(Root, s[2])
  <2>1. row[s[2]].parent = row[s[2]].path[1] /\ CanParent(row[s[2]].parent, s[2])
    BY <1>5, <1>6, Chains DEF AllChained
  <2> QED BY <1>4, <1>5, <2>1
<1>8. s[2] \in Spaces
  BY <1>5, <1>7, Kinds, RowsAre
<1>9. ASSUME n \in Spaces PROVE s[2] = n /\ Len(s) = 2
  <2>1. row[n].parent = Root
    BY <1>9, Chains, RowsAre, Kinds DEF AllChained
  <2>2. Len(s) - 1 \in 1..Len(s) /\ Len(row[s[Len(s) - 1]].path) = Len(s) - 1
    BY <1>1, <1>2
  <2>3. Len(s) - 1 = 1
    BY <1>1, <2>1, <2>2, RootRow
  <2> QED BY <1>1, <2>3
<1> QED BY <1>4, <1>8, <1>9

(* A node whose path and whose path's nodes are as they were is chained.    *)
LEMMA SameChained ==
  ASSUME RowsHold, NEW n \in Live, Chained(n), n \in Live', row'[n] = row[n],
         \A i \in 1..Len(row[n].path) :
           LET a == row[n].path[i] IN a \in Live' /\ row'[a] = row[a]
  PROVE  Chained(n)'
<1> DEFINE s == row[n].path
<1>1. /\ row'[n].path = s /\ s[Len(s)] = n
      /\ n # Root => Len(s) > 1 /\ row'[n].parent = s[Len(s) - 1] /\ CanParent(row'[n].parent, n)
  BY Chains
<1>2. ASSUME NEW i \in 1..Len(s)
      PROVE  /\ s[i] \in Live' /\ Len(row'[s[i]].path) = i
             /\ \A j \in 1..i : row'[s[i]].path[j] = s[j]
  <2>1. s[i] \in Live' /\ row'[s[i]] = row[s[i]]
    OBVIOUS
  <2>2. Len(row[s[i]].path) = i /\ \A j \in 1..i : row[s[i]].path[j] = s[j]
    BY Chains
  <2> QED BY <2>1, <2>2
<1> QED BY <1>1, <1>2 DEF Chained

LEMMA AddedChained ==
  ASSUME RowsHold, AllChained, NEW n \in Nodes \ {Root}, row[n] = None, NEW p \in Live, CanParent(p, n),
         NEW ws \in Spaces \cup {None},
         row' = [row EXCEPT ![n] = Row(p, Append(row[p].path, n), ws)]
  PROVE  AllChained'
<1>1. /\ Live' = Live \cup {n} /\ row'[n] = Row(p, Append(row[p].path, n), ws)
      /\ \A m \in Nodes \ {n} : row'[m] = row[m]
  <2> DEFINE new == Row(p, Append(row[p].path, n), ws)
  <2>1. Tidy(new) /\ new.parent \in Nodes
    BY RowsAre, RowTidy DEF Row
  <2> HIDE DEF new
  <2>2. Live' = Live \cup {n} /\ row'[n] = new /\ \A m \in Nodes \ {n} : row'[m] = row[m]
    BY <2>1, Added DEF new
  <2> QED BY <2>2 DEF new
<1>2. n \notin Live /\ Live \subseteq Nodes
  BY DEF Live
<1>3. ASSUME NEW m \in Live PROVE Chained(m)'
  <2>1. \A i \in 1..Len(row[m].path) : row[m].path[i] \in Live
    BY Chains DEF AllChained
  <2>2. \A a \in Live : a \in Live' /\ row'[a] = row[a]
    BY <1>1, <1>2
  <2> QED BY <2>1, <2>2, SameChained DEF AllChained
<1>4. Chained(n)'
  <2> DEFINE q == row[p].path
             s == Append(q, n)
  <2>1. /\ Len(q) \in Nat /\ Len(q) >= 1 /\ q[Len(q)] = p /\ p # n
        /\ \A i \in 1..Len(q) : /\ q[i] \in Live /\ Len(row[q[i]].path) = i
                                /\ \A j \in 1..i : row[q[i]].path[j] = q[j]
    BY <1>2, RowsAre, Chains DEF AllChained
  <2>2. Len(s) = Len(q) + 1 /\ s[Len(q) + 1] = n /\ \A i \in 1..Len(q) : s[i] = q[i]
    <3>1. q \in Seq(Nodes)
      BY RowsAre
    <3> QED BY <3>1
  <2>3. row'[n].path = s /\ row'[n].parent = p
    BY <1>1 DEF Row
  <2> HIDE DEF s, q
  <2>4. ASSUME NEW i \in 1..Len(q)
        PROVE  /\ s[i] \in Live' /\ Len(row'[s[i]].path) = i
               /\ \A j \in 1..i : row'[s[i]].path[j] = s[j]
    <3>1. s[i] = q[i] /\ q[i] \in Live' /\ row'[q[i]] = row[q[i]]
      BY <1>1, <1>2, <2>1, <2>2
    <3>2. \A j \in 1..i : s[j] = q[j]
      BY <2>1, <2>2
    <3> QED BY <2>1, <3>1, <3>2
  <2>5. /\ s[Len(s)] \in Live' /\ Len(row'[s[Len(s)]].path) = Len(s)
        /\ \A j \in 1..Len(s) : row'[s[Len(s)]].path[j] = s[j]
    BY <1>1, <2>2, <2>3
  <2>6. \A i \in 1..Len(s) : i \in 1..Len(q) \/ i = Len(s)
    BY <2>1, <2>2
  <2>7. s[Len(s)] = n /\ Len(s) > 1 /\ s[Len(s) - 1] = p
    BY <2>1, <2>2
  <2> QED BY <2>3, <2>4, <2>5, <2>6, <2>7 DEF Chained
<1> QED BY <1>1, <1>3, <1>4 DEF AllChained

LEMMA DroppedChained ==
  ASSUME RowsHold, AllChained, NEW n \in Live, NEW D, D = Subtree(n, row[n]) \/ D = {},
         Live' = Live \ D, \A m \in Live \ D : row'[m] = row[m]
  PROVE  AllChained'
<1>1. ASSUME NEW m \in Live \ D PROVE Chained(m)'
  <2> DEFINE s == row[m].path
  <2>1. ASSUME NEW i \in 1..Len(s) PROVE s[i] \in Live \ D
    <3>1. s[i] \in Live /\ Len(row[s[i]].path) = i
      BY Chains DEF AllChained
    <3>2. CASE D = {}
      BY <3>1, <3>2
    <3>3. CASE D = Subtree(n, row[n]) /\ s[i] \in D
      <4>1. Starts(row[s[i]].path, row[n].path)
        BY <3>1, <3>3, SubtreeIs DEF AllChained
      <4>2. Len(row[n].path) \in Nat /\ Len(row[n].path) <= i
        BY <3>1, <4>1, RowsAre DEF Starts
      <4>3. Starts(s, row[n].path)
        BY <4>1, <4>2, StartsBelow
      <4> QED BY <3>3, <4>3, SubtreeIs DEF AllChained
    <3> QED BY <3>1, <3>2, <3>3
  <2> QED BY <2>1, SameChained DEF AllChained
<1> QED BY <1>1 DEF AllChained

(* The row of m has been rebased from n's old place to one below p.         *)
Rehung(m, n, p) ==
  LET k == Len(row[n].path)
      l == Len(row[p].path) + 1
  IN  /\ Len(row'[m].path) = Len(row[m].path) - k + l
      /\ \A i \in 1..(l - 1) : row'[m].path[i] = row[p].path[i]
      /\ row'[m].path[l] = n
      /\ \A i \in (l + 1)..(Len(row[m].path) - k + l) : row'[m].path[i] = row[m].path[i - l + k]
      /\ row'[m].parent = IF m = n THEN p ELSE row[m].parent

LEMMA StartsAt ==
  ASSUME NEW s, NEW t, Starts(s, t)
  PROVE  Len(t) <= Len(s) /\ \A j \in 1..Len(t) : s[j] = t[j]
BY DEF Starts

(* A node that has been rehung is chained.                                  *)
LEMMA RehungChained ==
  ASSUME RowsHold, AllChained, NEW n \in Live \ {Root}, NEW p \in Live, CanParent(p, n), Live' = Live,
         ~Starts(row[p].path, row[n].path),
         \A a \in Live : ~Starts(row[a].path, row[n].path) => row'[a] = row[a],
         \A a \in Live : Starts(row[a].path, row[n].path) => Rehung(a, n, p),
         NEW m \in Live, Starts(row[m].path, row[n].path)
  PROVE  Chained(m)'
<1> DEFINE t == row[n].path
           q == row[p].path
           s == row[m].path
           z == row'[m].path
           k == Len(t)
           l == Len(q) + 1
           ls == Len(s)
           lz == Len(z)
<1>1. k \in Nat /\ l \in Nat /\ ls \in Nat /\ k <= ls /\ k >= 1 /\ l > 1 /\ lz = ls - k + l
  <2>1. k \in Nat /\ k >= 1 /\ Len(q) \in Nat /\ Len(q) >= 1 /\ ls \in Nat
    BY RowsAre
  <2>2. k <= ls
    BY StartsAt
  <2>3. lz = ls - k + l
    BY DEF Rehung
  <2> QED BY <2>1, <2>2, <2>3
<1>2. \A i \in 1..(l - 1) : z[i] = q[i]
  BY DEF Rehung
<1>3. z[l] = n
  BY DEF Rehung
<1>4. \A i \in (l + 1)..(ls - k + l) : z[i] = s[i - l + k]
  BY DEF Rehung
<1>5. row'[m].parent = IF m = n THEN p ELSE row[m].parent
  BY DEF Rehung
<1>6. \A i \in 1..(l - 1) : /\ q[i] \in Live /\ Len(row[q[i]].path) = i
                            /\ \A j \in 1..i : row[q[i]].path[j] = q[j]
  <2>1. l - 1 = Len(q)
    BY <1>1, RowsAre
  <2> QED BY <2>1, Chains DEF AllChained
<1>7. q[l - 1] = p /\ t[k] = n /\ s[k] = n /\ s[ls] = m /\ k > 1
  <2>1. l - 1 = Len(q) /\ q[Len(q)] = p
    BY <1>1, RowsAre, Chains DEF AllChained
  <2>2. k > 1 /\ t[k] = n /\ s[ls] = m
    BY Chains DEF AllChained
  <2>3. k \in 1..Len(t)
    BY <1>1
  <2> QED BY <2>1, <2>2, <2>3, StartsAt
<1>8. m # Root /\ row[m].parent = s[ls - 1] /\ CanParent(row[m].parent, m)
  <2>1. m # Root
    BY <1>1, <1>7, RootRow
  <2> QED BY <2>1, Chains DEF AllChained
<1>9. \A i \in 1..ls : /\ s[i] \in Live /\ Len(row[s[i]].path) = i
                       /\ \A j \in 1..i : row[s[i]].path[j] = s[j]
  BY Chains DEF AllChained
<1>10. m = n <=> ls = k
  BY <1>7
<1>11. \A i \in 1..(l - 1) : row'[q[i]] = row[q[i]]
  <2>1. SUFFICES ASSUME NEW i \in 1..(l - 1), Starts(row[q[i]].path, t) PROVE FALSE
    BY <1>6
  <2>2. i \in 1..Len(q) /\ k <= i
    BY <1>1, <1>6, <2>1, StartsAt
  <2> QED BY <1>1, <2>1, <2>2, StartsBelow
<1>12. \A i \in 1..ls : k <= i => Starts(row[s[i]].path, t)
  BY <1>1, StartsBelow
<1>13. \A i \in 1..ls : k <= i =>
          /\ Len(row'[s[i]].path) = i - k + l
          /\ \A j \in 1..(l - 1) : row'[s[i]].path[j] = q[j]
          /\ row'[s[i]].path[l] = n
          /\ \A j \in (l + 1)..(i - k + l) : row'[s[i]].path[j] = s[j - l + k]
  <2>1. SUFFICES ASSUME NEW i \in 1..ls, k <= i
        PROVE  /\ Len(row'[s[i]].path) = i - k + l
               /\ \A j \in 1..(l - 1) : row'[s[i]].path[j] = q[j]
               /\ row'[s[i]].path[l] = n
               /\ \A j \in (l + 1)..(i - k + l) : row'[s[i]].path[j] = s[j - l + k]
    OBVIOUS
  <2>2. PICK a \in Live : a = s[i]
    BY <1>9
  <2>3. Rehung(a, n, p) /\ Starts(row[a].path, t) /\ i = Len(row[a].path)
    BY <1>9, <1>12, <2>1, <2>2
  <2>4. /\ Len(row'[a].path) = i - k + l
        /\ \A j \in 1..(l - 1) : row'[a].path[j] = q[j]
        /\ row'[a].path[l] = n
        /\ \A j \in (l + 1)..(i - k + l) : row'[a].path[j] = row[a].path[j - l + k]
    BY <2>3 DEF Rehung
  <2>5. ASSUME NEW j \in (l + 1)..(i - k + l) PROVE row[a].path[j - l + k] = s[j - l + k]
    <3> HIDE DEF l, k, ls
    <3>1. j - l + k \in 1..i
      BY <1>1
    <3> QED BY <1>9, <2>2, <3>1
  <2> QED BY <2>2, <2>4, <2>5
<1> HIDE DEF t, q, s, z, k, l, ls, lz
<1>14. z[lz] = m /\ lz > 1
  BY <1>1, <1>3, <1>4, <1>7, <1>10
<1>15. row'[m].parent = z[lz - 1] /\ CanParent(row'[m].parent, m)
  <2>1. CASE ls = k
    <3>1. lz - 1 \in 1..(l - 1) /\ lz - 1 = l - 1
      BY <1>1, <2>1
    <3> QED BY <1>2, <1>5, <1>7, <1>10, <2>1, <3>1
  <2>2. CASE ls = k + 1
    <3>1. lz - 1 = l /\ ls - 1 = k /\ ls # k
      BY <1>1, <2>2
    <3> QED BY <1>3, <1>5, <1>7, <1>8, <1>10, <3>1
  <2>3. CASE ls > k + 1
    <3>1. lz - 1 \in (l + 1)..(ls - k + l) /\ (lz - 1) - l + k = ls - 1 /\ ls # k
      BY <1>1, <2>3
    <3> QED BY <1>4, <1>5, <1>8, <1>10, <3>1
  <2> QED BY <1>1, <2>1, <2>2, <2>3
<1>16. ASSUME NEW i \in 1..lz
       PROVE  /\ z[i] \in Live /\ Len(row'[z[i]].path) = i
              /\ \A j \in 1..i : row'[z[i]].path[j] = z[j]
  <2>1. CASE i < l
    <3>1. i \in 1..(l - 1) /\ \A j \in 1..i : j \in 1..(l - 1)
      BY <1>1, <2>1
    <3> QED BY <1>2, <1>6, <1>11, <3>1
  <2>2. CASE i = l
    <3>1. k \in 1..ls /\ s[k] = n /\ k - k + l = l
      BY <1>1, <1>7
    <3>2. /\ Len(row'[n].path) = l /\ row'[n].path[l] = n
          /\ \A j \in 1..(l - 1) : row'[n].path[j] = q[j]
      BY <1>1, <1>13, <3>1
    <3>3. n \in Live /\ \A j \in 1..i : j = l \/ j \in 1..(l - 1)
      BY <1>1, <2>2
    <3> QED BY <1>2, <1>3, <2>2, <3>2, <3>3
  <2>3. CASE i > l
    <3> DEFINE h == i - l + k
    <3>1. h \in 1..ls /\ k <= h /\ h - k + l = i /\ i \in (l + 1)..(ls - k + l)
      BY <1>1, <2>3
    <3> HIDE DEF h
    <3>2. z[i] = s[h] /\ s[h] \in Live
      BY <1>4, <1>9, <3>1 DEF h
    <3>3. /\ Len(row'[s[h]].path) = i
          /\ \A j \in 1..(l - 1) : row'[s[h]].path[j] = q[j]
          /\ row'[s[h]].path[l] = n
          /\ \A j \in (l + 1)..i : row'[s[h]].path[j] = s[j - l + k]
      BY <1>13, <3>1
    <3>4. \A j \in 1..i : \/ j \in 1..(l - 1) \/ j = l
                          \/ j \in (l + 1)..i /\ j \in (l + 1)..(ls - k + l)
      BY <1>1, <3>1
    <3> QED BY <1>2, <1>3, <1>4, <3>2, <3>3, <3>4
  <2> QED BY <1>1, <2>1, <2>2, <2>3
<1>17. z = row'[m].path /\ lz = Len(z)
  BY DEF z, lz
<1> QED BY <1>14, <1>15, <1>16, <1>17 DEF Chained

(* A node goes below another, and what is below it goes along.              *)
LEMMA MovedChained ==
  ASSUME RowsHold, AllChained, NEW n \in Live \ {Root}, NEW p \in Live, CanParent(p, n), Live' = Live,
         ~Starts(row[p].path, row[n].path),
         \A a \in Live : ~Starts(row[a].path, row[n].path) => row'[a] = row[a],
         \A a \in Live : Starts(row[a].path, row[n].path) => Rehung(a, n, p)
  PROVE  AllChained'
<1>1. ASSUME NEW m \in Live, ~Starts(row[m].path, row[n].path) PROVE Chained(m)'
  <2>1. ASSUME NEW i \in 1..Len(row[m].path)
        PROVE  row[m].path[i] \in Live /\ row'[row[m].path[i]] = row[row[m].path[i]]
    <3>1. row[m].path[i] \in Live /\ Len(row[row[m].path[i]].path) = i
      BY Chains DEF AllChained
    <3>2. ASSUME Starts(row[row[m].path[i]].path, row[n].path) PROVE FALSE
      <4>1. Len(row[n].path) \in Nat /\ Len(row[n].path) <= i
        BY <3>1, <3>2, RowsAre, StartsAt
      <4> QED BY <1>1, <3>2, <4>1, StartsBelow
    <3> QED BY <3>1, <3>2
  <2> QED BY <1>1, <2>1, SameChained DEF AllChained
<1>2. ASSUME NEW m \in Live, Starts(row[m].path, row[n].path) PROVE Chained(m)'
  BY <1>2, RehungChained
<1> QED BY <1>1, <1>2 DEF AllChained

(* What moveNode's transaction does to the rows.                            *)
LEMMA MovedRow ==
  ASSUME RowsHold, NEW c, c.node \in Nodes \ {Root}, c.parent \in Nodes, Tidy(c.seen), Tidy(c.under),
         row[c.node] # None, row' = Moved(c), NEW m \in Live
  PROVE  /\ Tidy(row'[m]) /\ (m # Root => row'[m].parent \in Nodes)
         /\ RunsThrough(row[m], c.seen) =>
              /\ row'[m].ws = c.under.ws /\ row'[m].parent = row[m].parent
              /\ PathRebased(row'[m].path, row[m].path, Len(c.seen.path), c.under.path, c.node)
         /\ ~RunsThrough(row[m], c.seen) =>
              row'[m] = IF m = c.node THEN Row(c.parent, Append(c.under.path, c.node), c.under.ws)
                        ELSE row[m]
<1>1. m \in Nodes /\ Tidy(row[m]) /\ row[m] # None /\ (m # Root => row[m].parent \in Nodes)
  BY RowsAre
<1>2. CASE RunsThrough(row[m], c.seen)
  <2>1. row'[m] = RowRebased(row[m], c.seen, c.under, c.node)
    BY <1>1, <1>2 DEF Moved, RowRebased, Rebase
  <2>2. Len(c.seen.path) <= Len(row[m].path)
    BY <1>1, <1>2, Tidies DEF RunsThrough
  <2> DEFINE y == RowRebased(row[m], c.seen, c.under, c.node)
  <2>3. /\ Tidy(y) /\ y.parent = row[m].parent /\ y.ws = c.under.ws
        /\ PathRebased(y.path, row[m].path, Len(c.seen.path), c.under.path, c.node)
    BY <1>1, <2>2, MoveRebases
  <2> HIDE DEF y
  <2> QED BY <1>1, <1>2, <2>1, <2>3 DEF y
<1>3. CASE ~RunsThrough(row[m], c.seen) /\ m = c.node
  <2>1. row'[m] = Row(c.parent, Append(c.under.path, c.node), c.under.ws)
    BY <1>1, <1>3 DEF Moved
  <2>2. Tidy(Row(c.parent, Append(c.under.path, c.node), c.under.ws))
    BY Tidies, RowTidy
  <2>3. row'[m].parent = c.parent
    BY <2>1 DEF Row
  <2> QED BY <1>3, <2>1, <2>2, <2>3
<1>4. CASE ~RunsThrough(row[m], c.seen) /\ m # c.node
  <2>1. row'[m] = row[m]
    BY <1>1, <1>4 DEF Moved
  <2> QED BY <1>1, <1>4, <2>1
<1> QED BY <1>2, <1>3, <1>4

LEMMA MovedRows ==
  ASSUME RowsHold, NEW c, c.node \in Nodes \ {Root}, c.parent \in Nodes, Tidy(c.seen), Tidy(c.under),
         row[c.node] # None, row' = Moved(c)
  PROVE  RowsHold' /\ Live' = Live /\ \A n \in Nodes : row[n] = None => row'[n] = None
<1>1. \A n \in Nodes : row[n] = None => row'[n] = None
  BY DEF Moved
<1>2. \A n \in Live : Tidy(row'[n]) /\ (n # Root => row'[n].parent \in Nodes)
  BY MovedRow
<1>3. Live' = Live
  BY <1>1, <1>2, Tidies DEF Live
<1>4. row' \in [Nodes -> RowType \cup {None}]
  <2>1. row' = [n \in Nodes |-> row'[n]]
    BY DEF Moved
  <2>2. \A n \in Nodes : row'[n] \in RowType \cup {None}
    BY <1>1, <1>2, Tidies DEF Live
  <2> QED BY <2>1, <2>2
<1>5. row'[Root] = Row(None, <<Root>>, None)
  BY RootStays, RootRow, Kinds, MovedRow DEF RowsHold
<1> QED BY <1>1, <1>2, <1>3, <1>4, <1>5 DEF RowsHold

LEMMA MovedFresh ==
  ASSUME RowsHold, AllChained, NEW c, c.node \in Live \ {Root}, c.parent \in Live,
         row[c.node] = c.seen, row[c.parent] = c.under, row' = Moved(c), NEW m \in Live
  PROVE  /\ ~Starts(row[m].path, row[c.node].path) => row'[m] = row[m]
         /\ Starts(row[m].path, row[c.node].path) =>
              Rehung(m, c.node, c.parent) /\ row'[m].ws = row[c.parent].ws
<1>1. /\ c.node \in Nodes \ {Root} /\ c.parent \in Nodes /\ Tidy(c.seen) /\ Tidy(c.under)
      /\ row[c.node] # None
  BY RowsAre
<1>2. RunsThrough(row[m], c.seen) <=> m # c.node /\ Starts(row[m].path, row[c.node].path)
  BY SubtreeIs DEF AllChained
<1>3. ASSUME ~Starts(row[m].path, row[c.node].path) PROVE row'[m] = row[m]
  <2>1. m # c.node
    BY <1>1, <1>3, Tidies DEF Starts
  <2> QED BY <1>1, <1>2, <1>3, <2>1, MovedRow
<1>4. ASSUME Starts(row[m].path, row[c.node].path)
      PROVE  Rehung(m, c.node, c.parent) /\ row'[m].ws = row[c.parent].ws
  <2> DEFINE k == Len(row[c.node].path)
             l == Len(row[c.parent].path) + 1
             ls == Len(row[m].path)
  <2>1. k \in Nat /\ l - 1 = Len(row[c.parent].path) /\ l \in Nat /\ ls \in Nat
    BY <1>1, Tidies, RowsAre
  <2>2. CASE m # c.node
    <3>1. RunsThrough(row[m], c.seen)
      BY <1>2, <1>4, <2>2
    <3>2. row'[m].ws = row[c.parent].ws /\ row'[m].parent = row[m].parent
      BY <1>1, <3>1, MovedRow
    <3>3. PathRebased(row'[m].path, row[m].path, Len(c.seen.path), c.under.path, c.node)
      BY <1>1, <3>1, MovedRow
    <3>7. c.under.path = row[c.parent].path /\ c.seen.path = row[c.node].path
      OBVIOUS
    <3>8. Len(c.under.path) = l - 1 /\ Len(c.seen.path) = k
      BY <2>1, <3>7
    <3> HIDE DEF k, l, ls
    <3>9. l + ls - k = ls - k + l /\ l + 1 = l - 1 + 2 /\ l - 1 + 1 = l
      BY <2>1
    <3>10. /\ Len(row'[m].path) = ls - k + l
           /\ \A i \in 1..(l - 1) : row'[m].path[i] = row[c.parent].path[i]
           /\ row'[m].path[l] = c.node
      BY <3>3, <3>7, <3>8, <3>9 DEF ls, PathRebased
    <3>11. ASSUME NEW i \in (l + 1)..(ls - k + l) PROVE row'[m].path[i] = row[m].path[i - l + k]
      <4>1. i \in (l - 1 + 2)..(l - 1 + 1 + ls - k)
        BY <2>1
      <4>2. i - (l - 1 + 1) + k = i - l + k
        BY <2>1
      <4> QED BY <3>3, <3>8, <4>1, <4>2 DEF ls, PathRebased
    <3> QED BY <2>2, <3>2, <3>10, <3>11 DEF Rehung, k, l, ls
  <2>3. CASE m = c.node
    <3>1. row'[m] = Row(c.parent, Append(c.under.path, c.node), c.under.ws)
      BY <1>1, <1>2, <2>3, MovedRow
    <3>2. /\ row'[m].parent = c.parent /\ row'[m].ws = c.under.ws
          /\ row'[m].path = Append(row[c.parent].path, c.node)
      BY <3>1 DEF Row
    <3>3. row[c.parent].path \in Seq(Nodes)
      BY RowsAre
    <3>4. /\ Len(row'[m].path) = l /\ row'[m].path[l] = c.node
          /\ \A i \in 1..(l - 1) : row'[m].path[i] = row[c.parent].path[i]
      BY <2>1, <3>2, <3>3
    <3>5. ls = k
      BY <2>3
    <3> HIDE DEF k, l, ls
    <3>6. ls - k + l = l /\ ~\E i \in (l + 1)..(ls - k + l) : TRUE
      BY <2>1, <3>5
    <3> QED BY <2>3, <3>2, <3>4, <3>5, <3>6 DEF Rehung, k, l, ls
  <2> QED BY <2>2, <2>3
<1> QED BY <1>3, <1>4

-----------------------------------------------------------------------------
(* What the three ways keep, as long as what was read is still so.          *)
LEMMA HasChild ==
  ASSUME RowsHold, AllChained, NEW n \in Live, NEW m \in Live, RunsThrough(row[m], row[n])
  PROVE  \E x \in Live : x # Root /\ row[x].parent = n
<1> DEFINE k == Len(row[n].path)
           s == row[m].path
           x == s[k + 1]
<1>1. k \in Nat /\ k >= 1 /\ Len(s) \in Nat /\ k < Len(s) /\ s[k] = n
  <2>1. k \in Nat /\ k >= 1 /\ Len(s) \in Nat
    BY RowsAre
  <2>2. k < Len(s) /\ \A j \in 1..k : s[j] = row[n].path[j]
    BY RowsAre, ThroughIs
  <2>3. row[n].path[k] = n
    BY Chains DEF AllChained
  <2> QED BY <2>1, <2>2, <2>3
<1>2. x \in Live /\ Len(row[x].path) = k + 1 /\ row[x].path[k] = n
  <2>1. k + 1 \in 1..Len(s) /\ k \in 1..(k + 1)
    BY <1>1
  <2> QED BY <1>1, <2>1, Chains DEF AllChained
<1>3. x # Root
  BY <1>1, <1>2, RootRow
<1>4. row[x].parent = n
  <2>1. row[x].parent = row[x].path[Len(row[x].path) - 1]
    BY <1>2, <1>3, Chains DEF AllChained
  <2> QED BY <1>1, <1>2, <2>1
<1> QED BY <1>2, <1>3, <1>4

LEMMA AddSound ==
  ASSUME RowsHold, AllChained, GrantsHeld, ~crossed => AllHomed,
         NEW n \in Nodes \ {Root}, row[n] = None, NEW p \in Live, CanParent(p, n),
         NEW ws \in Spaces \cup {None},
         row' = [row EXCEPT ![n] = Row(p, Append(row[p].path, n), ws)], shares' = shares,
         crossed => crossed', ~crossed' => ws = IF p = Root THEN n ELSE row[p].ws
  PROVE  /\ RowsHold' /\ AllChained' /\ GrantsHeld' /\ (~crossed' => AllHomed')
         /\ row'[n].ws = ws /\ Live' = Live \cup {n} /\ \A m \in Nodes \ {n} : row'[m] = row[m]
<1> DEFINE new == Row(p, Append(row[p].path, n), ws)
<1>1. Tidy(new) /\ new.parent \in Nodes /\ new.ws = ws /\ new.path = Append(row[p].path, n)
  BY RowsAre, RowTidy DEF Row
<1>2. AllChained'
  BY AddedChained
<1> HIDE DEF new
<1>3. RowsHold' /\ row'[n] = new /\ Live' = Live \cup {n} /\ \A m \in Nodes \ {n} : row'[m] = row[m]
  BY <1>1, Added DEF new
<1>4. n \notin Live /\ Live \subseteq Nodes
  BY DEF Live
<1>5. GrantsHeld'
  BY <1>3, <1>4 DEF GrantsHeld
<1>6. ASSUME ~crossed' PROVE AllHomed'
  <2>1. \A m \in Live : Homed(m)'
    BY <1>3, <1>4, <1>6 DEF Homed, AllHomed
  <2>2. new.ws = new.path[2]
    <3>1. CASE p = Root
      <4>1. row[p].path = <<Root>>
        BY <3>1 DEF RowsHold, Row
      <4> QED BY <1>1, <1>6, <3>1, <4>1
    <3>2. CASE p # Root
      <4>1. Len(row[p].path) > 1 /\ row[p].path \in Seq(Nodes)
        BY <3>2, Chains, RowsAre DEF AllChained
      <4>2. new.path[2] = row[p].path[2]
        BY <1>1, <4>1
      <4> QED BY <1>1, <1>6, <3>2, <4>2 DEF AllHomed, Homed
    <3> QED BY <3>1, <3>2
  <2> QED BY <1>3, <2>1, <2>2 DEF AllHomed, Homed
<1> QED BY <1>1, <1>2, <1>3, <1>5, <1>6

LEMMA DropSound ==
  ASSUME RowsHold, AllChained, GrantsHeld, ~crossed => AllHomed,
         NEW n \in Live, NEW D, D = Subtree(n, row[n]) \/ D = {}, Root \notin D, DropNodes(D),
         crossed' = crossed
  PROVE  AllChained' /\ GrantsHeld' /\ (~crossed' => AllHomed')
<1>1. RowsHold' /\ Live' = Live \ D /\ \A m \in Live \ D : row'[m] = row[m]
  BY Dropped DEF DropNodes
<1>2. AllChained'
  BY <1>1, DroppedChained
<1>3. GrantsHeld'
  BY <1>1 DEF GrantsHeld, DropNodes
<1>4. ~crossed' => AllHomed'
  BY <1>1 DEF AllHomed, Homed
<1> QED BY <1>2, <1>3, <1>4

LEMMA MoveSound ==
  ASSUME RowsHold, AllChained, GrantsHeld, ~crossed => AllHomed,
         NEW c, c.node \in Live \ {Root}, c.parent \in Live, CanParent(c.parent, c.node), ~Inside(c),
         row[c.node] = c.seen, row[c.parent] = c.under, row' = Moved(c), shares' = shares,
         crossed' = (crossed \/ c.seen.ws # c.under.ws)
  PROVE  /\ AllChained' /\ GrantsHeld' /\ Live' = Live
         /\ ~crossed' => AllHomed' /\ \A m \in Live : row'[m].ws = row[m].ws
<1>1. PICK n \in Live \ {Root}, p \in Live : n = c.node /\ p = c.parent
  OBVIOUS
<1>2. RowsHold' /\ Live' = Live
  <2>1. c.node \in Nodes \ {Root} /\ c.parent \in Nodes /\ Tidy(c.seen) /\ Tidy(c.under) /\ row[c.node] # None
    BY RowsAre
  <2> QED BY <2>1, MovedRows
<1>3. \A m \in Live :
        /\ ~Starts(row[m].path, row[n].path) => row'[m] = row[m]
        /\ Starts(row[m].path, row[n].path) => Rehung(m, n, p) /\ row'[m].ws = row[p].ws
  BY <1>1, MovedFresh
<1>4. CanParent(p, n) /\ ~Starts(row[p].path, row[n].path)
  BY <1>1, SubtreeIs DEF Inside, AllChained
<1>5. AllChained'
  BY <1>2, <1>3, <1>4, MovedChained
<1>6. ASSUME ~crossed' PROVE \A m \in Live : row'[m].ws = row[m].ws
  <2>1. AllHomed /\ row[n].ws = row[p].ws
    BY <1>1, <1>6
  <2>2. ASSUME NEW m \in Live, Starts(row[m].path, row[n].path) PROVE row[m].ws = row[n].ws
    <3>1. Len(row[n].path) \in Nat /\ Len(row[n].path) > 1
      BY RowsAre, Chains DEF AllChained
    <3>2. 2 \in 1..Len(row[n].path) /\ Len(row[m].path) > 1
      BY <2>2, <3>1, RowsAre, StartsAt
    <3>3. row[m].path[2] = row[n].path[2] /\ m # Root
      BY <2>2, <3>2, StartsAt, RootRow
    <3> QED BY <2>1, <3>3 DEF AllHomed, Homed
  <2> QED BY <1>3, <2>1, <2>2
<1>7. GrantsHeld'
  BY <1>2, <1>6 DEF GrantsHeld
<1>8. ASSUME ~crossed' PROVE AllHomed'
  <2>1. ASSUME NEW m \in Live, m # Root PROVE row'[m].ws = row'[m].path[2]
    <3>1. row'[m].ws = row[m].ws /\ row[m].ws = row[m].path[2]
      BY <1>6, <1>8, <2>1 DEF AllHomed, Homed
    <3>2. CASE ~Starts(row[m].path, row[n].path)
      BY <1>3, <3>1, <3>2
    <3>3. CASE Starts(row[m].path, row[n].path)
      <4>1. n # Root /\ row[n].ws = row[p].ws /\ row'[m].ws = row[p].ws
        BY <1>1, <1>3, <1>8, <3>3
      <4>2. row[n].ws \in Spaces
        BY <1>8, SecondIsSpace DEF AllHomed, Homed
      <4>3. p # Root
        BY <4>1, <4>2, RootRow, TreeAssumption, Kinds
      <4>4. Len(row[p].path) \in Nat /\ Len(row[p].path) > 1
        BY <4>3, RowsAre, Chains DEF AllChained
      <4>5. Rehung(m, n, p)
        BY <1>3, <3>3
      <4>6. 2 \in 1..(Len(row[p].path) + 1 - 1)
        BY <4>4
      <4>7. row'[m].path[2] = row[p].path[2]
        BY <4>5, <4>6 DEF Rehung
      <4> QED BY <1>8, <4>1, <4>3, <4>7 DEF AllHomed, Homed
    <3> QED BY <3>2, <3>3
  <2> QED BY <1>2, <2>1 DEF AllHomed, Homed
<1> QED BY <1>2, <1>5, <1>6, <1>7, <1>8

-----------------------------------------------------------------------------
(* Of requests.                                                             *)
LEMMA NoWorkHolds == NoWork \in WorkType /\ ~IsFiling(NoWork) /\ WorkHolds(NoWork)
BY DEF NoWork, WorkType, IsFiling, WorkHolds

LEMMA FilingIs ==
  ASSUME RowsHold, NEW op \in {"insert", "file", "move", "delete", "share", "grant"},
         NEW n \in Nodes, NEW p \in Nodes, NEW w \in Spaces \cup {None}
  PROVE  LET c == Filing(op, n, p, w)
         IN  /\ c \in WorkType
             /\ c.op = op /\ c.node = n /\ c.seen = row[n] /\ c.parent = p /\ c.under = row[p] /\ c.ws = w
BY DEF Filing, WorkType, RowsHold

LEMMA OtherHolds ==
  ASSUME NEW c, WorkHolds(c), used \subseteq used',
         IsFiling(c) => /\ row'[c.node] = None
                        /\ c.node \in Connections => home'[c.node] \in {home[c.node], None}
  PROVE  WorkHolds(c)'
BY DEF WorkHolds, IsFiling

(* Request r goes on as `next', and the others' rows are let alone.         *)
LEMMA WorkKeeps ==
  ASSUME TreeTypeOK, WorkPart, NEW r \in Workers, NEW next \in WorkType, work' = [work EXCEPT ![r] = next],
         WorkHolds(next)', used \subseteq used',
         IsFiling(next) =>
           next.node \notin used \/ (IsFiling(work[r]) /\ next.node = work[r].node),
         \A q \in Workers \ {r} : IsFiling(work[q]) =>
           /\ row'[work[q].node] = None
           /\ work[q].node \in Connections => home'[work[q].node] \in {home[work[q].node], None}
  PROVE  WorkPart' /\ work' \in [Workers -> WorkType]
<1>1. work'[r] = next /\ work' \in [Workers -> WorkType] /\ \A q \in Workers \ {r} : work'[q] = work[q]
  BY DEF TreeTypeOK
<1>2. ASSUME NEW q \in Workers PROVE WorkHolds(work[q])'
  <2>1. CASE q = r
    BY <1>1, <2>1
  <2>2. CASE q # r
    <3>1. PICK c : c = work[q]
      OBVIOUS
    <3>2. WorkHolds(c)'
      BY <2>2, <3>1, OtherHolds DEF WorkPart
    <3> QED BY <1>1, <2>2, <3>1, <3>2
  <2> QED BY <2>1, <2>2
<1>3. \A q \in Workers : IsFiling(work[q]) => work[q].node \in used
  BY DEF WorkPart, WorkHolds
<1>4. \A p, q \in Workers : IsFiling(work[p]) /\ IsFiling(work[q]) /\ work[p].node = work[q].node
                            /\ work[p].node \in Nodes => p = q
  BY DEF WorkPart, FiledOnce, FilersOf
<1>5. FiledOnce'
  <2>1. SUFFICES ASSUME NEW n \in Nodes, NEW p \in Workers, NEW q \in Workers,
                        IsFiling(work'[p]), IsFiling(work'[q]), work'[p].node = n, work'[q].node = n
                 PROVE  p = q
    BY DEF FiledOnce, FilersOf, IsFiling
  <2> QED BY <1>1, <1>3, <1>4, <2>1
<1> QED BY <1>1, <1>2, <1>5 DEF WorkPart

LEMMA WorkStays ==
  ASSUME TreeTypeOK, WorkPart, work' = work, used \subseteq used',
         \A q \in Workers : IsFiling(work[q]) =>
           /\ row'[work[q].node] = None
           /\ work[q].node \in Connections => home'[work[q].node] \in {home[work[q].node], None}
  PROVE  WorkPart' /\ work' \in [Workers -> WorkType]
<1>1. ASSUME NEW q \in Workers PROVE WorkHolds(work[q])'
  <2>1. PICK c : c = work[q]
    OBVIOUS
  <2>2. WorkHolds(c)'
    BY <2>1, OtherHolds DEF WorkPart
  <2> QED BY <2>1, <2>2
<1>2. FiledOnce'
  BY DEF WorkPart, FiledOnce, FilersOf
<1> QED BY <1>1, <1>2 DEF WorkPart, TreeTypeOK

(* Who files goes on filing, unless it is r's turn.                         *)
LEMMA FilersStay ==
  ASSUME TreeTypeOK, NEW r \in Workers, NEW next, work' = [work EXCEPT ![r] = next], NEW n,
         FilersOf(n) # {},
         IsFiling(work[r]) /\ work[r].node = n => IsFiling(next) /\ next.node = n
  PROVE  FilersOf(n)' # {}
<1>1. PICK q \in Workers : IsFiling(work[q]) /\ work[q].node = n
  BY DEF FilersOf
<1>2. work'[r] = next /\ \A p \in Workers \ {r} : work'[p] = work[p]
  BY DEF TreeTypeOK
<1>3. IsFiling(work'[q]) /\ work'[q].node = n
  BY <1>1, <1>2
<1> QED BY <1>3 DEF FilersOf

(* A request reads, or goes on from what it did, and writes nothing.        *)
LEMMA ReadKeeps ==
  ASSUME TreeInv, NEW r \in Workers, NEW next \in WorkType, work' = [work EXCEPT ![r] = next],
         WorkHolds(next)', used \subseteq used',
         IsFiling(work[r]) => IsFiling(next) /\ next.node = work[r].node,
         IsFiling(next) => next.node \notin used \/ IsFiling(work[r]),
         UNCHANGED <<row, home, shares, treeStale, crossed, unfiled>>
  PROVE  TreeInv'
<1>1. TreeTypeOK /\ WorkPart /\ RowsHold /\ Sound
  BY DEF TreeInv
<1>2. \A q \in Workers : IsFiling(work[q]) =>
        row'[work[q].node] = None /\ home'[work[q].node] = home[work[q].node]
  BY <1>1 DEF WorkPart, WorkHolds
<1>3. WorkPart' /\ work' \in [Workers -> WorkType]
  BY <1>1, <1>2, WorkKeeps
<1>4. TreeTypeOK'
  BY <1>1, <1>3 DEF TreeTypeOK, Live
<1>5. RowsHold'
  BY <1>1 DEF RowsHold, Live
<1>6. ASSUME AllMirrored PROVE AllMirrored'
  <2>1. ASSUME NEW c \in Connections PROVE FilersOf(c) # {} => FilersOf(c)' # {}
    BY <1>1, FilersStay
  <2>2. ASSUME NEW c \in Connections PROVE Mirrored(c)'
    BY <1>6, <2>1 DEF Mirrored, AllMirrored, Live
  <2> QED BY <2>2 DEF AllMirrored
<1>7. Sound'
  BY <1>1, <1>6 DEF Sound, AllChained, Chained, GrantsHeld, AllHomed, Homed, Live
<1> QED BY <1>3, <1>4, <1>5, <1>7 DEF TreeInv

-----------------------------------------------------------------------------
LEMMA Parts ==
  ASSUME TreeInv
  PROVE  /\ TreeTypeOK /\ RowsHold /\ WorkPart /\ Sound
         /\ \A r \in Workers : WorkHolds(work[r]) /\ work[r] \in WorkType
         /\ Live \subseteq used /\ Live \subseteq Nodes
         /\ \A n \in Nodes : n \notin Live <=> row[n] = None
BY DEF TreeInv, WorkPart, TreeTypeOK, Live

LEMMA ReadForGroupKeeps ==
  ASSUME TreeInv, NEW r \in Workers, NEW g \in Groups, NEW p \in Spaces \cup Groups, ReadForGroup(r, g, p)
  PROVE  TreeInv'
<1>1. /\ g \notin used /\ p \in Live /\ used' = used \cup {g} /\ work[r] = NoWork
      /\ work' = [work EXCEPT ![r] = Filing("insert", g, p, row[p].ws)]
      /\ UNCHANGED <<row, home, shares, treeStale, crossed, unfiled>>
  BY DEF ReadForGroup, Reads
<1>2. PICK next : next = Filing("insert", g, p, row[p].ws)
  OBVIOUS
<1>3. /\ next \in WorkType /\ next.op = "insert" /\ next.node = g /\ next.parent = p
      /\ next.under = row[p] /\ next.ws = row[p].ws /\ Tidy(row[p]) /\ row[p].ws \in Spaces \cup {None}
  BY <1>1, <1>2, Parts, FilingIs, RowsAre, Kinds
<1>4. row[g] = None /\ g \notin Connections
  BY <1>1, Parts, Kinds, TreeAssumption
<1>5. WorkHolds(next)'
  BY <1>1, <1>3, <1>4 DEF WorkHolds, IsFiling
<1>6. ~IsFiling(work[r])
  BY <1>1, NoWorkHolds
<1> QED BY <1>1, <1>2, <1>3, <1>5, <1>6, ReadKeeps

LEMMA SaveConnectionKeeps ==
  ASSUME TreeInv, NEW r \in Workers, NEW c \in Connections, NEW w \in Spaces, NEW p \in Spaces \cup Groups,
         SaveConnection(r, c, w, p)
  PROVE  TreeInv'
<1>1. /\ c \notin used /\ used' = used \cup {c} /\ work[r] = NoWork
      /\ work' = [work EXCEPT ![r] = Filing("file", c, p, w)] /\ home' = [home EXCEPT ![c] = w]
      /\ UNCHANGED <<row, shares, treeStale, crossed, unfiled>>
  BY DEF SaveConnection, Reads
<1>2. PICK next : next = Filing("file", c, p, w)
  OBVIOUS
<1>3. next \in WorkType /\ next.op = "file" /\ next.node = c /\ next.parent = p /\ next.ws = w
  BY <1>1, <1>2, Parts, FilingIs, Kinds
<1>4. row[c] = None /\ home'[c] = w /\ \A d \in Connections \ {c} : home'[d] = home[d]
  BY <1>1, Parts, Kinds DEF TreeTypeOK
<1>5. WorkHolds(next)'
  BY <1>1, <1>3, <1>4 DEF WorkHolds, IsFiling
<1>6. ~IsFiling(work[r])
  BY <1>1, NoWorkHolds
<1>7. ASSUME NEW q \in Workers, IsFiling(work[q])
      PROVE  /\ row'[work[q].node] = None /\ work[q].node # c
             /\ work[q].node \in Connections => home'[work[q].node] = home[work[q].node]
  BY <1>1, <1>4, <1>7, Parts DEF WorkHolds
<1>8. WorkPart' /\ work' \in [Workers -> WorkType]
  BY <1>1, <1>2, <1>3, <1>5, <1>7, Parts, WorkKeeps
<1>9. TreeTypeOK'
  BY <1>1, <1>8, Parts DEF TreeTypeOK, Live
<1>10. RowsHold'
  BY <1>1, Parts DEF RowsHold, Live
<1>11. ASSUME AllMirrored PROVE AllMirrored'
  <2>1. work'[r] = next
    BY <1>1, <1>2, Parts DEF TreeTypeOK
  <2>2. Mirrored(c)'
    <3>1. r \in FilersOf(c)'
      BY <1>3, <2>1 DEF FilersOf, IsFiling
    <3> QED BY <1>1, <1>4, <3>1 DEF Mirrored, Live
  <2>3. ASSUME NEW d \in Connections \ {c} PROVE Mirrored(d)'
    <3>1. FilersOf(d) # {} => FilersOf(d)' # {}
      BY <1>1, <1>6, Parts, FilersStay
    <3> QED BY <1>1, <1>4, <1>11, <3>1 DEF Mirrored, AllMirrored, Live
  <2> QED BY <2>2, <2>3 DEF AllMirrored
<1>12. Sound'
  BY <1>1, <1>11, Parts DEF Sound, AllChained, Chained, GrantsHeld, AllHomed, Homed, Live
<1> QED BY <1>8, <1>9, <1>10, <1>12 DEF TreeInv

LEMMA ReadForFilingKeeps ==
  ASSUME TreeInv, NEW r \in Workers, ReadForFiling(r) PROVE TreeInv'
<1> DEFINE c == work[r].node
           w == work[r].ws
           p == IF work[r].parent \in Live THEN work[r].parent ELSE w
<1>1. /\ work[r].op = "file" /\ UNCHANGED <<row, home, shares, used, crossed, unfiled>>
      /\ IF p \in Live
         THEN work' = [work EXCEPT ![r] = Filing("insert", c, p, w)] /\ UNCHANGED treeStale
         ELSE work' = [work EXCEPT ![r] = NoWork] /\ treeStale' = TRUE
  BY DEF ReadForFiling, Acts
<1>2. /\ c \in Connections \cap used /\ c \in Nodes /\ row[c] = None /\ w \in Spaces
      /\ home[c] \in {w, None} /\ p \in Spaces \cup Groups /\ p \in Nodes /\ IsFiling(work[r])
  BY <1>1, Parts, Kinds DEF WorkHolds, IsFiling
<1>3. CASE p \in Live
  <2>1. PICK next : next = Filing("insert", c, p, w)
    OBVIOUS
  <2>2. /\ next \in WorkType /\ next.op = "insert" /\ next.node = c /\ next.parent = p
        /\ next.under = row[p] /\ next.ws = w /\ Tidy(row[p])
    BY <1>2, <1>3, <2>1, Parts, FilingIs, RowsAre
  <2> HIDE DEF p
  <2>3. IsFiling(next) /\ next.node = work[r].node
    BY <2>2 DEF IsFiling
  <2>4. WorkHolds(next)'
    <3>1. WorkHolds(next)
      BY <1>2, <2>2 DEF WorkHolds, IsFiling
    <3> QED BY <1>1, <1>2, <2>2, <3>1 DEF WorkHolds
  <2> QED BY <1>1, <1>2, <1>3, <2>1, <2>2, <2>3, <2>4, ReadKeeps
<1>4. CASE p \notin Live
  <2> HIDE DEF p
  <2>1. work' = [work EXCEPT ![r] = NoWork] /\ treeStale' = TRUE
    BY <1>1, <1>4
  <2>2. WorkHolds(NoWork)'
    BY NoWorkHolds DEF WorkHolds, NoWork, IsFiling
  <2>3. \A q \in Workers : IsFiling(work[q]) =>
          row'[work[q].node] = None /\ home'[work[q].node] = home[work[q].node]
    BY <1>1, Parts DEF WorkHolds
  <2>4. WorkPart' /\ work' \in [Workers -> WorkType]
    BY <1>1, <2>1, <2>2, <2>3, Parts, NoWorkHolds, WorkKeeps
  <2>5. TreeTypeOK'
    BY <1>1, <2>1, <2>4, Parts DEF TreeTypeOK, Live
  <2>6. RowsHold'
    BY <1>1, Parts DEF RowsHold, Live
  <2> QED BY <2>1, <2>4, <2>5, <2>6 DEF TreeInv, Sound
<1> QED BY <1>3, <1>4

LEMMA ReadForMoveKeeps ==
  ASSUME TreeInv, NEW r \in Workers, NEW n \in Nodes, NEW p \in Nodes, ReadForMove(r, n, p) PROVE TreeInv'
<1>1. /\ n \in Live \ {Root} /\ p \in Live /\ CanParent(p, n) /\ ~Inside(Filing("move", n, p, None))
      /\ work[r] = NoWork /\ work' = [work EXCEPT ![r] = Filing("move", n, p, None)]
      /\ UNCHANGED <<row, home, shares, used, treeStale, crossed, unfiled>>
  BY DEF ReadForMove, Reads, Call
<1>2. PICK next : next = Filing("move", n, p, None)
  OBVIOUS
<1>3. /\ next \in WorkType /\ next.op = "move" /\ next.node = n /\ next.seen = row[n] /\ next.parent = p
      /\ next.under = row[p] /\ Tidy(row[n]) /\ Tidy(row[p])
  BY <1>1, <1>2, Parts, FilingIs, RowsAre
<1>4. WorkHolds(next)' /\ ~IsFiling(next) /\ ~IsFiling(work[r])
  BY <1>1, <1>2, <1>3, NoWorkHolds DEF WorkHolds, IsFiling
<1> QED BY <1>1, <1>2, <1>3, <1>4, ReadKeeps

LEMMA ReadForDeleteKeeps ==
  ASSUME TreeInv, NEW r \in Workers, NEW g \in Groups, ReadForDelete(r, g) PROVE TreeInv'
<1>1. /\ g \in Live /\ work[r] = NoWork
      /\ work' = [work EXCEPT ![r] = Filing("delete", g, row[g].parent, None)]
      /\ UNCHANGED <<row, home, shares, used, treeStale, crossed, unfiled>>
  BY DEF ReadForDelete, Reads, Call
<1>2. PICK next : next = Filing("delete", g, row[g].parent, None)
  OBVIOUS
<1>3. g \in Nodes /\ row[g].parent \in Nodes
  BY <1>1, Parts, RowsAre, Kinds
<1>4. next \in WorkType /\ next.op = "delete" /\ next.node = g /\ next.seen = row[g] /\ Tidy(row[g])
  BY <1>1, <1>2, <1>3, Parts, FilingIs, RowsAre
<1>5. WorkHolds(next)' /\ ~IsFiling(next) /\ ~IsFiling(work[r])
  BY <1>1, <1>4, NoWorkHolds DEF WorkHolds, IsFiling
<1> QED BY <1>1, <1>2, <1>4, <1>5, ReadKeeps

(* A grant that may be given, looked up by r.                               *)
LEMMA GrantRead ==
  ASSUME TreeInv, NEW r \in Workers, NEW n \in Nodes, NEW p \in Groups, MayGrant(n, p),
         ~IsFiling(work[r]), work' = [work EXCEPT ![r] = Filing("grant", n, p, None)],
         UNCHANGED <<row, home, shares, used, treeStale, crossed, unfiled>>
  PROVE  TreeInv'
<1>1. PICK next : next = Filing("grant", n, p, None)
  OBVIOUS
<1>2. n \in Live /\ p \in Live /\ p \in Nodes /\ (row[n].ws # None => row[p].ws = row[n].ws)
  BY Kinds DEF MayGrant
<1>3. /\ next \in WorkType /\ next.op = "grant" /\ next.node = n /\ next.seen = row[n] /\ next.parent = p
      /\ next.under = row[p] /\ Tidy(row[n]) /\ Tidy(row[p])
  BY <1>1, <1>2, Parts, FilingIs, RowsAre
<1>4. WorkHolds(next)' /\ ~IsFiling(next)
  BY <1>2, <1>3 DEF WorkHolds, IsFiling
<1> QED BY <1>1, <1>3, <1>4, ReadKeeps

LEMMA ReadForGrantKeeps ==
  ASSUME TreeInv, NEW r \in Workers, NEW n \in Nodes, NEW p \in Groups, ReadForGrant(r, n, p) PROVE TreeInv'
<1>1. /\ MayGrant(n, p) /\ work[r] = NoWork /\ work' = [work EXCEPT ![r] = Filing("grant", n, p, None)]
      /\ UNCHANGED <<row, home, shares, used, treeStale, crossed, unfiled>>
  BY DEF ReadForGrant, Reads, Call
<1>2. ~IsFiling(work[r])
  BY <1>1, NoWorkHolds
<1> QED BY <1>1, <1>2, GrantRead

LEMMA ReadForShareKeeps ==
  ASSUME TreeInv, NEW r \in Workers, ReadForShare(r) PROVE TreeInv'
<1>1. /\ work[r].op = "share" /\ UNCHANGED <<row, home, shares, used, treeStale, crossed, unfiled>>
      /\ work' = [work EXCEPT ![r] = IF MayGrant(work[r].node, work[r].node)
                                     THEN Filing("grant", work[r].node, work[r].node, None) ELSE NoWork]
  BY DEF ReadForShare, Acts, Call
<1>2. ~IsFiling(work[r])
  BY <1>1 DEF IsFiling
<1>3. PICK g \in Groups : g = work[r].node
  BY <1>1, Parts DEF WorkHolds
<1>4. CASE MayGrant(g, g)
  BY <1>1, <1>2, <1>3, <1>4, GrantRead, Kinds
<1>5. CASE ~MayGrant(g, g)
  <2>1. work' = [work EXCEPT ![r] = NoWork]
    BY <1>1, <1>3, <1>5
  <2>2. WorkHolds(NoWork)' /\ NoWork \in WorkType /\ ~IsFiling(NoWork)
    BY NoWorkHolds DEF WorkHolds, NoWork, IsFiling
  <2> QED BY <1>1, <1>2, <2>1, <2>2, ReadKeeps
<1> QED BY <1>4, <1>5

-----------------------------------------------------------------------------
LEMMA CreateWorkspaceKeeps ==
  ASSUME TreeInv, NEW w \in Spaces, CreateWorkspace(w) PROVE TreeInv'
<1>1. /\ w \notin used /\ used' = used \cup {w}
      /\ row' = [row EXCEPT ![w] = Row(Root, Append(row[Root].path, w), w)]
      /\ UNCHANGED <<home, shares, work, treeStale, crossed, unfiled>>
  BY DEF CreateWorkspace
<1> DEFINE new == Row(Root, Append(row[Root].path, w), w)
<1>2. /\ w \in Nodes \ {Root} /\ row[w] = None /\ w \notin Groups \cup Connections
      /\ Root \in Live /\ Root \in Nodes /\ CanParent(Root, w) /\ w \in Spaces \cup {None}
  BY <1>1, Parts, Kinds, RootRow, TreeAssumption DEF CanParent
<1>3. Tidy(new) /\ new.parent \in Nodes
  <2>1. row[Root].path \in Seq(Nodes)
    BY Parts, <1>2, RowsAre
  <2> QED BY <1>2, <2>1, RowTidy DEF Row
<1> HIDE DEF new
<1>4. RowsHold' /\ Live' = Live \cup {w} /\ \A n \in Nodes \ {w} : row'[n] = row[n]
  BY <1>1, <1>2, <1>3, Parts, Added DEF new
<1>5. WorkPart' /\ work' \in [Workers -> WorkType]
  <2>1. ASSUME NEW q \in Workers, IsFiling(work[q]) PROVE row'[work[q].node] = None
    BY <1>2, <1>4, <2>1, Parts, Kinds DEF WorkHolds
  <2>2. \A q \in Workers : IsFiling(work[q]) /\ work[q].node \in Connections =>
          home'[work[q].node] \in {home[work[q].node], None}
    BY <1>1
  <2> QED BY <1>1, <2>1, <2>2, Parts, WorkStays
<1>6. TreeTypeOK'
  BY <1>1, <1>4, <1>5, Parts DEF TreeTypeOK, RowsHold
<1>7. Sound'
  <2>1. SUFFICES ASSUME ~treeStale
                 PROVE  AllChained' /\ GrantsHeld' /\ (~crossed' => AllHomed' /\ AllMirrored')
    BY <1>1 DEF Sound
  <2>2. AllChained /\ GrantsHeld /\ (~crossed => AllHomed /\ AllMirrored)
    BY <2>1, Parts DEF Sound
  <2>3. AllChained' /\ GrantsHeld' /\ (~crossed' => AllHomed')
    BY <1>1, <1>2, <2>2, Parts, AddSound
  <2>4. ASSUME ~crossed', NEW c \in Connections PROVE Mirrored(c)'
    <3>1. (c \in Live' <=> c \in Live) /\ row'[c] = row[c]
      BY <1>2, <1>4, Kinds
    <3> QED BY <1>1, <2>2, <2>4, <3>1 DEF Mirrored, AllMirrored, FilersOf
  <2> QED BY <2>3, <2>4 DEF AllMirrored
<1> QED BY <1>4, <1>5, <1>6, <1>7 DEF TreeInv

LEMMA InsertKeeps ==
  ASSUME TreeInv, NEW r \in Workers, Insert(r) PROVE TreeInv'
<1> DEFINE c == work[r]
           n == c.node
           p == c.parent
           path == Append(c.under.path, n)
           new == Row(p, path, c.ws)
<1>1. /\ c.op = "insert" /\ row' = [row EXCEPT ![n] = new]
      /\ work' = [work EXCEPT ![r] = IF n \in Groups THEN Filing("share", n, n, None) ELSE NoWork]
      /\ treeStale' = (treeStale \/ ~Fresh(c) \/ (n \in Connections /\ home[n] = None))
      /\ crossed' = (crossed \/ c.ws # c.under.ws)
      /\ UNCHANGED <<home, shares, used, unfiled>>
  BY DEF Insert, Acts, Call
<1>2. /\ IsFiling(c) /\ n \in (Groups \cup Connections) \cap used /\ row[n] = None
      /\ p \in Spaces \cup Groups /\ c.ws \in Spaces \cup {None} /\ Tidy(c.under)
      /\ n \in Connections => home[n] \in {c.ws, None}
  BY <1>1, Parts DEF WorkHolds, IsFiling
<1>3. n \in Nodes \ {Root} /\ p \in Nodes /\ p # Root /\ CanParent(p, n)
  BY <1>2, Kinds DEF CanParent
<1>4. Tidy(new) /\ new.parent \in Nodes /\ new.ws = c.ws
  BY <1>2, <1>3, RowTidy, Tidies DEF Row
<1>5. PICK next : next = IF n \in Groups THEN Filing("share", n, n, None) ELSE NoWork
  OBVIOUS
<1>6. next \in WorkType /\ ~IsFiling(next) /\ WorkHolds(next)'
  <2>1. CASE n \in Groups
    <3>1. next = Filing("share", n, n, None)
      BY <1>5, <2>1
    <3>2. next \in WorkType /\ next.op = "share" /\ next.node = n
      BY <1>3, <3>1, Parts, FilingIs
    <3> QED BY <2>1, <3>2 DEF WorkHolds, IsFiling
  <2>2. CASE n \notin Groups
    BY <1>5, <2>2, NoWorkHolds DEF WorkHolds, NoWork, IsFiling
  <2> QED BY <2>1, <2>2
<1> HIDE DEF new, path
<1>7. RowsHold' /\ row'[n] = new /\ Live' = Live \cup {n} /\ \A m \in Nodes \ {n} : row'[m] = row[m]
  BY <1>1, <1>3, <1>4, Parts, Added
<1>8. ASSUME NEW q \in Workers \ {r}, IsFiling(work[q])
      PROVE  row'[work[q].node] = None /\ work[q].node # n
  <2>1. work[q].node \in Nodes /\ row[work[q].node] = None
    BY <1>8, Parts, Kinds DEF WorkHolds
  <2>2. work[q].node # n
    BY <1>2, <1>3, <1>8, Parts DEF WorkPart, FiledOnce, FilersOf
  <2> QED BY <1>7, <2>1, <2>2
<1>9. WorkPart' /\ work' \in [Workers -> WorkType]
  <2>1. \A q \in Workers \ {r} : IsFiling(work[q]) /\ work[q].node \in Connections =>
          home'[work[q].node] \in {home[work[q].node], None}
    BY <1>1
  <2>2. work' = [work EXCEPT ![r] = next]
    BY <1>1, <1>5
  <2> QED BY <1>1, <1>6, <1>8, <2>1, <2>2, Parts, WorkKeeps
<1>10. TreeTypeOK'
  <2>1. treeStale' \in BOOLEAN /\ crossed' \in BOOLEAN
    BY <1>1
  <2> QED BY <1>1, <1>2, <1>7, <1>9, <2>1, Parts DEF TreeTypeOK, RowsHold
<1>11. ASSUME ~treeStale'
       PROVE  AllChained' /\ GrantsHeld' /\ (~crossed' => AllHomed' /\ AllMirrored')
  <2>1. ~treeStale /\ row[p] = c.under /\ p \in Live /\ (n \in Connections => home[n] # None)
    BY <1>1, <1>2, <1>3, <1>11, Parts, Tidies DEF Fresh
  <2>2. AllChained /\ GrantsHeld /\ (~crossed => AllHomed /\ AllMirrored)
    BY <2>1, Parts DEF Sound
  <2>3. row' = [row EXCEPT ![n] = Row(p, Append(row[p].path, n), c.ws)]
    BY <1>1, <2>1 DEF new, path
  <2>4. AllChained' /\ GrantsHeld' /\ (~crossed' => AllHomed')
    <3>1. ~crossed' => c.ws = IF p = Root THEN n ELSE row[p].ws
      BY <1>1, <1>3, <2>1
    <3>2. crossed => crossed'
      BY <1>1
    <3>3. PICK ws \in Spaces \cup {None} : ws = c.ws
      BY <1>2
    <3>4. row' = [row EXCEPT ![n] = Row(p, Append(row[p].path, n), ws)]
      BY <2>3, <3>3
    <3>5. ~crossed' => ws = IF p = Root THEN n ELSE row[p].ws
      BY <3>1, <3>3
    <3> HIDE DEF c, n, p
    <3> QED BY <1>1, <1>2, <1>3, <2>1, <2>2, <3>2, <3>4, <3>5, Parts, AddSound
  <2>5. ASSUME ~crossed', NEW d \in Connections PROVE Mirrored(d)'
    <3>1. CASE d = n
      BY <1>1, <1>2, <1>4, <1>7, <2>1, <3>1 DEF Mirrored
    <3>2. CASE d # n
      <4>1. (d \in Live' <=> d \in Live) /\ row'[d] = row[d] /\ Mirrored(d)
        BY <1>1, <1>7, <2>2, <2>5, <3>2, Kinds DEF AllMirrored
      <4>2. FilersOf(d) # {} => FilersOf(d)' # {}
        BY <1>1, <3>2, Parts, FilersStay
      <4> QED BY <1>1, <4>1, <4>2 DEF Mirrored
    <3> QED BY <3>1, <3>2
  <2> QED BY <2>4, <2>5 DEF AllMirrored
<1> QED BY <1>7, <1>9, <1>10, <1>11 DEF TreeInv, Sound

LEMMA MoveNodeKeeps ==
  ASSUME TreeInv, NEW r \in Workers, MoveNode(r) PROVE TreeInv'
<1> DEFINE c == work[r]
<1>1. /\ c.op = "move" /\ work' = [work EXCEPT ![r] = NoWork]
      /\ row' = IF row[c.node] = None THEN row ELSE Moved(c)
      /\ treeStale' = (treeStale \/ ~Fresh(c)) /\ crossed' = (crossed \/ c.seen.ws # c.under.ws)
      /\ UNCHANGED <<home, shares, used, unfiled>>
  BY DEF MoveNode, Acts
<1>2. /\ c.node \in Nodes \ {Root} /\ c.parent \in Nodes /\ CanParent(c.parent, c.node)
      /\ Tidy(c.seen) /\ Tidy(c.under) /\ ~Inside(c) /\ ~IsFiling(c)
  BY <1>1, Parts DEF WorkHolds, IsFiling
<1> HIDE DEF c
<1>3. RowsHold' /\ Live' = Live /\ \A n \in Nodes : row[n] = None => row'[n] = None
  <2>1. CASE row[c.node] = None
    BY <1>1, <2>1, Parts DEF RowsHold, Live
  <2>2. CASE row[c.node] # None
    BY <1>1, <1>2, <2>2, Parts, MovedRows
  <2> QED BY <2>1, <2>2
<1>4. \A q \in Workers : IsFiling(work[q]) =>
        row'[work[q].node] = None /\ home'[work[q].node] = home[work[q].node]
  BY <1>1, <1>3, Parts, Kinds DEF WorkHolds
<1>5. WorkPart' /\ work' \in [Workers -> WorkType]
  <2>1. WorkHolds(NoWork)'
    BY NoWorkHolds DEF WorkHolds, NoWork, IsFiling
  <2> QED BY <1>1, <1>4, <2>1, Parts, NoWorkHolds, WorkKeeps
<1>6. TreeTypeOK'
  <2>1. treeStale' \in BOOLEAN /\ crossed' \in BOOLEAN
    BY <1>1
  <2> QED BY <1>1, <1>3, <1>5, <2>1, Parts DEF TreeTypeOK, RowsHold
<1>7. ASSUME ~treeStale'
      PROVE  AllChained' /\ GrantsHeld' /\ (~crossed' => AllHomed' /\ AllMirrored')
  <2>1. /\ ~treeStale /\ row[c.node] = c.seen /\ row[c.parent] = c.under
        /\ c.node \in Live \ {Root} /\ c.parent \in Live
    BY <1>1, <1>2, <1>7, Parts, Tidies DEF Fresh
  <2>2. AllChained /\ GrantsHeld /\ (~crossed => AllHomed /\ AllMirrored)
    BY <2>1, Parts DEF Sound
  <2>3. row' = Moved(c)
    BY <1>1, <2>1, Parts
  <2>4. /\ AllChained' /\ GrantsHeld'
        /\ ~crossed' => AllHomed' /\ \A m \in Live : row'[m].ws = row[m].ws
    BY <1>1, <1>2, <2>1, <2>2, <2>3, Parts, MoveSound
  <2>5. ASSUME ~crossed', NEW d \in Connections PROVE Mirrored(d)'
    <3>1. FilersOf(d) # {} => FilersOf(d)' # {}
      BY <1>1, <1>2, Parts, FilersStay DEF c
    <3>2. Mirrored(d) /\ (d \in Live => row'[d].ws = row[d].ws)
      BY <1>1, <2>2, <2>4, <2>5 DEF AllMirrored
    <3> QED BY <1>1, <1>3, <3>1, <3>2 DEF Mirrored
  <2> QED BY <2>4, <2>5 DEF AllMirrored
<1> QED BY <1>3, <1>5, <1>6, <1>7 DEF TreeInv, Sound

(* Nodes go, and the connections whose rows go with them.                   *)
LEMMA DropKeeps ==
  ASSUME TreeInv, NEW D, Root \notin D, DropNodes(D), used' = used, WorkPart',
         work' \in [Workers -> WorkType], home' \in [Connections -> Spaces \cup {None}],
         treeStale' \in BOOLEAN, treeStale => treeStale', crossed' = crossed, unfiled' = unfiled,
         NEW n \in Live, ~treeStale' => D = Subtree(n, row[n]) \/ D = {},
         ~treeStale' /\ ~crossed' => \A c \in Connections : Mirrored(c)'
  PROVE  TreeInv'
<1>1. RowsHold' /\ Live' = Live \ D /\ \A m \in Live \ D : row'[m] = row[m]
  BY Parts, Dropped DEF DropNodes
<1>2. shares' \subseteq shares
  BY DEF DropNodes
<1>3. TreeTypeOK'
  BY <1>1, <1>2, Parts DEF TreeTypeOK, RowsHold
<1>4. ASSUME ~treeStale'
      PROVE  AllChained' /\ GrantsHeld' /\ (~crossed' => AllHomed' /\ AllMirrored')
  <2>1. AllChained /\ GrantsHeld /\ (~crossed => AllHomed /\ AllMirrored)
    BY <1>4, Parts DEF Sound
  <2>2. AllChained' /\ GrantsHeld' /\ (~crossed' => AllHomed')
    BY <1>4, <2>1, Parts, DropSound
  <2> QED BY <1>4, <2>2 DEF AllMirrored
<1> QED BY <1>1, <1>3, <1>4 DEF TreeInv, Sound

LEMMA DropLeaves ==
  ASSUME TreeInv, NEW D, DropNodes(D)
  PROVE  /\ \A n \in Nodes : row[n] = None => row'[n] = None
         /\ \A n \in Nodes : n \notin D => row'[n] = row[n]
         /\ \A n \in Nodes \cap D : row'[n] = None
         /\ Live' = Live \ D
BY Parts DEF DropNodes, Live

LEMMA DeleteGroupKeeps ==
  ASSUME TreeInv, NEW r \in Workers, DeleteGroup(r) PROVE TreeInv'
<1> DEFINE c == work[r]
           D == Subtree(c.node, c.seen)
<1>1. /\ c.op = "delete" /\ work' = [work EXCEPT ![r] = NoWork] /\ DropNodes(D)
      /\ treeStale' = (treeStale \/ row[c.node] # c.seen \/ ChildrenOf(c.node) # {})
      /\ UNCHANGED <<home, used, crossed, unfiled>>
  BY DEF DeleteGroup, Acts
<1>2. c.node \in Groups /\ c.node \in Nodes \ {Root} /\ Tidy(c.seen) /\ ~IsFiling(c)
  BY <1>1, Parts, Kinds DEF WorkHolds, IsFiling
<1>3. Root \notin D
  BY <1>2, Parts, RootStays
<1>4. WorkPart' /\ work' \in [Workers -> WorkType]
  <2>1. \A q \in Workers : IsFiling(work[q]) =>
          row'[work[q].node] = None /\ home'[work[q].node] = home[work[q].node]
    BY <1>1, Parts, Kinds, DropLeaves DEF WorkHolds
  <2>2. WorkHolds(NoWork)'
    BY NoWorkHolds DEF WorkHolds, NoWork, IsFiling
  <2> QED BY <1>1, <2>1, <2>2, Parts, NoWorkHolds, WorkKeeps
<1>5. ASSUME ~treeStale' PROVE c.node \in Live /\ D = Subtree(c.node, row[c.node]) /\ D \cap Connections = {}
  <2>1. ~treeStale /\ row[c.node] = c.seen /\ ChildrenOf(c.node) = {}
    BY <1>1, <1>5
  <2>2. c.node \in Live /\ AllChained
    BY <1>2, <2>1, Parts, Tidies DEF Sound
  <2>3. ASSUME NEW m \in Live, RunsThrough(row[m], c.seen) PROVE FALSE
    <3>1. PICK x \in Live : row[x].parent = c.node
      BY <2>1, <2>2, <2>3, Parts, HasChild
    <3> QED BY <2>1, <3>1 DEF ChildrenOf
  <2>4. D \subseteq {c.node}
    BY <2>3 DEF Subtree
  <2>5. c.node \notin Connections
    BY <1>2, TreeAssumption
  <2> QED BY <2>1, <2>2, <2>4, <2>5
<1> HIDE DEF D
<1>6. ASSUME ~treeStale', ~crossed', NEW d \in Connections PROVE Mirrored(d)'
  <2>1. Mirrored(d)
    BY <1>1, <1>6, Parts DEF Sound, AllMirrored
  <2>2. (d \in Live' <=> d \in Live) /\ row'[d] = row[d]
    BY <1>1, <1>5, <1>6, DropLeaves, Kinds
  <2>3. FilersOf(d) # {} => FilersOf(d)' # {}
    BY <1>1, <1>2, Parts, FilersStay
  <2> QED BY <1>1, <2>1, <2>2, <2>3 DEF Mirrored
<1>7. /\ home' \in [Connections -> Spaces \cup {None}] /\ treeStale' \in BOOLEAN /\ (treeStale => treeStale')
  BY <1>1, Parts DEF TreeTypeOK
<1>8. CASE treeStale'
  BY <1>1, <1>3, <1>4, <1>7, <1>8, Parts, RootRow, DropKeeps
<1>9. CASE ~treeStale'
  BY <1>1, <1>3, <1>4, <1>5, <1>6, <1>7, <1>9, DropKeeps
<1> QED BY <1>8, <1>9

LEMMA DropTreeKeeps ==
  ASSUME TreeInv, NEW w \in Spaces, DropTree(w) PROVE TreeInv'
<1> DEFINE D == Subtree(w, row[w])
<1>1. /\ w \in Live /\ DropNodes(D)
      /\ home' = [c \in Connections |-> IF home[c] = w THEN None ELSE home[c]]
      /\ UNCHANGED <<used, work, treeStale, crossed, unfiled>>
  BY DEF DropTree
<1>2. Root \notin D
  BY <1>1, Parts, Kinds, RowsAre, RootStays
<1>3. /\ \A c \in Connections : home'[c] = IF home[c] = w THEN None ELSE home[c]
      /\ home' \in [Connections -> Spaces \cup {None}] /\ treeStale' \in BOOLEAN
  BY <1>1, Parts DEF TreeTypeOK
<1>4. WorkPart' /\ work' \in [Workers -> WorkType]
  <2>1. \A q \in Workers : IsFiling(work[q]) => row'[work[q].node] = None
    BY <1>1, Parts, Kinds, DropLeaves DEF WorkHolds
  <2>2. \A q \in Workers : IsFiling(work[q]) /\ work[q].node \in Connections =>
          home'[work[q].node] \in {home[work[q].node], None}
    BY <1>3
  <2> QED BY <1>1, <2>1, <2>2, Parts, WorkStays
<1> HIDE DEF D
<1>5. ASSUME ~treeStale', ~crossed', NEW c \in Connections PROVE Mirrored(c)'
  <2>1. /\ AllChained /\ AllHomed /\ Mirrored(c) /\ RowsHold
        /\ c \notin Spaces /\ c # Root /\ w # Root /\ w \in Nodes /\ w # None /\ c \in Nodes
    BY <1>1, <1>5, Parts, Kinds, TreeAssumption DEF Sound, AllMirrored
  <2>2. FilersOf(c)' = FilersOf(c)
    BY <1>1 DEF FilersOf
  <2>3. CASE c \in Live
    <3>1. row[c].ws = home[c] /\ row[c].ws = row[c].path[2] /\ home[c] # None
      BY <2>1, <2>3 DEF Mirrored, AllHomed, Homed
    <3>2. /\ row[w].path[1] = Root /\ row[w].path[2] = w /\ Len(row[w].path) = 2
          /\ row[c].path[1] = Root
      BY <1>1, <2>1, <2>3, SecondIsSpace
    <3>3. Len(row[c].path) \in Nat /\ Len(row[c].path) > 1
      BY <2>1, <2>3, RowsAre, Chains DEF AllChained
    <3>4. Starts(row[c].path, row[w].path) <=> row[c].path[2] = w
      <4>1. \A j \in 1..2 : j = 1 \/ j = 2
        OBVIOUS
      <4> QED BY <3>2, <3>3, <4>1 DEF Starts
    <3>5. c \in D <=> home[c] = w
      BY <1>1, <2>1, <2>3, <3>1, <3>4, SubtreeIs DEF D, AllChained
    <3>6. /\ c \in Nodes /\ home'[c] = (IF home[c] = w THEN None ELSE home[c])
          /\ \A n \in Nodes : n \notin D => row'[n] = row[n]
          /\ Live' = Live \ D
      BY <1>1, <1>3, <2>1, DropLeaves
    <3>7. CASE c \in D
      BY <3>5, <3>6, <3>7 DEF Mirrored
    <3>8. CASE c \notin D
      <4>1. c \in Live' /\ row'[c] = row[c] /\ home'[c] = home[c]
        BY <2>3, <3>5, <3>6, <3>8
      <4> QED BY <3>1, <4>1 DEF Mirrored
    <3> QED BY <3>7, <3>8
  <2>4. CASE c \notin Live
    <3>1. c \notin Live' /\ home'[c] \in {home[c], None}
      BY <1>1, <1>3, <2>4, DropLeaves
    <3> QED BY <1>1, <2>1, <2>2, <2>4, <3>1 DEF Mirrored
  <2> QED BY <2>3, <2>4
<1> QED BY <1>1, <1>2, <1>3, <1>4, <1>5, DropKeeps DEF D

LEMMA DeleteConnectionKeeps ==
  ASSUME TreeInv, NEW c \in Connections, DeleteConnection(c) PROVE TreeInv'
<1> DEFINE D == IF c \in Live THEN Subtree(c, row[c]) ELSE {}
<1>1. /\ DropNodes(D) /\ home' = [home EXCEPT ![c] = None]
      /\ UNCHANGED <<used, work, treeStale, crossed, unfiled>>
  BY DEF DeleteConnection
<1>2. c \in Nodes \ {Root}
  BY Kinds
<1>3. Root \notin D
  BY <1>2, Parts, RowsAre, RootStays
<1>4. /\ home'[c] = None /\ \A d \in Connections \ {c} : home'[d] = home[d]
      /\ home' \in [Connections -> Spaces \cup {None}] /\ treeStale' \in BOOLEAN
  BY <1>1, Parts DEF TreeTypeOK
<1>5. WorkPart' /\ work' \in [Workers -> WorkType]
  <2>1. \A q \in Workers : IsFiling(work[q]) => row'[work[q].node] = None
    BY <1>1, Parts, Kinds, DropLeaves DEF WorkHolds
  <2>2. \A q \in Workers : IsFiling(work[q]) /\ work[q].node \in Connections =>
          home'[work[q].node] \in {home[work[q].node], None}
    BY <1>4
  <2> QED BY <1>1, <2>1, <2>2, Parts, WorkStays
<1>6. ASSUME ~treeStale', ~crossed', NEW d \in Connections PROVE Mirrored(d)'
  <2>1. AllChained /\ AllMirrored /\ RowsHold
    BY <1>1, <1>6, Parts DEF Sound
  <2>2. FilersOf(d)' = FilersOf(d)
    BY <1>1 DEF FilersOf
  <2>3. D \subseteq {c}
    <3>1. ASSUME c \in Live, NEW m \in Live, RunsThrough(row[m], row[c]) PROVE FALSE
      <4>1. PICK x \in Live : x # Root /\ row[x].parent = c
        BY <2>1, <3>1, HasChild
      <4>2. CanParent(c, x) /\ x \in Nodes
        BY <2>1, <4>1, Chains, RowsAre DEF AllChained
      <4> QED BY <1>2, <4>2, Kinds
    <3> QED BY <3>1 DEF Subtree
  <2>4. CASE d = c
    <3>1. c \notin Live'
      <4>1. c \in Live => c \in D
        BY DEF Subtree
      <4> QED BY <1>1, <4>1, DropLeaves
    <3> QED BY <1>4, <2>4, <3>1 DEF Mirrored
  <2>5. CASE d # c
    <3>1. (d \in Live' <=> d \in Live) /\ row'[d] = row[d]
      BY <1>1, <2>3, <2>5, DropLeaves, Kinds
    <3> QED BY <1>1, <1>4, <2>1, <2>2, <2>5, <3>1 DEF Mirrored, AllMirrored
  <2> QED BY <2>4, <2>5
<1>7. PICK n \in Live : D = Subtree(n, row[n]) \/ D = {}
  BY Parts, RootRow
<1> HIDE DEF D
<1> QED BY <1>1, <1>3, <1>4, <1>5, <1>6, <1>7, DropKeeps

LEMMA AddShareKeeps ==
  ASSUME TreeInv, NEW r \in Workers, AddShare(r) PROVE TreeInv'
<1> DEFINE c == work[r]
<1>1. /\ c.op = "grant" /\ work' = [work EXCEPT ![r] = NoWork]
      /\ shares' = shares \cup {<<c.node, c.parent>>} /\ treeStale' = (treeStale \/ ~Fresh(c))
      /\ UNCHANGED <<row, home, used, crossed, unfiled>>
  BY DEF AddShare, Acts
<1>2. /\ c.node \in Nodes /\ c.parent \in Groups /\ Tidy(c.seen) /\ Tidy(c.under) /\ ~IsFiling(c)
      /\ c.seen.ws # None => c.under.ws = c.seen.ws
  BY <1>1, Parts DEF WorkHolds, IsFiling
<1>3. WorkPart' /\ work' \in [Workers -> WorkType]
  <2>1. \A q \in Workers : IsFiling(work[q]) =>
          row'[work[q].node] = None /\ home'[work[q].node] = home[work[q].node]
    BY <1>1, Parts DEF WorkHolds
  <2>2. WorkHolds(NoWork)'
    BY NoWorkHolds DEF WorkHolds, NoWork, IsFiling
  <2> QED BY <1>1, <2>1, <2>2, Parts, NoWorkHolds, WorkKeeps
<1>4. TreeTypeOK' /\ RowsHold'
  BY <1>1, <1>2, <1>3, Parts DEF TreeTypeOK, RowsHold, Live
<1>5. ASSUME ~treeStale' PROVE GrantsHeld'
  <2>1. ~treeStale /\ row[c.node] = c.seen /\ row[c.parent] = c.under /\ c.parent \in Nodes
    BY <1>1, <1>2, <1>5, Kinds DEF Fresh
  <2>2. c.node \in Live /\ c.parent \in Live /\ row[c.node].ws \in {row[c.parent].ws, None}
    BY <1>2, <2>1, Tidies DEF Live
  <2>3. PICK g : g = <<c.node, c.parent>>
    OBVIOUS
  <2>4. g[1] = c.node /\ g[2] = c.parent
    BY <2>3
  <2>5. GrantsHeld
    BY <2>1, Parts DEF Sound
  <2>6. \A h \in shares' : h \in shares \/ h = g
    BY <1>1, <2>3
  <2> HIDE DEF c
  <2> QED BY <1>1, <2>2, <2>4, <2>5, <2>6 DEF GrantsHeld, Live
<1>6. ASSUME AllMirrored PROVE AllMirrored'
  <2>1. ASSUME NEW d \in Connections PROVE Mirrored(d)'
    <3>1. FilersOf(d) # {} => FilersOf(d)' # {}
      BY <1>1, <1>2, Parts, FilersStay
    <3> QED BY <1>1, <1>6, <3>1 DEF Mirrored, AllMirrored, Live
  <2> QED BY <2>1 DEF AllMirrored
<1>7. (treeStale => treeStale') /\ UNCHANGED <<row, crossed>>
  BY <1>1, Parts DEF TreeTypeOK
<1> HIDE DEF c
<1>8. Sound'
  <2>1. AllChained => AllChained'
    BY <1>7 DEF AllChained, Chained, Live
  <2>2. AllHomed => AllHomed'
    BY <1>7 DEF AllHomed, Homed, Live
  <2> QED BY <1>5, <1>6, <1>7, <2>1, <2>2, Parts DEF Sound
<1> QED BY <1>3, <1>4, <1>8 DEF TreeInv

LEMMA RemoveShareKeeps ==
  ASSUME TreeInv, NEW g \in shares, RemoveShare(g) PROVE TreeInv'
<1>1. shares' \subseteq shares /\ UNCHANGED <<row, home, used, work, treeStale, crossed, unfiled>>
  BY DEF RemoveShare
<1>2. WorkPart'
  <2>1. \A q \in Workers : IsFiling(work[q]) =>
          row'[work[q].node] = None /\ home'[work[q].node] = home[work[q].node]
    BY <1>1, Parts DEF WorkHolds
  <2> QED BY <1>1, <2>1, Parts, WorkStays
<1>3. TreeTypeOK' /\ RowsHold'
  BY <1>1, Parts DEF TreeTypeOK, RowsHold, Live
<1>4. Sound'
  BY <1>1, Parts DEF Sound, AllChained, Chained, GrantsHeld, AllHomed, Homed, AllMirrored, Mirrored, FilersOf, Live
<1> QED BY <1>2, <1>3, <1>4 DEF TreeInv

LEMMA TreeRestartKeeps ==
  ASSUME TreeInv, TreeRestart PROVE TreeInv'
<1>1. /\ work' = [r \in Workers |-> NoWork]
      /\ unfiled' = unfiled \cup {c \in Connections : home[c] # None /\ row[c] = None}
      /\ UNCHANGED <<row, home, shares, used, treeStale, crossed>>
  BY DEF TreeRestart
<1>2. \A r \in Workers : work'[r] = NoWork
  BY <1>1
<1>3. WorkHolds(NoWork)' /\ ~IsFiling(NoWork) /\ NoWork \in WorkType
  BY NoWorkHolds DEF WorkHolds, NoWork, IsFiling
<1>4. WorkPart' /\ work' \in [Workers -> WorkType]
  <2>1. FiledOnce'
    BY <1>2, <1>3 DEF FiledOnce, FilersOf
  <2> QED BY <1>1, <1>2, <1>3, <2>1 DEF WorkPart
<1>5. TreeTypeOK' /\ RowsHold'
  BY <1>1, <1>4, Parts DEF TreeTypeOK, RowsHold, Live
<1>6. ASSUME AllMirrored PROVE AllMirrored'
  BY <1>1, <1>6, Parts, Kinds DEF AllMirrored, Mirrored, Live
<1>7. Sound'
  BY <1>1, <1>6, Parts DEF Sound, AllChained, Chained, GrantsHeld, AllHomed, Homed, Live
<1> QED BY <1>4, <1>5, <1>7 DEF TreeInv

LEMMA TreeStutters == TreeInv /\ UNCHANGED treeVars => TreeInv'
<1> SUFFICES ASSUME TreeInv, UNCHANGED treeVars PROVE TreeInv'
  OBVIOUS
<1>1. UNCHANGED <<row, home, shares, used, work, treeStale, crossed, unfiled>>
  BY DEF treeVars
<1>2. WorkPart'
  <2>1. \A q \in Workers : IsFiling(work[q]) =>
          row'[work[q].node] = None /\ home'[work[q].node] = home[work[q].node]
    BY <1>1, Parts DEF WorkHolds
  <2> QED BY <1>1, <2>1, Parts, WorkStays
<1>3. TreeTypeOK' /\ RowsHold'
  BY <1>1, Parts DEF TreeTypeOK, RowsHold, Live
<1>4. Sound'
  BY <1>1, Parts DEF Sound, AllChained, Chained, GrantsHeld, AllHomed, Homed, AllMirrored, Mirrored, FilersOf, Live
<1> QED BY <1>2, <1>3, <1>4 DEF TreeInv

LEMMA TreeInvInit == TreeInit => TreeInv
<1> SUFFICES ASSUME TreeInit PROVE TreeInv
  OBVIOUS
<1>1. /\ \A n \in Nodes : row[n] = IF n = Root THEN Row(None, <<Root>>, None) ELSE None
      /\ \A r \in Workers : work[r] = NoWork
      /\ work = [r \in Workers |-> NoWork]
      /\ \A c \in Connections : home[c] = None
      /\ home = [c \in Connections |-> None]
      /\ shares = {} /\ used = {Root} /\ ~treeStale /\ treeStale = FALSE /\ crossed = FALSE /\ unfiled = {}
  BY DEF TreeInit
<1>2. Row(None, <<Root>>, None) \in RowType /\ Tidy(Row(None, <<Root>>, None))
  <2>1. <<Root>> \in Seq(Nodes) /\ <<Root>> # <<>> /\ Len(<<Root>>) = 1
    BY Kinds
  <2> QED BY <2>1 DEF Row, RowType, Tidy
<1>3. Live = {Root} /\ row[Root] = Row(None, <<Root>>, None)
  BY <1>1, <1>2, Kinds, NoneIsNoRow DEF Live
<1>4. row \in [Nodes -> RowType \cup {None}]
  BY <1>2 DEF TreeInit
<1>5. RowsHold
  BY <1>2, <1>3, <1>4 DEF RowsHold
<1>6. TreeTypeOK
  BY <1>1, <1>3, <1>4, NoWorkHolds DEF TreeTypeOK
<1>7. WorkPart
  BY <1>1, NoWorkHolds DEF WorkPart, FiledOnce, FilersOf
<1>8. AllChained
  <2>1. /\ Len(row[Root].path) = 1 /\ row[Root].path[1] = Root
    BY <1>5, RootRow
  <2>2. \A i \in 1..1 : i = 1
    OBVIOUS
  <2> QED BY <1>3, <2>1, <2>2 DEF AllChained, Chained
<1>9. GrantsHeld /\ AllHomed /\ AllMirrored
  BY <1>1, <1>3, Kinds DEF GrantsHeld, AllHomed, Homed, AllMirrored, Mirrored
<1> QED BY <1>5, <1>6, <1>7, <1>8, <1>9 DEF TreeInv, Sound

LEMMA TreeInvNext == TreeInv /\ [TreeNext]_treeVars => TreeInv'
<1> SUFFICES ASSUME TreeInv, TreeNext PROVE TreeInv'
  BY TreeStutters
<1>1. CASE \E w \in Spaces : CreateWorkspace(w) \/ DropTree(w)
  BY <1>1, CreateWorkspaceKeeps, DropTreeKeeps
<1>2. CASE \E c \in Connections : DeleteConnection(c)
  BY <1>2, DeleteConnectionKeeps
<1>3. ASSUME NEW r \in Workers,
             \/ \E g \in Groups, p \in Spaces \cup Groups : ReadForGroup(r, g, p)
             \/ \E c \in Connections, w \in Spaces, p \in Spaces \cup Groups : SaveConnection(r, c, w, p)
             \/ ReadForFiling(r) \/ Insert(r)
             \/ \E n, p \in Nodes : ReadForMove(r, n, p)
             \/ MoveNode(r)
      PROVE  TreeInv'
  BY <1>3, ReadForGroupKeeps, SaveConnectionKeeps, ReadForFilingKeeps, InsertKeeps, ReadForMoveKeeps,
     MoveNodeKeeps
<1>4. ASSUME NEW r \in Workers,
             \/ \E g \in Groups : ReadForDelete(r, g)
             \/ DeleteGroup(r)
             \/ \E n \in Nodes, p \in Groups : ReadForGrant(r, n, p)
             \/ ReadForShare(r) \/ AddShare(r)
      PROVE  TreeInv'
  BY <1>4, ReadForDeleteKeeps, DeleteGroupKeeps, ReadForGrantKeeps, ReadForShareKeeps, AddShareKeeps
<1>5. CASE \E g \in shares : RemoveShare(g)
  BY <1>5, RemoveShareKeeps
<1>6. CASE TreeRestart
  BY <1>6, TreeRestartKeeps
<1> QED BY <1>1, <1>2, <1>3, <1>4, <1>5, <1>6 DEF TreeNext

LEMMA TreeInvariant == TreeSpec => []TreeInv
<1> QED BY TreeInvInit, TreeInvNext, PTL DEF TreeSpec

(* Rows, connections, grants and requests keep their shapes.                *)
THEOREM TreeTypeCorrect == TreeSpec => []TreeTypeOK
<1>1. TreeInv => TreeTypeOK
  BY DEF TreeInv
<1> QED BY <1>1, TreeInvariant, PTL

(* For any number of nodes and requests, whatever subtrees are moved and    *)
(* deleted: the path a row keeps is its parent's and the node, as long as   *)
(* no request writes on outdated reads (insertNode, moveNode, deleteNode).  *)
THEOREM PathsAreKept == TreeSpec => []PathsFollowParents
<1>1. ASSUME TreeInv PROVE PathsFollowParents
  <2>1. SUFFICES ASSUME ~treeStale, NEW n \in Live \ {Root}
                 PROVE  LET p == row[n].parent
                        IN  /\ p \in Live /\ CanParent(p, n)
                            /\ row[n].path = Append(row[p].path, n)
                            /\ row[n].depth = row[p].depth + 1
    BY DEF PathsFollowParents
  <2> DEFINE p == row[n].parent
             s == row[n].path
             q == row[p].path
  <2>2. AllChained
    BY <1>1, <2>1, Parts DEF Sound
  <2>3. /\ s \in Seq(Nodes) /\ Len(s) \in Nat /\ Len(s) > 1 /\ s[Len(s)] = n
        /\ p = s[Len(s) - 1] /\ CanParent(p, n)
    BY <1>1, <2>2, Parts, RowsAre, Chains DEF AllChained
  <2>4. p \in Live /\ Len(q) = Len(s) - 1 /\ \A j \in 1..(Len(s) - 1) : q[j] = s[j]
    <3>1. PICK i \in 1..Len(s) : i = Len(s) - 1
      <4>1. Len(s) - 1 \in 1..Len(s)
        BY <2>3
      <4> QED BY <4>1
    <3>2. Chained(n)
      BY <2>1, <2>2 DEF AllChained
    <3>3. s[i] \in Live /\ Len(row[s[i]].path) = i /\ \A j \in 1..i : row[s[i]].path[j] = s[j]
      BY <3>1, <3>2 DEF Chained
    <3>4. s[i] = p
      BY <2>3, <3>1
    <3> QED BY <3>1, <3>3, <3>4
  <2>5. q \in Seq(Nodes) /\ n \in Nodes /\ row[n].depth = Len(s) - 1 /\ row[p].depth = Len(q) - 1
    BY <1>1, <2>4, Parts, RowsAre
  <2> HIDE DEF p, q, s
  <2>6. s = Append(q, n)
    <3> DEFINE a == Append(q, n)
    <3>1. a \in Seq(Nodes) /\ Len(a) = Len(q) + 1 /\ a[Len(q) + 1] = n /\ \A j \in 1..Len(q) : a[j] = q[j]
      BY <2>5
    <3> HIDE DEF a
    <3>2. Len(a) = Len(s)
      BY <2>3, <2>4, <3>1
    <3>3. ASSUME NEW j \in 1..Len(s) PROVE s[j] = a[j]
      <4>1. j \in 1..(Len(s) - 1) \/ j = Len(s)
        BY <2>3
      <4> QED BY <2>3, <2>4, <3>1, <3>2, <4>1
    <3>4. s = a
      BY <2>3, <3>1, <3>2, <3>3, SeqEqual
    <3> QED BY <3>4 DEF a
  <2>7. row[n].depth = row[p].depth + 1
    BY <2>3, <2>4, <2>5
  <2> QED BY <2>3, <2>4, <2>6, <2>7 DEF p, q, s
<1> QED BY <1>1, TreeInvariant, PTL

(* As long as no request writes on outdated reads, a grant names a node and *)
(* a group that are there, a node of a connection its workspace, and no     *)
(* connection is without a node but while it is filed (addGrant,            *)
(* deleteNode, createResourceNode).                                         *)
THEOREM NothingIsLeftDangling == TreeSpec => []NothingDangles
<1>1. ASSUME TreeInv PROVE NothingDangles
  <2>1. GrantsStayInside
    BY <1>1, Parts DEF GrantsStayInside, Sound, GrantsHeld
  <2>2. NodesMirrorConnections
    <3>1. SUFFICES ASSUME ~treeStale, ~crossed, NEW c \in Connections
                   PROVE  IF c \in Live THEN home[c] # None /\ row[c].ws = home[c]
                          ELSE \/ home[c] = None \/ c \in unfiled
                               \/ \E r \in Workers : work[r].op \in {"file", "insert"} /\ work[r].node = c
      BY DEF NodesMirrorConnections
    <3> QED BY <1>1, <3>1, Parts DEF Sound, AllMirrored, Mirrored, FilersOf, IsFiling
  <2> QED BY <2>1, <2>2 DEF NothingDangles
<1> QED BY <1>1, TreeInvariant, PTL
-----------------------------------------------------------------------------
(***************************************************************************)
(* Why folders nest and stay within the cap: a request whose checks no      *)
(* other write has followed finds, as it writes, what they found (Meant).   *)
(* Each write then changes the way up of the folders below it alone.        *)
(***************************************************************************)

Nested(f) == Lineage(f) \subseteq Present /\ ~InCycle(f) /\ FolderDepth(f) <= MaxDepth

(* What the checks a request has made came to.                              *)
Meant(c) ==
  /\ c.op \in {"create", "file"} => c.folder = Top
  /\ c.at \in {"depth", "height"} => c.op = "move"
  /\ c.op = "create" => /\ c.to \in Present \cup {Top}
                        /\ c.at = "write" /\ c.to # Top => FolderDepth(c.to) < MaxDepth
  /\ c.op = "move" =>
       /\ c.folder \in Present /\ c.to \in (Present \cup {Top}) \ {c.folder}
       /\ c.at # "found" => c.folder \notin Lineage(c.to)
       /\ c.at = "height" => c.depth = FolderDepth(c.to)
       /\ c.at = "write" /\ c.to # Top => FolderDepth(c.to) + FolderHeight(c.folder) <= MaxDepth
  /\ c.op = "delete" => c.to = IF c.folder \in Present THEN above[c.folder] ELSE Top
  /\ c.op = "file" => c.to \in Present

Untouched(q) == filing[q] # NotFiling /\ ~filing[q].old

FoldersInv ==
  /\ FoldersTypeOK
  /\ ~overtaken =>
       /\ \A f \in Present : Nested(f)
       /\ \A i \in Items \ misfiled : filed[i] \in Present \cup {Top}
       /\ \A q \in Filers : Untouched(q) => Meant(filing[q])
-----------------------------------------------------------------------------
(* The way up, of any tree: a and P stand for above and Present, now or     *)
(* after a step.                                                            *)
IsTree(a, P) ==
  /\ P \in SUBSET Folders /\ a \in [Folders -> Folders \cup {Top, Unused}]
  /\ \A g \in P : a[g] # Unused

Climbing(a, P, S) == \A g \in S \cap P : a[g] \in S \cup {Top}

Way(a, P, f) ==
  {g \in Folders : \A S \in SUBSET Folders : f \in S \cup {Top} /\ Climbing(a, P, S) => g \in S}

Agree(a, P, b, Q, S) == \A g \in S : (g \in P <=> g \in Q) /\ (g \in P => a[g] = b[g])

LEMMA LineageIs == \A f : Lineage(f) = Way(above, Present, f)
BY DEF Lineage, Way, Climbs, Climbing

LEMMA LineageWillBe == \A f : Lineage(f)' = Way(above', Present', f)
BY DEF Lineage, Way, Climbs, Climbing

(* The least set: in any other that is closed, itself closed, and with f.   *)
LEMMA WayLeast ==
  ASSUME NEW a, NEW P, NEW f, NEW S \in SUBSET Folders, f \in S \cup {Top}, Climbing(a, P, S)
  PROVE  Way(a, P, f) \subseteq S
BY DEF Way

LEMMA WayCloses ==
  ASSUME NEW a, NEW P, IsTree(a, P), NEW f \in Folders \cup {Top}
  PROVE  /\ Way(a, P, f) \in SUBSET Folders /\ Climbing(a, P, Way(a, P, f))
         /\ f \in Way(a, P, f) \cup {Top}
         /\ f = Top => Way(a, P, f) = {}
<1>1. Way(a, P, f) \in SUBSET Folders /\ f \in Way(a, P, f) \cup {Top}
  BY DEF Way
<1>2. Climbing(a, P, Way(a, P, f))
  <2> SUFFICES ASSUME NEW g \in Way(a, P, f) \cap P, a[g] # Top PROVE a[g] \in Way(a, P, f)
    BY DEF Climbing
  <2>1. a[g] \in Folders
    BY <1>1 DEF IsTree
  <2>2. ASSUME NEW S \in SUBSET Folders, f \in S \cup {Top}, Climbing(a, P, S) PROVE a[g] \in S
    <3>1. g \in S
      BY <2>2 DEF Way
    <3> QED BY <2>2, <3>1 DEF Climbing
  <2> QED BY <2>1, <2>2 DEF Way
<1>3. f = Top => Way(a, P, f) = {}
  <2>1. Climbing(a, P, {})
    BY DEF Climbing
  <2> QED BY <2>1 DEF Way
<1> QED BY <1>1, <1>2, <1>3

(* Whoever is on the way up has its own way up on it.                       *)
LEMMA WayBeyond ==
  ASSUME NEW a, NEW P, IsTree(a, P), NEW f \in Folders \cup {Top}, NEW g \in Way(a, P, f)
  PROVE  Way(a, P, g) \subseteq Way(a, P, f)
BY WayCloses, WayLeast

(* A folder's way is itself and its parent's.                               *)
LEMMA WayStep ==
  ASSUME NEW a, NEW P, IsTree(a, P), NEW f \in P
  PROVE  /\ a[f] \in Folders \cup {Top}
         /\ Way(a, P, f) = Way(a, P, a[f]) \cup {f}
<1>1. a[f] \in Folders \cup {Top}
  BY DEF IsTree
<1>2. Way(a, P, a[f]) \subseteq Way(a, P, f)
  <2>1. CASE a[f] = Top
    BY <2>1, WayCloses
  <2>2. CASE a[f] # Top
    <3>1. f \in Folders /\ f # Top
      BY FoldersAssumption DEF IsTree
    <3>2. f \in Way(a, P, f) /\ Climbing(a, P, Way(a, P, f))
      BY <3>1, WayCloses
    <3>3. a[f] \in Way(a, P, f)
      BY <2>2, <3>2 DEF Climbing
    <3> QED BY <3>1, <3>3, WayBeyond
  <2> QED BY <2>1, <2>2
<1>3. f \in Way(a, P, f)
  BY FoldersAssumption, WayCloses DEF IsTree
<1>4. Way(a, P, f) \subseteq Way(a, P, a[f]) \cup {f}
  <2> DEFINE S == Way(a, P, a[f]) \cup {f}
  <2>1. S \in SUBSET Folders
    BY <1>1, WayCloses DEF IsTree
  <2>2. Climbing(a, P, S)
    BY <1>1, WayCloses DEF Climbing
  <2> HIDE DEF S
  <2>3. f \in S
    BY DEF S
  <2>4. Way(a, P, f) \subseteq S
    BY <2>1, <2>2, <2>3, WayLeast
  <2> QED BY <2>4 DEF S
<1> QED BY <1>1, <1>2, <1>3, <1>4

(* A way is the same in two trees that agree along it.                      *)
LEMMA WaySame ==
  ASSUME NEW a, NEW P, IsTree(a, P),
         NEW b, NEW Q, IsTree(b, Q), NEW f \in Folders \cup {Top},
         Agree(a, P, b, Q, Way(a, P, f))
  PROVE  Way(b, Q, f) = Way(a, P, f)
<1> DEFINE A == Way(a, P, f)
           B == Way(b, Q, f)
<1>1. A \in SUBSET Folders /\ B \in SUBSET Folders /\ f \in A \cup {Top} /\ f \in B \cup {Top}
      /\ Climbing(a, P, A) /\ Climbing(b, Q, B)
  BY WayCloses
<1>2. B \subseteq A
  <2>1. Climbing(b, Q, A)
    BY <1>1 DEF Climbing, Agree
  <2> HIDE DEF A
  <2> QED BY <1>1, <2>1, WayLeast
<1>3. Climbing(a, P, B)
  BY <1>1, <1>2 DEF Climbing, Agree
<1>4. A \subseteq B
  <2> HIDE DEF B
  <2> QED BY <1>1, <1>3, WayLeast
<1> QED BY <1>2, <1>4

LEMMA WaySize ==
  ASSUME NEW S \in SUBSET Folders
  PROVE  /\ IsFiniteSet(S) /\ Cardinality(S) \in Nat
         /\ Cardinality(Folders) \in Nat /\ Cardinality(S) <= Cardinality(Folders)
BY FoldersAssumption, FS_Subset, FS_CardinalityType

-----------------------------------------------------------------------------
NestedIn(a, P, f) ==
  /\ Way(a, P, f) \subseteq P /\ f \notin Way(a, P, a[f])
  /\ Cardinality(Way(a, P, f)) <= MaxDepth

AllNested(a, P) == \A f \in P : NestedIn(a, P, f)

LEMMA WayOne ==
  ASSUME NEW a, NEW P, IsTree(a, P), NEW f \in P, NestedIn(a, P, f)
  PROVE  Cardinality(Way(a, P, f)) = Cardinality(Way(a, P, a[f])) + 1
<1>1. /\ a[f] \in Folders \cup {Top} /\ Way(a, P, f) = Way(a, P, a[f]) \cup {f}
      /\ f \notin Way(a, P, a[f])
  BY WayStep DEF IsTree, NestedIn
<1>2. IsFiniteSet(Way(a, P, a[f]))
  BY <1>1, WayCloses, WaySize DEF IsTree
<1> QED BY <1>1, <1>2, FS_AddElement

(* A new folder, or none.                                                   *)
LEMMA AddedNests ==
  ASSUME NEW a, NEW P, IsTree(a, P), AllNested(a, P), NEW f \in Folders \ P,
         NEW p \in P \cup {Top}, p # Top => Cardinality(Way(a, P, p)) < MaxDepth,
         NEW b, b = [a EXCEPT ![f] = p], NEW Q, Q = P \/ Q = P \cup {f}
  PROVE  IsTree(b, Q) /\ AllNested(b, Q)
<1>1. IsTree(b, Q) /\ p # Unused /\ f # Top /\ b[f] = p /\ p # f
  BY FoldersAssumption DEF IsTree
<1>2. ASSUME NEW g \in P \cup {Top} PROVE Way(b, Q, g) = Way(a, P, g)
  <2>1. Way(a, P, g) \subseteq P
    <3>1. CASE g = Top
      BY <3>1, WayCloses DEF IsTree
    <3>2. CASE g # Top
      BY <3>2 DEF AllNested, NestedIn
    <3> QED BY <3>1, <3>2
  <2>2. Agree(a, P, b, Q, Way(a, P, g))
    BY <2>1 DEF IsTree, Agree
  <2>3. g \in Folders \cup {Top}
    BY DEF IsTree
  <2> QED
    BY <1>1, <2>2, <2>3, WaySame
<1>3. ASSUME NEW g \in P PROVE NestedIn(b, Q, g)
  <2>1. b[g] = a[g] /\ a[g] \in Folders \cup {Top} /\ NestedIn(a, P, g)
    BY WayStep DEF IsTree, AllNested
  <2>2. a[g] \in P \cup {Top}
    <3>1. a[g] \in Way(a, P, g) \cup {Top}
      BY <2>1, WayStep, WayCloses DEF IsTree
    <3> QED BY <2>1, <3>1 DEF NestedIn
  <2>3. Way(b, Q, g) = Way(a, P, g) /\ Way(b, Q, b[g]) = Way(a, P, a[g])
    BY <1>2, <2>1, <2>2
  <2> QED BY <2>1, <2>3 DEF NestedIn
<1>4. ASSUME f \in Q PROVE NestedIn(b, Q, f)
  <2>1. Way(b, Q, f) = Way(a, P, p) \cup {f} /\ Way(b, Q, p) = Way(a, P, p)
    <3>1. Way(b, Q, f) = Way(b, Q, b[f]) \cup {f}
      BY <1>1, <1>4, WayStep
    <3> QED BY <1>1, <1>2, <3>1
  <2>2. Way(a, P, p) \subseteq P /\ Cardinality(Way(a, P, p)) < MaxDepth
    <3>1. CASE p = Top
      <4>1. Way(a, P, p) = {}
        BY <3>1, WayCloses DEF IsTree
      <4> QED BY <4>1, FS_EmptySet, FoldersAssumption
    <3>2. CASE p # Top
      BY <3>2 DEF AllNested, NestedIn
    <3> QED BY <3>1, <3>2
  <2>3. IsFiniteSet(Way(a, P, p)) /\ Cardinality(Way(a, P, p)) \in Nat
    BY <2>2, WaySize, FS_CardinalityType DEF IsTree
  <2>4. Cardinality(Way(b, Q, f)) = Cardinality(Way(a, P, p)) + 1
    BY <2>1, <2>2, <2>3, FS_AddElement
  <2>5. Way(b, Q, f) \subseteq Q /\ f \notin Way(b, Q, b[f])
    BY <1>1, <1>4, <2>1, <2>2
  <2>6. Cardinality(Way(b, Q, f)) <= MaxDepth
    BY <2>2, <2>3, <2>4, FoldersAssumption
  <2> QED BY <2>5, <2>6 DEF NestedIn
<1> QED BY <1>1, <1>3, <1>4 DEF AllNested

(* A folder is hung elsewhere, with what is below it.                       *)
LEMMA MovedNests ==
  ASSUME NEW a, NEW P, IsTree(a, P), AllNested(a, P), NEW f \in P,
         NEW p \in (P \cup {Top}) \ {f}, f \notin Way(a, P, p),
         p # Top => \A g \in P : f \in Way(a, P, g) =>
           Cardinality(Way(a, P, p)) + 1 + Cardinality(Way(a, P, g)) - Cardinality(Way(a, P, f))
             <= MaxDepth,
         NEW b, b = [a EXCEPT ![f] = p]
  PROVE  IsTree(b, P) /\ AllNested(b, P)
<1>1. IsTree(b, P) /\ f \in Folders /\ f # Top /\ b[f] = p /\ p \in Folders \cup {Top}
      /\ \A g \in Folders : g # f => b[g] = a[g]
  BY FoldersAssumption DEF IsTree
<1>2. ASSUME NEW g \in P \cup {Top}, f \notin Way(a, P, g)
      PROVE  Way(b, P, g) = Way(a, P, g) /\ Way(a, P, g) \subseteq P
  <2>1. Way(a, P, g) \subseteq P
    <3>1. CASE g = Top
      BY <3>1, WayCloses DEF IsTree
    <3>2. CASE g # Top
      BY <3>2 DEF AllNested, NestedIn
    <3> QED BY <3>1, <3>2
  <2>2. Agree(a, P, b, P, Way(a, P, g))
    BY <1>1, <1>2, <2>1 DEF IsTree, Agree
  <2>3. g \in Folders \cup {Top}
    BY DEF IsTree
  <2>4. Way(b, P, g) = Way(a, P, g)
    BY <1>1, <2>2, <2>3, WaySame
  <2> QED BY <2>1, <2>4
<1>3. Way(b, P, p) = Way(a, P, p) /\ Way(a, P, p) \subseteq P
  BY <1>2
<1>4. ASSUME NEW g \in P PROVE a[g] \in P \cup {Top} /\ Way(a, P, a[g]) \subseteq Way(a, P, g)
                               /\ g \notin Way(a, P, a[g])
  <2>1. a[g] \in Folders \cup {Top} /\ Way(a, P, g) = Way(a, P, a[g]) \cup {g}
    BY WayStep DEF IsTree
  <2>2. a[g] \in Way(a, P, a[g]) \cup {Top}
    BY <2>1, WayCloses DEF IsTree
  <2> QED BY <2>1, <2>2 DEF AllNested, NestedIn
<1> DEFINE Old == Way(a, P, a[f])
           Chain(g) == {h \in Way(a, P, g) : f \in Way(a, P, h)}
<1>5. ASSUME NEW g \in P, f \in Way(a, P, g)
      PROVE  Way(b, P, g) \subseteq Chain(g) \cup Way(a, P, p)
  <2> DEFINE S == Chain(g) \cup Way(a, P, p)
  <2>1. /\ Way(a, P, g) \in SUBSET Folders /\ g \in Way(a, P, g) /\ Climbing(a, P, Way(a, P, g))
        /\ Way(a, P, p) \in SUBSET Folders /\ Climbing(a, P, Way(a, P, p))
        /\ p \in Way(a, P, p) \cup {Top}
    <3>1. g \in Folders /\ g # Top
      BY FoldersAssumption DEF IsTree
    <3> QED BY <1>1, <3>1, WayCloses DEF IsTree
  <2>2. S \in SUBSET Folders /\ g \in S
    BY <1>5, <2>1
  <2>3. ASSUME NEW h \in S \cap P PROVE b[h] \in S \cup {Top}
    <3>1. CASE h = f
      BY <1>1, <2>1, <3>1
    <3>2. CASE h # f /\ h \in Way(a, P, p)
      <4>1. a[h] \in Way(a, P, p) \cup {Top}
        BY <2>1, <2>3, <3>2 DEF Climbing
      <4> QED BY <1>1, <2>2, <2>3, <3>2, <4>1
    <3>3. CASE h # f /\ h \in Chain(g)
      <4>1. a[h] \in Way(a, P, g) \cup {Top} /\ b[h] = a[h]
        BY <1>1, <2>1, <2>2, <2>3, <3>3 DEF Climbing
      <4>2. f \in Way(a, P, a[h])
        BY <2>3, <3>3, WayStep DEF IsTree
      <4> QED BY <4>1, <4>2
    <3> QED BY <2>3, <3>1, <3>2, <3>3
  <2> HIDE DEF S
  <2>4. Climbing(b, P, S)
    BY <2>3 DEF Climbing
  <2>5. Way(b, P, g) \subseteq S
    BY <1>1, <2>2, <2>4, WayLeast DEF IsTree
  <2> QED BY <2>5 DEF S
<1>6. ASSUME NEW g \in P, f \in Way(a, P, g)
      PROVE  /\ IsFiniteSet(Chain(g)) /\ Cardinality(Chain(g)) \in Nat
             /\ Cardinality(Chain(g)) + Cardinality(Way(a, P, f)) <= Cardinality(Way(a, P, g)) + 1
  <2>1. Way(a, P, f) \subseteq Way(a, P, g) /\ Way(a, P, g) \in SUBSET Folders
        /\ Old \subseteq Way(a, P, f) /\ f \notin Old
    BY <1>1, <1>4, <1>6, WayBeyond, WayCloses DEF IsTree
  <2>2. Chain(g) \cap Old = {}
    <3> SUFFICES ASSUME NEW h \in Old, f \in Way(a, P, h) PROVE FALSE
      OBVIOUS
    <3>1. a[f] \in Folders \cup {Top}
      BY <1>4 DEF IsTree
    <3>2. Way(a, P, h) \subseteq Old
      BY <3>1, WayBeyond DEF IsTree
    <3> QED BY <2>1, <3>2
  <2>3. Chain(g) \cup Old \subseteq Way(a, P, g)
    BY <2>1
  <2>4. /\ IsFiniteSet(Chain(g)) /\ IsFiniteSet(Old) /\ IsFiniteSet(Way(a, P, g))
        /\ Cardinality(Way(a, P, f)) = Cardinality(Old) + 1
    <3>1. IsFiniteSet(Way(a, P, g))
      BY <2>1, WaySize
    <3>2. Cardinality(Way(a, P, f)) = Cardinality(Old) + 1
      BY WayOne DEF AllNested
    <3> HIDE DEF Chain, Old
    <3> QED BY <2>3, <3>1, <3>2, FS_Subset
  <2> HIDE DEF Chain, Old
  <2>5. /\ IsFiniteSet(Chain(g) \cup Old)
        /\ Cardinality(Chain(g) \cup Old) = Cardinality(Chain(g)) + Cardinality(Old)
               - Cardinality(Chain(g) \cap Old)
    BY <2>4, FS_Union
  <2>6. Cardinality(Chain(g) \cap Old) = 0
    BY <2>2, FS_EmptySet
  <2>7. Cardinality(Chain(g) \cup Old) <= Cardinality(Way(a, P, g))
    BY <2>3, <2>4, FS_Subset
  <2>8. {Cardinality(Chain(g)), Cardinality(Old), Cardinality(Way(a, P, g))} \subseteq Nat
    BY <2>4, FS_CardinalityType
  <2> QED BY <2>4, <2>5, <2>6, <2>7, <2>8
<1>7. ASSUME NEW g \in P, f \in Way(a, P, g) PROVE NestedIn(b, P, g)
  <2>1. Way(b, P, g) \subseteq P /\ Chain(g) \subseteq Way(a, P, g) /\ Way(a, P, g) \subseteq P
    BY <1>3, <1>5, <1>7 DEF AllNested, NestedIn
  <2>2. Cardinality(Way(b, P, g)) <= MaxDepth
    <3>1. /\ IsFiniteSet(Way(a, P, p)) /\ IsFiniteSet(Way(a, P, g))
          /\ {Cardinality(Way(a, P, p)), Cardinality(Way(a, P, g)), Cardinality(Way(a, P, f)),
              Cardinality(Way(b, P, g))} \subseteq Nat
      <4>1. {Way(a, P, p), Way(a, P, g), Way(a, P, f), Way(b, P, g)} \subseteq SUBSET Folders
        BY <1>1, <1>3, <2>1 DEF IsTree, Way
      <4> QED BY <4>1, WaySize
    <3>2. CASE p = Top
      <4>1. Way(a, P, p) = {}
        BY <3>2, WayCloses DEF IsTree
      <4>2. Way(b, P, g) \subseteq Way(a, P, g)
        BY <1>5, <1>7, <4>1
      <4>3. Cardinality(Way(b, P, g)) <= Cardinality(Way(a, P, g))
        BY <3>1, <4>2, FS_Subset
      <4> QED BY <3>1, <4>3, FoldersAssumption DEF AllNested, NestedIn
    <3>3. CASE p # Top
      <4> HIDE DEF Chain
      <4>1. /\ IsFiniteSet(Chain(g) \cup Way(a, P, p))
            /\ Cardinality(Chain(g) \cup Way(a, P, p)) <= Cardinality(Chain(g)) + Cardinality(Way(a, P, p))
        <5>1. /\ IsFiniteSet(Chain(g) \cup Way(a, P, p)) /\ IsFiniteSet(Chain(g) \cap Way(a, P, p))
              /\ Cardinality(Chain(g) \cup Way(a, P, p)) = Cardinality(Chain(g))
                   + Cardinality(Way(a, P, p)) - Cardinality(Chain(g) \cap Way(a, P, p))
          BY <1>6, <1>7, <3>1, FS_Union, FS_Intersection
        <5>2. Cardinality(Chain(g) \cap Way(a, P, p)) \in Nat
          BY <5>1, FS_CardinalityType
        <5> QED BY <1>6, <1>7, <3>1, <5>1, <5>2
      <4>2. Cardinality(Way(b, P, g)) <= Cardinality(Chain(g) \cup Way(a, P, p))
        BY <1>5, <1>7, <4>1, FS_Subset
      <4>3. Cardinality(Chain(g) \cup Way(a, P, p)) \in Nat
        BY <4>1, FS_CardinalityType
      <4>4. Cardinality(Way(a, P, p)) + 1 + Cardinality(Way(a, P, g)) - Cardinality(Way(a, P, f))
              <= MaxDepth
        BY <1>7, <3>3
      <4> QED BY <1>6, <1>7, <3>1, <4>1, <4>2, <4>3, <4>4, FoldersAssumption
    <3> QED BY <3>2, <3>3
  <2>3. CASE g = f
    BY <1>1, <1>3, <2>1, <2>2, <2>3 DEF NestedIn
  <2>4. CASE g # f
    <3>1. b[g] = a[g] /\ Way(a, P, g) = Way(a, P, a[g]) \cup {g}
      BY <1>1, <2>4, WayStep DEF IsTree
    <3>2. f \in Way(a, P, a[g])
      BY <1>7, <2>4, <3>1
    <3>3. a[g] \in P
      <4>1. a[g] # Top
        BY <3>2, WayCloses DEF IsTree
      <4> QED BY <1>4, <4>1
    <3>4. Way(b, P, a[g]) \subseteq Way(a, P, a[g]) \cup Way(a, P, p)
      BY <1>5, <3>2, <3>3
    <3>5. g \notin Way(a, P, p)
      <4>1. g \in Way(a, P, p) => Way(a, P, g) \subseteq Way(a, P, p)
        BY <1>1, WayBeyond DEF IsTree
      <4> QED BY <1>7, <4>1
    <3>6. g \notin Way(b, P, b[g])
      BY <1>4, <3>1, <3>4, <3>5
    <3> QED BY <2>1, <2>2, <3>6 DEF NestedIn
  <2> QED BY <2>3, <2>4
<1>8. ASSUME NEW g \in P, f \notin Way(a, P, g) PROVE NestedIn(b, P, g)
  <2>1. Way(b, P, g) = Way(a, P, g) /\ g # f
    <3>1. f \in Way(a, P, f)
      BY <1>1, WayCloses DEF IsTree
    <3> QED BY <1>2, <1>8, <3>1
  <2>2. b[g] = a[g] /\ f \notin Way(a, P, a[g])
    BY <1>1, <1>4, <1>8, <2>1 DEF IsTree
  <2>3. Way(b, P, b[g]) = Way(a, P, a[g])
    BY <1>2, <1>4, <2>2
  <2> QED BY <2>1, <2>3 DEF AllNested, NestedIn
<1> QED BY <1>1, <1>7, <1>8 DEF AllNested

(* A folder goes, and what it held is lifted to where it was.               *)
LEMMA LiftedNests ==
  ASSUME NEW a, NEW P, IsTree(a, P), AllNested(a, P), NEW d \in Folders,
         NEW t, t = IF d \in P THEN a[d] ELSE Top,
         NEW b, b = [f \in Folders |-> IF f = d THEN Top ELSE IF a[f] = d THEN t ELSE a[f]]
  PROVE  IsTree(b, P \ {d}) /\ AllNested(b, P \ {d}) /\ t \in (P \ {d}) \cup {Top}
<1> DEFINE Q == P \ {d}
<1>1. ASSUME NEW g \in P PROVE a[g] \in P \cup {Top} /\ Way(a, P, g) = Way(a, P, a[g]) \cup {g}
                               /\ a[g] # g /\ g \notin Way(a, P, a[g])
  <2>1. a[g] \in Folders \cup {Top} /\ Way(a, P, g) = Way(a, P, a[g]) \cup {g} /\ g \in Folders
    BY WayStep DEF IsTree
  <2>2. a[g] \in Way(a, P, a[g]) \cup {Top}
    BY <2>1, WayCloses DEF IsTree
  <2> QED BY <2>1, <2>2, FoldersAssumption DEF AllNested, NestedIn
<1>2. t \in Q \cup {Top}
  BY <1>1
<1>3. IsTree(b, Q)
  <2>1. t \in Folders \cup {Top} /\ t # Unused
    BY <1>2, FoldersAssumption DEF IsTree
  <2> HIDE DEF Q
  <2>2. Q \subseteq Folders /\ Q \subseteq P
    BY DEF Q, IsTree
  <2> QED BY <2>1, <2>2, FoldersAssumption DEF IsTree
<1>4. ASSUME NEW g \in Q \cup {Top} PROVE Way(b, Q, g) \subseteq Way(a, P, g) \ {d}
  <2> DEFINE S == Way(a, P, g) \ {d}
  <2>1. S \in SUBSET Folders /\ g \in S \cup {Top} /\ Climbing(a, P, Way(a, P, g))
    <3>1. g \in Folders \cup {Top}
      BY DEF IsTree
    <3> QED BY <3>1, WayCloses, FoldersAssumption DEF IsTree
  <2>2. ASSUME NEW h \in S \cap Q PROVE b[h] \in S \cup {Top}
    <3>1. a[h] \in Way(a, P, g) \cup {Top} /\ h \in Folders
      BY <2>1, <2>2 DEF Climbing
    <3>2. CASE a[h] # d
      BY <2>2, <3>1, <3>2
    <3>3. CASE a[h] = d
      <4>1. d \in P /\ d \in Way(a, P, g)
        BY <1>1, <2>2, <3>1, <3>3, FoldersAssumption
      <4>2. t \in Way(a, P, g) \cup {Top} /\ t # d
        BY <1>1, <2>1, <4>1 DEF Climbing
      <4> QED BY <2>2, <3>1, <3>3, <4>2
    <3> QED BY <3>2, <3>3
  <2> HIDE DEF S, Q
  <2>3. Climbing(b, Q, S)
    BY <2>2 DEF Climbing
  <2>4. Way(b, Q, g) \subseteq S
    BY <2>1, <2>3, WayLeast
  <2> QED BY <2>4 DEF S
<1>5. ASSUME NEW g \in Q PROVE NestedIn(b, Q, g)
  <2>1. Way(a, P, g) \subseteq P /\ Cardinality(Way(a, P, g)) <= MaxDepth /\ g \in Folders
    BY DEF AllNested, NestedIn, IsTree
  <2>2. Way(b, Q, g) \subseteq Q
    BY <1>4, <2>1
  <2>3. Cardinality(Way(b, Q, g)) <= MaxDepth
    <3>1. Way(b, Q, g) \subseteq Way(a, P, g) /\ Way(a, P, g) \in SUBSET Folders
      BY <1>4, <2>1 DEF IsTree
    <3>2. IsFiniteSet(Way(a, P, g)) /\ Cardinality(Way(a, P, g)) \in Nat
      BY <3>1, WaySize, FS_CardinalityType
    <3>3. Cardinality(Way(b, Q, g)) <= Cardinality(Way(a, P, g)) /\ Cardinality(Way(b, Q, g)) \in Nat
      BY <3>1, <3>2, FS_Subset, FS_CardinalityType
    <3> QED BY <2>1, <3>2, <3>3, FoldersAssumption
  <2>4. g \notin Way(b, Q, b[g])
    <3>1. CASE a[g] # d
      <4>1. b[g] = a[g] /\ a[g] \in Q \cup {Top}
        BY <1>1, <2>1, <3>1
      <4> QED BY <1>1, <1>4, <4>1
    <3>2. CASE a[g] = d
      <4>1. d \in P /\ b[g] = a[d] /\ t = a[d]
        BY <1>1, <2>1, <3>2, FoldersAssumption
      <4>2. Way(b, Q, t) \subseteq Way(a, P, t)
        BY <1>2, <1>4
      <4>3. Way(a, P, d) = Way(a, P, t) \cup {d} /\ g \notin Way(a, P, d)
        BY <1>1, <3>2, <4>1
      <4> QED BY <4>1, <4>2, <4>3
    <3> QED BY <3>1, <3>2
  <2> QED BY <2>2, <2>3, <2>4 DEF NestedIn
<1> QED BY <1>2, <1>3, <1>5 DEF AllNested
-----------------------------------------------------------------------------
LEMMA FolderTypes ==
  ASSUME FoldersTypeOK
  PROVE  /\ IsTree(above, Present)
         /\ \A q \in Filers : /\ filing[q].folder \in Folders \cup {Top}
                              /\ filing[q].to \in Folders \cup {Top} /\ filing[q].old \in BOOLEAN
<1>1. Present \in SUBSET Folders /\ \A g \in Present : above[g] # Unused
  BY DEF Present
<1> QED BY <1>1 DEF FoldersTypeOK, IsTree

LEMMA NestedIs == \A f : Nested(f) <=> NestedIn(above, Present, f)
BY LineageIs DEF Nested, NestedIn, InCycle, FolderDepth

LEMMA NestedWillBe == \A f : Nested(f)' <=> NestedIn(above', Present', f)
BY LineageWillBe DEF Nested, NestedIn, InCycle, FolderDepth

LEMMA DepthIs ==
  ASSUME FoldersTypeOK, NEW f \in Folders \cup {Top}
  PROVE  /\ Lineage(f) \in SUBSET Folders /\ FolderDepth(f) \in 0..Cardinality(Folders)
         /\ FolderDepth(f) = Cardinality(Way(above, Present, f))
<1>1. Lineage(f) \in SUBSET Folders
  BY DEF Lineage
<1> QED BY <1>1, WaySize, LineageIs DEF FolderDepth

(* The highest of a set of levels.                                          *)
LEMMA HighestIs ==
  ASSUME NEW S \in SUBSET Int, S # {}, NEW b \in Int, \A x \in S : x <= b
  PROVE  Max(S) \in Int /\ \A x \in S : x <= Max(S)
<1> DEFINE P == {n \in Nat : b - n \in S}
           R == OpToRel(<, Nat)
<1>1. P \subseteq Nat /\ P # {}
  <2>1. PICK x \in S : TRUE
    OBVIOUS
  <2>2. b - x \in Nat /\ b - (b - x) = x
    BY <2>1
  <2>3. b - x \in P
    BY <2>1, <2>2
  <2> QED BY <2>3
<1>2. \A m, n \in Nat : m < n => <<m, n>> \in R
  BY DEF OpToRel
<1>3. \E m \in P : \A n \in P : ~(<<n, m>> \in R)
  <2>1. IsWellFoundedOn(R, Nat)
    BY NatLessThanWellFounded, Zenon
  <2> HIDE DEF P, R
  <2> QED BY <1>1, <2>1, WFMin
<1>4. PICK m \in P : \A n \in P : ~(<<n, m>> \in R)
  BY <1>3
<1>5. b - m \in S /\ m \in Nat
  BY <1>4
<1>6. ASSUME NEW x \in S PROVE x <= b - m
  <2>1. b - x \in Nat /\ b - (b - x) = x
    OBVIOUS
  <2>2. b - x \in P
    BY <2>1
  <2>3. ~(b - x < m)
    BY <1>2, <1>4, <1>5, <2>1, <2>2
  <2> QED BY <1>5, <2>1, <2>3
<1>7. Max(S) \in S /\ \A x \in S : Max(S) >= x
  <2> HIDE DEF P, R
  <2>1. \E y \in S : \A x \in S : y >= x
    BY <1>5, <1>6
  <2> QED BY <2>1 DEF Max
<1> QED BY <1>7

LEMMA HeightBounds ==
  ASSUME FoldersTypeOK, NEW f \in Folders
  PROVE  /\ FolderHeight(f) \in Int
         /\ \A g \in Under(f) : 1 + FolderDepth(g) - FolderDepth(f) <= FolderHeight(f)
<1> DEFINE S == {Cardinality(Lineage(g)) - Cardinality(Lineage(f)) : g \in Under(f) \cup {f}}
<1>1. \A g \in Folders : /\ Cardinality(Lineage(g)) \in Nat
                         /\ Cardinality(Lineage(g)) <= Cardinality(Folders)
  BY WaySize DEF Lineage
<1>2. Under(f) \subseteq Folders /\ Cardinality(Folders) \in Nat
  BY WaySize DEF Under, Present
<1>3. S \in SUBSET Int /\ S # {} /\ \A x \in S : x <= Cardinality(Folders)
  BY <1>1, <1>2
<1>4. Max(S) \in Int /\ \A x \in S : x <= Max(S)
  <2>1. Cardinality(Folders) \in Int
    BY <1>2
  <2> HIDE DEF S
  <2> QED BY <1>3, <2>1, HighestIs
<1>5. FolderHeight(f) = 1 + Max(S)
  BY DEF FolderHeight
<1>6. \A g \in Under(f) : Cardinality(Lineage(g)) - Cardinality(Lineage(f)) \in S
  OBVIOUS
<1> HIDE DEF S
<1>7. ASSUME NEW g \in Under(f) PROVE 1 + FolderDepth(g) - FolderDepth(f) <= FolderHeight(f)
  <2>1. /\ Cardinality(Lineage(g)) \in Nat /\ Cardinality(Lineage(f)) \in Nat
        /\ Cardinality(Lineage(g)) - Cardinality(Lineage(f)) <= Max(S)
    BY <1>1, <1>2, <1>4, <1>6
  <2> QED BY <1>4, <1>5, <2>1 DEF FolderDepth
<1> QED BY <1>4, <1>5, <1>7

(* A request that asks, checks, or is refused.                              *)
FilingCall == {c \in [op : {"none", "create", "move", "delete", "file"},
                at : {"none", "found", "depth", "height", "write"},
                folder : Folders \cup {Top}, to : Folders \cup {Top},
                depth : 0..Cardinality(Folders), old : BOOLEAN] :
           c.op = "delete" => c.folder \in Folders}

LEMMA FilingMoves ==
  ASSUME FoldersInv, NEW q \in Filers, NEW c \in FilingCall,
         filing' = [filing EXCEPT ![q] = c], UNCHANGED <<above, gone, filed, overtaken, misfiled>>,
         c # NotFiling /\ ~c.old /\ ~overtaken => Meant(c)
  PROVE  FoldersInv'
<1>1. FoldersTypeOK'
  BY DEF FoldersInv, FoldersTypeOK, FilingCall
<1>2. Present' = Present /\ above' = above
  BY DEF Present
<1>3. \A f : Lineage(f)' = Lineage(f)
  BY <1>2, LineageIs, LineageWillBe
<1>4. \A f : (Nested(f)' <=> Nested(f))
  BY <1>2, NestedIs, NestedWillBe
<1>5. ASSUME ~overtaken', NEW r \in Filers, Untouched(r)' PROVE Meant(filing[r])'
  <2>1. Meant(filing'[r])
    <3>1. CASE r = q
      BY <1>5, <3>1 DEF Untouched, FoldersInv, FoldersTypeOK
    <3>2. CASE r # q
      BY <1>5, <3>2 DEF Untouched, FoldersInv, FoldersTypeOK
    <3> QED BY <3>1, <3>2
  <2>2. \A f : FolderDepth(f)' = FolderDepth(f)
    BY <1>3 DEF FolderDepth
  <2>3. \A f : FolderHeight(f)' = FolderHeight(f)
    BY <1>2, <1>3 DEF FolderHeight, Under
  <2> QED BY <1>2, <1>3, <2>1, <2>2, <2>3 DEF Meant
<1> QED BY <1>1, <1>2, <1>4, <1>5 DEF FoldersInv

LEMMA FolderCount == Cardinality(Folders) \in Nat
BY FoldersAssumption, FS_CardinalityType

LEMMA IdleFiling == NotFiling \in FilingCall /\ NotFiling.op = "none" /\ NotFiling.at = "none" /\ NotFiling.old = FALSE
BY FolderCount DEF NotFiling, FilingCall

LEMMA FolderAskKeeps ==
  ASSUME FoldersInv, NEW q \in Filers, NEW f \in Folders \cup {Top}, NEW p \in Folders \cup {Top},
         BeginCreate(q, p) \/ BeginMove(q, f, p) \/ BeginFile(q, p)
           \/ (f \in Folders /\ BeginDelete(q, f))
  PROVE  FoldersInv'
<1>1. ASSUME NEW op \in {"create", "move", "delete", "file"}, NEW g \in Folders \cup {Top},
             NEW t \in Folders \cup {Top}, Asks(q, op, g, t),
             UNCHANGED <<above, gone, filed, overtaken, misfiled>>,
             op # "move" /\ op # "delete" => g = Top,
             op = "create" => t \in Present \cup {Top}, op = "delete" => g \in Folders,
             op = "move" => g \in Present /\ t \in (Present \cup {Top}) \ {g},
             op = "delete" => t = IF g \in Present THEN above[g] ELSE Top,
             op = "file" => t \in Present
      PROVE  FoldersInv'
  <2> DEFINE c == [NotFiling EXCEPT !.op = op, !.at = "found", !.folder = g, !.to = t]
  <2>1. c \in FilingCall /\ c.op = op /\ c.at = "found" /\ c.folder = g /\ c.to = t /\ c.depth = 0
    <3>1. /\ c \in [op : {"none", "create", "move", "delete", "file"},
                    at : {"none", "found", "depth", "height", "write"},
                    folder : Folders \cup {Top}, to : Folders \cup {Top},
                    depth : 0..Cardinality(Folders), old : BOOLEAN]
          /\ c.op = op /\ c.at = "found" /\ c.folder = g /\ c.to = t /\ c.depth = 0
      BY IdleFiling, FolderCount DEF NotFiling, FilingCall
    <3> HIDE DEF c
    <3> QED BY <1>1, <3>1 DEF FilingCall
  <2>2. filing' = [filing EXCEPT ![q] = c]
    BY <1>1 DEF Asks
  <2> HIDE DEF c
  <2>3. Meant(c)
    BY <1>1, <2>1 DEF Meant
  <2> QED BY <1>1, <2>1, <2>2, <2>3, FilingMoves
<1>2. Present \subseteq Folders /\ \A g \in Present : above[g] \in Folders \cup {Top}
  BY FolderTypes DEF FoldersInv, IsTree
<1>3. CASE BeginCreate(q, p)
  BY <1>1, <1>3 DEF BeginCreate
<1>4. CASE BeginMove(q, f, p)
  BY <1>1, <1>4 DEF BeginMove
<1>5. CASE BeginFile(q, p)
  BY <1>1, <1>5 DEF BeginFile
<1>6. CASE f \in Folders /\ BeginDelete(q, f)
  BY <1>1, <1>2, <1>6 DEF BeginDelete
<1> QED BY <1>3, <1>4, <1>5, <1>6

LEMMA FolderCheckKeeps ==
  ASSUME FoldersInv, NEW q \in Filers,
         CheckCreate(q) \/ CheckAncestor(q) \/ ReadDepth(q) \/ CheckHeight(q)
  PROVE  FoldersInv'
<1>1. /\ filing[q] \in FilingCall /\ filing[q].folder \in Folders \cup {Top}
      /\ filing[q].to \in Folders \cup {Top}
  BY DEF FoldersInv, FoldersTypeOK, FilingCall
<1>2. UNCHANGED <<above, gone, filed, overtaken, misfiled>>
  BY DEF CheckCreate, CheckAncestor, ReadDepth, CheckHeight
<1>3. CASE Refuse(q)
  BY <1>2, <1>3, IdleFiling, FilingMoves DEF Refuse
<1>4. ASSUME NEW step \in {"depth", "height", "write"}, NEW depth \in 0..Cardinality(Folders),
             Goes(q, step, depth), filing[q].at # "none",
             Untouched(q) /\ ~overtaken => Meant([filing[q] EXCEPT !.at = step, !.depth = depth])
      PROVE  FoldersInv'
  <2> DEFINE c == [filing[q] EXCEPT !.at = step, !.depth = depth]
  <2>1. filing' = [filing EXCEPT ![q] = c]
    BY <1>4 DEF Goes, FoldersInv, FoldersTypeOK
  <2>2. c \in FilingCall /\ c.old = filing[q].old
    BY <1>1, <1>4 DEF FilingCall
  <2>4. filing[q] # NotFiling
    BY <1>4, IdleFiling
  <2>3. ~c.old /\ ~overtaken => Meant(c)
    BY <1>4, <2>2, <2>4 DEF Untouched
  <2> HIDE DEF c
  <2> QED BY <1>2, <2>1, <2>2, <2>3, FilingMoves
<1>5. Untouched(q) /\ ~overtaken => Meant(filing[q])
  BY DEF FoldersInv
<1>6. FolderDepth(filing[q].to) \in 0..Cardinality(Folders) /\ Cardinality(Folders) \in Nat
  BY <1>1, DepthIs, WaySize DEF FoldersInv
<1>8. CASE CheckCreate(q) /\ ~Refuse(q)
  <2>1. Goes(q, "write", 0) /\ filing[q].op = "create" /\ filing[q].at = "found"
        /\ ~(filing[q].to # Top /\ FolderDepth(filing[q].to) >= MaxDepth)
    BY <1>8 DEF CheckCreate
  <2>2. filing[q].to # Top => FolderDepth(filing[q].to) < MaxDepth
    BY <1>6, <2>1, FoldersAssumption
  <2>3. Untouched(q) /\ ~overtaken => Meant([filing[q] EXCEPT !.at = "write", !.depth = 0])
    BY <1>1, <1>5, <2>1, <2>2 DEF Meant, FilingCall
  <2>4. 0 \in 0..Cardinality(Folders)
    BY <1>6
  <2> QED BY <1>4, <2>1, <2>3, <2>4
<1>9. CASE CheckAncestor(q) /\ ~Refuse(q)
  <2> DEFINE step == IF filing[q].to = Top THEN "write" ELSE "depth"
  <2>1. Goes(q, step, 0) /\ filing[q].op = "move" /\ filing[q].at = "found" /\ ~Subfolder(q)
        /\ step \in {"depth", "height", "write"}
    BY <1>9 DEF CheckAncestor
  <2>2. filing[q].folder \notin Lineage(filing[q].to)
    <3>1. CASE filing[q].to = Top
      <4>1. Lineage(Top) = {}
        BY LineageIs, WayCloses, FolderTypes DEF FoldersInv
      <4> QED BY <3>1, <4>1
    <3>2. CASE filing[q].to # Top
      BY <2>1, <3>2 DEF Subfolder, FolderHasAncestor
    <3> QED BY <3>1, <3>2
  <2>3. Untouched(q) /\ ~overtaken => Meant([filing[q] EXCEPT !.at = step, !.depth = 0])
    BY <1>1, <1>5, <2>1, <2>2 DEF Meant, FilingCall
  <2>4. 0 \in 0..Cardinality(Folders)
    BY <1>6
  <2> QED BY <1>4, <2>1, <2>3, <2>4
<1>10. CASE ReadDepth(q)
  <2>1. Goes(q, "height", FolderDepth(filing[q].to)) /\ filing[q].at = "depth"
    BY <1>10 DEF ReadDepth
  <2>2. Untouched(q) /\ ~overtaken =>
          Meant([filing[q] EXCEPT !.at = "height", !.depth = FolderDepth(filing[q].to)])
    BY <1>1, <1>5, <1>6, <2>1 DEF Meant, FilingCall
  <2> QED BY <1>4, <1>6, <2>1, <2>2
<1>11. CASE CheckHeight(q) /\ ~Refuse(q)
  <2>1. Goes(q, "write", filing[q].depth) /\ filing[q].at = "height" /\ ~TooDeep(q)
        /\ filing[q].depth \in 0..Cardinality(Folders)
    BY <1>1, <1>11 DEF CheckHeight, FilingCall
  <2>2. Untouched(q) /\ ~overtaken =>
          Meant([filing[q] EXCEPT !.at = "write", !.depth = filing[q].depth])
    <3> SUFFICES ASSUME Untouched(q), ~overtaken
                 PROVE  Meant([filing[q] EXCEPT !.at = "write", !.depth = filing[q].depth])
      OBVIOUS
    <3>1. /\ Meant(filing[q]) /\ filing[q].op = "move" /\ filing[q].folder \in Present
          /\ filing[q].depth = FolderDepth(filing[q].to)
      BY <1>5, <2>1 DEF Meant
    <3>2. FolderHeight(filing[q].folder) \in Int
      BY <3>1, HeightBounds DEF FoldersInv, Present
    <3>3. FolderDepth(filing[q].to) + FolderHeight(filing[q].folder) <= MaxDepth
      BY <1>6, <2>1, <3>1, <3>2, FoldersAssumption DEF TooDeep
    <3> QED BY <1>1, <2>1, <3>1, <3>3 DEF Meant, FilingCall
  <2> QED BY <1>4, <2>1, <2>2
<1> QED BY <1>3, <1>8, <1>9, <1>10, <1>11

-----------------------------------------------------------------------------
(* A request writes, and marks the others whose checks that may have undone.*)
LEMMA WrittenIs ==
  ASSUME FoldersInv, NEW q \in Filers, Written(q), filing[q].op # "none"
  PROVE  /\ filing' \in [Filers -> FilingCall] /\ overtaken' \in BOOLEAN
         /\ ~overtaken' => ~overtaken /\ Meant(filing[q])
         /\ \A r \in Filers : Untouched(r)' =>
              /\ Untouched(r) /\ ~Spoils(q, r)
              /\ \A n \in {"op", "at", "folder", "to", "depth"} : filing'[r][n] = filing[r][n]
<1>1. filing \in [Filers -> FilingCall] /\ overtaken \in BOOLEAN
  BY DEF FoldersInv, FoldersTypeOK, FilingCall
<1>2. \A r \in Filers : Spoils(q, r) \in BOOLEAN
  BY DEF Spoils
<1>3. filing' \in [Filers -> FilingCall]
  BY <1>1, <1>2, IdleFiling DEF Written, FilingCall
<1>4. overtaken' = (overtaken \/ filing[q].old) /\ filing[q].old \in BOOLEAN
  BY <1>1 DEF Written, FilingCall
<1>5. ASSUME ~overtaken' PROVE ~overtaken /\ Meant(filing[q])
  <2>1. ~overtaken /\ ~filing[q].old
    BY <1>4, <1>5
  <2>2. filing[q] # NotFiling
    BY IdleFiling
  <2> QED BY <2>1, <2>2 DEF FoldersInv, Untouched
<1>6. ASSUME NEW r \in Filers, Untouched(r)'
      PROVE  /\ Untouched(r) /\ ~Spoils(q, r)
             /\ \A n \in {"op", "at", "folder", "to", "depth"} : filing'[r][n] = filing[r][n]
  <2>1. r # q
    BY <1>6 DEF Untouched, Written
  <2>2. filing'[r] = [filing[r] EXCEPT !.old = @ \/ Spoils(q, r)]
    BY <2>1 DEF Written
  <2>3. filing[r] \in FilingCall
    BY <1>1
  <2>4. /\ \A n \in {"op", "at", "folder", "to", "depth"} : filing'[r][n] = filing[r][n]
        /\ filing'[r].old = (filing[r].old \/ Spoils(q, r))
    BY <2>2, <2>3 DEF FilingCall
  <2>5. ~filing[r].old /\ ~Spoils(q, r)
    BY <1>2, <1>6, <2>3, <2>4 DEF Untouched, FilingCall
  <2>6. filing[r] # NotFiling
    <3> SUFFICES ASSUME filing[r] = NotFiling PROVE FALSE
      OBVIOUS
    <3>1. (filing[r].old \/ Spoils(q, r)) = FALSE
      BY <2>5, Zenon
    <3>2. filing'[r] = [NotFiling EXCEPT !.old = FALSE]
      BY <2>2, <3>1
    <3>3. filing'[r] = NotFiling
      BY <3>2 DEF NotFiling
    <3> QED BY <1>6, <3>3 DEF Untouched
  <2> QED BY <2>4, <2>5, <2>6 DEF Untouched
<1> QED BY <1>3, <1>4, <1>1, <1>5, <1>6

(* The tables after a write: the tree nests, items are where folders are,   *)
(* and of the others only filings are not undone.                           *)
LEMMA WriteKeeps ==
  ASSUME FoldersInv, NEW q \in Filers, Written(q), filing[q].op \in {"create", "move", "delete"},
         above' \in [Folders -> Folders \cup {Top, Unused}], gone' \in SUBSET Folders,
         filed' \in [Items -> Folders \cup {Top}], misfiled' \in SUBSET Loose,
         ~overtaken /\ Meant(filing[q]) =>
           /\ AllNested(above', Present')
           /\ \A i \in Items \ misfiled' : filed'[i] \in Present' \cup {Top}
           /\ Present \ (IF filing[q].op = "delete" THEN {filing[q].folder} ELSE {}) \subseteq Present'
  PROVE  FoldersInv'
<1>1. /\ filing' \in [Filers -> FilingCall] /\ overtaken' \in BOOLEAN
      /\ ~overtaken' => ~overtaken /\ Meant(filing[q])
      /\ \A r \in Filers : Untouched(r)' =>
           /\ Untouched(r) /\ ~Spoils(q, r)
           /\ \A n \in {"op", "at", "folder", "to", "depth"} : filing'[r][n] = filing[r][n]
  BY WrittenIs
<1>2. FoldersTypeOK'
  BY <1>1 DEF FoldersTypeOK, FilingCall
<1>3. ASSUME ~overtaken', NEW r \in Filers, Untouched(r)' PROVE Meant(filing[r])'
  <2>1. /\ Untouched(r) /\ ~Spoils(q, r) /\ Meant(filing[r])
        /\ \A n \in {"op", "at", "folder", "to", "depth"} : filing'[r][n] = filing[r][n]
    BY <1>1, <1>3 DEF FoldersInv
  <2>2. filing[r].op = "file" /\ ~(filing[q].op = "delete" /\ filing[q].folder = filing[r].to)
    BY <2>1 DEF Spoils, Untouched
  <2>3. /\ filing'[r].op = "file" /\ filing'[r].folder = filing[r].folder
        /\ filing'[r].to = filing[r].to /\ filing'[r].at = filing[r].at
    BY <2>1, <2>2
  <2>4. filing[r].folder = Top /\ filing[r].to \in Present /\ filing[r].at \notin {"depth", "height"}
    BY <2>1, <2>2 DEF Meant
  <2>5. filing[r].to \in Present'
    BY <1>1, <1>3, <2>2, <2>4
  <2> QED BY <2>3, <2>4, <2>5 DEF Meant
<1> QED BY <1>1, <1>2, <1>3, NestedWillBe DEF FoldersInv, AllNested

LEMMA FolderCreateKeeps ==
  ASSUME FoldersInv, NEW q \in Filers, NEW f \in Folders, Create(q, f)
  PROVE  FoldersInv'
<1>1. /\ above' = [above EXCEPT ![f] = filing[q].to] /\ UNCHANGED <<gone, filed, misfiled>> /\ Written(q)
      /\ above[f] = Unused /\ filing[q].op = "create" /\ filing[q].at = "write"
  BY DEF Create
<1>2. /\ IsTree(above, Present) /\ filing[q].to \in Folders \cup {Top} /\ f \in Folders \ Present
      /\ above \in [Folders -> Folders \cup {Top, Unused}] /\ gone \in SUBSET Folders
      /\ filed \in [Items -> Folders \cup {Top}] /\ misfiled \in SUBSET Loose
  BY <1>1, FolderTypes DEF FoldersInv, FoldersTypeOK, Present
<1>3. above' \in [Folders -> Folders \cup {Top, Unused}]
  BY <1>1, <1>2
<1>4. Present' = Present \/ Present' = Present \cup {f}
  BY <1>1, <1>2, FoldersAssumption DEF Present
<1>5. ASSUME ~overtaken, Meant(filing[q])
      PROVE  /\ AllNested(above', Present')
             /\ \A i \in Items \ misfiled' : filed'[i] \in Present' \cup {Top}
             /\ Present \subseteq Present'
  <2>1. filing[q].to \in Present \cup {Top}
        /\ (filing[q].to # Top => FolderDepth(filing[q].to) < MaxDepth)
    BY <1>1, <1>5 DEF Meant
  <2>2. FolderDepth(filing[q].to) = Cardinality(Way(above, Present, filing[q].to))
    BY <1>2, DepthIs DEF FoldersInv
  <2>3. AllNested(above, Present)
    BY <1>5, NestedIs DEF FoldersInv, AllNested
  <2>4. AllNested(above', Present')
    BY <1>1, <1>2, <1>4, <2>1, <2>2, <2>3, AddedNests
  <2> QED BY <1>1, <1>4, <1>5, <2>4 DEF FoldersInv
<1> QED BY <1>1, <1>2, <1>3, <1>5, WriteKeeps

LEMMA FolderMoveKeeps ==
  ASSUME FoldersInv, NEW q \in Filers, Move(q)
  PROVE  FoldersInv'
<1> DEFINE f == filing[q].folder
           p == filing[q].to
<1>1. filing[q].op = "move" /\ filing[q].at = "write" /\ UNCHANGED <<gone, filed, misfiled>>
  BY DEF Move
<1>2. /\ IsTree(above, Present) /\ filing[q].to \in Folders \cup {Top}
      /\ above \in [Folders -> Folders \cup {Top, Unused}] /\ gone \in SUBSET Folders
      /\ filed \in [Items -> Folders \cup {Top}] /\ misfiled \in SUBSET Loose
  BY <1>1, FolderTypes DEF FoldersInv, FoldersTypeOK
<1>3. CASE f \notin Present
  BY <1>1, <1>3, IdleFiling, FilingMoves DEF Move, Refuse
<1>4. CASE f \in Present
  <2>1. above' = [above EXCEPT ![f] = p] /\ Written(q) /\ f \in Folders /\ p # Unused
    BY <1>2, <1>4, FoldersAssumption DEF Move, Present
  <2>2. Present' = Present /\ above' \in [Folders -> Folders \cup {Top, Unused}]
    BY <1>1, <1>2, <1>4, <2>1 DEF Present
  <2>3. ASSUME ~overtaken, Meant(filing[q]) PROVE AllNested(above', Present')
    <3>1. p \in (Present \cup {Top}) \ {f} /\ f \notin Lineage(p)
          /\ (p # Top => FolderDepth(p) + FolderHeight(f) <= MaxDepth)
      BY <1>1, <2>3 DEF Meant
    <3>2. AllNested(above, Present) /\ f \notin Way(above, Present, p)
      BY <2>3, <3>1, NestedIs, LineageIs DEF FoldersInv, AllNested
    <3>3. ASSUME p # Top, NEW g \in Present, f \in Way(above, Present, g)
          PROVE  Cardinality(Way(above, Present, p)) + 1 + Cardinality(Way(above, Present, g))
                   - Cardinality(Way(above, Present, f)) <= MaxDepth
      <4>1. g \in Under(f) /\ g \in Folders
        BY <3>3, LineageIs DEF Under, Present
      <4>2. /\ FolderHeight(f) \in Int /\ 1 + FolderDepth(g) - FolderDepth(f) <= FolderHeight(f)
        BY <2>1, <4>1, HeightBounds DEF FoldersInv
      <4>3. /\ FolderDepth(g) \in Nat /\ FolderDepth(f) \in Nat /\ FolderDepth(p) \in Nat
            /\ FolderDepth(g) = Cardinality(Way(above, Present, g))
            /\ FolderDepth(f) = Cardinality(Way(above, Present, f))
            /\ FolderDepth(p) = Cardinality(Way(above, Present, p))
        BY <1>2, <2>1, <4>1, DepthIs, FolderCount DEF FoldersInv
      <4>4. FolderDepth(p) + FolderHeight(f) <= MaxDepth
        BY <3>1, <3>3
      <4> HIDE DEF f, p
      <4> QED BY <4>2, <4>3, <4>4, FoldersAssumption
    <3> HIDE DEF f, p
    <3>4. IsTree(above', Present) /\ AllNested(above', Present)
      BY <1>2, <1>4, <2>1, <3>1, <3>2, <3>3, MovedNests
    <3> QED BY <2>2, <3>4
  <2>4. ASSUME ~overtaken PROVE \A i \in Items \ misfiled' : filed'[i] \in Present' \cup {Top}
    BY <1>1, <2>2, <2>4 DEF FoldersInv
  <2> QED BY <1>1, <1>2, <2>1, <2>2, <2>3, <2>4, WriteKeeps
<1> QED BY <1>3, <1>4

LEMMA FolderDeleteKeeps ==
  ASSUME FoldersInv, NEW q \in Filers, Delete(q)
  PROVE  FoldersInv'
<1> DEFINE d == filing[q].folder
           t == filing[q].to
<1>1. /\ above' = [f \in Folders |-> IF f = d THEN Top ELSE IF above[f] = d THEN t ELSE above[f]]
      /\ misfiled' = misfiled \ {i \in Items : filed[i] = d}
      /\ filed' = Lifted(q) /\ gone' = gone \cup {d} /\ Written(q) /\ filing[q].op = "delete"
  BY DEF Delete
<1>2. /\ IsTree(above, Present) /\ t \in Folders \cup {Top} /\ d \in Folders
      /\ above \in [Folders -> Folders \cup {Top, Unused}] /\ gone \in SUBSET Folders
      /\ filed \in [Items -> Folders \cup {Top}] /\ misfiled \in SUBSET Loose
  BY <1>1, FolderTypes DEF FoldersInv, FoldersTypeOK
<1>3. /\ above' \in [Folders -> Folders \cup {Top, Unused}] /\ gone' \in SUBSET Folders
      /\ filed' \in [Items -> Folders \cup {Top}] /\ misfiled' \in SUBSET Loose
  BY <1>1, <1>2 DEF Lifted
<1>4. ASSUME ~overtaken, Meant(filing[q])
      PROVE  /\ AllNested(above', Present')
             /\ \A i \in Items \ misfiled' : filed'[i] \in Present' \cup {Top}
             /\ Present' = Present \ {d}
  <2>1. t = IF d \in Present THEN above[d] ELSE Top
    BY <1>1, <1>4 DEF Meant
  <2>2. AllNested(above, Present)
    BY <1>4, NestedIs DEF FoldersInv, AllNested
  <2>3. /\ IsTree(above', Present \ {d}) /\ AllNested(above', Present \ {d})
        /\ t \in (Present \ {d}) \cup {Top}
    <3> HIDE DEF d, t
    <3> QED BY <1>1, <1>2, <2>1, <2>2, LiftedNests
  <2>4. Present' = Present \ {d}
    <3>1. ASSUME NEW g \in Folders \ {d} PROVE above'[g] = Unused <=> above[g] = Unused
      <4>1. t # Unused
        BY <1>2, FoldersAssumption
      <4> QED BY <1>1, <1>2, <4>1, FoldersAssumption
    <3> QED BY <1>1, <3>1 DEF Present
  <2>5. \A i \in Items \ misfiled' : filed'[i] \in Present' \cup {Top}
    BY <1>1, <1>2, <1>4, <2>3, <2>4 DEF FoldersInv, Lifted
  <2> QED BY <2>3, <2>4, <2>5
<1> QED BY <1>1, <1>3, <1>4, WriteKeeps

LEMMA ItemFileKeeps ==
  ASSUME FoldersInv, NEW q \in Filers, NEW i \in Items, File(q, i)
  PROVE  FoldersInv'
<1>1. /\ filed' = [filed EXCEPT ![i] = filing[q].to] /\ Written(q)
      /\ UNCHANGED <<above, gone, misfiled>> /\ filing[q].op = "file"
  BY DEF File
<1>2. /\ filing' \in [Filers -> FilingCall] /\ overtaken' \in BOOLEAN
      /\ ~overtaken' => ~overtaken /\ Meant(filing[q])
      /\ \A r \in Filers : Untouched(r)' =>
           /\ Untouched(r) /\ ~Spoils(q, r)
           /\ \A n \in {"op", "at", "folder", "to", "depth"} : filing'[r][n] = filing[r][n]
  BY <1>1, WrittenIs
<1>3. FoldersTypeOK' /\ Present' = Present
  BY <1>1, <1>2 DEF FoldersInv, FoldersTypeOK, FilingCall, Present
<1>4. \A f : Lineage(f)' = Lineage(f) /\ (Nested(f)' <=> Nested(f))
  BY <1>1, <1>3, LineageIs, LineageWillBe, NestedIs, NestedWillBe
<1>5. ASSUME ~overtaken', NEW r \in Filers, Untouched(r)' PROVE Meant(filing[r])'
  <2>1. /\ Meant(filing[r])
        /\ filing'[r].op = filing[r].op /\ filing'[r].at = filing[r].at
        /\ filing'[r].folder = filing[r].folder /\ filing'[r].to = filing[r].to
        /\ filing'[r].depth = filing[r].depth
    BY <1>2, <1>5 DEF FoldersInv
  <2>2. \A f : FolderDepth(f)' = FolderDepth(f) /\ FolderHeight(f)' = FolderHeight(f)
    BY <1>3, <1>4 DEF FolderDepth, FolderHeight, Under
  <2> QED BY <1>1, <1>3, <1>4, <2>1, <2>2 DEF Meant
<1>6. ASSUME ~overtaken' PROVE \A j \in Items \ misfiled' : filed'[j] \in Present' \cup {Top}
  BY <1>1, <1>2, <1>3, <1>6 DEF FoldersInv, FoldersTypeOK, Meant
<1> QED BY <1>2, <1>3, <1>4, <1>5, <1>6 DEF FoldersInv

(* An item is put somewhere by a route that looks for no folder.            *)
LEMMA ItemPutKeeps ==
  ASSUME FoldersInv, NEW i \in Items,
         TakeOut(i) \/ \E f \in Folders : FileUnchecked(i, f)
  PROVE  FoldersInv'
<1>1. /\ UNCHANGED <<above, gone, filing, overtaken>> /\ misfiled' \in SUBSET Loose
      /\ \E f \in Folders \cup {Top} : /\ filed' = [filed EXCEPT ![i] = f]
                                       /\ i \notin misfiled' => f \in Present \cup {Top}
      /\ misfiled \ {i} \subseteq misfiled'
  BY DEF TakeOut, FileUnchecked, FoldersInv, FoldersTypeOK
<1>2. FoldersTypeOK' /\ Present' = Present
  BY <1>1 DEF FoldersInv, FoldersTypeOK, Present
<1>3. \A f : Lineage(f)' = Lineage(f) /\ (Nested(f)' <=> Nested(f))
  BY <1>1, <1>2, LineageIs, LineageWillBe, NestedIs, NestedWillBe
<1>4. \A r \in Filers : (Untouched(r)' <=> Untouched(r)) /\ (Meant(filing[r])' <=> Meant(filing[r]))
  <2>1. \A f : FolderDepth(f)' = FolderDepth(f) /\ FolderHeight(f)' = FolderHeight(f)
    BY <1>2, <1>3 DEF FolderDepth, FolderHeight, Under
  <2> QED BY <1>1, <1>2, <1>3, <2>1 DEF Meant, Untouched
<1>5. ~overtaken => \A j \in Items \ misfiled' : filed'[j] \in Present' \cup {Top}
  BY <1>1, <1>2 DEF FoldersInv, FoldersTypeOK
<1> QED BY <1>1, <1>2, <1>3, <1>4, <1>5 DEF FoldersInv

LEMMA FoldersInvInit == FoldersInit => FoldersInv
<1> SUFFICES ASSUME FoldersInit PROVE FoldersInv
  OBVIOUS
<1>1. Present = {}
  BY DEF FoldersInit, Present
<1>2. FoldersTypeOK
  BY IdleFiling DEF FoldersInit, FoldersTypeOK, FilingCall
<1>3. \A q \in Filers : ~Untouched(q)
  BY DEF FoldersInit, Untouched
<1>4. \A i \in Items : filed[i] = Top
  BY DEF FoldersInit
<1> QED BY <1>1, <1>2, <1>3, <1>4 DEF FoldersInv

LEMMA FoldersInvNext == FoldersInv /\ [FoldersNext]_folderVars => FoldersInv'
<1> SUFFICES ASSUME FoldersInv, [FoldersNext]_folderVars PROVE FoldersInv'
  OBVIOUS
<1>1. ASSUME NEW q \in Filers, NEW p \in Folders \cup {Top},
             BeginCreate(q, p) \/ BeginFile(q, p) \/ \E f \in Folders : BeginMove(q, f, p)
      PROVE  FoldersInv'
  BY <1>1, FolderAskKeeps
<1>2. ASSUME NEW q \in Filers, NEW f \in Folders, BeginDelete(q, f) PROVE FoldersInv'
  BY <1>2, FolderAskKeeps
<1>3. ASSUME NEW q \in Filers, NEW f \in Folders, Create(q, f) PROVE FoldersInv'
  BY <1>3, FolderCreateKeeps
<1>4. ASSUME NEW q \in Filers, CheckCreate(q) \/ CheckAncestor(q) \/ ReadDepth(q) \/ CheckHeight(q)
      PROVE  FoldersInv'
  BY <1>4, FolderCheckKeeps
<1>5. ASSUME NEW q \in Filers, Move(q) PROVE FoldersInv'
  BY <1>5, FolderMoveKeeps
<1>6. ASSUME NEW q \in Filers, Delete(q) PROVE FoldersInv'
  BY <1>6, FolderDeleteKeeps
<1>7. ASSUME NEW q \in Filers, NEW i \in Items, File(q, i) PROVE FoldersInv'
  BY <1>7, ItemFileKeeps
<1>8. ASSUME NEW i \in Items, TakeOut(i) \/ \E f \in Folders : FileUnchecked(i, f)
      PROVE  FoldersInv'
  BY <1>8, ItemPutKeeps
<1>9. ASSUME UNCHANGED folderVars PROVE FoldersInv'
  <2>1. UNCHANGED <<above, gone, filed, filing, overtaken, misfiled>>
    BY <1>9 DEF folderVars
  <2>2. Present' = Present
    BY <2>1 DEF Present
  <2>3. \A f : Lineage(f)' = Lineage(f) /\ (Nested(f)' <=> Nested(f))
    BY <2>1, <2>2, LineageIs, LineageWillBe, NestedIs, NestedWillBe
  <2>4. \A f : FolderDepth(f)' = FolderDepth(f) /\ FolderHeight(f)' = FolderHeight(f)
    BY <2>2, <2>3 DEF FolderDepth, FolderHeight, Under
  <2>5. \A r \in Filers : (Untouched(r)' <=> Untouched(r)) /\ (Meant(filing[r])' <=> Meant(filing[r]))
    BY <2>1, <2>2, <2>3, <2>4 DEF Meant, Untouched
  <2> QED BY <2>1, <2>2, <2>3, <2>5 DEF FoldersInv, FoldersTypeOK
<1> QED BY <1>1, <1>2, <1>3, <1>4, <1>5, <1>6, <1>7, <1>8, <1>9 DEF FoldersNext

THEOREM FoldersInvariant == FoldersSpec => []FoldersInv
<1> QED BY FoldersInvInit, FoldersInvNext, PTL DEF FoldersSpec

(* The folders, what is filed in them and the requests keep their shapes    *)
(* (server/folders.js).                                                     *)
THEOREM FoldersTypeCorrect == FoldersSpec => []FoldersTypeOK
<1>1. FoldersInv => FoldersTypeOK
  BY DEF FoldersInv
<1> QED BY <1>1, FoldersInvariant, PTL

(* However deep the tree and whatever requests overlap, as long as none     *)
(* writes on checks another write has followed: folders nest within the     *)
(* cap, and what is filed is in a folder that is there, but for what its    *)
(* own route has put elsewhere (the folder routes of server.js, and PUT     *)
(* .../saved/:sid, which looks for no folder).                              *)
THEOREM FoldersStayNested == FoldersSpec => []FoldersNest
<1>1. FoldersInv => FoldersNest
  BY DEF FoldersInv, FoldersNest, Nested
<1> QED BY <1>1, FoldersInvariant, PTL
-----------------------------------------------------------------------------
(***************************************************************************)
(* The run that puts the accounts, the tree and the folders side by side is *)
(* a run of each of them.                                                  *)
(***************************************************************************)

(* Each component takes its own steps in MCRecords, or none.                *)
THEOREM RecordsImplements == RecordsSpec => MemberSpec /\ TreeSpec /\ FoldersSpec
<1>1. RecordsInit => MemberInit /\ TreeInit /\ FoldersInit
  BY DEF RecordsInit
<1>2. [RecordsNext]_recordsVars => [MemberNext]_memberVars
  BY DEF RecordsNext, recordsVars, memberVars
<1>3. [RecordsNext]_recordsVars => [TreeNext]_treeVars
  BY DEF RecordsNext, recordsVars, treeVars
<1>4. [RecordsNext]_recordsVars => [FoldersNext]_folderVars
  BY DEF RecordsNext, recordsVars, folderVars
<1> QED BY <1>1, <1>2, <1>3, <1>4, PTL
        DEF RecordsSpec, MemberSpec, TreeSpec, FoldersSpec

(* What each of them keeps typed is typed in the run (RecordsTypeOK).       *)
THEOREM RecordsTypeCorrect == RecordsSpec => []RecordsTypeOK
<1>1. MemberTypeOK /\ TreeTypeOK /\ FoldersTypeOK => RecordsTypeOK
  BY DEF RecordsTypeOK
<1> QED BY <1>1, RecordsImplements, MemberTypeCorrect, TreeTypeCorrect, FoldersTypeCorrect, PTL
=============================================================================
