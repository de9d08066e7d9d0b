------------------------------- MODULE Tunnel -------------------------------
(***************************************************************************)
(* How one connection's driver reaches its database through an SSH gateway *)
(* (server/db/tunnel.js, server/ssh.js): the shared tunnel with its        *)
(* listener and its one login, the driver's pool aimed at it, the host key  *)
(* learned at the first login, and edits of the connection and the gateway. *)
(* A request holds the rows it read; an edit drops what was opened from     *)
(* older ones.                                                             *)
(***************************************************************************)
EXTENDS Naturals, FiniteSets

CONSTANTS
  Callers,     \* the operations under way
  MaxTunnels,  \* bound on the tunnels ever opened
  MaxEdits     \* bound on the edits

ASSUME TunnelAssumption == MaxTunnels \in Nat /\ MaxEdits \in Nat

Tunnels == 1..MaxTunnels

VARIABLES
  rows,           \* which version of each row is current, and of the gateway's
                  \* host and the connection's host and port (the target)
  hostKey,        \* ssh_gateways.host_fingerprint: the version of the host it is of, or 0
  tunnel,         \* the tunnels opened so far
  current,        \* `tunnels.get(conn.id)', or 0
  pool,           \* the driver's pool: [tunnel, conn] it was made from, or NoPool
  caller,         \* the operations
  editor,         \* the one edit under way
  edits,
  tunnelCrossed,  \* history: tunnels let go of while a caller or a login was in them
  poolCrossed,    \* history: the pool was made from a tunnel or a row already let go of
  keyCrossed      \* history: the gateway was saved across a first login

tunnelVars == <<rows, hostKey, tunnel, current, pool, caller, editor, edits,
                tunnelCrossed, poolCrossed, keyCrossed>>

Versions == 1..(MaxEdits + 1)
NoPool == [tunnel |-> 0, conn |-> 0]
IdleCaller ==
  [at |-> "idle", conn |-> 0, target |-> 0, gate |-> 0, host |-> 0, key |-> 0, tunnel |-> 0, test |-> FALSE]
NoEditor == [at |-> "idle", what |-> {}, key |-> 0]

Opened == DOMAIN tunnel
(* The caller holds a tunnel that it found or opened.                       *)
On(t) == {c \in Callers : caller[c].at \in {"listening", "login", "reached"} /\ caller[c].tunnel = t}
InUse(t) == t = current \/ \E c \in On(t) : caller[c].test

TunnelType ==
  [target : Versions, gate : Versions, host : Versions, key : 0..(MaxEdits + 1),
   listener : {"opening", "up", "failed", "closed"}, ssh : {"none", "login", "up"}]
CallerType ==
  [at : {"idle", "row", "gateway", "listening", "login", "reached"},
   conn : 0..(MaxEdits + 1), target : 0..(MaxEdits + 1),
   gate : 0..(MaxEdits + 1), host : 0..(MaxEdits + 1),
   key : 0..(MaxEdits + 1), tunnel : {0} \cup Tunnels, test : BOOLEAN]

TunnelTypeOK ==
  /\ rows \in [conn : Versions, target : Versions, gate : Versions, host : Versions]
  /\ hostKey \in 0..(MaxEdits + 1)
  /\ Opened \subseteq Tunnels /\ tunnel \in [Opened -> TunnelType]
  /\ current \in {0} \cup Opened
  /\ pool \in [tunnel : {0} \cup Opened, conn : 0..(MaxEdits + 1)]
  /\ caller \in [Callers -> CallerType] /\ \A c \in Callers : caller[c].tunnel \in {0} \cup Opened
  /\ editor \in [at : {"idle", "read", "saved"}, what : SUBSET {"conn", "target", "gate", "host"},
                 key : 0..(MaxEdits + 1)]
  /\ edits \in 0..MaxEdits
  /\ tunnelCrossed \subseteq Opened /\ poolCrossed \in BOOLEAN /\ keyCrossed \in BOOLEAN

TunnelInit ==
  /\ rows = [conn |-> 1, target |-> 1, gate |-> 1, host |-> 1] /\ hostKey = 0
  /\ tunnel = <<>> /\ current = 0 /\ pool = NoPool
  /\ caller = [c \in Callers |-> IdleCaller]
  /\ editor = NoEditor /\ edits = 0
  /\ tunnelCrossed = {} /\ poolCrossed = FALSE /\ keyCrossed = FALSE
-----------------------------------------------------------------------------
(* close(): a listener that is not up yet comes up all the same, and a      *)
(* login under way goes on.                                                 *)
BrokenClosed(t) == [t EXCEPT !.listener = IF @ = "up" THEN "closed" ELSE @]

Closed(t) ==
  [t EXCEPT !.listener = IF @ = "up" THEN "closed" ELSE @,
            !.ssh = IF @ = "up" THEN "none" ELSE @]

CloseNote(t, others) ==
  tunnelCrossed' = IF others # {} \/ tunnel[t].ssh = "login" \/ tunnel[t].listener = "opening"
                   THEN tunnelCrossed \cup {t} ELSE tunnelCrossed

SetCaller(c, at) == caller' = [caller EXCEPT ![c].at = at]

(* The route's row of the connection; its gateway's row.                    *)
GetConnection(c) ==
  /\ caller[c] = IdleCaller
  /\ \E test \in BOOLEAN :
       caller' = [caller EXCEPT ![c] =
         [IdleCaller EXCEPT !.at = "row", !.conn = rows.conn, !.target = rows.target, !.test = test]]
  /\ UNCHANGED <<rows, hostKey, tunnel, current, pool, editor, edits, tunnelCrossed, poolCrossed, keyCrossed>>

GetGateway(c) ==
  /\ caller[c].at = "row"
  /\ caller' = [caller EXCEPT ![c].at = "gateway", ![c].gate = rows.gate,
                               ![c].host = rows.host, ![c].key = hostKey]
  /\ UNCHANGED <<rows, hostKey, tunnel, current, pool, editor, edits, tunnelCrossed, poolCrossed, keyCrossed>>

(* reach(): a tunnel of the same signature (the gateway as it was saved, and *)
(* the target) is shared, another is closed and the pool aimed at it        *)
(* dropped.  A test opens its own.                                          *)
SignatureOf(x) == <<x.gate, x.target>>

NewTunnel(c) ==
  [target |-> caller[c].target, gate |-> caller[c].gate, host |-> caller[c].host, key |-> caller[c].key,
   listener |-> "opening", ssh |-> "none"]

BrokenStale(c) == current # 0 /\ tunnel[current].target # caller[c].target
Stale(c) == current # 0 /\ SignatureOf(tunnel[current]) # SignatureOf(caller[c])

Share(c) ==
  /\ caller[c].at = "gateway" /\ ~caller[c].test /\ current # 0 /\ ~Stale(c)
  /\ caller' = [caller EXCEPT ![c].at = "listening", ![c].tunnel = current]
  /\ UNCHANGED <<rows, hostKey, tunnel, current, pool, editor, edits, tunnelCrossed, poolCrossed, keyCrossed>>

Open(c) ==
  LET t == Cardinality(Opened) + 1
      replaces == Stale(c) /\ ~caller[c].test
  IN  /\ caller[c].at = "gateway" /\ (caller[c].test \/ current = 0 \/ Stale(c))
      /\ t \in Tunnels
      /\ tunnel' = [u \in Opened \cup {t} |->
                      IF u = t THEN NewTunnel(c)
                      ELSE IF replaces /\ u = current THEN Closed(tunnel[u]) ELSE tunnel[u]]
      /\ pool' = IF replaces THEN NoPool ELSE pool
      /\ IF replaces THEN CloseNote(current, On(current)) ELSE UNCHANGED tunnelCrossed
      /\ current' = IF caller[c].test THEN current ELSE t
      /\ caller' = [caller EXCEPT ![c].at = "listening", ![c].tunnel = t]
      /\ UNCHANGED <<rows, hostKey, editor, edits, poolCrossed, keyCrossed>>

Listen(t, ok) ==
  /\ tunnel[t].listener = "opening"
  /\ tunnel' = [tunnel EXCEPT ![t].listener = IF ok THEN "up" ELSE "failed"]
  /\ UNCHANGED <<rows, hostKey, current, pool, caller, editor, edits, tunnelCrossed, poolCrossed, keyCrossed>>

(* Callers that gave up on t, and t itself if nobody is to find it again.   *)
LetGo(c, t, close) ==
  /\ caller' = [caller EXCEPT ![c] = IdleCaller]
  /\ IF close
     THEN /\ tunnel' = [tunnel EXCEPT ![t] = Closed(@)]
          /\ current' = IF current = t THEN 0 ELSE current
          /\ CloseNote(t, On(t) \ {c})
     ELSE UNCHANGED <<tunnel, current, tunnelCrossed>>

NoListener(c) ==
  LET t == caller[c].tunnel
  IN  /\ caller[c].at = "listening" /\ tunnel[t].listener = "failed"
      /\ LetGo(c, t, current = t \/ caller[c].test)
      /\ UNCHANGED <<rows, hostKey, pool, editor, edits, poolCrossed, keyCrossed>>

(* ensureSsh(): whoever comes while a login is under way waits for that one. *)
EnsureSsh(c) ==
  LET t == caller[c].tunnel
  IN  /\ caller[c].at = "listening" /\ tunnel[t].listener \in {"up", "closed"}
      /\ SetCaller(c, IF tunnel[t].ssh = "up" THEN "reached" ELSE "login")
      /\ tunnel' = [tunnel EXCEPT ![t].ssh = IF @ = "none" THEN "login" ELSE @]
      /\ UNCHANGED <<rows, hostKey, current, pool, editor, edits, tunnelCrossed, poolCrossed, keyCrossed>>

(* connectGateway(): refused on another key than the row read had; a first  *)
(* login records the key it saw, if the row has none.                       *)
Pinned(t) == IF tunnel[t].key = 0 /\ hostKey = 0 THEN tunnel[t].host ELSE hostKey

Pins(t) ==
  /\ tunnel[t].key \in {0, tunnel[t].host}
  /\ hostKey' = Pinned(t)
  /\ keyCrossed' = (keyCrossed \/ (hostKey' # hostKey /\ tunnel[t].host # rows.host))

LoggedIn(t) ==
  /\ tunnel[t].ssh = "login"
  /\ tunnel' = [tunnel EXCEPT ![t].ssh = "up"]
  /\ Pins(t)
  /\ caller' = [c \in Callers |-> IF caller[c].at = "login" /\ caller[c].tunnel = t
                                  THEN [caller[c] EXCEPT !.at = "reached"] ELSE caller[c]]
  /\ UNCHANGED <<rows, current, pool, editor, edits, tunnelCrossed, poolCrossed>>

(* The login fails, or after it the probe of the target: everybody waiting  *)
(* is told, and the listener stays.  A test closes its tunnel.              *)
LoginFailed(t) ==
  /\ tunnel[t].ssh = "login"
  /\ tunnel' = [tunnel EXCEPT ![t].ssh = "none",
                              ![t].listener = IF \E c \in On(t) : caller[c].test THEN "closed" ELSE @]
  /\ caller' = [c \in Callers |-> IF caller[c].at = "login" /\ caller[c].tunnel = t
                                  THEN IdleCaller ELSE caller[c]]
  /\ Pins(t) \/ UNCHANGED <<hostKey, keyCrossed>>
  /\ UNCHANGED <<rows, current, pool, editor, edits, tunnelCrossed, poolCrossed>>

(* The gateway ends the session.                                            *)
Hangup(t) ==
  /\ tunnel[t].ssh = "up"
  /\ tunnel' = [tunnel EXCEPT ![t].ssh = "none"]
  /\ UNCHANGED <<rows, hostKey, current, pool, caller, editor, edits, tunnelCrossed, poolCrossed, keyCrossed>>

(* A socket of the pool comes in on the listener and logs in again.         *)
Redial(t) ==
  /\ pool.tunnel = t /\ tunnel[t].listener = "up" /\ tunnel[t].ssh = "none"
  /\ tunnel' = [tunnel EXCEPT ![t].ssh = "login"]
  /\ UNCHANGED <<rows, hostKey, current, pool, caller, editor, edits, tunnelCrossed, poolCrossed, keyCrossed>>

(* The driver runs the operation on the connection's pool, and makes one    *)
(* from what it was handed if there is none.  A test closes its tunnel.     *)
Use(c) ==
  LET t == caller[c].tunnel
      makes == ~caller[c].test /\ pool = NoPool
  IN  /\ caller[c].at = "reached"
      /\ pool' = IF makes THEN [tunnel |-> t, conn |-> caller[c].conn] ELSE pool
      /\ poolCrossed' = IF makes THEN (t # current \/ caller[c].conn # rows.conn \/ caller[c].gate # rows.gate)
                        ELSE poolCrossed
      /\ LetGo(c, t, caller[c].test)
      /\ UNCHANGED <<rows, hostKey, editor, edits, keyCrossed>>
-----------------------------------------------------------------------------
(* releaseConnection: by the end of the last session, by an edit.           *)
ReleaseAll ==
  /\ pool' = NoPool /\ current' = 0 /\ poolCrossed' = FALSE
  /\ IF current = 0 THEN UNCHANGED <<tunnel, tunnelCrossed>>
     ELSE /\ tunnel' = [tunnel EXCEPT ![current] = Closed(@)]
          /\ CloseNote(current, On(current))

Release ==
  /\ current # 0 \/ pool # NoPool
  /\ ReleaseAll
  /\ UNCHANGED <<rows, hostKey, caller, editor, edits, keyCrossed>>

BeginEdit(what) ==
  /\ editor.at = "idle" /\ edits < MaxEdits
  /\ editor' = [at |-> "read", what |-> what, key |-> hostKey]
  /\ edits' = edits + 1
  /\ UNCHANGED <<rows, hostKey, tunnel, current, pool, caller, tunnelCrossed, poolCrossed, keyCrossed>>

(* The row is saved.  A gateway that has moved forgets its host's key,      *)
(* another edit writes back the one it read.                                *)
SavedKey == IF "host" \in editor.what THEN 0 ELSE editor.key

SaveEdit ==
  /\ editor.at = "read"
  /\ editor' = [editor EXCEPT !.at = "saved"]
  /\ rows' = [r \in DOMAIN rows |-> IF r \in editor.what THEN rows[r] + 1 ELSE rows[r]]
  /\ hostKey' = IF "gate" \in editor.what THEN SavedKey ELSE hostKey
  /\ UNCHANGED <<tunnel, current, pool, caller, edits, tunnelCrossed, poolCrossed, keyCrossed>>

(* ... and the handles made from the old one are dropped.                   *)
DropHandles ==
  /\ editor.at = "saved"
  /\ editor' = NoEditor
  /\ ReleaseAll
  /\ UNCHANGED <<rows, hostKey, caller, edits, keyCrossed>>

TunnelNext ==
  \/ \E c \in Callers :
       \/ GetConnection(c) \/ GetGateway(c) \/ Share(c) \/ Open(c) \/ NoListener(c)
       \/ EnsureSsh(c) \/ Use(c)
  \/ \E t \in Opened :
       \/ \E ok \in BOOLEAN : Listen(t, ok)
       \/ LoggedIn(t) \/ LoginFailed(t) \/ Hangup(t) \/ Redial(t)
  \/ Release \/ SaveEdit \/ DropHandles
  \/ \E what \in {{"conn"}, {"conn", "target"}, {"gate"}, {"gate", "host"}} : BeginEdit(what)

TunnelSpec == TunnelInit /\ [][TunnelNext]_tunnelVars
-----------------------------------------------------------------------------
(* A tunnel nobody can find again holds no listener and no SSH session,     *)
(* unless it was let go of while a caller or a login was in it: then what   *)
(* comes up afterwards is closed by nobody.                                 *)
NothingLeftOpen ==
  \A t \in Opened :
    ~InUse(t) /\ t \notin tunnelCrossed =>
      tunnel[t].listener \in {"failed", "closed"} /\ tunnel[t].ssh = "none"

(* "A tunnel replaced under a live pool drops that pool, since it points at *)
(* a port that no longer forwards anywhere" (db/index.js), and an edit is   *)
(* not ignored: outside an edit the pool is aimed at the current tunnel and *)
(* made from the current rows, unless the operation that made it had read   *)
(* them before.  The key on record is the current host's: "Pointing it at a *)
(* different host ... forgets the pinned host key (it belongs to the old    *)
(* server)" (ssh.js), unless a login to the old server was under way.       *)
EditsTakeHold ==
  /\ pool # NoPool /\ ~poolCrossed /\ editor.at # "saved" =>
       pool.tunnel = current /\ pool.conn = rows.conn /\ tunnel[current].gate = rows.gate
  /\ hostKey # 0 /\ ~keyCrossed => hostKey = rows.host
=============================================================================
