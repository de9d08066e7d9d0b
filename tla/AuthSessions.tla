---------------------------- MODULE AuthSessions ----------------------------
(***************************************************************************)
(* One login (server/sessions: hybrid.js over db.js and memory.js, called  *)
(* from index.js), in several server processes that share the metadata     *)
(* store and keep a cache each.  A durable call is cut where it waits for  *)
(* the store: the call issues a statement, the store executes it at some   *)
(* later moment, and the call goes on later still.  Time is counted in     *)
(* ticks; nothing that waits for the store waits longer than Delay ticks.  *)
(***************************************************************************)
EXTENDS Naturals

CONSTANTS
  Processes,    \* server processes
  Reads,        \* concurrent readAuthSession calls
  Nobody,       \* no process
  Ttl,          \* SESSION_TTL_MS
  CacheTtl,     \* CACHE_TTL_MS
  PersistAfter, \* Ttl * PERSIST_AFTER
  Delay,        \* bound: how long a call may wait for the store
  MaxTime       \* bound on the clock

ASSUME TimesAssumption ==
  /\ {Ttl, CacheTtl, PersistAfter, Delay, MaxTime} \subseteq Nat
  /\ CacheTtl > 0 /\ PersistAfter > 0 /\ PersistAfter < MaxTime
  /\ CacheTtl + PersistAfter + 2 * Delay <= Ttl
  /\ Processes # {} /\ Nobody \notin Processes

VARIABLES
  now,        \* Date.now(), in ticks
  row,        \* the session row's expires_at, 0 if there is no row
  cache,      \* per process: the cached entry's expiresAt, 0 if absent
  persisted,  \* per process: persistedAt's entry, 0 if absent
  login,      \* the createAuthSession that made the token
  read,       \* the readAuthSession calls
  revoke,     \* one destroyAuthSession or destroyAuthSessionsForUser
  lastUse,    \* history: when a call last answered with the session
  goneAt,     \* history: when the revocation deleted the row, 0 before
  lapsed      \* history: the row's time, or what a call took it to be,
              \* ran out while that call was waiting

stores == <<row, cache, persisted>>
loginHistory == <<lastUse, goneAt, lapsed>>
loginVars == <<now, stores, login, read, revoke, loginHistory>>

(* Zero stands for the distant past, further back than PersistAfter.       *)
Start == PersistAfter + 1

(* "ask": findFirst issued; "asked": answered; "purge": deleteMany issued;  *)
(* "found": get returned the session; "renew": updateMany issued;           *)
(* "renewed": answered.  `stamp': the now() a statement was issued with;    *)
(* `seen': what it answered; `late': begun after a sign-out here returned.  *)
IdleRead == [at |-> "idle", on |-> Nobody, since |-> 0, stamp |-> 0, seen |-> 0, late |-> FALSE]

LoginsTypeOK ==
  /\ now \in 0..MaxTime
  /\ row \in 0..(MaxTime + Ttl)
  /\ cache \in [Processes -> 0..(MaxTime + CacheTtl)]
  /\ persisted \in [Processes -> 0..MaxTime]
  /\ login \in [at : {"put", "stored", "done", "lost"}, on : Processes, since : 0..MaxTime]
  /\ read \in [Reads -> [at : {"idle", "ask", "asked", "purge", "found", "renew", "renewed"},
                         on : Processes \cup {Nobody}, since : 0..MaxTime,
                         stamp : 0..MaxTime, seen : 0..(MaxTime + Ttl), late : BOOLEAN]]
  /\ revoke \in [at : {"idle", "delete", "deleted", "done"},
                 on : Processes \cup {Nobody}, since : 0..MaxTime]
  /\ lastUse \in 0..MaxTime /\ goneAt \in 0..MaxTime /\ lapsed \in BOOLEAN

LoginsInit ==
  /\ now = Start /\ row = 0
  /\ cache = [p \in Processes |-> 0]
  /\ persisted = [p \in Processes |-> 0]
  /\ login \in {[at |-> "put", on |-> p, since |-> Start] : p \in Processes}
  /\ read = [r \in Reads |-> IdleRead]
  /\ revoke = [at |-> "idle", on |-> Nobody, since |-> 0]
  /\ lastUse = 0 /\ goneAt = 0 /\ lapsed = FALSE

Live(p) == cache[p] > now  \* memory.js, live
-----------------------------------------------------------------------------
(* createAuthSession: source.put, then the two writes that follow it.       *)
StoreLogin ==
  /\ login.at = "put"
  /\ row' = login.since + Ttl
  /\ login' = [login EXCEPT !.at = "stored"]
  /\ UNCHANGED <<now, cache, persisted, read, revoke, loginHistory>>

FinishLogin ==
  /\ login.at = "stored"
  /\ persisted' = [persisted EXCEPT ![login.on] = now]
  /\ cache' = [cache EXCEPT ![login.on] = now + CacheTtl]
  /\ login' = [login EXCEPT !.at = "done"]
  /\ lastUse' = now
  /\ UNCHANGED <<now, row, read, revoke, goneAt, lapsed>>
-----------------------------------------------------------------------------
(* readAuthSession up to the first wait: store.get, from the cache or on    *)
(* its way to the source.                                                   *)
BeginRead(r, p) ==
  /\ login.at = "done" /\ read[r].at = "idle"
  /\ cache' = [cache EXCEPT ![p] = IF Live(p) THEN @ ELSE 0]
  /\ read' = [read EXCEPT ![r] =
       [at |-> IF Live(p) THEN "found" ELSE "ask", on |-> p, since |-> now,
        stamp |-> 0, seen |-> 0, late |-> revoke.at = "done" /\ revoke.on = p]]
  /\ UNCHANGED <<now, row, persisted, login, revoke, loginHistory>>

AskSource(r) ==
  /\ read[r].at = "ask"
  /\ read' = [read EXCEPT ![r].at = "asked", ![r].seen = row]
  /\ UNCHANGED <<now, stores, login, revoke, loginHistory>>

(* source.get's answer, then the backfill of the cache.                     *)
Miss(r) ==
  /\ read[r].at = "asked" /\ read[r].seen = 0
  /\ read' = [read EXCEPT ![r] = IdleRead]
  /\ UNCHANGED <<now, stores, login, revoke, loginHistory>>

Expired(r) ==
  /\ read[r].at = "asked" /\ read[r].seen \in 1..now
  /\ read' = [read EXCEPT ![r].at = "purge"]
  /\ UNCHANGED <<now, stores, login, revoke, loginHistory>>

(* Definitions named "Broken..." are slips the properties must tell from    *)
(* the code.  Here: the backfill counts as a renewal of the row.            *)
BrokenBackfill(r) ==
  /\ read[r].at = "asked" /\ read[r].seen > now
  /\ cache' = [cache EXCEPT ![read[r].on] = now + CacheTtl]
  /\ persisted' = [persisted EXCEPT ![read[r].on] = now]
  /\ read' = [read EXCEPT ![r].at = "found", ![r].seen = 0]
  /\ UNCHANGED <<now, row, login, revoke, loginHistory>>

Backfill(r) ==
  /\ read[r].at = "asked" /\ read[r].seen > now
  /\ cache' = [cache EXCEPT ![read[r].on] = now + CacheTtl]
  /\ read' = [read EXCEPT ![r].at = "found", ![r].seen = 0]
  /\ UNCHANGED <<now, row, persisted, login, revoke, loginHistory>>

PurgeExpired(r) ==
  /\ read[r].at = "purge"
  /\ row' = 0
  /\ read' = [read EXCEPT ![r] = IdleRead]
  /\ UNCHANGED <<now, cache, persisted, login, revoke, loginHistory>>

(* store.touch: slide the cached copy; answer, or renew the row first.      *)
PersistedRecently(p) == now - persisted[p] < PersistAfter

BrokenTouch(r) ==
  LET p == read[r].on
  IN  /\ read[r].at = "found"
      /\ cache' = [cache EXCEPT ![p] = IF Live(p) THEN now + Ttl ELSE @]
      /\ IF PersistedRecently(p)
         THEN read' = [read EXCEPT ![r] = IdleRead] /\ lastUse' = now
         ELSE read' = [read EXCEPT ![r].at = "renew", ![r].stamp = now] /\ UNCHANGED lastUse
      /\ UNCHANGED <<now, row, persisted, login, revoke, goneAt, lapsed>>

Touch(r) ==
  LET p == read[r].on
  IN  /\ read[r].at = "found"
      /\ cache' = [cache EXCEPT ![p] = IF Live(p) THEN now + CacheTtl ELSE @]
      /\ IF PersistedRecently(p)
         THEN read' = [read EXCEPT ![r] = IdleRead] /\ lastUse' = now
         ELSE read' = [read EXCEPT ![r].at = "renew", ![r].stamp = now] /\ UNCHANGED lastUse
      /\ UNCHANGED <<now, row, persisted, login, revoke, goneAt, lapsed>>

(* source.touch; `seen' is its verdict.                                     *)
Renew(r) ==
  /\ read[r].at = "renew"
  /\ row' = IF row > read[r].stamp THEN read[r].stamp + Ttl ELSE row
  /\ read' = [read EXCEPT ![r].at = "renewed",
                ![r].seen = IF row > read[r].stamp THEN 1 ELSE 0]
  /\ UNCHANGED <<now, cache, persisted, login, revoke, loginHistory>>

(* readAuthSession answers with the session whatever touch came back with.  *)
BrokenRenewed(r) ==
  /\ read[r].at = "renewed"
  /\ persisted' = [persisted EXCEPT ![read[r].on] = now]
  /\ read' = [read EXCEPT ![r] = IdleRead]
  /\ lastUse' = now
  /\ UNCHANGED <<now, row, cache, login, revoke, goneAt, lapsed>>

Renewed(r) ==
  LET p == read[r].on
  IN  /\ read[r].at = "renewed"
      /\ IF read[r].seen = 1
         THEN persisted' = [persisted EXCEPT ![p] = now] /\ UNCHANGED cache
         ELSE cache' = [cache EXCEPT ![p] = 0] /\ UNCHANGED persisted
      /\ read' = [read EXCEPT ![r] = IdleRead]
      /\ lastUse' = now
      /\ UNCHANGED <<now, row, login, revoke, goneAt, lapsed>>
-----------------------------------------------------------------------------
(* store.del on process p.  A sign-out of the user has found the row first. *)
BeginRevoke(p) ==
  /\ revoke.at = "idle" /\ row # 0
  /\ persisted' = [persisted EXCEPT ![p] = 0]
  /\ revoke' = [at |-> "delete", on |-> p, since |-> now]
  /\ UNCHANGED <<now, row, cache, login, read, loginHistory>>

DeleteRow ==
  /\ revoke.at = "delete"
  /\ row' = 0
  /\ goneAt' = now
  /\ revoke' = [revoke EXCEPT !.at = "deleted"]
  /\ UNCHANGED <<now, cache, persisted, login, read, lastUse, lapsed>>

FinishRevoke ==
  /\ revoke.at = "deleted"
  /\ cache' = [cache EXCEPT ![revoke.on] = 0]
  /\ revoke' = [revoke EXCEPT !.at = "done"]
  /\ UNCHANGED <<now, row, persisted, login, read, loginHistory>>
-----------------------------------------------------------------------------
(* sweepExpired, from the minutely sweeper of any process.                  *)
SweepExpired ==
  /\ row \in 1..now
  /\ row' = 0
  /\ UNCHANGED <<now, cache, persisted, login, read, revoke, loginHistory>>

(* A process restarts: its caches and the calls it was in are lost.         *)
Restart(p) ==
  /\ cache' = [cache EXCEPT ![p] = 0]
  /\ persisted' = [persisted EXCEPT ![p] = 0]
  /\ login' = IF login.on = p /\ login.at # "done" THEN [login EXCEPT !.at = "lost"] ELSE login
  /\ read' = [r \in Reads |-> IF read[r].on = p THEN IdleRead ELSE read[r]]
  /\ revoke' = IF revoke.on = p /\ revoke.at = "delete"
               THEN [at |-> "idle", on |-> Nobody, since |-> 0]
               ELSE IF revoke.on = p THEN [revoke EXCEPT !.at = "done"] ELSE revoke
  /\ UNCHANGED <<now, row, loginHistory>>

LoginsTick ==
  /\ now < MaxTime
  /\ login.at \in {"put", "stored"} => now < login.since + Delay
  /\ revoke.at \in {"delete", "deleted"} => now < revoke.since + Delay
  /\ \A r \in Reads : read[r].at # "idle" => now < read[r].since + Delay
  /\ now' = now + 1
  /\ lapsed' = (lapsed \/ \E r \in Reads : read[r].at # "idle" /\ now' \in {row, read[r].seen})
  /\ UNCHANGED <<stores, login, read, revoke, lastUse, goneAt>>

LoginsNext ==
  \/ StoreLogin \/ FinishLogin
  \/ \E r \in Reads :
       \/ \E p \in Processes : BeginRead(r, p)
       \/ AskSource(r) \/ Miss(r) \/ Expired(r) \/ Backfill(r) \/ PurgeExpired(r)
       \/ Touch(r) \/ Renew(r) \/ Renewed(r)
  \/ \E p \in Processes : BeginRevoke(p) \/ Restart(p)
  \/ DeleteRow \/ FinishRevoke
  \/ SweepExpired
  \/ LoginsTick

LoginsSpec == LoginsInit /\ [][LoginsNext]_loginVars
-----------------------------------------------------------------------------
(* A login that was used, and not revoked, lasts at least Ttl less the part *)
(* touch may leave unwritten, from that use on: through restarts, uses on   *)
(* other processes, cached copies and renewals in any order (hybrid.js,     *)
(* PERSIST_AFTER).  The stamp of a renewal is as old as its statement, and  *)
(* the answer comes later still: each costs a Delay.                        *)
LoginKept ==
  login.at = "done" /\ goneAt = 0 /\ ~lapsed /\ now + 2 * Delay <= lastUse + Ttl - PersistAfter
    => row > now

(* How long a revoked login may still be used anywhere: touch slides the    *)
(* cached copy with every use, so a copy in use is never read again from    *)
(* the source, and only goes when its process has to renew a row that is    *)
(* gone: PersistAfter, a tenth of the session's life, and not CACHE_TTL_MS. *)
(* No backfill, late renewal or login under way starts that period afresh.  *)
RevocationTakesHold ==
  goneAt # 0 => lastUse < goneAt + PersistAfter + CacheTtl + 3 * Delay

(* "How long a durable entry may sit in the cache before it's re-read from  *)
(* the source.  Short enough that an out-of-band revocation (another        *)
(* replica calling `del`, a row deleted by hand) takes effect quickly"      *)
(* (hybrid.js, CACHE_TTL_MS): no use later than that after the row is gone. *)
RevokedQuickly ==
  goneAt # 0 => lastUse <= goneAt + CacheTtl + 3 * Delay

(* "Sign a user out everywhere" (sessions/index.js): a call that begins     *)
(* after the sign-out has returned, on the same process, finds no session.  *)
SignedOutIsSignedOut ==
  \A r \in Reads : read[r].late => read[r].at \notin {"found", "renew", "renewed"}
=============================================================================
