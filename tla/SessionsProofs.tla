--------------------------- MODULE SessionsProofs ---------------------------
(***************************************************************************)
(* What holds of login sessions and of connection sessions.                *)
(***************************************************************************)
EXTENDS AuthSessions, ConnSessions, FiniteSetTheorems, FunctionTheorems, TLAPS
-----------------------------------------------------------------------------
(***************************************************************************)
(* Why a login that is used is kept, and a revoked one is not answered with *)
(* for long.  While nobody signs out every cached copy, and every read that *)
(* has one, ends before the row does (Backed); after it what is cached ends *)
(* by LastCopy (Ending), but for the copies whose renewal is still out.     *)
(***************************************************************************)

(* Reads that have been given the session and will answer with it.          *)
Using == {"found", "renew", "renewed"}

(* The times of a process and its calls: what is stamped is in the past,    *)
(* and no call waits longer than Delay.                                     *)
ReadInTime(r) == read[r].at # "idle" =>
  /\ read[r].on \in Processes
  /\ read[r].since <= now /\ now <= read[r].since + Delay
  /\ read[r].at \in {"renew", "renewed"} => read[r].since <= read[r].stamp /\ read[r].stamp <= now
  /\ read[r].at = "renewed" => read[r].seen \in {0, 1}

(* Before the login is done there is nothing to read.                       *)
NotYet ==
  /\ \A r \in Reads : read[r].at = "idle"
  /\ \A p \in Processes : cache[p] = 0 /\ persisted[p] = 0
  /\ lastUse = 0

InTime ==
  /\ Start <= now /\ row <= now + Ttl /\ lastUse <= now /\ goneAt <= now
  /\ login.since <= now
  /\ login.at \in {"put", "stored"} => now <= login.since + Delay
  /\ login.at = "put" => row = 0 /\ revoke.at = "idle"
  /\ login.at # "done" => NotYet
  /\ goneAt = 0 => revoke.at \in {"idle", "delete"}
  /\ revoke.at = "idle" => revoke.on = Nobody
  /\ \A p \in Processes : cache[p] <= now + CacheTtl /\ persisted[p] <= now
  /\ \A r \in Reads : ReadInTime(r)

(* While nobody signs out.  The row lasts until x, less what a stamp and an *)
(* answer may be late.                                                      *)
Kept(x) == now + 2 * Delay < x => x <= row + 2 * Delay

CacheBacked(p) == now < cache[p] =>
  cache[p] <= row \/ \E r \in Reads : read[r].on = p /\ read[r].at \in Using

ReadBacked(r) ==
  /\ read[r].at \in Using => now < row
  /\ read[r].at = "renewed" => read[r].seen = 1 /\ read[r].since + Ttl <= row + Delay
  /\ read[r].at = "asked" /\ now < read[r].seen => now < row
  /\ read[r].at = "asked" /\ read[r].seen # 0 /\ read[r].seen <= now => row <= now
  /\ read[r].at = "purge" => row <= now

Backed == goneAt = 0 /\ ~lapsed =>
  /\ login.at = "stored" => row = login.since + Ttl
  /\ login.at = "done" => Kept(lastUse + Ttl - PersistAfter + 1)
  /\ \A p \in Processes : persisted[p] # 0 => Kept(persisted[p] + Ttl)
  /\ \A p \in Processes : CacheBacked(p)
  /\ \A r \in Reads : ReadBacked(r)

(* After a revocation.  A cached copy slides to LastCopy and no further,    *)
(* unless a call that began before is already out to renew the row: its     *)
(* answer takes the copy away.                                              *)
LastCopy == goneAt + Delay + PersistAfter + CacheTtl - 1

CopyEnds(p) == LastCopy < cache[p] => \E r \in Reads :
  /\ read[r].on = p /\ read[r].since < LastCopy
  /\ read[r].at = "renew" \/ (read[r].at = "renewed" /\ read[r].seen = 0)

ReadEnds(r) ==
  /\ read[r].at \in Using => read[r].since < LastCopy + Delay
  /\ read[r].at \in {"asked", "renewed"} /\ read[r].seen # 0 => read[r].since <= goneAt

Ending == goneAt # 0 =>
  /\ row = 0 /\ lastUse < LastCopy + 2 * Delay
  /\ login.at # "put" /\ (login.at = "stored" => login.since <= goneAt)
  /\ \A p \in Processes : persisted[p] <= goneAt + Delay
  /\ \A p \in Processes : CopyEnds(p)
  /\ \A r \in Reads : ReadEnds(r)

LoginsInv == LoginsTypeOK /\ InTime /\ Backed /\ Ending
-----------------------------------------------------------------------------
LEMMA LoginTimes ==
  /\ Ttl \in Nat /\ CacheTtl \in Nat /\ PersistAfter \in Nat /\ Delay \in Nat /\ MaxTime \in Nat
  /\ 0 < CacheTtl /\ 0 < PersistAfter /\ CacheTtl + PersistAfter + 2 * Delay <= Ttl
  /\ Start = PersistAfter + 1 /\ Start <= MaxTime /\ Nobody \notin Processes
BY TimesAssumption DEF Start

ReadStages == {"idle", "ask", "asked", "purge", "found", "renew", "renewed"}

LEMMA LoginTypes ==
  ASSUME LoginsTypeOK
  PROVE  /\ now \in Nat /\ row \in Nat /\ lastUse \in Nat /\ goneAt \in Nat /\ lapsed \in BOOLEAN
         /\ cache \in [Processes -> Nat] /\ persisted \in [Processes -> Nat]
         /\ login.on \in Processes /\ login.since \in Nat /\ login.at \in {"put", "stored", "done", "lost"}
         /\ read \in [Reads -> [at : ReadStages, on : Processes \cup {Nobody}, since : Nat,
                                stamp : Nat, seen : Nat, late : BOOLEAN]]
         /\ revoke.on \in Processes \cup {Nobody} /\ revoke.since \in Nat
BY LoginTimes DEF LoginsTypeOK, ReadStages

(* The records of the reads.                                                *)
ReadCalls == [at : ReadStages, on : Processes \cup {Nobody}, since : 0..MaxTime,
              stamp : 0..MaxTime, seen : 0..(MaxTime + Ttl), late : BOOLEAN]

LEMMA ReadMoves ==
  ASSUME NEW c \in ReadCalls, NEW at \in ReadStages, NEW stamp \in 0..MaxTime,
         NEW seen \in 0..(MaxTime + Ttl)
  PROVE  /\ [c EXCEPT !.at = at] \in ReadCalls
         /\ [c EXCEPT !.at = at, !.seen = seen] \in ReadCalls
         /\ [c EXCEPT !.at = at, !.stamp = stamp] \in ReadCalls
BY DEF ReadCalls

(* The types survive a step that moves one read and writes one copy.        *)
LEMMA ReadTypes ==
  ASSUME LoginsTypeOK, NEW r \in Reads, NEW p, NEW c \in ReadCalls,
         NEW copy \in 0..(MaxTime + CacheTtl), NEW wrote \in 0..MaxTime,
         UNCHANGED <<now, login, revoke, goneAt, lapsed>>, lastUse' \in {lastUse, now},
         row' \in 0..(MaxTime + Ttl),
         read' = [read EXCEPT ![r] = c],
         cache' = [cache EXCEPT ![p] = copy], persisted' = [persisted EXCEPT ![p] = wrote]
  PROVE  LoginsTypeOK'
<1>1. read' \in [Reads -> ReadCalls]
  BY DEF LoginsTypeOK, ReadCalls, ReadStages
<1>2. cache' \in [Processes -> 0..(MaxTime + CacheTtl)] /\ persisted' \in [Processes -> 0..MaxTime]
  BY DEF LoginsTypeOK
<1> QED BY <1>1, <1>2 DEF LoginsTypeOK, ReadCalls, ReadStages

LEMMA LoginsInvInit == LoginsInit => LoginsInv
<1> SUFFICES ASSUME LoginsInit PROVE LoginsInv
  OBVIOUS
<1>1. LoginsTypeOK
  <2>1. now \in 0..MaxTime /\ row \in 0..(MaxTime + Ttl) /\ lastUse \in 0..MaxTime /\ goneAt \in 0..MaxTime
    BY LoginTimes DEF LoginsInit
  <2>2. cache \in [Processes -> 0..(MaxTime + CacheTtl)] /\ persisted \in [Processes -> 0..MaxTime]
    BY LoginTimes DEF LoginsInit
  <2>3. login \in [at : {"put", "stored", "done", "lost"}, on : Processes, since : 0..MaxTime]
    BY LoginTimes DEF LoginsInit
  <2>4. IdleRead \in [at : {"idle"}, on : {Nobody}, since : 0..MaxTime,
                      stamp : 0..MaxTime, seen : 0..(MaxTime + Ttl), late : {FALSE}]
    BY LoginTimes DEF IdleRead
  <2>5. lapsed \in BOOLEAN
    BY DEF LoginsInit
  <2>6. revoke \in [at : {"idle", "delete", "deleted", "done"},
                    on : Processes \cup {Nobody}, since : 0..MaxTime]
    BY LoginTimes DEF LoginsInit
  <2>7. read \in [Reads -> [at : {"idle", "ask", "asked", "purge", "found", "renew", "renewed"},
                         on : Processes \cup {Nobody}, since : 0..MaxTime,
                         stamp : 0..MaxTime, seen : 0..(MaxTime + Ttl), late : BOOLEAN]]
    BY <2>4 DEF LoginsInit
  <2> QED BY <2>1, <2>2, <2>3, <2>5, <2>6, <2>7 DEF LoginsTypeOK
<1>2. /\ \A r \in Reads : read[r].at = "idle"
      /\ \A p \in Processes : cache[p] = 0 /\ persisted[p] = 0
      /\ lastUse = 0 /\ goneAt = 0 /\ row = 0 /\ now = Start
      /\ login.at = "put" /\ login.since = now /\ revoke.at = "idle" /\ revoke.on = Nobody
  BY DEF LoginsInit, IdleRead
<1>3. InTime
  BY <1>2, LoginTimes DEF InTime, NotYet, ReadInTime
<1>4. Backed /\ Ending
  BY <1>2, LoginTimes DEF Backed, Ending, CacheBacked, ReadBacked, Using
<1> QED BY <1>1, <1>3, <1>4 DEF LoginsInv

(* What a call does that waits for the store, or has its answer.            *)
LEMMA ReadStepKeeps ==
  ASSUME LoginsInv, NEW r \in Reads, AskSource(r) \/ Miss(r) \/ Expired(r)
  PROVE  LoginsInv'
<1>1. UNCHANGED <<now, row, cache, persisted, login, revoke, lastUse, goneAt, lapsed>>
  BY DEF AskSource, Miss, Expired, stores, loginHistory
<1>3. LoginsTypeOK /\ InTime /\ Backed /\ Ending
  BY DEF LoginsInv
<1>2. \A q \in Reads \ {r} : read'[q] = read[q]
  BY <1>3, LoginTypes DEF AskSource, Miss, Expired
<1>4. LoginsTypeOK'
  <2>1. CASE AskSource(r)
    <3>1. read' = [read EXCEPT ![r] = [read[r] EXCEPT !.at = "asked", !.seen = row]]
      BY <1>3, <2>1, LoginTypes DEF AskSource
    <3> QED BY <1>1, <1>3, <3>1, LoginTimes DEF LoginsTypeOK
  <2>2. CASE Miss(r)
    BY <1>1, <1>3, <2>2, LoginTimes DEF Miss, LoginsTypeOK, IdleRead
  <2>3. CASE Expired(r)
    BY <1>1, <1>3, <2>3, LoginTimes DEF Expired, LoginsTypeOK
  <2> QED BY <2>1, <2>2, <2>3
<1>5. /\ read[r].at \in {"ask", "asked"} /\ read'[r].at \in {"asked", "idle", "purge"}
      /\ read'[r].at # "idle" => read'[r].on = read[r].on /\ read'[r].since = read[r].since
      /\ read'[r].at = "asked" => read'[r].seen = row
      /\ read'[r].at = "purge" => read[r].at = "asked" /\ read[r].seen # 0 /\ read[r].seen <= now
  BY <1>3, LoginTypes DEF AskSource, Miss, Expired, IdleRead
<1>6. InTime'
  BY <1>1, <1>2, <1>3, <1>5 DEF InTime, NotYet, ReadInTime
<1>7. Backed'
  <2>1. \A q \in Reads : read'[q].at \in Using <=> read[q].at \in Using
    BY <1>2, <1>5 DEF Using
  <2>2. \A q \in Reads : read[q].at \in Using => read'[q] = read[q]
    BY <1>2, <1>5 DEF Using
  <2>3. ASSUME goneAt = 0, ~lapsed PROVE \A q \in Reads : ReadBacked(q)'
    BY <1>1, <1>2, <1>3, <1>5, <2>3, LoginTypes DEF Backed, ReadBacked, Using
  <2> QED BY <1>1, <1>3, <2>1, <2>2, <2>3 DEF Backed, CacheBacked, Kept
<1>8. Ending'
  <2>1. \A q \in Reads : read[q].at \in {"renew", "renewed"} => read'[q] = read[q]
    BY <1>2, <1>5
  <2>2. ASSUME goneAt # 0 PROVE \A q \in Reads : ReadEnds(q)'
    BY <1>1, <1>2, <1>3, <1>5, <2>2, LoginTypes DEF Ending, ReadEnds, Using, LastCopy
  <2>3. LastCopy' = LastCopy
    BY <1>1 DEF LastCopy
  <2> QED BY <1>1, <1>3, <2>1, <2>2, <2>3 DEF Ending, CopyEnds
<1> QED BY <1>4, <1>6, <1>7, <1>8 DEF LoginsInv

(* A read begins, with a cached copy or on its way to the row.  A live copy *)
(* vouches for the row; after a revocation it is one of the last.           *)
LEMMA BeginReadKeeps ==
  ASSUME LoginsInv, NEW r \in Reads, NEW p \in Processes, BeginRead(r, p)
  PROVE  LoginsInv'
<1> DEFINE late == revoke.at = "done" /\ revoke.on = p
           next == IF Live(p) THEN "found" ELSE "ask"
           copy == IF Live(p) THEN cache[p] ELSE 0
           new == [at |-> next, on |-> p, since |-> now, stamp |-> 0, seen |-> 0, late |-> late]
<1>1. /\ UNCHANGED <<now, row, persisted, login, revoke, lastUse, goneAt, lapsed>>
      /\ login.at = "done" /\ read[r].at = "idle"
      /\ cache' = [cache EXCEPT ![p] = copy] /\ read' = [read EXCEPT ![r] = new]
  BY DEF BeginRead, loginHistory
<1>2. LoginsTypeOK /\ InTime /\ Backed /\ Ending
  BY DEF LoginsInv
<1>3. /\ \/ next = "found" /\ now < cache[p] /\ copy = cache[p]
         \/ next = "ask" /\ ~(now < cache[p]) /\ copy = 0
      /\ late \in BOOLEAN
  <2>1. Live(p) <=> now < cache[p]
    BY <1>2, LoginTypes DEF Live
  <2> QED BY <2>1
<1> HIDE DEF late, next, copy
<1>4. LoginsTypeOK'
  <2>1. copy \in 0..(MaxTime + CacheTtl)
    BY <1>2, <1>3, LoginTimes DEF LoginsTypeOK
  <2>2. cache' \in [Processes -> 0..(MaxTime + CacheTtl)]
    BY <1>1, <1>2, <2>1 DEF LoginsTypeOK
  <2>3. new \in [at : {"found", "ask"}, on : Processes, since : 0..MaxTime,
                 stamp : 0..MaxTime, seen : 0..(MaxTime + Ttl), late : BOOLEAN]
    BY <1>2, <1>3, LoginTimes DEF LoginsTypeOK
  <2> HIDE DEF new
  <2> QED BY <1>1, <1>2, <2>2, <2>3 DEF LoginsTypeOK
<1>5. /\ \A q \in Reads \ {r} : read'[q] = read[q]
      /\ \A q \in Processes \ {p} : cache'[q] = cache[q]
      /\ cache'[p] = copy
      /\ read'[r].at = next /\ read'[r].on = p /\ read'[r].since = now /\ read'[r].seen = 0
  BY <1>1, <1>2, LoginTypes
<1>6. InTime'
  BY <1>1, <1>2, <1>3, <1>5, LoginTypes, LoginTimes DEF InTime, NotYet, ReadInTime
<1>7. \A q \in Reads : read[q].at # "idle" => read'[q] = read[q]
  BY <1>1, <1>5
<1>8. ASSUME goneAt = 0, ~lapsed PROVE Backed'
  <2>1. \A q \in Processes : CacheBacked(q)'
    BY <1>1, <1>2, <1>3, <1>5, <1>7, <1>8, LoginTypes DEF Backed, CacheBacked, Using
  <2>2. next = "found" => now < row
    BY <1>2, <1>3, <1>8, LoginTypes DEF Backed, CacheBacked, ReadBacked
  <2>3. \A q \in Reads : ReadBacked(q)'
    BY <1>1, <1>2, <1>3, <1>5, <1>8, <2>2, LoginTypes DEF Backed, ReadBacked, Using
  <2> QED BY <1>1, <1>2, <1>8, <2>1, <2>3 DEF Backed, Kept
<1>9. ASSUME goneAt # 0 PROVE Ending'
  <2>1. LastCopy' = LastCopy /\ LastCopy \in Nat
    BY <1>1, <1>2, LoginTypes, LoginTimes DEF LastCopy
  <2>2. \A q \in Processes : CopyEnds(q)'
    BY <1>1, <1>2, <1>3, <1>5, <1>7, <1>9, <2>1, LoginTypes DEF Ending, CopyEnds
  <2>3. next = "found" => now < LastCopy + Delay
    <3>1. ASSUME now < cache[p], LastCopy < cache[p] PROVE now < LastCopy + Delay
      BY <1>2, <1>9, <2>1, <3>1, LoginTypes, LoginTimes DEF Ending, CopyEnds, InTime, ReadInTime
    <3> QED BY <1>2, <1>3, <2>1, <3>1, LoginTypes, LoginTimes
  <2>4. \A q \in Reads : ReadEnds(q)'
    BY <1>1, <1>2, <1>3, <1>5, <1>9, <2>1, <2>3, LoginTypes DEF Ending, ReadEnds, Using
  <2> QED BY <1>1, <1>2, <1>9, <2>1, <2>2, <2>4 DEF Ending
<1> QED BY <1>1, <1>4, <1>6, <1>8, <1>9 DEF LoginsInv, Backed, Ending

(* The backfill puts a copy in the cache, of a row that was there when it   *)
(* was read.                                                                *)
LEMMA BackfillKeeps ==
  ASSUME LoginsInv, NEW r \in Reads, Backfill(r) PROVE LoginsInv'
<1> DEFINE p == read[r].on
<1>1. /\ UNCHANGED <<now, row, persisted, login, revoke, lastUse, goneAt, lapsed>>
      /\ read[r].at = "asked" /\ now < read[r].seen
      /\ cache' = [cache EXCEPT ![p] = now + CacheTtl]
      /\ read' = [read EXCEPT ![r] = [read[r] EXCEPT !.at = "found", !.seen = 0]]
  <2>1. LoginsTypeOK
    BY DEF LoginsInv
  <2> QED BY <2>1, LoginTypes DEF Backfill, loginHistory
<1>2. LoginsTypeOK /\ InTime /\ Backed /\ Ending
  BY DEF LoginsInv
<1>3. p \in Processes /\ read[r].since <= now /\ now <= read[r].since + Delay
  BY <1>1, <1>2 DEF InTime, ReadInTime
<1>4. LoginsTypeOK'
  <2>1. now + CacheTtl \in 0..(MaxTime + CacheTtl) /\ 0 \in 0..(MaxTime + Ttl) /\ row \in 0..(MaxTime + Ttl)
    BY <1>2, LoginTimes DEF LoginsTypeOK
  <2>2. read[r] \in ReadCalls /\ "found" \in ReadStages /\ persisted[p] \in 0..MaxTime
    BY <1>2, <1>3 DEF LoginsTypeOK, ReadCalls, ReadStages
  <2>3. [read[r] EXCEPT !.at = "found", !.seen = 0] \in ReadCalls
    BY <2>1, <2>2, ReadMoves
  <2>4. persisted' = [persisted EXCEPT ![p] = persisted[p]]
    BY <1>1, <1>2 DEF LoginsTypeOK
  <2> QED BY <1>1, <1>2, <2>1, <2>2, <2>3, <2>4, ReadTypes
<1>5. /\ \A q \in Reads \ {r} : read'[q] = read[q]
      /\ \A q \in Processes \ {p} : cache'[q] = cache[q]
      /\ cache'[p] = now + CacheTtl
      /\ read'[r].at = "found" /\ read'[r].on = p /\ read'[r].since = read[r].since /\ read'[r].seen = 0
  BY <1>1, <1>2, <1>3, LoginTypes
<1> HIDE DEF p
<1>6. InTime'
  BY <1>1, <1>2, <1>3, <1>5, LoginTypes, LoginTimes DEF InTime, NotYet, ReadInTime
<1>7. \A q \in Reads : read[q].at # "asked" => read'[q] = read[q]
  BY <1>1, <1>5
<1>8. ASSUME goneAt = 0, ~lapsed PROVE Backed'
  <2>1. \A q \in Processes : CacheBacked(q)'
    BY <1>1, <1>2, <1>3, <1>5, <1>7, <1>8, LoginTypes DEF Backed, CacheBacked, Using
  <2>2. now < row
    BY <1>1, <1>2, <1>8 DEF Backed, ReadBacked
  <2>3. \A q \in Reads : ReadBacked(q)'
    BY <1>1, <1>2, <1>3, <1>5, <1>8, <2>2, LoginTypes DEF Backed, ReadBacked, Using
  <2> QED BY <1>1, <1>2, <1>8, <2>1, <2>3 DEF Backed, Kept
<1>9. ASSUME goneAt # 0 PROVE Ending'
  <2>1. LastCopy' = LastCopy /\ LastCopy \in Nat /\ read[r].since <= goneAt
    BY <1>1, <1>2, <1>9, LoginTypes, LoginTimes DEF LastCopy, Ending, ReadEnds
  <2>2. now + CacheTtl <= LastCopy /\ read[r].since < LastCopy
    BY <1>2, <1>3, <2>1, LoginTypes, LoginTimes DEF LastCopy
  <2>3. \A q \in Processes : CopyEnds(q)'
    BY <1>1, <1>2, <1>3, <1>5, <1>7, <1>9, <2>1, <2>2, LoginTypes, LoginTimes DEF Ending, CopyEnds
  <2>4. \A q \in Reads : ReadEnds(q)'
    BY <1>1, <1>2, <1>3, <1>5, <1>9, <2>1, <2>2, LoginTypes, LoginTimes DEF Ending, ReadEnds, Using
  <2> QED BY <1>1, <1>2, <1>9, <2>1, <2>3, <2>4 DEF Ending
<1> QED BY <1>1, <1>4, <1>6, <1>8, <1>9 DEF LoginsInv, Backed, Ending

(* An expired row goes: nothing alive rested on it.                         *)
LEMMA RowGoneKeeps ==
  ASSUME LoginsInv, row' = 0, goneAt = 0 /\ ~lapsed => row <= now,
         UNCHANGED <<now, cache, persisted, login, revoke, lastUse, goneAt, lapsed>>,
         \A q \in Reads : read'[q] = read[q] \/ (read[q].at = "purge" /\ read'[q].at = "idle"),
         LoginsTypeOK'
  PROVE  LoginsInv'
<1>1. LoginsTypeOK /\ InTime /\ Backed /\ Ending
  BY DEF LoginsInv
<1>2. InTime'
  BY <1>1, LoginTypes, LoginTimes DEF InTime, NotYet, ReadInTime
<1>3. ASSUME goneAt = 0, ~lapsed PROVE Backed'
  <2>1. login.at # "stored"
    BY <1>1, <1>3, LoginTypes, LoginTimes DEF Backed, InTime
  <2>2. \A q \in Reads : read[q].at \notin Using
    BY <1>1, <1>3, LoginTypes DEF Backed, ReadBacked
  <2>3. \A q \in Processes : ~(now < cache[q])
    BY <1>1, <1>3, <2>2, LoginTypes DEF Backed, CacheBacked
  <2>4. \A q \in Reads : ReadBacked(q)'
    BY <1>1, <1>3, <2>2, LoginTypes DEF Backed, ReadBacked, Using
  <2>5. \A x \in Nat : Kept(x) => Kept(x)'
    BY <1>1, <1>3, LoginTypes, LoginTimes DEF Kept
  <2>6. /\ lastUse + Ttl - PersistAfter + 1 \in Nat
        /\ \A q \in Processes : persisted[q] + Ttl \in Nat
    BY <1>1, LoginTypes, LoginTimes
  <2>7. /\ login.at = "done" => Kept(lastUse + Ttl - PersistAfter + 1)'
        /\ \A q \in Processes : persisted[q] # 0 => Kept(persisted[q] + Ttl)'
    BY <1>1, <1>3, <2>5, <2>6 DEF Backed
  <2> QED BY <2>1, <2>3, <2>4, <2>7 DEF Backed, CacheBacked, Kept
<1>4. ASSUME goneAt # 0 PROVE Ending'
  <2>1. LastCopy' = LastCopy
    BY DEF LastCopy
  <2>2. \A q \in Processes : CopyEnds(q)'
    BY <1>1, <1>4, <2>1 DEF Ending, CopyEnds
  <2>3. \A q \in Reads : ReadEnds(q)'
    BY <1>1, <1>4, <2>1 DEF Ending, ReadEnds, Using
  <2> QED BY <1>1, <1>4, <2>1, <2>2, <2>3 DEF Ending
<1> QED BY <1>2, <1>3, <1>4 DEF LoginsInv, Backed, Ending

LEMMA PurgeExpiredKeeps ==
  ASSUME LoginsInv, NEW r \in Reads, PurgeExpired(r) PROVE LoginsInv'
<1>1. LoginsTypeOK /\ Backed
  BY DEF LoginsInv
<1>2. /\ UNCHANGED <<now, cache, persisted, login, revoke, lastUse, goneAt, lapsed>>
      /\ row' = 0 /\ read[r].at = "purge" /\ read' = [read EXCEPT ![r] = IdleRead]
  BY DEF PurgeExpired, loginHistory
<1>3. LoginsTypeOK'
  <2>1. IdleRead \in ReadCalls
    BY LoginTimes DEF IdleRead, ReadCalls, ReadStages
  <2>2. read' \in [Reads -> ReadCalls]
    BY <1>1, <1>2, <2>1 DEF LoginsTypeOK, ReadCalls, ReadStages
  <2> QED BY <1>1, <1>2, <2>2, LoginTimes DEF LoginsTypeOK, ReadCalls, ReadStages
<1>4. \A q \in Reads : read'[q] = read[q] \/ (read[q].at = "purge" /\ read'[q].at = "idle")
  BY <1>1, <1>2, LoginTypes DEF IdleRead
<1>5. goneAt = 0 /\ ~lapsed => row <= now
  BY <1>1, <1>2 DEF Backed, ReadBacked
<1> QED BY <1>2, <1>3, <1>4, <1>5, RowGoneKeeps

LEMMA SweepExpiredKeeps ==
  ASSUME LoginsInv, SweepExpired PROVE LoginsInv'
<1>1. LoginsTypeOK
  BY DEF LoginsInv
<1>2. /\ UNCHANGED <<now, cache, persisted, login, revoke, lastUse, goneAt, lapsed, read>>
      /\ row' = 0 /\ row <= now
  BY <1>1, LoginTypes DEF SweepExpired, loginHistory
<1>3. LoginsTypeOK'
  BY <1>1, <1>2, LoginTimes DEF LoginsTypeOK
<1> QED BY <1>2, <1>3, RowGoneKeeps

(* touch on a process that renewed the row lately: the row outlives the     *)
(* copy that slides, and so does the use.                                   *)
LEMMA TouchRecentKeeps ==
  ASSUME LoginsInv, NEW r \in Reads, Touch(r), PersistedRecently(read[r].on) PROVE LoginsInv'
<1> DEFINE p == read[r].on
           copy == IF Live(p) THEN now + CacheTtl ELSE cache[p]
<1>1. /\ UNCHANGED <<now, row, persisted, login, revoke, goneAt, lapsed>>
      /\ read[r].at = "found" /\ lastUse' = now
      /\ cache' = [cache EXCEPT ![p] = copy] /\ read' = [read EXCEPT ![r] = IdleRead]
  BY DEF Touch
<1>2. LoginsTypeOK /\ InTime /\ Backed /\ Ending
  BY DEF LoginsInv
<1>3. p \in Processes /\ login.at = "done" /\ Start <= now
  BY <1>1, <1>2 DEF InTime, ReadInTime, NotYet
<1>4. now < persisted[p] + PersistAfter /\ persisted[p] \in Nat /\ persisted[p] # 0
  BY <1>2, <1>3, LoginTypes, LoginTimes DEF PersistedRecently
<1>5. copy = cache[p] \/ copy = now + CacheTtl
  OBVIOUS
<1> HIDE DEF copy
<1>6. LoginsTypeOK'
  <2>1. IdleRead \in ReadCalls /\ copy \in 0..(MaxTime + CacheTtl) /\ row \in 0..(MaxTime + Ttl)
    BY <1>2, <1>3, <1>5, LoginTimes DEF IdleRead, ReadCalls, ReadStages, LoginsTypeOK
  <2>2. persisted' = [persisted EXCEPT ![p] = persisted[p]] /\ persisted[p] \in 0..MaxTime
    BY <1>1, <1>2, <1>3 DEF LoginsTypeOK
  <2> QED BY <1>1, <1>2, <2>1, <2>2, ReadTypes
<1>7. /\ \A q \in Reads \ {r} : read'[q] = read[q]
      /\ \A q \in Processes \ {p} : cache'[q] = cache[q]
      /\ cache'[p] = copy /\ read'[r].at = "idle"
  BY <1>1, <1>2, <1>3, LoginTypes DEF IdleRead
<1> HIDE DEF p
<1>8. InTime'
  BY <1>1, <1>2, <1>3, <1>5, <1>7, LoginTypes, LoginTimes DEF InTime, NotYet, ReadInTime
<1>9. ASSUME goneAt = 0, ~lapsed PROVE Backed'
  <2>1. persisted[p] + Ttl <= row + 2 * Delay
    BY <1>2, <1>3, <1>4, <1>9, LoginTypes, LoginTimes DEF Backed, Kept
  <2>2. now + CacheTtl < row /\ now + Ttl - PersistAfter + 1 <= row + 2 * Delay
    BY <1>2, <1>4, <2>1, LoginTypes, LoginTimes
  <2>3. \A q \in Processes : CacheBacked(q)'
    <3>1. ASSUME NEW q \in Processes, q = p PROVE CacheBacked(q)'
      <4>1. copy <= now + CacheTtl /\ cache'[q] = copy /\ copy \in Nat
        BY <1>2, <1>3, <1>5, <1>7, <3>1, LoginTypes, LoginTimes DEF InTime
      <4> QED BY <1>1, <1>2, <2>2, <4>1, LoginTypes, LoginTimes DEF CacheBacked
    <3>2. \A q \in Processes \ {p} : CacheBacked(q)'
      BY <1>1, <1>2, <1>3, <1>7, <1>9, LoginTypes DEF Backed, CacheBacked, p
    <3> QED BY <3>1, <3>2
  <2>4. \A q \in Reads : ReadBacked(q)'
    BY <1>1, <1>2, <1>7, <1>9, LoginTypes DEF Backed, ReadBacked, Using
  <2>5. Kept(lastUse + Ttl - PersistAfter + 1)'
    BY <1>1, <2>2 DEF Kept
  <2>6. \A q \in Processes : persisted[q] # 0 => Kept(persisted[q] + Ttl)'
    BY <1>1, <1>2, <1>9 DEF Backed, Kept
  <2> QED BY <1>1, <1>3, <2>3, <2>4, <2>5, <2>6 DEF Backed
<1>10. ASSUME goneAt # 0 PROVE Ending'
  <2>1. LastCopy' = LastCopy /\ LastCopy \in Nat
    BY <1>1, <1>2, LoginTypes, LoginTimes DEF LastCopy
  <2>2. now + CacheTtl <= LastCopy
    BY <1>2, <1>3, <1>4, <1>10, LoginTypes, LoginTimes DEF LastCopy, Ending
  <2>3. \A q \in Processes : CopyEnds(q)'
    BY <1>1, <1>2, <1>5, <1>7, <1>10, <2>1, <2>2, LoginTypes, LoginTimes DEF Ending, CopyEnds
  <2>4. \A q \in Reads : ReadEnds(q)'
    BY <1>1, <1>2, <1>7, <1>10, <2>1 DEF Ending, ReadEnds, Using
  <2> QED BY <1>1, <1>2, <1>10, <2>1, <2>2, <2>3, <2>4, LoginTypes, LoginTimes DEF Ending
<1> QED BY <1>1, <1>6, <1>8, <1>9, <1>10 DEF LoginsInv, Backed, Ending

(* touch otherwise: the call goes out to renew the row.                     *)
LEMMA TouchStaleKeeps ==
  ASSUME LoginsInv, NEW r \in Reads, Touch(r), ~PersistedRecently(read[r].on) PROVE LoginsInv'
<1>1. LoginsTypeOK /\ InTime /\ Backed /\ Ending
  BY DEF LoginsInv
<1>2. PICK p \in Processes : p = read[r].on
  BY <1>1 DEF Touch, InTime, ReadInTime
<1> DEFINE copy == IF Live(p) THEN now + CacheTtl ELSE cache[p]
<1>3. /\ UNCHANGED <<now, row, persisted, login, revoke, lastUse, goneAt, lapsed>>
      /\ read[r].at = "found"
      /\ cache' = [cache EXCEPT ![p] = copy]
      /\ read' = [read EXCEPT ![r] = [read[r] EXCEPT !.at = "renew", !.stamp = now]]
  BY <1>1, <1>2, LoginTypes DEF Touch
<1>4. copy = cache[p] \/ (now < cache[p] /\ copy = now + CacheTtl)
  BY <1>1, LoginTypes DEF Live
<1> HIDE DEF copy
<1>5. LoginsTypeOK'
  <2>1. copy \in 0..(MaxTime + CacheTtl) /\ row \in 0..(MaxTime + Ttl) /\ now \in 0..MaxTime
    BY <1>1, <1>4, LoginTimes DEF LoginsTypeOK
  <2>2. persisted' = [persisted EXCEPT ![p] = persisted[p]] /\ persisted[p] \in 0..MaxTime
    BY <1>1, <1>3 DEF LoginsTypeOK
  <2>3. read[r] \in ReadCalls /\ "renew" \in ReadStages
    BY <1>1 DEF LoginsTypeOK, ReadCalls, ReadStages
  <2>4. [read[r] EXCEPT !.at = "renew", !.stamp = now] \in ReadCalls
    BY <2>1, <2>3, ReadMoves
  <2> QED BY <1>1, <1>3, <2>1, <2>2, <2>4, ReadTypes
<1>6. /\ \A q \in Reads \ {r} : read'[q] = read[q]
      /\ \A q \in Processes \ {p} : cache'[q] = cache[q]
      /\ cache'[p] = copy
      /\ read'[r].at = "renew" /\ read'[r].on = p /\ read'[r].since = read[r].since /\ read'[r].stamp = now
  BY <1>1, <1>2, <1>3, LoginTypes
<1>7. read[r].since <= now /\ now <= read[r].since + Delay
  BY <1>1, <1>3 DEF InTime, ReadInTime
<1>8. InTime'
  BY <1>1, <1>2, <1>3, <1>4, <1>6, <1>7, LoginTypes, LoginTimes DEF InTime, NotYet, ReadInTime
<1>9. ASSUME goneAt = 0, ~lapsed PROVE Backed'
  <2>1. \A q \in Processes : CacheBacked(q)'
    <3>1. CacheBacked(p)'
      BY <1>6 DEF CacheBacked, Using
    <3>2. \A q \in Processes \ {p} : CacheBacked(q)'
      BY <1>1, <1>2, <1>3, <1>6, <1>9, LoginTypes DEF Backed, CacheBacked
    <3> QED BY <3>1, <3>2
  <2>2. \A q \in Reads : ReadBacked(q)'
    BY <1>1, <1>3, <1>6, <1>9, LoginTypes DEF Backed, ReadBacked, Using
  <2> QED BY <1>1, <1>3, <1>9, <2>1, <2>2 DEF Backed, Kept
<1>10. ASSUME goneAt # 0 PROVE Ending'
  <2>1. LastCopy' = LastCopy /\ LastCopy \in Nat
    BY <1>1, <1>3, LoginTypes, LoginTimes DEF LastCopy
  <2>2. \A q \in Reads : read[q].at \in {"renew", "renewed"} => read'[q] = read[q]
    BY <1>3, <1>6
  <2>3. CopyEnds(p)'
    <3>1. CASE read[r].since < LastCopy
      BY <1>6, <2>1, <3>1 DEF CopyEnds
    <3>2. CASE LastCopy <= read[r].since /\ LastCopy < cache[p]
      BY <1>1, <1>6, <1>10, <2>1, <2>2, <3>2 DEF Ending, CopyEnds
    <3>3. CASE LastCopy <= read[r].since /\ cache[p] <= LastCopy
      BY <1>1, <1>4, <1>6, <1>7, <2>1, <3>3, LoginTypes DEF CopyEnds
    <3> QED BY <1>1, <2>1, <3>1, <3>2, <3>3, LoginTypes
  <2>4. \A q \in Processes \ {p} : CopyEnds(q)'
    BY <1>1, <1>6, <1>10, <2>1, <2>2 DEF Ending, CopyEnds
  <2>5. \A q \in Reads : ReadEnds(q)'
    BY <1>1, <1>3, <1>6, <1>10, <2>1, LoginTypes DEF Ending, ReadEnds, Using
  <2> QED BY <1>1, <1>3, <1>10, <2>1, <2>3, <2>4, <2>5 DEF Ending
<1> QED BY <1>3, <1>5, <1>8, <1>9, <1>10 DEF LoginsInv, Backed, Ending

(* The store executes the renewal: it finds the row, unless the row was     *)
(* deleted by a revocation.  The stamp is at most Delay old.                *)
LEMMA RenewKeeps ==
  ASSUME LoginsInv, NEW r \in Reads, Renew(r) PROVE LoginsInv'
<1> DEFINE there == read[r].stamp < row
           verdict == IF there THEN 1 ELSE 0
           renewed == IF there THEN read[r].stamp + Ttl ELSE row
<1>1. LoginsTypeOK /\ InTime /\ Backed /\ Ending
  BY DEF LoginsInv
<1>2. /\ UNCHANGED <<now, cache, persisted, login, revoke, lastUse, goneAt, lapsed>>
      /\ read[r].at = "renew" /\ row' = renewed
      /\ read' = [read EXCEPT ![r] = [read[r] EXCEPT !.at = "renewed", !.seen = verdict]]
  <2>1. (row > read[r].stamp) <=> there
    BY <1>1, LoginTypes
  <2> QED BY <1>1, <2>1, LoginTypes DEF Renew, loginHistory
<1>3. /\ read[r].on \in Processes /\ login.at = "done"
      /\ read[r].since <= now /\ now <= read[r].since + Delay
      /\ read[r].since <= read[r].stamp /\ read[r].stamp <= now
  BY <1>1, <1>2 DEF InTime, ReadInTime, NotYet
<1>4. \/ there /\ verdict = 1 /\ renewed = read[r].stamp + Ttl
      \/ ~there /\ verdict = 0 /\ renewed = row
  OBVIOUS
<1> HIDE DEF verdict, renewed
<1>5. LoginsTypeOK'
  <2>1. verdict \in 0..(MaxTime + Ttl) /\ renewed \in 0..(MaxTime + Ttl) /\ now \in 0..MaxTime
    BY <1>1, <1>4, LoginTypes, LoginTimes DEF LoginsTypeOK
  <2>2. read[r] \in ReadCalls /\ "renewed" \in ReadStages
    BY <1>1 DEF LoginsTypeOK, ReadCalls, ReadStages
  <2>3. [read[r] EXCEPT !.at = "renewed", !.seen = verdict] \in ReadCalls
    BY <2>1, <2>2, ReadMoves
  <2>4. PICK p \in Processes : TRUE
    BY <1>3
  <2>5. /\ persisted' = [persisted EXCEPT ![p] = persisted[p]] /\ persisted[p] \in 0..MaxTime
        /\ cache' = [cache EXCEPT ![p] = cache[p]] /\ cache[p] \in 0..(MaxTime + CacheTtl)
    BY <1>1, <1>2 DEF LoginsTypeOK
  <2> DEFINE c == [read[r] EXCEPT !.at = "renewed", !.seen = verdict]
  <2>6. read' = [read EXCEPT ![r] = c] /\ c \in ReadCalls
    BY <1>2, <2>3
  <2> HIDE DEF c
  <2>7. UNCHANGED <<now, login, revoke, goneAt, lapsed>> /\ lastUse' \in {lastUse, now}
    BY <1>2
  <2>8. row' \in 0..(MaxTime + Ttl)
    BY <1>2, <2>1
  <2> QED BY <1>1, <2>5, <2>6, <2>7, <2>8, ReadTypes
<1>6. /\ \A q \in Reads \ {r} : read'[q] = read[q]
      /\ read'[r].at = "renewed" /\ read'[r].on = read[r].on /\ read'[r].since = read[r].since
      /\ read'[r].stamp = read[r].stamp /\ read'[r].seen = verdict
  BY <1>1, <1>2, LoginTypes
<1>7. InTime'
  BY <1>1, <1>2, <1>3, <1>4, <1>6, LoginTypes, LoginTimes DEF InTime, NotYet, ReadInTime
<1>8. ASSUME goneAt = 0, ~lapsed PROVE Backed'
  <2>1. now < row
    BY <1>1, <1>2, <1>8 DEF Backed, ReadBacked, Using
  <2>2. row' = read[r].stamp + Ttl /\ verdict = 1
    BY <1>1, <1>2, <1>3, <1>4, <2>1, LoginTypes
  <2>3. now + Ttl <= row' + Delay /\ now < row' /\ now + CacheTtl <= row'
    BY <1>1, <1>3, <2>2, LoginTypes, LoginTimes
  <2>4. \A q \in Processes : CacheBacked(q)'
    <3>1. \A q \in Processes : cache'[q] <= row'
      BY <1>1, <1>2, <1>5, <2>3, LoginTypes, LoginTimes DEF InTime, LoginsTypeOK
    <3> QED BY <3>1 DEF CacheBacked
  <2>5. \A q \in Reads : ReadBacked(q)'
    <3>1. ReadBacked(r)'
      BY <1>1, <1>2, <1>3, <1>6, <2>2, <2>3, LoginTypes, LoginTimes DEF ReadBacked, Using
    <3>2. ASSUME NEW q \in Reads, q # r PROVE ReadBacked(q)'
      <4>1. ReadBacked(q) /\ ReadInTime(q)
        BY <1>1, <1>8 DEF Backed, InTime
      <4>2. read'[q] = read[q] /\ now' = now /\ read[q].since \in Nat /\ read[q].seen \in Nat /\ row' \in Nat
        BY <1>1, <1>2, <1>5, <1>6, <3>2, LoginTypes DEF LoginsTypeOK
      <4>3. read[q].at = "renewed" => read[q].since + Ttl <= row' + Delay
        BY <1>1, <2>3, <4>1, <4>2, LoginTypes, LoginTimes DEF ReadInTime
      <4>4. read[q].at # "purge" /\ (read[q].at = "asked" /\ read[q].seen # 0 => now < read[q].seen)
        BY <1>1, <2>1, <4>1, <4>2, LoginTypes DEF ReadBacked
      <4> QED BY <1>1, <2>3, <4>1, <4>2, <4>3, <4>4, LoginTypes DEF ReadBacked, Using
    <3> QED BY <3>1, <3>2
  <2>6. /\ Kept(lastUse + Ttl - PersistAfter + 1)'
        /\ \A q \in Processes : persisted[q] # 0 => Kept(persisted[q] + Ttl)'
    <3>1. \A x \in Nat : x <= now + Ttl => Kept(x)'
      BY <1>1, <1>2, <1>5, <2>3, LoginTypes, LoginTimes DEF Kept, LoginsTypeOK
    <3>2. /\ lastUse + Ttl - PersistAfter + 1 \in Nat /\ lastUse + Ttl - PersistAfter + 1 <= now + Ttl
          /\ \A q \in Processes : persisted[q] + Ttl \in Nat /\ persisted[q] + Ttl <= now + Ttl
      BY <1>1, LoginTypes, LoginTimes DEF InTime
    <3>3. Kept(lastUse + Ttl - PersistAfter + 1)'
      BY <1>2, <3>1, <3>2 DEF Kept
    <3>4. \A q \in Processes : Kept(persisted[q] + Ttl)'
      BY <1>2, <3>1, <3>2 DEF Kept
    <3> QED BY <3>3, <3>4
  <2> QED BY <1>2, <1>3, <2>4, <2>5, <2>6 DEF Backed
<1>9. ASSUME goneAt # 0 PROVE Ending'
  <2>1. LastCopy' = LastCopy /\ row = 0 /\ row' = 0 /\ verdict = 0
    BY <1>1, <1>2, <1>4, <1>9, LoginTypes DEF LastCopy, Ending
  <2>2. \A q \in Processes : CopyEnds(q)'
    BY <1>1, <1>2, <1>6, <1>9, <2>1, LoginTypes DEF Ending, CopyEnds
  <2>3. \A q \in Reads : ReadEnds(q)'
    BY <1>1, <1>2, <1>6, <1>9, <2>1, LoginTypes DEF Ending, ReadEnds, Using
  <2> QED BY <1>1, <1>2, <1>9, <2>1, <2>2, <2>3 DEF Ending
<1> QED BY <1>2, <1>5, <1>7, <1>8, <1>9 DEF LoginsInv, Backed, Ending

(* The call answers, whatever the verdict; a copy whose renewal failed goes.*)
LEMMA RenewedKeeps ==
  ASSUME LoginsInv, NEW r \in Reads, Renewed(r) PROVE LoginsInv'
<1>1. LoginsTypeOK /\ InTime /\ Backed /\ Ending
  BY DEF LoginsInv
<1>2. PICK p \in Processes : p = read[r].on
  BY <1>1 DEF Renewed, InTime, ReadInTime
<1> DEFINE copy == IF read[r].seen = 1 THEN cache[p] ELSE 0
           wrote == IF read[r].seen = 1 THEN now ELSE persisted[p]
<1>3. /\ UNCHANGED <<now, row, login, revoke, goneAt, lapsed>> /\ lastUse' = now
      /\ read[r].at = "renewed" /\ read' = [read EXCEPT ![r] = IdleRead]
      /\ cache' = [cache EXCEPT ![p] = copy] /\ persisted' = [persisted EXCEPT ![p] = wrote]
  BY <1>1, <1>2, LoginTypes DEF Renewed
<1>4. \/ read[r].seen = 1 /\ copy = cache[p] /\ wrote = now
      \/ read[r].seen = 0 /\ copy = 0 /\ wrote = persisted[p]
  BY <1>1, <1>3 DEF InTime, ReadInTime
<1> HIDE DEF copy, wrote
<1>5. login.at = "done" /\ read[r].since <= now /\ now <= read[r].since + Delay
  BY <1>1, <1>3 DEF InTime, ReadInTime, NotYet
<1>6. LoginsTypeOK'
  <2>1. copy \in 0..(MaxTime + CacheTtl) /\ row \in 0..(MaxTime + Ttl) /\ wrote \in 0..MaxTime
    BY <1>1, <1>4, LoginTimes DEF LoginsTypeOK
  <2>2. IdleRead \in ReadCalls
    BY LoginTimes DEF IdleRead, ReadCalls, ReadStages
  <2> QED BY <1>1, <1>3, <2>1, <2>2, ReadTypes
<1>7. /\ \A q \in Reads \ {r} : read'[q] = read[q]
      /\ \A q \in Processes \ {p} : cache'[q] = cache[q] /\ persisted'[q] = persisted[q]
      /\ cache'[p] = copy /\ persisted'[p] = wrote /\ read'[r].at = "idle"
  BY <1>1, <1>3, LoginTypes DEF IdleRead
<1>8. InTime'
  BY <1>1, <1>3, <1>4, <1>5, <1>7, LoginTypes, LoginTimes DEF InTime, NotYet, ReadInTime
<1>9. ASSUME goneAt = 0, ~lapsed PROVE Backed'
  <2>1. read[r].seen = 1 /\ read[r].since + Ttl <= row + Delay
    BY <1>1, <1>3, <1>9 DEF Backed, ReadBacked
  <2>2. now + Ttl <= row + 2 * Delay /\ now + CacheTtl <= row
    BY <1>1, <1>5, <2>1, LoginTypes, LoginTimes
  <2>3. \A q \in Processes : CacheBacked(q)'
    <3>1. CacheBacked(p)'
      BY <1>1, <1>3, <1>4, <1>7, <2>1, <2>2, LoginTypes, LoginTimes DEF InTime, CacheBacked
    <3>2. \A q \in Processes \ {p} : CacheBacked(q)'
      BY <1>1, <1>2, <1>3, <1>7, <1>9, LoginTypes DEF Backed, CacheBacked
    <3> QED BY <3>1, <3>2
  <2>4. \A q \in Reads : ReadBacked(q)'
    BY <1>1, <1>3, <1>7, <1>9, LoginTypes DEF Backed, ReadBacked, Using
  <2>5. Kept(lastUse + Ttl - PersistAfter + 1)'
    BY <1>1, <1>3, <2>2, LoginTypes, LoginTimes DEF Kept
  <2>6. \A q \in Processes : persisted'[q] # 0 => Kept(persisted[q] + Ttl)'
    BY <1>1, <1>3, <1>4, <1>7, <1>9, <2>1, <2>2, LoginTypes, LoginTimes DEF Backed, Kept
  <2> QED BY <1>3, <1>5, <2>3, <2>4, <2>5, <2>6 DEF Backed
<1>10. ASSUME goneAt # 0 PROVE Ending'
  <2>1. LastCopy' = LastCopy /\ LastCopy \in Nat
    BY <1>1, <1>3, LoginTypes, LoginTimes DEF LastCopy
  <2>2. \A q \in Processes : CopyEnds(q)'
    BY <1>1, <1>2, <1>3, <1>4, <1>7, <1>10, <2>1, LoginTypes DEF Ending, CopyEnds
  <2>3. \A q \in Reads : ReadEnds(q)'
    BY <1>1, <1>3, <1>7, <1>10, <2>1, LoginTypes DEF Ending, ReadEnds, Using
  <2>4. now < LastCopy + 2 * Delay
    BY <1>1, <1>3, <1>5, <1>10, <2>1, LoginTypes, LoginTimes DEF Ending, ReadEnds, Using
  <2>5. \A q \in Processes : persisted'[q] <= goneAt + Delay
    BY <1>1, <1>3, <1>4, <1>5, <1>7, <1>10, LoginTypes, LoginTimes DEF Ending, ReadEnds
  <2> QED BY <1>1, <1>3, <1>10, <2>1, <2>2, <2>3, <2>4, <2>5 DEF Ending
<1> QED BY <1>3, <1>6, <1>8, <1>9, <1>10 DEF LoginsInv, Backed, Ending

(* The login: the row first, then the copy and the note of the renewal.     *)
LEMMA StoreLoginKeeps ==
  ASSUME LoginsInv, StoreLogin PROVE LoginsInv'
<1>1. LoginsTypeOK /\ InTime /\ Backed /\ Ending
  BY DEF LoginsInv
<1>2. /\ UNCHANGED <<now, cache, persisted, read, revoke, lastUse, goneAt, lapsed>>
      /\ login.at = "put" /\ row' = login.since + Ttl
      /\ login' = [login EXCEPT !.at = "stored"]
  BY DEF StoreLogin, loginHistory
<1>3. LoginsTypeOK'
  <2>1. row' \in 0..(MaxTime + Ttl)
    BY <1>1, <1>2, LoginTimes DEF LoginsTypeOK
  <2> QED BY <1>1, <1>2, <2>1 DEF LoginsTypeOK
<1>4. login'.at = "stored" /\ login'.since = login.since
  BY <1>1, <1>2 DEF LoginsTypeOK
<1>5. goneAt = 0 /\ NotYet /\ NotYet'
  BY <1>1, <1>2 DEF InTime, Ending, NotYet
<1>6. InTime'
  BY <1>1, <1>2, <1>4, <1>5, LoginTypes, LoginTimes DEF InTime, ReadInTime
<1>7. Backed' /\ Ending'
  BY <1>1, <1>2, <1>4, <1>5, LoginTypes, LoginTimes DEF Backed, Ending, NotYet, CacheBacked, ReadBacked, Using
<1> QED BY <1>3, <1>6, <1>7 DEF LoginsInv

LEMMA FinishLoginKeeps ==
  ASSUME LoginsInv, FinishLogin PROVE LoginsInv'
<1>1. LoginsTypeOK /\ InTime /\ Backed /\ Ending
  BY DEF LoginsInv
<1>2. PICK p \in Processes : p = login.on
  BY <1>1, LoginTypes
<1>3. /\ UNCHANGED <<now, row, read, revoke, goneAt, lapsed>> /\ lastUse' = now
      /\ login.at = "stored" /\ login' = [login EXCEPT !.at = "done"]
      /\ cache' = [cache EXCEPT ![p] = now + CacheTtl]
      /\ persisted' = [persisted EXCEPT ![p] = now]
  BY <1>2 DEF FinishLogin
<1>4. LoginsTypeOK'
  <2>1. now + CacheTtl \in 0..(MaxTime + CacheTtl) /\ now \in 0..MaxTime
    BY <1>1, LoginTimes DEF LoginsTypeOK
  <2>2. cache' \in [Processes -> 0..(MaxTime + CacheTtl)] /\ persisted' \in [Processes -> 0..MaxTime]
    BY <1>1, <1>3, <2>1 DEF LoginsTypeOK
  <2> QED BY <1>1, <1>3, <2>1, <2>2 DEF LoginsTypeOK
<1>5. /\ login'.at = "done" /\ login'.since = login.since
      /\ \A q \in Processes \ {p} : cache'[q] = 0 /\ persisted'[q] = 0
      /\ cache'[p] = now + CacheTtl /\ persisted'[p] = now
      /\ \A r \in Reads : read[r].at = "idle"
      /\ login.since <= now /\ now <= login.since + Delay
  BY <1>1, <1>3, LoginTypes DEF InTime, NotYet
<1>6. InTime'
  BY <1>1, <1>3, <1>5, LoginTypes, LoginTimes DEF InTime, ReadInTime
<1>7. ASSUME goneAt = 0, ~lapsed PROVE Backed'
  <2>1. now + Ttl <= row + Delay
    BY <1>1, <1>3, <1>5, <1>7, LoginTypes, LoginTimes DEF Backed
  <2>2. Kept(lastUse + Ttl - PersistAfter + 1)' /\ \A q \in Processes : persisted'[q] # 0 => Kept(persisted[q] + Ttl)'
    BY <1>1, <1>3, <1>5, <2>1, LoginTypes, LoginTimes DEF Kept
  <2>3. \A q \in Processes : CacheBacked(q)'
    BY <1>1, <1>3, <1>5, <2>1, LoginTypes, LoginTimes DEF CacheBacked
  <2>4. \A r \in Reads : ReadBacked(r)'
    BY <1>3, <1>5 DEF ReadBacked, Using
  <2> QED BY <1>3, <1>5, <2>2, <2>3, <2>4 DEF Backed
<1>8. ASSUME goneAt # 0 PROVE Ending'
  <2>1. LastCopy' = LastCopy /\ LastCopy \in Nat /\ now + CacheTtl <= LastCopy /\ now <= goneAt + Delay
    BY <1>1, <1>3, <1>5, <1>8, LoginTypes, LoginTimes DEF LastCopy, Ending
  <2>2. \A q \in Processes : CopyEnds(q)'
    BY <1>1, <1>3, <1>5, <2>1, LoginTypes, LoginTimes DEF CopyEnds
  <2>3. \A r \in Reads : ReadEnds(r)'
    BY <1>3, <1>5 DEF ReadEnds, Using
  <2> QED BY <1>1, <1>3, <1>5, <1>8, <2>1, <2>2, <2>3, LoginTypes, LoginTimes DEF Ending
<1> QED BY <1>3, <1>4, <1>6, <1>7, <1>8 DEF LoginsInv, Backed, Ending

(* The sign-out.  What the deletion finds was stamped before it.            *)
LEMMA BeginRevokeKeeps ==
  ASSUME LoginsInv, NEW p \in Processes, BeginRevoke(p) PROVE LoginsInv'
<1>1. LoginsTypeOK /\ InTime /\ Backed /\ Ending
  BY DEF LoginsInv
<1>2. /\ UNCHANGED <<now, row, cache, read, login, lastUse, goneAt, lapsed>>
      /\ row # 0 /\ persisted' = [persisted EXCEPT ![p] = 0]
      /\ revoke' = [at |-> "delete", on |-> p, since |-> now]
  BY DEF BeginRevoke, loginHistory
<1>3. LoginsTypeOK'
  BY <1>1, <1>2, LoginTimes DEF LoginsTypeOK
<1>4. /\ revoke'.at = "delete" /\ login.at # "put"
      /\ \A q \in Processes : persisted'[q] = persisted[q] \/ persisted'[q] = 0
  BY <1>1, <1>2, LoginTypes DEF InTime
<1>5. InTime'
  BY <1>1, <1>2, <1>4, LoginTypes, LoginTimes DEF InTime, ReadInTime, NotYet
<1>6. Backed'
  <2>1. ASSUME goneAt = 0, ~lapsed PROVE \A q \in Processes : persisted'[q] # 0 => Kept(persisted[q] + Ttl)'
    BY <1>1, <1>2, <1>4, <2>1, LoginTypes DEF Backed, Kept
  <2> QED BY <1>1, <1>2, <2>1 DEF Backed, CacheBacked, ReadBacked, Kept
<1>7. Ending'
  BY <1>1, <1>2 DEF Ending
<1> QED BY <1>3, <1>5, <1>6, <1>7 DEF LoginsInv

LEMMA DeleteRowKeeps ==
  ASSUME LoginsInv, DeleteRow PROVE LoginsInv'
<1>1. LoginsTypeOK /\ InTime
  BY DEF LoginsInv
<1>2. /\ UNCHANGED <<now, cache, persisted, login, read, lastUse, lapsed>>
      /\ revoke.at = "delete" /\ row' = 0 /\ goneAt' = now
      /\ revoke' = [revoke EXCEPT !.at = "deleted"]
  BY DEF DeleteRow
<1>3. LoginsTypeOK'
  BY <1>1, <1>2, LoginTimes DEF LoginsTypeOK
<1>4. goneAt' # 0 /\ login.at # "put" /\ revoke'.at = "deleted"
  BY <1>1, <1>2, LoginTypes, LoginTimes DEF InTime, LoginsTypeOK
<1>5. InTime'
  BY <1>1, <1>2, <1>4, LoginTypes, LoginTimes DEF InTime, ReadInTime, NotYet
<1>6. Ending'
  <2>1. LastCopy' \in Nat /\ now < LastCopy' /\ now + CacheTtl <= LastCopy' + 0
    BY <1>1, <1>2, LoginTypes, LoginTimes DEF LastCopy
  <2>2. \A q \in Processes : CopyEnds(q)'
    <3>1. \A q \in Processes : cache'[q] <= LastCopy'
      BY <1>1, <1>2, <2>1, LoginTypes, LoginTimes DEF InTime
    <3>2. \A q \in Processes : cache'[q] \in Nat
      BY <1>1, <1>2, LoginTypes
    <3> QED BY <2>1, <3>1, <3>2 DEF CopyEnds
  <2>3. \A q \in Reads : read[q].at # "idle" => read[q].since <= now
    BY <1>1 DEF InTime, ReadInTime
  <2>4. \A q \in Reads : ReadEnds(q)'
    BY <1>1, <1>2, <2>1, <2>3, LoginTypes, LoginTimes DEF ReadEnds, Using
  <2> QED BY <1>1, <1>2, <1>4, <2>1, <2>2, <2>4, LoginTypes, LoginTimes DEF Ending, InTime
<1> QED BY <1>3, <1>4, <1>5, <1>6 DEF LoginsInv, Backed

LEMMA FinishRevokeKeeps ==
  ASSUME LoginsInv, FinishRevoke PROVE LoginsInv'
<1>1. LoginsTypeOK /\ InTime /\ Ending
  BY DEF LoginsInv
<1>2. /\ UNCHANGED <<now, row, persisted, login, read, lastUse, goneAt, lapsed>>
      /\ revoke.at = "deleted" /\ cache' = [cache EXCEPT ![revoke.on] = 0]
      /\ revoke' = [revoke EXCEPT !.at = "done"]
  BY DEF FinishRevoke, loginHistory
<1>3. LoginsTypeOK'
  <2>1. 0 \in 0..(MaxTime + CacheTtl)
    BY LoginTimes
  <2>2. cache' \in [Processes -> 0..(MaxTime + CacheTtl)]
    BY <1>1, <1>2, <2>1 DEF LoginsTypeOK
  <2>3. revoke' \in [at : {"idle", "delete", "deleted", "done"},
                     on : Processes \cup {Nobody}, since : 0..MaxTime]
    BY <1>1, <1>2 DEF LoginsTypeOK
  <2> QED BY <1>1, <1>2, <2>2, <2>3 DEF LoginsTypeOK
<1>4. /\ goneAt # 0 /\ revoke'.at = "done"
      /\ \A q \in Processes : cache'[q] = cache[q] \/ cache'[q] = 0
  BY <1>1, <1>2, LoginTypes DEF InTime, LoginsTypeOK
<1>5. InTime'
  BY <1>1, <1>2, <1>4, LoginTypes, LoginTimes DEF InTime, ReadInTime, NotYet
<1>6. Ending'
  <2>1. LastCopy' = LastCopy /\ LastCopy \in Nat
    BY <1>1, <1>2, LoginTypes, LoginTimes DEF LastCopy
  <2>2. \A q \in Processes : CopyEnds(q)'
    BY <1>1, <1>2, <1>4, <2>1, LoginTypes DEF Ending, CopyEnds
  <2> QED BY <1>1, <1>2, <1>4, <2>1, <2>2 DEF Ending, ReadEnds
<1> QED BY <1>2, <1>3, <1>4, <1>5, <1>6 DEF LoginsInv, Backed

(* A restart takes a process's copies and calls together.                   *)
LEMMA RestartKeeps ==
  ASSUME LoginsInv, NEW p \in Processes, Restart(p) PROVE LoginsInv'
<1>1. LoginsTypeOK /\ InTime /\ Backed /\ Ending
  BY DEF LoginsInv
<1>2. /\ UNCHANGED <<now, row, lastUse, goneAt, lapsed>>
      /\ cache' = [cache EXCEPT ![p] = 0] /\ persisted' = [persisted EXCEPT ![p] = 0]
      /\ read' = [q \in Reads |-> IF read[q].on = p THEN IdleRead ELSE read[q]]
      /\ \/ login' = login
         \/ login.at # "done" /\ login' = [login EXCEPT !.at = "lost"]
      /\ \/ revoke' = revoke
         \/ revoke' = [at |-> "idle", on |-> Nobody, since |-> 0] /\ revoke.at = "delete"
         \/ revoke' = [revoke EXCEPT !.at = "done"] /\ revoke.at # "delete" /\ revoke.on = p
  BY DEF Restart, loginHistory
<1>3. LoginsTypeOK'
  <2>1. IdleRead \in ReadCalls
    BY LoginTimes DEF IdleRead, ReadCalls, ReadStages
  <2>2. read' \in [Reads -> ReadCalls]
    BY <1>1, <1>2, <2>1 DEF LoginsTypeOK, ReadCalls, ReadStages
  <2>3. login' \in [at : {"put", "stored", "done", "lost"}, on : Processes, since : 0..MaxTime]
    BY <1>1, <1>2 DEF LoginsTypeOK
  <2>4. revoke' \in [at : {"idle", "delete", "deleted", "done"},
                     on : Processes \cup {Nobody}, since : 0..MaxTime]
    BY <1>1, <1>2, LoginTimes DEF LoginsTypeOK
  <2> QED BY <1>1, <1>2, <2>2, <2>3, <2>4, LoginTimes DEF LoginsTypeOK, ReadCalls, ReadStages
<1>4. /\ \A q \in Reads : (read[q].on # p /\ read'[q] = read[q]) \/ (read[q].on = p /\ read'[q].at = "idle")
      /\ \A q \in Processes \ {p} : cache'[q] = cache[q] /\ persisted'[q] = persisted[q]
      /\ cache'[p] = 0 /\ persisted'[p] = 0
      /\ login'.since = login.since
      /\ login'.at = login.at \/ (login.at # "done" /\ login'.at = "lost")
  BY <1>1, <1>2, LoginTypes DEF IdleRead, LoginsTypeOK
<1>5. /\ revoke'.at = "idle" => revoke'.on = Nobody
      /\ revoke.at = "idle" => revoke' = revoke
      /\ goneAt = 0 => revoke'.at \in {"idle", "delete"}
  BY <1>1, <1>2, LoginTimes DEF InTime, LoginsTypeOK
<1>6. InTime'
  <2>1. \A q \in Processes : cache'[q] <= now + CacheTtl /\ persisted'[q] <= now
    BY <1>1, <1>4, LoginTypes, LoginTimes DEF InTime
  <2>2. login'.at # "done" => NotYet'
    BY <1>1, <1>2, <1>4 DEF InTime, NotYet
  <2>3. \A q \in Reads : ReadInTime(q)'
    BY <1>1, <1>2, <1>4 DEF InTime, ReadInTime
  <2> QED BY <1>1, <1>2, <1>4, <1>5, <2>1, <2>2, <2>3 DEF InTime
<1>7. ASSUME goneAt = 0, ~lapsed PROVE Backed'
  <2>1. \A q \in Processes : CacheBacked(q)'
    BY <1>1, <1>2, <1>4, <1>7, LoginTypes DEF Backed, CacheBacked
  <2>2. \A q \in Reads : ReadBacked(q)'
    BY <1>1, <1>2, <1>4, <1>7 DEF Backed, ReadBacked, Using
  <2>3. \A q \in Processes : persisted'[q] # 0 => Kept(persisted[q] + Ttl)'
    BY <1>1, <1>2, <1>4, <1>7 DEF Backed, Kept
  <2> QED BY <1>1, <1>2, <1>4, <1>7, <2>1, <2>2, <2>3 DEF Backed, Kept
<1>8. ASSUME goneAt # 0 PROVE Ending'
  <2>1. LastCopy' = LastCopy /\ LastCopy \in Nat
    BY <1>1, <1>2, LoginTypes, LoginTimes DEF LastCopy
  <2>2. \A q \in Processes : CopyEnds(q)'
    BY <1>1, <1>2, <1>4, <1>8, <2>1 DEF Ending, CopyEnds
  <2>3. \A q \in Reads : ReadEnds(q)'
    BY <1>1, <1>2, <1>4, <1>8, <2>1 DEF Ending, ReadEnds, Using
  <2>4. \A q \in Processes : persisted'[q] <= goneAt + Delay
    BY <1>1, <1>4, <1>8, LoginTypes, LoginTimes DEF Ending
  <2> QED BY <1>1, <1>2, <1>4, <1>8, <2>1, <2>2, <2>3, <2>4 DEF Ending
<1> QED BY <1>2, <1>3, <1>6, <1>7, <1>8 DEF LoginsInv, Backed, Ending

(* The clock: no call is overtaken by more than Delay, and a row that runs  *)
(* out under one is noted.                                                  *)
LEMMA LoginsTickKeeps ==
  ASSUME LoginsInv, LoginsTick PROVE LoginsInv'
<1>1. LoginsTypeOK /\ InTime /\ Backed /\ Ending
  BY DEF LoginsInv
<1>2. /\ UNCHANGED <<row, cache, persisted, login, read, revoke, lastUse, goneAt>>
      /\ now < MaxTime /\ now' = now + 1
      /\ login.at \in {"put", "stored"} => now < login.since + Delay
      /\ \A r \in Reads : read[r].at # "idle" => now < read[r].since + Delay
      /\ lapsed' = (lapsed \/ \E r \in Reads : read[r].at # "idle" /\ now' \in {row, read[r].seen})
  BY DEF LoginsTick, stores
<1>3. LoginsTypeOK'
  <2>1. now' \in 0..MaxTime
    BY <1>1, <1>2, LoginTimes DEF LoginsTypeOK
  <2>2. lapsed' \in BOOLEAN
    BY <1>2
  <2> QED BY <1>1, <1>2, <2>1, <2>2 DEF LoginsTypeOK
<1>4. InTime'
  BY <1>1, <1>2, LoginTypes, LoginTimes DEF InTime, ReadInTime, NotYet, Start
<1>5. ASSUME goneAt = 0, ~lapsed' PROVE Backed'
  <2>1. ~lapsed /\ \A r \in Reads : read[r].at # "idle" => now + 1 # row /\ now + 1 # read[r].seen
    BY <1>2, <1>5
  <2>2. \A q \in Processes : CacheBacked(q)'
    BY <1>1, <1>2, <1>5, <2>1, LoginTypes DEF Backed, CacheBacked
  <2>3. \A q \in Reads : ReadBacked(q)'
    BY <1>1, <1>2, <1>5, <2>1, LoginTypes DEF Backed, ReadBacked, Using
  <2>4. \A x \in Nat : Kept(x) => Kept(x)'
    BY <1>1, <1>2, LoginTypes, LoginTimes DEF Kept
  <2>5. /\ lastUse + Ttl - PersistAfter + 1 \in Nat
        /\ \A q \in Processes : persisted[q] + Ttl \in Nat
    BY <1>1, LoginTypes, LoginTimes
  <2>6. /\ login.at = "done" => Kept(lastUse + Ttl - PersistAfter + 1)'
        /\ \A q \in Processes : persisted[q] # 0 => Kept(persisted[q] + Ttl)'
    BY <1>1, <1>2, <1>5, <2>1, <2>4, <2>5 DEF Backed, Kept
  <2> QED BY <1>1, <1>2, <1>5, <2>1, <2>2, <2>3, <2>6 DEF Backed, Kept
<1>6. Ending'
  BY <1>1, <1>2 DEF Ending, CopyEnds, ReadEnds, LastCopy
<1> QED BY <1>2, <1>3, <1>4, <1>5, <1>6 DEF LoginsInv, Backed

LEMMA LoginsInvStep == LoginsInv /\ [LoginsNext]_loginVars => LoginsInv'
<1> SUFFICES ASSUME LoginsInv, [LoginsNext]_loginVars PROVE LoginsInv'
  OBVIOUS
<1>1. CASE StoreLogin \/ FinishLogin
  BY <1>1, StoreLoginKeeps, FinishLoginKeeps
<1>2. CASE \E r \in Reads : \E p \in Processes : BeginRead(r, p)
  BY <1>2, BeginReadKeeps
<1>3. CASE \E r \in Reads : AskSource(r) \/ Miss(r) \/ Expired(r) \/ Backfill(r) \/ PurgeExpired(r)
  BY <1>3, ReadStepKeeps, BackfillKeeps, PurgeExpiredKeeps
<1>4. CASE \E r \in Reads : Touch(r) \/ Renew(r) \/ Renewed(r)
  BY <1>4, TouchRecentKeeps, TouchStaleKeeps, RenewKeeps, RenewedKeeps
<1>5. CASE \E p \in Processes : BeginRevoke(p) \/ Restart(p)
  BY <1>5, BeginRevokeKeeps, RestartKeeps
<1>6. CASE DeleteRow \/ FinishRevoke
  BY <1>6, DeleteRowKeeps, FinishRevokeKeeps
<1>7. CASE SweepExpired \/ LoginsTick
  BY <1>7, SweepExpiredKeeps, LoginsTickKeeps
<1>8. CASE UNCHANGED loginVars
  BY <1>8 DEF loginVars, stores, loginHistory, LoginsInv, LoginsTypeOK, InTime, NotYet, ReadInTime,
     Backed, CacheBacked, ReadBacked, Kept, Ending, CopyEnds, ReadEnds, LastCopy
<1> QED BY <1>1, <1>2, <1>3, <1>4, <1>5, <1>6, <1>7, <1>8 DEF LoginsNext

LEMMA LoginsInvariance == LoginsSpec => []LoginsInv
BY LoginsInvInit, LoginsInvStep, PTL DEF LoginsSpec

(* Rows, copies and calls keep their shapes.                                *)
THEOREM LoginsTypeCorrect == LoginsSpec => []LoginsTypeOK
<1>1. LoginsInv => LoginsTypeOK
  BY DEF LoginsInv
<1> QED BY <1>1, LoginsInvariance, PTL

(* For any number of processes and reads, whatever the store makes a call   *)
(* wait: a login that was used is not lost before its time (hybrid.js).     *)
THEOREM LoginStays == LoginsSpec => []LoginKept
<1>1. LoginsInv => LoginKept
  <2> SUFFICES ASSUME LoginsInv, login.at = "done", goneAt = 0, ~lapsed,
                      now + 2 * Delay <= lastUse + Ttl - PersistAfter
               PROVE  row > now
    BY DEF LoginKept
  <2>1. LoginsTypeOK /\ Kept(lastUse + Ttl - PersistAfter + 1)
    BY DEF LoginsInv, Backed
  <2> QED BY <2>1, LoginTypes, LoginTimes DEF Kept
<1> QED BY <1>1, LoginsInvariance, PTL

(* A revoked login is answered with for a bounded time: what the caches     *)
(* hold ends, and nothing starts it afresh (hybrid.js, get and touch).      *)
THEOREM RevocationHolds == LoginsSpec => []RevocationTakesHold
<1>1. LoginsInv => RevocationTakesHold
  <2> SUFFICES ASSUME LoginsInv, goneAt # 0
               PROVE  lastUse < goneAt + PersistAfter + CacheTtl + 3 * Delay
    BY DEF RevocationTakesHold
  <2>1. LoginsTypeOK /\ lastUse < LastCopy + 2 * Delay
    BY DEF LoginsInv, Ending
  <2> QED BY <2>1, LoginTypes, LoginTimes DEF LastCopy
<1> QED BY <1>1, LoginsInvariance, PTL
-----------------------------------------------------------------------------
(***************************************************************************)
(* Why the limit on sessions is overrun by fewer than there are requests:   *)
(* whoever has passed the check for a new target counts with the sessions.  *)
(***************************************************************************)

(* Requests that may register a session without another look at the limit.  *)
Admitted == {r \in Askers : call[r].at = "register"}
Filling == Active \cup {call[r].on : r \in Admitted}

(* A request that is under way has a target and began at some tick; what it *)
(* entered still has its handle, unless a close crossed it.                 *)
Entered ==
  \A r \in Askers : call[r].at # "idle" =>
    /\ call[r].on \in Targets /\ call[r].since > 0
    /\ call[r].at \in {"entered", "running"} /\ ~crossed => handle[call[r].on] # 0

ConnInv ==
  /\ ConnTypeOK /\ Entered /\ HandlesAccountFor
  /\ Cardinality(Filling) < MaxSessions + Cardinality(Askers)
-----------------------------------------------------------------------------
LEMMA ConnSizes ==
  /\ IsFiniteSet(Targets) /\ IsFiniteSet(Askers) /\ NoTarget \notin Targets
  /\ Cardinality(Askers) \in Nat
  /\ MaxSessions \in Nat /\ MaxSessions > 0 /\ IdleTtl \in Nat /\ IdleTtl > 0
  /\ TouchInterval \in Nat /\ MaxClock \in Nat /\ MaxClock > 0
BY SessionsAssumption, FS_CardinalityType

(* The targets that requests name are no more than the requests.            *)
LEMMA TargetsOfRequests ==
  ASSUME NEW R, NEW f, R \subseteq Askers
  PROVE  /\ IsFiniteSet({f[r] : r \in R}) /\ Cardinality({f[r] : r \in R}) \in Nat
         /\ Cardinality({f[r] : r \in R}) <= Cardinality(R)
         /\ Cardinality(R) <= Cardinality(Askers) /\ Cardinality(R) \in Nat
<1> DEFINE T == {f[r] : r \in R}
           g == [r \in R |-> f[r]]
<1>1. IsFiniteSet(R) /\ Cardinality(R) <= Cardinality(Askers)
  BY ConnSizes, FS_Subset
<1>2. g \in Surjection(R, T)
  BY DEF Surjection
<1>3. IsFiniteSet(T) /\ Cardinality(T) <= Cardinality(R)
  BY <1>1, <1>2, FS_Surjection
<1> QED BY <1>1, <1>3, FS_CardinalityType

(* What is counted shrinks with the set.                                    *)
LEMMA FewerCounted ==
  ASSUME NEW S, NEW T, S \subseteq T, T \subseteq Targets,
         Cardinality(T) < MaxSessions + Cardinality(Askers)
  PROVE  Cardinality(S) < MaxSessions + Cardinality(Askers)
<1>1. IsFiniteSet(T) /\ Cardinality(T) \in Nat
  BY ConnSizes, FS_Subset, FS_CardinalityType
<1>2. Cardinality(S) \in Nat /\ Cardinality(S) <= Cardinality(T)
  BY <1>1, FS_Subset, FS_CardinalityType
<1> QED BY <1>1, <1>2, ConnSizes

LEMMA ConnTypes ==
  ASSUME ConnTypeOK
  PROVE  /\ clock \in Nat /\ clock > 0 /\ clock <= MaxClock
         /\ entry \in [Targets -> Nat] /\ handle \in [Targets -> Nat]
         /\ \A t \in Targets : entry[t] <= MaxClock + IdleTtl /\ handle[t] <= MaxClock
BY ConnSizes DEF ConnTypeOK

LEMMA ConnInvInit == ConnInit => ConnInv
<1> SUFFICES ASSUME ConnInit PROVE ConnInv
  OBVIOUS
<1>1. ConnTypeOK
  <2>1. clock \in 1..MaxClock /\ pools \subseteq Targets
    BY ConnSizes DEF ConnInit
  <2>4. crossed \in BOOLEAN
    BY DEF ConnInit
  <2>2. entry \in [Targets -> 0..(MaxClock + IdleTtl)] /\ handle \in [Targets -> 0..MaxClock]
    BY ConnSizes DEF ConnInit
  <2>3. IdleCall \in [at : {"idle"}, on : Targets \cup {NoTarget}, since : 0..MaxClock]
    BY ConnSizes DEF IdleCall
  <2> QED BY <2>1, <2>2, <2>3, <2>4 DEF ConnInit, ConnTypeOK
<1>2. Entered
  BY DEF ConnInit, Entered, IdleCall
<1>3. Active = {} /\ pools = {}
  BY DEF ConnInit, Active, LiveEntry
<1>4. Admitted = {}
  BY DEF ConnInit, Admitted, IdleCall
<1>5. Filling = {}
  BY <1>3, <1>4 DEF Filling
<1>6. Cardinality(Filling) = 0
  BY <1>5, FS_EmptySet
<1> QED BY <1>1, <1>2, <1>3, <1>6, ConnSizes DEF ConnInv, HandlesAccountFor, NoPhantomSession, UntrackedOnlyIfCrossed

(* The request of a step has come to `at', and the sessions are as they     *)
(* were: the inductive step of all but the counted ones.                    *)
LEMMA CountedTargets ==
  ASSUME ConnTypeOK, Entered PROVE Filling \subseteq Targets
BY DEF Filling, Active, Admitted, Entered

LEMMA FastTouchKeeps ==
  ASSUME ConnInv, NEW r \in Askers, NEW t \in Targets, FastTouch(r, t) PROVE ConnInv'
<1>1. /\ handle' = [handle EXCEPT ![t] = clock] /\ UNCHANGED <<clock, entry, pools, crossed>>
      /\ call' = [call EXCEPT ![r] = [at |-> "entered", on |-> t, since |-> clock]]
      /\ call[r].at = "idle"
  BY DEF FastTouch
<1>2. ConnTypeOK /\ Entered /\ clock # 0
  BY ConnTypes DEF ConnInv
<1>3. ConnTypeOK'
  BY <1>1, <1>2, ConnTypes, ConnSizes DEF ConnTypeOK
<1>4. Entered'
  BY <1>1, <1>2, ConnTypes DEF Entered, ConnTypeOK
<1>5. Held' = Held \cup {t} /\ Active' = Active
  BY <1>1, <1>2, ConnTypes DEF Held, Active, LiveEntry
<1>6. HandlesAccountFor'
  BY <1>1, <1>5 DEF ConnInv, HandlesAccountFor, NoPhantomSession, UntrackedOnlyIfCrossed
<1>7. Filling' \subseteq Filling
  BY <1>1, <1>2, <1>5 DEF Filling, Admitted, ConnTypeOK
<1>8. Cardinality(Filling') < MaxSessions + Cardinality(Askers)
  BY <1>2, <1>7, CountedTargets, FewerCounted DEF ConnInv
<1> QED BY <1>3, <1>4, <1>6, <1>8 DEF ConnInv

LEMMA SlowTouchKeeps ==
  ASSUME ConnInv, NEW r \in Askers, NEW t \in Targets, SlowTouch(r, t) PROVE ConnInv'
<1> DEFINE next == IF LiveEntry(t) THEN "register" ELSE "limit"
<1>1. /\ UNCHANGED <<clock, entry, handle, pools, crossed>>
      /\ call' = [call EXCEPT ![r] = [at |-> next, on |-> t, since |-> clock]]
      /\ call[r].at = "idle"
  BY DEF SlowTouch
<1>2. ConnTypeOK /\ Entered /\ clock # 0 /\ next \in {"register", "limit"}
  BY ConnTypes DEF ConnInv
<1>3. next = "register" => t \in Active
  BY DEF Active
<1> HIDE DEF next
<1>4. ConnTypeOK'
  BY <1>1, <1>2, ConnTypes, ConnSizes DEF ConnTypeOK
<1>5. Entered'
  BY <1>1, <1>2, ConnTypes DEF Entered, ConnTypeOK
<1>6. Held' = Held /\ Active' = Active
  BY <1>1 DEF Held, Active, LiveEntry
<1>7. HandlesAccountFor'
  BY <1>1, <1>6 DEF ConnInv, HandlesAccountFor, NoPhantomSession, UntrackedOnlyIfCrossed
<1>8. Filling' \subseteq Filling
  BY <1>1, <1>2, <1>3, <1>6 DEF Filling, Admitted, ConnTypeOK
<1>9. Cardinality(Filling') < MaxSessions + Cardinality(Askers)
  BY <1>2, <1>8, CountedTargets, FewerCounted DEF ConnInv
<1> QED BY <1>4, <1>5, <1>7, <1>9 DEF ConnInv

(* The one step that lets another session through: there was room.          *)
LEMMA CheckLimitKeeps ==
  ASSUME ConnInv, NEW r \in Askers, CheckLimit(r) PROVE ConnInv'
<1> DEFINE full == Cardinality(Active) >= MaxSessions
           to == IF full THEN IdleCall ELSE [call[r] EXCEPT !.at = "register"]
<1>1. /\ UNCHANGED <<clock, entry, handle, pools, crossed>>
      /\ call' = [call EXCEPT ![r] = to] /\ call[r].at = "limit"
  BY DEF CheckLimit
<1>2. ConnTypeOK /\ Entered /\ call[r].on \in Targets /\ call[r].since > 0
  BY <1>1 DEF ConnInv, Entered
<1>3. to = IdleCall \/ (~full /\ to = [at |-> "register", on |-> call[r].on, since |-> call[r].since])
  BY <1>2 DEF ConnTypeOK
<1> HIDE DEF to
<1>4. to \in [at : {"idle", "register"}, on : Targets \cup {NoTarget}, since : 0..MaxClock]
  BY <1>2, <1>3, ConnSizes DEF ConnTypeOK, IdleCall
<1>5. ConnTypeOK'
  BY <1>1, <1>2, <1>4 DEF ConnTypeOK
<1>6. Entered'
  BY <1>1, <1>2, <1>3 DEF Entered, ConnTypeOK, IdleCall
<1>7. Held' = Held /\ Active' = Active
  BY <1>1 DEF Held, Active, LiveEntry
<1>8. HandlesAccountFor'
  BY <1>1, <1>7 DEF ConnInv, HandlesAccountFor, NoPhantomSession, UntrackedOnlyIfCrossed
<1>9. Cardinality(Filling') < MaxSessions + Cardinality(Askers)
  <2>1. CASE to = IdleCall
    <3>1. Filling' \subseteq Filling
      BY <1>1, <1>2, <1>7, <2>1 DEF Filling, Admitted, ConnTypeOK, IdleCall
    <3> QED BY <1>2, <3>1, CountedTargets, FewerCounted DEF ConnInv
  <2>2. CASE ~full
    <3> DEFINE T == {call'[q].on : q \in Admitted'}
    <3>1. Filling' = Active \cup T
      BY <1>7 DEF Filling
    <3>2. IsFiniteSet(Active) /\ Cardinality(Active) \in Nat /\ Cardinality(Active) < MaxSessions
      BY <2>2, ConnSizes, FS_Subset, FS_CardinalityType DEF Active
    <3>3. IsFiniteSet(T) /\ Cardinality(T) \in Nat /\ Cardinality(T) <= Cardinality(Askers)
      <4> DEFINE f == [q \in Askers |-> call'[q].on]
      <4>1. T = {f[q] : q \in Admitted'} /\ Admitted' \subseteq Askers
        BY DEF Admitted
      <4> HIDE DEF f, T
      <4>2. /\ IsFiniteSet({f[q] : q \in Admitted'}) /\ Cardinality({f[q] : q \in Admitted'}) \in Nat
            /\ Cardinality({f[q] : q \in Admitted'}) <= Cardinality(Admitted')
            /\ Cardinality(Admitted') <= Cardinality(Askers) /\ Cardinality(Admitted') \in Nat
        BY <4>1, TargetsOfRequests
      <4> QED BY <4>1, <4>2, ConnSizes
    <3> HIDE DEF T
    <3>4. /\ Cardinality(Active \cup T) = Cardinality(Active) + Cardinality(T) - Cardinality(Active \cap T)
          /\ Cardinality(Active \cap T) \in Nat
      BY <3>2, <3>3, FS_Union, FS_Intersection, FS_CardinalityType
    <3> QED BY <3>1, <3>2, <3>3, <3>4, ConnSizes
  <2> QED BY <1>3, <2>1, <2>2
<1> QED BY <1>5, <1>6, <1>8, <1>9 DEF ConnInv

LEMMA RegisterKeeps ==
  ASSUME ConnInv, NEW r \in Askers, Register(r) PROVE ConnInv'
<1> DEFINE t == call[r].on
<1>1. /\ entry' = [entry EXCEPT ![t] = clock + IdleTtl]
      /\ handle' = [handle EXCEPT ![t] = call[r].since]
      /\ call' = [call EXCEPT ![r].at = "entered"]
      /\ UNCHANGED <<clock, pools, crossed>> /\ call[r].at = "register"
  BY DEF Register
<1>2. ConnTypeOK /\ Entered /\ t \in Targets /\ call[r].since \in 0..MaxClock /\ call[r].since > 0
  BY <1>1 DEF ConnInv, Entered, ConnTypeOK
<1>3. t \in Filling
  BY <1>1 DEF Filling, Admitted
<1> HIDE DEF t
<1>4. ConnTypeOK'
  BY <1>1, <1>2, ConnTypes, ConnSizes DEF ConnTypeOK
<1>5. Entered'
  BY <1>1, <1>2, ConnTypes DEF Entered, ConnTypeOK, t
<1>6. Held' = Held \cup {t} /\ Active' \subseteq Active \cup {t}
  BY <1>1, <1>2, ConnTypes DEF Held, Active, LiveEntry
<1>7. HandlesAccountFor'
  BY <1>1, <1>6 DEF ConnInv, HandlesAccountFor, NoPhantomSession, UntrackedOnlyIfCrossed
<1>8. Filling' \subseteq Filling
  BY <1>1, <1>2, <1>3, <1>6 DEF Filling, Admitted, ConnTypeOK
<1>9. Cardinality(Filling') < MaxSessions + Cardinality(Askers)
  BY <1>2, <1>8, CountedTargets, FewerCounted DEF ConnInv
<1> QED BY <1>4, <1>5, <1>7, <1>9 DEF ConnInv

LEMMA OpKeeps ==
  ASSUME ConnInv, NEW r \in Askers, OpenPool(r) \/ EndOp(r) PROVE ConnInv'
<1>1. ConnTypeOK /\ Entered
  BY DEF ConnInv
<1>2. UNCHANGED <<clock, entry, handle, crossed>>
  BY DEF OpenPool, EndOp
<1>3. ConnTypeOK'
  BY <1>1, ConnSizes DEF ConnTypeOK, OpenPool, EndOp, IdleCall, Entered
<1>4. Entered'
  BY <1>1 DEF ConnTypeOK, OpenPool, EndOp, IdleCall, Entered
<1>5. Held' = Held /\ Active' = Active
  BY <1>2 DEF Held, Active, LiveEntry
<1>6. HandlesAccountFor'
  <2>1. CASE OpenPool(r)
    <3>1. call[r].on \in Held \/ crossed
      BY <1>1, <2>1 DEF OpenPool, Entered, Held
    <3> QED BY <1>2, <1>5, <3>1 DEF ConnInv, HandlesAccountFor, NoPhantomSession, UntrackedOnlyIfCrossed
  <2>2. CASE EndOp(r)
    BY <1>2, <1>5, <2>2 DEF EndOp, ConnInv, HandlesAccountFor, NoPhantomSession, UntrackedOnlyIfCrossed
  <2> QED BY <2>1, <2>2
<1>7. Filling' \subseteq Filling
  BY <1>1, <1>5 DEF Filling, Admitted, ConnTypeOK, OpenPool, EndOp, IdleCall
<1>8. Cardinality(Filling') < MaxSessions + Cardinality(Askers)
  BY <1>1, <1>7, CountedTargets, FewerCounted DEF ConnInv
<1> QED BY <1>3, <1>4, <1>6, <1>8 DEF ConnInv

(* What ends sessions takes record and handle away together, and the pools  *)
(* with the last handle.                                                    *)
LEMMA ForgetKeeps ==
  ASSUME ConnInv, NEW T \in SUBSET Targets, UNCHANGED <<clock, call>>, NoteCrossed(T),
         entry' = [t \in Targets |-> IF t \in T THEN 0 ELSE entry[t]],
         handle' = [t \in Targets |-> IF t \in T THEN 0 ELSE handle[t]],
         pools' = {} \/ (pools' = pools /\ ~(T \cap Held # {} /\ Held \subseteq T))
  PROVE  ConnInv'
<1>1. ConnTypeOK /\ Entered
  BY DEF ConnInv
<1>2. crossed' \in BOOLEAN /\ (crossed => crossed')
  BY <1>1 DEF NoteCrossed, ConnTypeOK
<1>3. ConnTypeOK'
  BY <1>1, <1>2, ConnSizes, ConnTypes DEF ConnTypeOK
<1>4. Entered'
  BY <1>1, <1>2 DEF Entered, NoteCrossed
<1>5. Held' = Held \ T /\ Active' = Active \ T
  BY <1>1, ConnTypes DEF Held, Active, LiveEntry
<1>6. HandlesAccountFor'
  BY <1>2, <1>5 DEF ConnInv, HandlesAccountFor, NoPhantomSession, UntrackedOnlyIfCrossed
<1>7. Filling' \subseteq Filling
  BY <1>5 DEF Filling, Admitted
<1>8. Cardinality(Filling') < MaxSessions + Cardinality(Askers)
  BY <1>1, <1>7, CountedTargets, FewerCounted DEF ConnInv
<1> QED BY <1>3, <1>4, <1>6, <1>8 DEF ConnInv

LEMMA LeaveOrTickKeeps ==
  ASSUME ConnInv, ConnTick \/ \E t \in Targets : LeaveSession(t) PROVE ConnInv'
<1>1. ConnTypeOK /\ Entered /\ UNCHANGED <<handle, pools, call, crossed>>
  BY DEF ConnInv, ConnTick, LeaveSession
<1>2. ConnTypeOK'
  <2>1. CASE ConnTick
    BY <1>1, <2>1, ConnSizes DEF ConnTypeOK, ConnTick
  <2>2. CASE \E t \in Targets : LeaveSession(t)
    BY <1>1, <2>2, ConnSizes, ConnTypes DEF ConnTypeOK, LeaveSession
  <2> QED BY <2>1, <2>2
<1>3. Entered'
  BY <1>1 DEF Entered
<1>4. Active' \subseteq Active
  <2>1. CASE ConnTick
    BY <1>1, <2>1, ConnSizes, ConnTypes DEF ConnTick, Active, LiveEntry
  <2>2. CASE \E t \in Targets : LeaveSession(t)
    BY <1>1, <2>2, ConnSizes, ConnTypes DEF LeaveSession, Active, LiveEntry
  <2> QED BY <2>1, <2>2
<1>5. HandlesAccountFor'
  BY <1>1, <1>4 DEF ConnInv, HandlesAccountFor, NoPhantomSession, UntrackedOnlyIfCrossed, Held
<1>6. Filling' \subseteq Filling
  BY <1>1, <1>4 DEF Filling, Admitted
<1>7. Cardinality(Filling') < MaxSessions + Cardinality(Askers)
  BY <1>1, <1>6, CountedTargets, FewerCounted DEF ConnInv
<1> QED BY <1>2, <1>3, <1>5, <1>7 DEF ConnInv

LEMMA ConnInvStep == ConnInv /\ [ConnNext]_connVars => ConnInv'
<1> SUFFICES ASSUME ConnInv, [ConnNext]_connVars PROVE ConnInv'
  OBVIOUS
<1>1. CASE \E r \in Askers : \E t \in Targets : FastTouch(r, t) \/ SlowTouch(r, t)
  BY <1>1, FastTouchKeeps, SlowTouchKeeps
<1>2. CASE \E r \in Askers : CheckLimit(r) \/ Register(r) \/ OpenPool(r) \/ EndOp(r)
  BY <1>2, CheckLimitKeeps, RegisterKeeps, OpKeeps
<1>3. CASE \E t \in Targets : EndSession(t)
  <2>1. PICK t \in Targets : EndSession(t)
    BY <1>3
  <2>2. {t} \in SUBSET Targets
    BY <2>1
  <2> QED BY <2>1, <2>2, ForgetKeeps DEF EndSession, Forget
<1>4. CASE EndAllSessions
  <2>1. /\ entry' = [t \in Targets |-> IF t \in Targets THEN 0 ELSE entry[t]]
        /\ handle' = [t \in Targets |-> IF t \in Targets THEN 0 ELSE handle[t]]
        /\ Targets \in SUBSET Targets
    BY <1>4 DEF EndAllSessions
  <2> QED BY <1>4, <2>1, ForgetKeeps DEF EndAllSessions
<1>5. CASE Sweep
  <2>1. Idle \in SUBSET Targets
    BY DEF Idle, Held
  <2> QED BY <1>5, <2>1, ForgetKeeps DEF Sweep, Forget
<1>6. CASE ConnTick \/ \E t \in Targets : LeaveSession(t)
  BY <1>6, LeaveOrTickKeeps
<1>7. CASE UNCHANGED connVars
  BY <1>7 DEF connVars, ConnInv, ConnTypeOK, Entered, HandlesAccountFor, NoPhantomSession,
     UntrackedOnlyIfCrossed, Filling, Admitted, Active, LiveEntry, Held
<1> QED BY <1>1, <1>2, <1>3, <1>4, <1>5, <1>6, <1>7 DEF ConnNext

LEMMA ConnInvariance == ConnSpec => []ConnInv
BY ConnInvInit, ConnInvStep, PTL DEF ConnSpec

(* Records, handles, pools and requests keep their shapes.                  *)
THEOREM ConnTypeCorrect == ConnSpec => []ConnTypeOK
<1>1. ConnInv => ConnTypeOK
  BY DEF ConnInv
<1> QED BY <1>1, ConnInvariance, PTL

(* No session is counted that this process has no handle on, and none of    *)
(* the driver's pools is left without a handle but by a close that crossed  *)
(* a request (sessions/index.js, hybrid.js).                                *)
THEOREM HandlesTell == ConnSpec => []HandlesAccountFor
<1>1. ConnInv => HandlesAccountFor
  BY DEF ConnInv
<1> QED BY <1>1, ConnInvariance, PTL

(* For any limit and any number of requests: the limit is overrun by fewer  *)
(* sessions than there are requests (enterSession's count and put).         *)
THEOREM OverrunStaysBounded == ConnSpec => []OverrunBounded
<1>1. ConnInv => OverrunBounded
  <2> SUFFICES ASSUME ConnInv PROVE OverrunBounded
    OBVIOUS
  <2>1. Active \subseteq Filling
    BY DEF Filling
  <2> QED BY <2>1, CountedTargets, FewerCounted DEF ConnInv, OverrunBounded
<1> QED BY <1>1, ConnInvariance, PTL
=============================================================================
