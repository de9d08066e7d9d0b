------------------------- MODULE ResolveCacheProofs -------------------------
(***************************************************************************)
(* Why a kept answer is current, for any number of requests and writers.   *)
(* The argument is about computations in flight: one that the memo would   *)
(* still keep has read nothing but what is committed now (ReadsCurrent),   *)
(* because no transaction of the kind that invalidates before its commit   *)
(* is past its invalidation (NoCrossing) -- such a computation started     *)
(* before the transaction did, and the invalidation changed `generation'.  *)
(***************************************************************************)
EXTENDS ResolveCache, FiniteSetTheorems, TLAPS

InTransaction == {"inside", "clean", "sealed", "after", "applied", "undone"}

OpenCounts == open = Cardinality({w \in Writers : writer[w] \in InTransaction})

Computing(r) == req[r].at \in {"roster", "grants", "compute", "answered"}

Stamps ==
  /\ cacheVersion <= version
  /\ \A r \in Requests :
       Computing(r) => req[r].startedAt <= generation /\ req[r].version <= version

HasNode == \A r \in Requests : req[r].at # "idle" => req[r].via \in Places

Uncrossed(r) == Computing(r) /\ req[r].cacheable /\ req[r].startedAt = generation

NoCrossing ==
  (\E r \in Requests : Uncrossed(r)) =>
    \A w \in Writers : writer[w] \notin {"clean", "sealed"}

ReadsCurrent ==
  \A r \in Requests : Uncrossed(r) /\ ~InvalidationDue =>
    /\ req[r].at \in {"grants", "compute"} => req[r].roster = roster
    /\ req[r].at = "compute" => req[r].granted = granted
    /\ req[r].at = "answered" /\ req[r].version = version =>
         req[r].ans = Answer(req[r].via, roster, granted, policy)

IInv ==
  /\ TypeOK
  /\ OpenCounts
  /\ Stamps
  /\ HasNode
  /\ NoCrossing
  /\ ReadsCurrent
  /\ NothingKeptAcrossCommit
  /\ ServedAnswerIsCurrent
-----------------------------------------------------------------------------
LEMMA OpenIsCounted ==
  ASSUME OpenCounts
  PROVE  /\ IsFiniteSet({w \in Writers : writer[w] \in InTransaction})
         /\ open = 0 <=> \A w \in Writers : writer[w] \notin InTransaction
<1> DEFINE T == {w \in Writers : writer[w] \in InTransaction}
<1>1. IsFiniteSet(T)
  BY CacheAssumption, FS_Subset
<1>2. Cardinality(T) = 0 <=> T = {}
  BY <1>1, FS_EmptySet
<1> QED BY <1>1, <1>2 DEF OpenCounts

LEMMA TypeInit == Init => TypeOK
<1> SUFFICES ASSUME Init PROVE TypeOK
  OBVIOUS
<1> USE CacheAssumption DEF Init
<1>1. roster \in BOOLEAN /\ policy \in BOOLEAN
  OBVIOUS
<1>2. IdleRequest \in RequestState
  BY DEF IdleRequest, RequestState
<1>3. req \in [Requests -> RequestState]
  BY <1>2
<1>4. writer \in [Writers -> WriterStates]
  BY DEF WriterStates
<1>5. /\ place \in Places /\ granted \in SUBSET Places /\ version \in Nat
      /\ generation \in Nat /\ open \in Nat
  OBVIOUS
<1>6. /\ resolveCache \in [via : Places, ans : BOOLEAN] \cup {NoAnswer}
      /\ cacheVersion \in Nat \cup {-1}
  OBVIOUS
<1> QED BY <1>1, <1>3, <1>4, <1>5, <1>6 DEF TypeOK

LEMMA TypeStep == ASSUME TypeOK, OpenCounts, HasNode, [Next]_vars PROVE TypeOK'
<1> USE DEF TypeOK
<1>i. IdleRequest \in RequestState
  BY DEF IdleRequest, RequestState
<1>1. ASSUME NEW r \in Requests, GetNode(r) PROVE TypeOK'
  <2>1. [req[r] EXCEPT !.at = "node", !.via = place] \in RequestState
    BY DEF RequestState
  <2>2. req' \in [Requests -> RequestState]
    BY <2>1, <1>1 DEF GetNode
  <2> QED BY <2>2, <1>1 DEF GetNode, dbVars, memoVars
<1>2. ASSUME NEW r \in Requests, AskMemo(r) PROVE TypeOK'
  <2>1. [req[r] EXCEPT !.at = "roster", !.startedAt = generation,
           !.version = version, !.cacheable = (open = 0)] \in RequestState
    BY DEF RequestState
  <2>2. req' \in [Requests -> RequestState]
    BY <2>1, <1>i, <1>2 DEF AskMemo
  <2>3. resolveCache' \in [via : Places, ans : BOOLEAN] \cup {NoAnswer}
    BY <1>2 DEF AskMemo
  <2> QED BY <2>2, <2>3, <1>2 DEF AskMemo, dbVars
<1>3. ASSUME NEW r \in Requests, ReadRoster(r) PROVE TypeOK'
  <2>1. [req[r] EXCEPT !.at = "grants", !.roster = roster] \in RequestState
    BY DEF RequestState
  <2>2. req' \in [Requests -> RequestState]
    BY <2>1, <1>3 DEF ReadRoster
  <2> QED BY <2>2, <1>3 DEF ReadRoster, dbVars, memoVars
<1>4. ASSUME NEW r \in Requests, ReadGrants(r) PROVE TypeOK'
  <2>1. [req[r] EXCEPT !.at = "compute", !.granted = granted] \in RequestState
    BY DEF RequestState
  <2>2. req' \in [Requests -> RequestState]
    BY <2>1, <1>4 DEF ReadGrants
  <2> QED BY <2>2, <1>4 DEF ReadGrants, dbVars, memoVars
<1>5. ASSUME NEW r \in Requests, Compute(r) PROVE TypeOK'
  <2>0. Answer(req[r].via, req[r].roster, req[r].granted, policy) \in BOOLEAN
    BY DEF Answer
  <2>1. ASSUME NEW a \in BOOLEAN
        PROVE  [req[r] EXCEPT !.at = "answered", !.roster = FALSE,
                  !.granted = {}, !.ans = a] \in RequestState
    BY DEF RequestState
  <2>2. req' \in [Requests -> RequestState]
    BY <2>0, <2>1, <1>5 DEF Compute
  <2> QED BY <2>2, <1>5 DEF Compute, dbVars, memoVars
<1>6. ASSUME NEW r \in Requests, Keep(r) PROVE TypeOK'
  <2>1. [via |-> req[r].via, ans |-> req[r].ans] \in [via : Places, ans : BOOLEAN]
    BY <1>6 DEF RequestState, Keep, HasNode
  <2>2. resolveCache' \in [via : Places, ans : BOOLEAN] \cup {NoAnswer}
    BY <2>1, <1>6 DEF Keep
  <2>3. req' \in [Requests -> RequestState]
    BY <1>i, <1>6 DEF Keep
  <2> QED BY <2>2, <2>3, <1>6 DEF Keep, dbVars
<1>W. ASSUME NEW w \in Writers, NEW s \in WriterStates,
             writer' = [writer EXCEPT ![w] = s]
      PROVE  writer' \in [Writers -> WriterStates]
  BY <1>W
<1> USE DEF WriterStates
<1>7. ASSUME NEW w \in Writers, WriteRow(w) PROVE TypeOK'
  <2>1. writer' \in [Writers -> WriterStates]
    BY <1>7 DEF WriteRow
  <2>2. roster' \in BOOLEAN /\ granted' \in SUBSET Places
    BY <1>7 DEF WriteRow
  <2> QED BY <2>1, <2>2, <1>7 DEF WriteRow, memoVars
<1>8. ASSUME NEW w \in Writers, InvalidateAfter(w) \/ InvalidateInside(w) PROVE TypeOK'
  <2>1. writer' \in [Writers -> WriterStates]
    BY <1>8 DEF InvalidateAfter, InvalidateInside
  <2>2. /\ resolveCache' = NoAnswer /\ cacheVersion' = -1 /\ generation' \in Nat
        /\ UNCHANGED <<dbVars, policy, version, open, req>>
    BY <1>8 DEF InvalidateAfter, InvalidateInside, Invalidate
  <2> QED BY <2>1, <2>2 DEF dbVars
<1>9. ASSUME NEW w \in Writers, BeginTransaction(w) PROVE TypeOK'
  <2>1. writer' \in [Writers -> WriterStates]
    BY <1>9 DEF BeginTransaction
  <2>2. open' \in Nat
    BY <1>9 DEF BeginTransaction
  <2> QED BY <2>1, <2>2, <1>9 DEF BeginTransaction, dbVars, memoVars
<1>10. ASSUME NEW w \in Writers, CommitGrant(w) \/ CommitMove(w) \/ Rollback(w) PROVE TypeOK'
  <2>1. writer' \in [Writers -> WriterStates]
    BY <1>10 DEF CommitGrant, CommitMove, Rollback
  <2>2. place' \in Places /\ granted' \in SUBSET Places
    BY <1>10 DEF CommitGrant, CommitMove, Rollback, dbVars
  <2>3. UNCHANGED <<roster, policy, version, memoVars, open, req>>
    BY <1>10 DEF CommitGrant, CommitMove, Rollback, dbVars
  <2> QED BY <2>1, <2>2, <2>3 DEF memoVars
<1>11. ASSUME NEW w \in Writers, CloseTransaction(w) PROVE TypeOK'
  <2>1. writer' \in [Writers -> WriterStates]
    BY <1>11 DEF CloseTransaction
  <2>2. open # 0
    BY <1>11, OpenIsCounted DEF CloseTransaction, InTransaction
  <2>3. open' \in Nat
    BY <2>2, <1>11 DEF CloseTransaction
  <2> QED BY <2>1, <2>3, <1>11 DEF CloseTransaction, dbVars, memoVars
<1>12. CASE InstallPolicy
  <2>1. policy' \in BOOLEAN
    BY <1>12 DEF InstallPolicy
  <2>2. version' \in Nat
    BY <1>12 DEF InstallPolicy
  <2> QED BY <2>1, <2>2, <1>12 DEF InstallPolicy, dbVars, memoVars
<1>13. CASE UNCHANGED vars
  BY <1>13 DEF vars, dbVars, memoVars
<1> QED
  BY <1>1, <1>2, <1>3, <1>4, <1>5, <1>6, <1>7, <1>8, <1>9, <1>10, <1>11,
     <1>12, <1>13 DEF Next

LEMMA OpenStep == ASSUME TypeOK, OpenCounts, [Next]_vars PROVE OpenCounts'
<1> DEFINE T == {w \in Writers : writer[w] \in InTransaction}
<1> USE DEF OpenCounts
<1>0. IsFiniteSet(T) /\ Cardinality(T) \in Nat
  BY OpenIsCounted, FS_CardinalityType
<1>R. \A w \in T : Cardinality(T \ {w}) = Cardinality(T) - 1
  BY <1>0, FS_RemoveElement
<1>A. \A w : w \notin T => Cardinality(T \cup {w}) = Cardinality(T) + 1
  BY <1>0, FS_AddElement
<1>T. writer \in [Writers -> WriterStates]
  BY DEF TypeOK
<1>1. CASE UNCHANGED <<open, writer>>
  <2>1. T' = T
    BY <1>1
  <2> QED BY <2>1, <1>1
<1>2. ASSUME NEW w \in Writers,
             WriteRow(w) \/ InvalidateAfter(w) \/ InvalidateInside(w)
               \/ CommitGrant(w) \/ CommitMove(w) \/ Rollback(w)
      PROVE  OpenCounts'
  <2>1. T' = T
    BY <1>2, <1>T DEF WriteRow, InvalidateAfter, InvalidateInside, CommitGrant,
       CommitMove, Rollback, InTransaction, WriterStates
  <2>2. open' = open
    BY <1>2 DEF WriteRow, InvalidateAfter, InvalidateInside, CommitGrant,
       CommitMove, Rollback
  <2> QED BY <2>1, <2>2
<1>3. ASSUME NEW w \in Writers, BeginTransaction(w) PROVE OpenCounts'
  <2>1. w \notin T /\ T' = T \cup {w}
    BY <1>3, <1>T DEF BeginTransaction, InTransaction
  <2> QED BY <2>1, <1>3, <1>A DEF BeginTransaction
<1>4. ASSUME NEW w \in Writers, CloseTransaction(w) PROVE OpenCounts'
  <2>1. w \in T /\ T' = T \ {w}
    BY <1>4, <1>T DEF CloseTransaction, InTransaction
  <2> QED BY <2>1, <1>4, <1>R DEF CloseTransaction
<1>5. ASSUME NEW r \in Requests,
             GetNode(r) \/ AskMemo(r) \/ ReadRoster(r) \/ ReadGrants(r)
               \/ Compute(r) \/ Keep(r)
      PROVE  UNCHANGED <<open, writer>>
  BY <1>5 DEF GetNode, AskMemo, ReadRoster, ReadGrants, Compute, Keep
<1>6. InstallPolicy \/ UNCHANGED vars => UNCHANGED <<open, writer>>
  BY DEF InstallPolicy, vars
<1> QED BY <1>1, <1>2, <1>3, <1>4, <1>5, <1>6 DEF Next

LEMMA StampsStep ==
  ASSUME TypeOK, Stamps, HasNode, [Next]_vars
  PROVE  Stamps' /\ HasNode'
<1> USE DEF Stamps, HasNode, Computing, IdleRequest, RequestState
<1>T. /\ req \in [Requests -> RequestState] /\ generation \in Nat /\ version \in Nat
      /\ cacheVersion \in Nat \cup {-1} /\ place \in Places
  BY DEF TypeOK
<1>1. ASSUME NEW r \in Requests,
             GetNode(r) \/ ReadRoster(r) \/ ReadGrants(r) \/ Compute(r)
      PROVE  Stamps' /\ HasNode'
  <2>0. UNCHANGED <<version, cacheVersion, generation>>
    BY <1>1 DEF GetNode, ReadRoster, ReadGrants, Compute, memoVars
  <2>1. ASSUME NEW x \in Requests
        PROVE  /\ x # r => req'[x] = req[x]
               /\ req'[r].startedAt = req[r].startedAt
               /\ req'[r].version = req[r].version
    <3>1. CASE GetNode(r)
      BY <3>1, <1>T DEF GetNode
    <3>2. CASE ReadRoster(r)
      BY <3>2, <1>T DEF ReadRoster
    <3>3. CASE ReadGrants(r)
      BY <3>3, <1>T DEF ReadGrants
    <3>4. CASE Compute(r)
      BY <3>4, <1>T DEF Compute
    <3> QED BY <1>1, <3>1, <3>2, <3>3, <3>4
  <2>2. CASE GetNode(r)
    <3>1. req'[r].at = "node" /\ req'[r].via = place
      BY <2>2, <1>T DEF GetNode
    <3> QED BY <2>0, <2>1, <3>1, <1>T
  <2>3. CASE ~GetNode(r)
    <3>1. Computing(r) /\ req'[r].via = req[r].via
      <4>1. CASE ReadRoster(r)
        BY <4>1, <1>T DEF ReadRoster
      <4>2. CASE ReadGrants(r)
        BY <4>2, <1>T DEF ReadGrants
      <4>3. CASE Compute(r)
        BY <4>3, <1>T DEF Compute
      <4> QED BY <2>3, <1>1, <4>1, <4>2, <4>3
    <3> QED BY <2>0, <2>1, <3>1, <1>T
  <2> QED BY <2>2, <2>3
<1>2. ASSUME NEW r \in Requests, AskMemo(r) PROVE Stamps' /\ HasNode'
  BY <1>2, <1>T DEF AskMemo
<1>3. ASSUME NEW r \in Requests, Keep(r) PROVE Stamps' /\ HasNode'
  BY <1>3, <1>T DEF Keep
<1>4. ASSUME NEW w \in Writers, InvalidateAfter(w) \/ InvalidateInside(w)
      PROVE  Stamps' /\ HasNode'
  BY <1>4, <1>T DEF InvalidateAfter, InvalidateInside, Invalidate
<1>5. CASE InstallPolicy
  BY <1>5, <1>T DEF InstallPolicy, memoVars
<1>6. ASSUME NEW w \in Writers,
             WriteRow(w) \/ BeginTransaction(w) \/ CommitGrant(w)
               \/ CommitMove(w) \/ Rollback(w) \/ CloseTransaction(w)
      PROVE  UNCHANGED <<version, memoVars, req>>
  BY <1>6 DEF WriteRow, BeginTransaction, CommitGrant, CommitMove, Rollback,
     CloseTransaction
<1>7. CASE UNCHANGED <<version, memoVars, req>>
  BY <1>7 DEF memoVars
<1>8. UNCHANGED vars => UNCHANGED <<version, memoVars, req>>
  BY DEF vars
<1> QED BY <1>1, <1>2, <1>3, <1>4, <1>5, <1>6, <1>7, <1>8 DEF Next

-----------------------------------------------------------------------------
(* Only an invalidation ends the wait of a committed write.                 *)
LEMMA DueStep ==
  ASSUME TypeOK, [Next]_vars, generation' = generation, ~InvalidationDue'
  PROVE  ~InvalidationDue
<1>T. writer \in [Writers -> WriterStates] /\ generation \in Nat
  BY DEF TypeOK
<1> SUFFICES ASSUME NEW w \in Writers, writer[w] \in {"due", "applied"}
             PROVE  \E v \in Writers : writer'[v] \in {"due", "applied"}
  BY DEF InvalidationDue
<1>1. CASE UNCHANGED writer
  BY <1>1
<1>2. ASSUME NEW v \in Writers,
             WriteRow(v) \/ BeginTransaction(v) \/ CommitGrant(v) \/ CommitMove(v)
               \/ Rollback(v) \/ CloseTransaction(v)
      PROVE  writer'[w] \in {"due", "applied"}
  BY <1>2, <1>T DEF WriteRow, BeginTransaction, CommitGrant, CommitMove,
     Rollback, CloseTransaction
<1>3. ASSUME NEW v \in Writers, InvalidateAfter(v) \/ InvalidateInside(v)
      PROVE  FALSE
  BY <1>3, <1>T DEF InvalidateAfter, InvalidateInside, Invalidate
<1>4. ASSUME NEW r \in Requests,
             GetNode(r) \/ AskMemo(r) \/ ReadRoster(r) \/ ReadGrants(r)
               \/ Compute(r) \/ Keep(r)
      PROVE  UNCHANGED writer
  BY <1>4 DEF GetNode, AskMemo, ReadRoster, ReadGrants, Compute, Keep
<1>5. InstallPolicy \/ UNCHANGED vars => UNCHANGED writer
  BY DEF InstallPolicy, vars
<1> QED BY <1>1, <1>2, <1>3, <1>4, <1>5 DEF Next

(* A computation becomes uncrossed when it asks the memo with no            *)
(* transaction open, and no other step makes one uncrossed again.           *)
LEMMA UncrossedStep ==
  ASSUME TypeOK, Stamps, [Next]_vars, NEW r \in Requests, Uncrossed(r)'
  PROVE  /\ generation' = generation
         /\ Uncrossed(r) \/ (AskMemo(r) /\ open = 0)
<1> USE DEF Uncrossed, Computing
<1>T. req \in [Requests -> RequestState] /\ generation \in Nat
  BY DEF TypeOK
<1>1. ASSUME NEW x \in Requests, GetNode(x) \/ ReadRoster(x) \/ ReadGrants(x)
               \/ Compute(x) \/ Keep(x)
      PROVE  generation' = generation /\ Uncrossed(r)
  <2>1. generation' = generation
    <3>1. CASE Keep(x)
      BY <3>1 DEF Keep
    <3>2. CASE ~Keep(x)
      <4>1. UNCHANGED memoVars
        BY <3>2, <1>1 DEF GetNode, ReadRoster, ReadGrants, Compute
      <4> QED BY <4>1 DEF memoVars
    <3> QED BY <3>1, <3>2
  <2>2. CASE GetNode(x)
    BY <2>1, <2>2, <1>T DEF GetNode, RequestState
  <2>3. CASE ReadRoster(x) \/ ReadGrants(x)
    BY <2>1, <2>3, <1>T DEF ReadRoster, ReadGrants, RequestState
  <2>4. CASE Compute(x)
    BY <2>1, <2>4, <1>T DEF Compute, RequestState
  <2>5. CASE Keep(x)
    BY <2>1, <2>5, <1>T DEF Keep, IdleRequest
  <2> QED BY <1>1, <2>2, <2>3, <2>4, <2>5
<1>2. ASSUME NEW x \in Requests, AskMemo(x)
      PROVE  generation' = generation /\ (Uncrossed(r) \/ (AskMemo(r) /\ open = 0))
  <2>0. generation' = generation
    BY <1>2 DEF AskMemo
  <2>1. CASE x = r
    <3>1. CASE open # 0
      <4>1. (open = 0) = FALSE
        BY <3>1
      <4>2. req' = [req EXCEPT ![r] =
                      IF resolveCache' # NoAnswer
                      THEN IdleRequest
                      ELSE [req[r] EXCEPT !.at = "roster", !.startedAt = generation,
                              !.version = version, !.cacheable = FALSE]]
        BY <4>1, <2>1, <1>2, Zenon DEF AskMemo
      <4>3. ~(Computing(r)' /\ req'[r].cacheable)
        BY <4>2, <1>T DEF RequestState, IdleRequest
      <4> QED BY <4>3
    <3> QED BY <3>1, <2>0, <2>1, <1>2
  <2>2. CASE x # r
    BY <2>0, <2>2, <1>2, <1>T DEF AskMemo
  <2> QED BY <2>1, <2>2
<1>3. ASSUME NEW w \in Writers, InvalidateAfter(w) \/ InvalidateInside(w)
      PROVE  FALSE
  <2>1. generation' = generation + 1 /\ req' = req
    BY <1>3 DEF InvalidateAfter, InvalidateInside, Invalidate
  <2>2. req[r].startedAt <= generation
    BY <2>1 DEF Stamps
  <2> QED BY <2>1, <2>2, <1>T
<1>4. ASSUME NEW w \in Writers,
             WriteRow(w) \/ BeginTransaction(w) \/ CommitGrant(w) \/ CommitMove(w)
               \/ Rollback(w) \/ CloseTransaction(w)
      PROVE  UNCHANGED <<generation, req>>
  BY <1>4 DEF WriteRow, BeginTransaction, CommitGrant, CommitMove, Rollback,
     CloseTransaction, memoVars
<1>5. InstallPolicy \/ UNCHANGED vars => UNCHANGED <<generation, req>>
  BY DEF InstallPolicy, vars, memoVars
<1>6. CASE UNCHANGED <<generation, req>>
  BY <1>6
<1> QED BY <1>1, <1>2, <1>3, <1>4, <1>5, <1>6 DEF Next

LEMMA NoCrossingStep ==
  ASSUME TypeOK, OpenCounts, Stamps, NoCrossing, [Next]_vars
  PROVE  NoCrossing'
<1> SUFFICES ASSUME NEW r \in Requests, Uncrossed(r)', NEW w \in Writers
             PROVE  writer'[w] \notin {"clean", "sealed"}
  BY DEF NoCrossing
<1>T. writer \in [Writers -> WriterStates] /\ generation \in Nat
  BY DEF TypeOK
<1>1. generation' = generation /\ (Uncrossed(r) \/ open = 0)
  BY UncrossedStep
<1>2. writer[w] \notin {"clean", "sealed"}
  <2>1. CASE Uncrossed(r)
    BY <2>1 DEF NoCrossing
  <2>2. CASE open = 0
    BY <2>2, OpenIsCounted DEF InTransaction
  <2> QED BY <1>1, <2>1, <2>2
<1>3. ASSUME NEW v \in Writers,
             WriteRow(v) \/ BeginTransaction(v) \/ CommitMove(v) \/ Rollback(v)
               \/ CloseTransaction(v)
      PROVE  writer'[w] \notin {"clean", "sealed"}
  BY <1>2, <1>3, <1>T DEF WriteRow, BeginTransaction, CommitMove, Rollback,
     CloseTransaction
<1>4. ASSUME NEW v \in Writers, CommitGrant(v)
      PROVE  writer'[w] \notin {"clean", "sealed"}
  BY <1>2, <1>4, <1>T DEF CommitGrant
<1>5. ASSUME NEW v \in Writers, InvalidateAfter(v) \/ InvalidateInside(v)
      PROVE  FALSE
  BY <1>1, <1>5, <1>T DEF InvalidateAfter, InvalidateInside, Invalidate
<1>6. ASSUME NEW x \in Requests,
             GetNode(x) \/ AskMemo(x) \/ ReadRoster(x) \/ ReadGrants(x)
               \/ Compute(x) \/ Keep(x)
      PROVE  UNCHANGED writer
  BY <1>6 DEF GetNode, AskMemo, ReadRoster, ReadGrants, Compute, Keep
<1>7. InstallPolicy \/ UNCHANGED vars => UNCHANGED writer
  BY DEF InstallPolicy, vars
<1> QED BY <1>2, <1>3, <1>4, <1>5, <1>6, <1>7 DEF Next

LEMMA NothingKeptStep ==
  ASSUME TypeOK, OpenCounts, NothingKeptAcrossCommit, [Next]_vars
  PROVE  NothingKeptAcrossCommit'
<1> USE DEF NothingKeptAcrossCommit
<1> SUFFICES ASSUME NEW w \in Writers, writer'[w] \in {"clean", "sealed"}
             PROVE  resolveCache' = NoAnswer
  OBVIOUS
<1>T. writer \in [Writers -> WriterStates]
  BY DEF TypeOK
<1>1. ASSUME NEW x \in Requests, AskMemo(x) PROVE resolveCache' = NoAnswer
  BY <1>1 DEF AskMemo
<1>2. ASSUME NEW x \in Requests, Keep(x) PROVE resolveCache' = NoAnswer
  <2>1. resolveCache = NoAnswer
    BY <1>2 DEF Keep
  <2>2. open # 0
    BY <1>2, OpenIsCounted DEF Keep, InTransaction
  <2> QED BY <2>1, <2>2, <1>2 DEF Keep, MayKeep
<1>3. ASSUME NEW x \in Requests, GetNode(x) \/ ReadRoster(x) \/ ReadGrants(x) \/ Compute(x)
      PROVE  UNCHANGED <<resolveCache, writer>>
  BY <1>3 DEF GetNode, ReadRoster, ReadGrants, Compute, memoVars
<1>4. ASSUME NEW v \in Writers, InvalidateAfter(v) \/ InvalidateInside(v)
      PROVE  resolveCache' = NoAnswer
  BY <1>4 DEF InvalidateAfter, InvalidateInside, Invalidate
<1>5. ASSUME NEW v \in Writers,
             WriteRow(v) \/ BeginTransaction(v) \/ CommitGrant(v) \/ CommitMove(v)
               \/ Rollback(v) \/ CloseTransaction(v)
      PROVE  resolveCache' = NoAnswer
  <2>1. resolveCache' = resolveCache
    BY <1>5 DEF WriteRow, BeginTransaction, CommitGrant, CommitMove, Rollback,
       CloseTransaction, memoVars
  <2>2. \E u \in Writers : writer[u] \in {"clean", "sealed"}
    BY <1>5, <1>T DEF WriteRow, BeginTransaction, CommitGrant, CommitMove,
       Rollback, CloseTransaction
  <2> QED BY <2>1, <2>2
<1>6. InstallPolicy \/ UNCHANGED vars => UNCHANGED <<resolveCache, writer>>
  BY DEF InstallPolicy, vars, memoVars
<1> QED BY <1>1, <1>2, <1>3, <1>4, <1>5, <1>6 DEF Next

LEMMA ReadsStep ==
  ASSUME TypeOK, Stamps, NoCrossing, ReadsCurrent, [Next]_vars
  PROVE  ReadsCurrent'
<1> SUFFICES ASSUME NEW r \in Requests, Uncrossed(r)', ~InvalidationDue'
             PROVE  /\ req'[r].at \in {"grants", "compute"} => req'[r].roster = roster'
                    /\ req'[r].at = "compute" => req'[r].granted = granted'
                    /\ req'[r].at = "answered" /\ req'[r].version = version' =>
                         req'[r].ans = Answer(req'[r].via, roster', granted', policy')
  BY DEF ReadsCurrent, Answer
<1> DEFINE Goal ==
      /\ req'[r].at \in {"grants", "compute"} => req'[r].roster = roster'
      /\ req'[r].at = "compute" => req'[r].granted = granted'
      /\ req'[r].at = "answered" /\ req'[r].version = version' =>
           req'[r].ans = Answer(req'[r].via, roster', granted', policy')
<1>T. /\ req \in [Requests -> RequestState] /\ writer \in [Writers -> WriterStates]
      /\ generation \in Nat /\ version \in Nat
  BY DEF TypeOK
<1>1. generation' = generation /\ ~InvalidationDue
  BY UncrossedStep, DueStep
<1>2. CASE ~Uncrossed(r)
  <2>1. AskMemo(r)
    BY <1>2, UncrossedStep
  <2>2. req'[r].at \in {"idle", "roster"}
    BY <2>1, <1>T DEF AskMemo, IdleRequest
  <2> QED BY <2>2
<1>3. CASE Uncrossed(r)
  <2>0. /\ req[r].at \in {"grants", "compute"} => req[r].roster = roster
        /\ req[r].at = "compute" => req[r].granted = granted
        /\ req[r].at = "answered" /\ req[r].version = version =>
             req[r].ans = Answer(req[r].via, roster, granted, policy)
    BY <1>1, <1>3 DEF ReadsCurrent
  <2>1. CASE UNCHANGED <<roster, granted, policy, version>> /\ req'[r] = req[r]
    BY <2>0, <2>1
  <2>2. ASSUME NEW x \in Requests,
               GetNode(x) \/ AskMemo(x) \/ ReadRoster(x) \/ ReadGrants(x)
                 \/ Compute(x) \/ Keep(x)
        PROVE  Goal
    <3>1. UNCHANGED <<roster, granted, policy, version>>
      BY <2>2 DEF GetNode, AskMemo, ReadRoster, ReadGrants, Compute, Keep, dbVars
    <3>2. CASE x # r
      <4>1. req'[r] = req[r]
        <5>1. CASE GetNode(x) \/ AskMemo(x) \/ Keep(x)
          BY <5>1, <3>2, <1>T DEF GetNode, AskMemo, Keep
        <5>2. CASE ReadRoster(x) \/ ReadGrants(x) \/ Compute(x)
          BY <5>2, <3>2, <1>T DEF ReadRoster, ReadGrants, Compute
        <5> QED BY <2>2, <5>1, <5>2
      <4> QED BY <4>1, <3>1, <2>1
    <3>3. CASE x = r /\ (GetNode(r) \/ AskMemo(r) \/ Keep(r))
      <4>1. ~GetNode(r) /\ ~AskMemo(r)
        BY <1>3 DEF GetNode, AskMemo, Uncrossed, Computing
      <4>2. req'[r].at = "idle"
        BY <4>1, <3>3, <1>T DEF Keep, IdleRequest
      <4> QED BY <4>2
    <3>4. CASE x = r /\ ReadRoster(r)
      <4>1. req'[r].at = "grants" /\ req'[r].roster = roster
        BY <3>4, <1>T DEF ReadRoster, RequestState
      <4> QED BY <4>1, <3>1
    <3>5. CASE x = r /\ ReadGrants(r)
      <4>1. /\ req'[r].at = "compute" /\ req'[r].granted = granted
            /\ req'[r].roster = req[r].roster /\ req[r].at = "grants"
        BY <3>5, <1>T DEF ReadGrants, RequestState
      <4> QED BY <4>1, <3>1, <2>0
    <3>6. CASE x = r /\ Compute(r)
      <4>1. /\ req'[r].at = "answered" /\ req'[r].via = req[r].via
            /\ req'[r].ans = Answer(req[r].via, req[r].roster, req[r].granted, policy)
            /\ req[r].at = "compute"
        BY <3>6, <1>T DEF Compute, RequestState
      <4>2. req[r].roster = roster /\ req[r].granted = granted
        BY <4>1, <2>0
      <4> QED BY <4>1, <4>2, <3>1
    <3> QED BY <2>2, <3>2, <3>3, <3>4, <3>5, <3>6
  <2>3. ASSUME NEW w \in Writers, WriteRow(w) \/ CommitMove(w) PROVE FALSE
    BY <2>3, <1>T DEF WriteRow, CommitMove, InvalidationDue
  <2>4. ASSUME NEW w \in Writers, CommitGrant(w) PROVE FALSE
    BY <2>4, <1>3 DEF CommitGrant, NoCrossing
  <2>5. ASSUME NEW w \in Writers,
               InvalidateAfter(w) \/ InvalidateInside(w) \/ BeginTransaction(w)
                 \/ Rollback(w) \/ CloseTransaction(w)
        PROVE  UNCHANGED <<roster, granted, policy, version>> /\ req'[r] = req[r]
    BY <2>5 DEF InvalidateAfter, InvalidateInside, BeginTransaction, Rollback,
       CloseTransaction, dbVars
  <2>6. CASE InstallPolicy
    <3>1. UNCHANGED <<roster, granted, req>> /\ version' = version + 1
      BY <2>6 DEF InstallPolicy, dbVars
    <3>2. req[r].version <= version /\ req[r].version \in Nat
      BY <1>3, <1>T DEF Stamps, Uncrossed, RequestState
    <3>3. req'[r].version # version'
      BY <3>1, <3>2, <1>T
    <3> QED BY <3>1, <3>3, <2>0
  <2>7. UNCHANGED vars =>
          UNCHANGED <<roster, granted, policy, version>> /\ req'[r] = req[r]
    BY DEF vars, dbVars
  <2> QED BY <2>1, <2>2, <2>3, <2>4, <2>5, <2>6, <2>7 DEF Next
<1> QED BY <1>2, <1>3

LEMMA ServedStep ==
  ASSUME TypeOK, OpenCounts, Stamps, ReadsCurrent, NothingKeptAcrossCommit,
         ServedAnswerIsCurrent, [Next]_vars
  PROVE  ServedAnswerIsCurrent'
<1> SUFFICES ASSUME Served', ~InvalidationDue'
             PROVE  resolveCache'.ans = Answer(resolveCache'.via, roster', granted', policy')
  BY DEF ServedAnswerIsCurrent, Answer
<1>T. /\ req \in [Requests -> RequestState] /\ writer \in [Writers -> WriterStates]
      /\ generation \in Nat /\ version \in Nat /\ cacheVersion \in Nat \cup {-1}
  BY DEF TypeOK
<1>S. resolveCache' # NoAnswer /\ cacheVersion' = version'
  BY DEF Served
<1>1. CASE UNCHANGED <<roster, granted, policy, generation, resolveCache>> /\ Served
  <2>1. ~InvalidationDue
    BY <1>1, DueStep
  <2> QED BY <2>1, <1>1 DEF ServedAnswerIsCurrent
<1>2. ASSUME NEW x \in Requests, Keep(x)
      PROVE  resolveCache'.ans = Answer(resolveCache'.via, roster', granted', policy')
  <2>1. UNCHANGED <<roster, granted, policy, version, cacheVersion, generation>>
    BY <1>2 DEF Keep, dbVars
  <2>2. CASE MayKeep(x)
    <3>1. Uncrossed(x) /\ req[x].at = "answered" /\ req[x].version = version
      BY <2>1, <2>2, <1>2, <1>S DEF MayKeep, Keep, Uncrossed, Computing
    <3>2. ~InvalidationDue
      BY <2>1, DueStep
    <3>3. req[x].ans = Answer(req[x].via, roster, granted, policy)
      BY <3>1, <3>2 DEF ReadsCurrent
    <3> QED BY <3>3, <2>1, <2>2, <1>2 DEF Keep
  <2>3. CASE ~MayKeep(x)
    BY <2>1, <2>3, <1>1, <1>2, <1>S DEF Keep, Served
  <2> QED BY <2>2, <2>3
<1>3. ASSUME NEW x \in Requests, AskMemo(x)
      PROVE  UNCHANGED <<roster, granted, policy, generation, resolveCache>> /\ Served
  BY <1>3, <1>S DEF AskMemo, Served, dbVars
<1>4. ASSUME NEW x \in Requests, GetNode(x) \/ ReadRoster(x) \/ ReadGrants(x) \/ Compute(x)
      PROVE  UNCHANGED <<roster, granted, policy, generation, resolveCache>> /\ Served
  <2>1. UNCHANGED <<dbVars, memoVars, policy, version>>
    BY <1>4 DEF GetNode, ReadRoster, ReadGrants, Compute
  <2> QED BY <2>1, <1>S DEF Served, dbVars, memoVars
<1>5. ASSUME NEW w \in Writers, InvalidateAfter(w) \/ InvalidateInside(w) PROVE FALSE
  BY <1>5, <1>S DEF InvalidateAfter, InvalidateInside, Invalidate
<1>6. ASSUME NEW w \in Writers, WriteRow(w) \/ CommitMove(w) PROVE FALSE
  BY <1>6, <1>T DEF WriteRow, CommitMove, InvalidationDue
<1>7. ASSUME NEW w \in Writers, CommitGrant(w) PROVE FALSE
  BY <1>7, <1>S DEF CommitGrant, NothingKeptAcrossCommit, memoVars
<1>8. ASSUME NEW w \in Writers, BeginTransaction(w) \/ Rollback(w) \/ CloseTransaction(w)
      PROVE  UNCHANGED <<roster, granted, policy, generation, resolveCache>> /\ Served
  <2>1. UNCHANGED <<dbVars, memoVars, policy, version>>
    BY <1>8 DEF BeginTransaction, Rollback, CloseTransaction
  <2> QED BY <2>1, <1>S DEF Served, dbVars, memoVars
<1>9. ~InstallPolicy
  BY <1>S, <1>T DEF InstallPolicy, Stamps, memoVars
<1>10. CASE UNCHANGED vars
  <2>1. UNCHANGED <<roster, granted, policy, generation, resolveCache>> /\ Served
    BY <1>10, <1>S DEF vars, dbVars, memoVars, Served
  <2> QED BY <2>1, <1>1
<1> QED
  BY <1>1, <1>2, <1>3, <1>4, <1>5, <1>6, <1>7, <1>8, <1>9, <1>10 DEF Next
-----------------------------------------------------------------------------
LEMMA InitIInv == Init => IInv
<1> SUFFICES ASSUME Init PROVE IInv
  OBVIOUS
<1>1. TypeOK
  BY TypeInit
<1>2. OpenCounts
  <2>1. {w \in Writers : writer[w] \in InTransaction} = {}
    BY DEF Init, InTransaction
  <2> QED BY <2>1, FS_EmptySet DEF OpenCounts, Init
<1>3. \A r \in Requests : req[r].at = "idle"
  BY DEF Init, IdleRequest
<1>4. Stamps /\ HasNode
  BY <1>3 DEF Stamps, HasNode, Computing, Init
<1>5. NoCrossing /\ ReadsCurrent
  BY <1>3 DEF NoCrossing, ReadsCurrent, Uncrossed, Computing
<1>6. NothingKeptAcrossCommit /\ ServedAnswerIsCurrent
  BY DEF NothingKeptAcrossCommit, ServedAnswerIsCurrent, Served, Init
<1> QED BY <1>1, <1>2, <1>4, <1>5, <1>6 DEF IInv

LEMMA Invariance == Spec => []IInv
<1>1. ASSUME IInv, [Next]_vars PROVE IInv'
  BY <1>1, TypeStep, OpenStep, StampsStep, NoCrossingStep, ReadsStep,
     NothingKeptStep, ServedStep DEF IInv
<1> QED BY <1>1, InitIInv, PTL DEF Spec

(* Every variable keeps to its type; in particular transactionsOpen() never *)
(* goes below zero, however transactions overlap, commit and roll back.     *)
THEOREM TypeCorrect == Spec => []TypeOK
<1>1. IInv => TypeOK
  BY DEF IInv
<1> QED BY <1>1, Invariance, PTL

(* Once every committed write has invalidated, what the memo would serve is *)
(* what a computation from the same node row would return now.              *)
THEOREM ServedCorrect == Spec => []ServedAnswerIsCurrent
<1>1. IInv => ServedAnswerIsCurrent
  BY DEF IInv
<1> QED BY <1>1, Invariance, PTL

(* The memo stays empty from the moment a transaction invalidates inside    *)
(* itself to the moment it counts itself closed.                            *)
THEOREM WindowCorrect == Spec => []NothingKeptAcrossCommit
<1>1. IInv => NothingKeptAcrossCommit
  BY DEF IInv
<1> QED BY <1>1, Invariance, PTL
=============================================================================
