---------------------------- MODULE ClientProofs ----------------------------
(***************************************************************************)
(* What holds of the changes staged in the console, of the statements of a *)
(* schema design, and of the console's tabs.                               *)
(***************************************************************************)
EXTENDS StagedChanges, SchemaDesign, ConsoleTabs, SequenceTheorems, TLAPS,
  NaturalsInduction, WellFoundedInduction
-----------------------------------------------------------------------------
(***************************************************************************)
(* Why no staged change is lost or run twice: what a batch holds is its own *)
(* (BatchHolds), in the order the changes were made, and the list holds    *)
(* nothing a commit has not copied, run or marked.  What ran is held again *)
(* only if its answer was lost.                                            *)
(***************************************************************************)

Rising(s) == \A i, j \in DOMAIN s : i < j => s[i] < s[j]
Falling(s) == \A i, j \in DOMAIN s : i < j => s[i] > s[j]
Once(s, but) == \A i, j \in DOMAIN s : i # j /\ s[i] = s[j] => s[i] \in but

Content(b) == Range(b.todo) \cup Range(b.left)

BatchHolds(b) ==
  /\ Rising(b.todo) /\ Rising(b.left)
  /\ \A x \in Range(b.left), y \in Range(b.todo) : x < y
  /\ Content(b) \subseteq 1..made /\ Content(b) \cap Range(executed) \subseteq unanswered
  /\ IF b.commit THEN Range(staged) \subseteq Range(executed) \cup Content(b) \cup stageCrossed
     ELSE Content(b) \cap Range(staged) = {}

ListHolds ==
  /\ Falling(staged) /\ Once(executed, unanswered)
  /\ Range(staged) \subseteq 1..made /\ Range(executed) \subseteq 1..made
  /\ ~Committing => Range(staged) \cap Range(executed) \subseteq unanswered

StageInv ==
  /\ StageTypeOK /\ ListHolds /\ ChangesWait
  /\ \A b \in batches : BatchHolds(b)
  /\ \A b, c \in batches : b # c => Content(b) \cap Content(c) = {}
-----------------------------------------------------------------------------
(* What is in a sequence after it was extended, turned, or shortened.       *)
LEMMA RangeEmpty == Range(<<>>) = {} /\ Rising(<<>>) /\ Falling(<<>>) /\ Once(<<>>, {})
BY DEF Range, Rising, Falling, Once

LEMMA InRange ==
  ASSUME NEW s \in Seq(Changes), NEW i \in DOMAIN s
  PROVE  s[i] \in Changes /\ s[i] \in Nat /\ s[i] \in Range(s)
<1>1. s[i] \in Changes
  OBVIOUS
<1>2. s[i] \in Nat
  BY <1>1, StageAssumption DEF Changes
<1> QED BY <1>1, <1>2 DEF Range

LEMMA RangeAppend ==
  ASSUME NEW s \in Seq(Changes), NEW x \in Changes
  PROVE  /\ Append(s, x) \in Seq(Changes) /\ Range(Append(s, x)) = Range(s) \cup {x}
         /\ Rising(s) /\ (\A y \in Range(s) : y < x) => Rising(Append(s, x))
<1>1. PICK r : r = Append(s, x)
  OBVIOUS
<1>2. /\ r \in Seq(Changes) /\ Len(r) = Len(s) + 1 /\ DOMAIN r = 1..(Len(s) + 1) /\ DOMAIN s = 1..Len(s)
      /\ r[Len(s) + 1] = x /\ \A i \in 1..Len(s) : r[i] = s[i]
  BY <1>1
<1>3. Range(r) = Range(s) \cup {x}
  BY <1>2 DEF Range
<1>4. ASSUME Rising(s), \A y \in Range(s) : y < x PROVE Rising(r)
  BY <1>2, <1>4 DEF Rising, Range
<1> QED BY <1>1, <1>2, <1>3, <1>4

LEMMA OnceAppend ==
  ASSUME NEW s \in Seq(Changes), NEW x \in Changes, NEW but, NEW now,
         Once(s, but), but \subseteq now, x \in Range(s) => x \in now
  PROVE  Once(Append(s, x), now)
<1>1. PICK r : r = Append(s, x)
  OBVIOUS
<1>2. /\ DOMAIN r = 1..(Len(s) + 1) /\ DOMAIN s = 1..Len(s)
      /\ r[Len(s) + 1] = x /\ \A i \in 1..Len(s) : r[i] = s[i]
  BY <1>1
<1> QED BY <1>1, <1>2 DEF Once, Range

LEMMA RangeFirst ==
  ASSUME NEW s \in Seq(Changes), NEW x \in Changes
  PROVE  /\ <<x>> \o s \in Seq(Changes) /\ Range(<<x>> \o s) = Range(s) \cup {x}
         /\ Falling(s) /\ (\A y \in Range(s) : y < x) => Falling(<<x>> \o s)
<1>1. PICK r : r = <<x>> \o s
  OBVIOUS
<1>2. /\ r \in Seq(Changes) /\ Len(r) = Len(s) + 1 /\ DOMAIN r = 1..(Len(s) + 1) /\ DOMAIN s = 1..Len(s)
      /\ r[1] = x /\ \A i \in 2..(Len(s) + 1) : r[i] = s[i - 1]
  BY <1>1
<1>3. \A i \in 2..(Len(s) + 1) : i - 1 \in DOMAIN s
  BY <1>2
<1>4. \A i \in DOMAIN s : i + 1 \in DOMAIN r /\ r[i + 1] = s[i]
  <2> SUFFICES ASSUME NEW i \in DOMAIN s PROVE i + 1 \in DOMAIN r /\ r[i + 1] = s[i]
    OBVIOUS
  <2>1. i + 1 \in 2..(Len(s) + 1) /\ (i + 1) - 1 = i
    BY <1>2
  <2> QED BY <1>2, <2>1
<1>5. Range(r) = Range(s) \cup {x}
  <2>1. \A y \in Range(r) : y \in Range(s) \cup {x}
    BY <1>2, <1>3 DEF Range
  <2>2. \A y \in Range(s) : y \in Range(r)
    BY <1>4 DEF Range
  <2>3. x \in Range(r)
    BY <1>2 DEF Range
  <2> QED BY <2>1, <2>2, <2>3
<1>6. ASSUME Falling(s), \A y \in Range(s) : y < x PROVE Falling(r)
  <2>1. SUFFICES ASSUME NEW i \in DOMAIN r, NEW j \in DOMAIN r, i < j PROVE r[i] > r[j]
    BY DEF Falling
  <2>2. j - 1 \in DOMAIN s /\ r[j] = s[j - 1] /\ r[j] \in Range(s)
    BY <1>2, <1>3, <2>1 DEF Range
  <2>3. CASE i = 1
    <3>1. r[j] < x /\ r[i] = x
      BY <1>2, <1>6, <2>2, <2>3
    <3>2. r[j] \in Nat /\ x \in Nat
      BY <1>2, InRange DEF Changes
    <3> QED BY <3>1, <3>2
  <2>4. CASE i # 1
    <3>1. i - 1 \in DOMAIN s /\ r[i] = s[i - 1] /\ i - 1 < j - 1
      BY <1>2, <1>3, <2>1, <2>4
    <3> QED BY <1>6, <2>2, <3>1 DEF Falling
  <2> QED BY <2>3, <2>4
<1> QED BY <1>1, <1>2, <1>5, <1>6

LEMMA RangeTail ==
  ASSUME NEW s \in Seq(Changes), s # <<>>
  PROVE  /\ Tail(s) \in Seq(Changes) /\ Head(s) \in Changes /\ Head(s) \in Range(s)
         /\ Range(s) = Range(Tail(s)) \cup {Head(s)}
         /\ Rising(s) => Rising(Tail(s)) /\ \A y \in Range(Tail(s)) : Head(s) < y
<1>1. PICK r : r = Tail(s)
  OBVIOUS
<1>2. /\ r \in Seq(Changes) /\ Len(r) = Len(s) - 1 /\ Len(s) > 0 /\ DOMAIN r = 1..(Len(s) - 1)
      /\ DOMAIN s = 1..Len(s) /\ s[1] = Head(s) /\ \A i \in DOMAIN r : r[i] = s[i + 1]
  BY <1>1
<1>3. 1 \in DOMAIN s /\ \A i \in DOMAIN r : i + 1 \in DOMAIN s
  BY <1>2
<1>4. \A i \in DOMAIN s : i # 1 => i - 1 \in DOMAIN r /\ r[i - 1] = s[i]
  BY <1>2
<1>5. Range(s) = Range(r) \cup {Head(s)} /\ Head(s) \in Range(s) /\ Head(s) \in Changes
  BY <1>2, <1>3, <1>4 DEF Range
<1>6. ASSUME Rising(s) PROVE Rising(r) /\ \A y \in Range(r) : Head(s) < y
  <2>1. Rising(r)
    BY <1>2, <1>3, <1>6 DEF Rising
  <2>2. \A i \in DOMAIN r : Head(s) < r[i]
    BY <1>2, <1>3, <1>6 DEF Rising
  <2> QED BY <2>1, <2>2 DEF Range
<1> QED BY <1>1, <1>2, <1>5, <1>6

LEMMA RangeReverse ==
  ASSUME NEW s \in Seq(Changes)
  PROVE  /\ Reverse(s) \in Seq(Changes) /\ Range(Reverse(s)) = Range(s)
         /\ Rising(s) => Falling(Reverse(s))
         /\ Falling(s) => Rising(Reverse(s))
<1>1. PICK r : r = Reverse(s)
  OBVIOUS
<1>2. /\ r \in Seq(Changes) /\ Len(r) = Len(s) /\ DOMAIN r = 1..Len(s) /\ DOMAIN s = 1..Len(s)
      /\ \A i \in 1..Len(s) : r[i] = s[(Len(s) - i) + 1]
  BY <1>1 DEF Reverse
<1>3. \A i \in DOMAIN s : (Len(s) - i) + 1 \in DOMAIN s /\ (Len(s) - ((Len(s) - i) + 1)) + 1 = i
  BY <1>2
<1>4. \A i \in DOMAIN s : s[i] = r[(Len(s) - i) + 1]
  BY <1>2, <1>3
<1>5. Range(r) = Range(s)
  <2>1. \A x \in Range(r) : x \in Range(s)
    BY <1>2, <1>3 DEF Range
  <2>2. \A x \in Range(s) : x \in Range(r)
    BY <1>2, <1>3, <1>4 DEF Range
  <2> QED BY <2>1, <2>2
<1>6. \A i, j \in DOMAIN s : i < j => (Len(s) - j) + 1 < (Len(s) - i) + 1
  BY <1>2
<1>7. ASSUME Rising(s) PROVE Falling(r)
  <2>1. SUFFICES ASSUME NEW i \in DOMAIN r, NEW j \in DOMAIN r, i < j PROVE r[i] > r[j]
    BY DEF Falling
  <2>2. r[j] < r[i]
    BY <1>2, <1>3, <1>6, <1>7, <2>1 DEF Rising
  <2>3. r[i] \in Nat /\ r[j] \in Nat
    BY <1>2, <2>1, InRange
  <2> QED BY <2>2, <2>3
<1>8. ASSUME Falling(s) PROVE Rising(r)
  <2>1. SUFFICES ASSUME NEW i \in DOMAIN r, NEW j \in DOMAIN r, i < j PROVE r[i] < r[j]
    BY DEF Rising
  <2>2. r[j] > r[i]
    BY <1>2, <1>3, <1>6, <1>8, <2>1 DEF Falling
  <2>3. r[i] \in Nat /\ r[j] \in Nat
    BY <1>2, <2>1, InRange
  <2> QED BY <2>2, <2>3
<1> QED BY <1>1, <1>2, <1>5, <1>7, <1>8

-----------------------------------------------------------------------------
LEMMA StageTypes ==
  ASSUME StageTypeOK
  PROVE  /\ \A b \in batches : /\ b \in Batch /\ b.todo \in Seq(Changes) /\ b.left \in Seq(Changes)
                               /\ b.commit \in BOOLEAN /\ b.failed \in BOOLEAN
         /\ staged \in Seq(Changes) /\ executed \in Seq(Changes) /\ Changes \subseteq Nat
BY DEF StageTypeOK, Batch, Changes

LEMMA StageInvInit == StageInit => StageInv
<1> SUFFICES ASSUME StageInit PROVE StageInv
  OBVIOUS
<1>1. StageTypeOK
  <2>1. <<>> \in Seq(Changes) /\ 0 \in 0..MaxChanges
    BY StageAssumption
  <2>2. /\ staged \in Seq(Changes) /\ executed \in Seq(Changes) /\ discarded \subseteq Changes /\ unanswered \subseteq Changes
        /\ batches = {} /\ made \in 0..MaxChanges /\ direct \in BOOLEAN /\ stageCrossed \subseteq Changes
    BY <2>1 DEF StageInit
  <2> QED BY <2>2 DEF StageTypeOK
<1>2. ListHolds
  BY RangeEmpty DEF StageInit, ListHolds
<1>3. ChangesWait
  BY DEF StageInit, ChangesWait
<1> QED BY <1>1, <1>2, <1>3 DEF StageInit, StageInv

(* A change is new: nothing holds it yet.                                   *)
LEMMA NewChange ==
  ASSUME StageInv, made < MaxChanges
  PROVE  /\ made + 1 \in Changes /\ made \in Nat /\ made + 1 \notin Range(staged) \cup Range(executed)
         /\ \A b \in batches : made + 1 \notin Content(b)
         /\ \A y \in Range(staged) : y < made + 1
         /\ 1..(made + 1) = 1..made \cup {made + 1}
<1>1. made \in Nat /\ made + 1 \in Changes /\ made + 1 \notin 1..made /\ 1..(made + 1) = 1..made \cup {made + 1}
  BY StageAssumption DEF StageInv, StageTypeOK, Changes
<1>2. \A y \in 1..made : y < made + 1
  BY <1>1
<1> QED BY <1>1, <1>2 DEF StageInv, ListHolds, BatchHolds

LEMMA AddChangeKeeps == ASSUME StageInv, AddChange PROVE StageInv'
<1>1. PICK c : c = made + 1
  OBVIOUS
<1>2. /\ c \in Changes /\ made \in Nat /\ c \notin Range(staged) \cup Range(executed)
      /\ \A b \in batches : c \notin Content(b)
      /\ \A y \in Range(staged) : y < c
      /\ 1..c = 1..made \cup {c} /\ made' = c /\ UNCHANGED <<executed, unanswered, discarded, direct>>
  BY <1>1, NewChange DEF AddChange
<1>3. made' \in 0..MaxChanges
  BY <1>1, <1>2, StageAssumption DEF Changes
<1>4. CASE direct
  <2>1. PICK n : n = [todo |-> <<c>>, left |-> <<>>, failed |-> FALSE, commit |-> FALSE]
    OBVIOUS
  <2>2. batches' = batches \cup {n} /\ UNCHANGED <<staged, stageCrossed>>
    BY <1>1, <1>4, <2>1 DEF AddChange
  <2>3. n \in Batch /\ n.todo = <<c>> /\ n.left = <<>> /\ n.commit = FALSE
    BY <1>2, <2>1 DEF Batch
  <2>4. Content(n) = {c} /\ Range(n.left) = {} /\ Rising(n.todo) /\ Rising(n.left)
    <3>1. Range(<<c>>) = {c} /\ Rising(<<c>>)
      BY DEF Range, Rising
    <3> QED BY <2>3, <3>1, RangeEmpty DEF Content
  <2>5. Committing' <=> Committing
    BY <2>2, <2>3 DEF Committing
  <2>6. StageTypeOK'
    BY <1>2, <1>3, <2>2, <2>3 DEF StageInv, StageTypeOK
  <2>7. ListHolds'
    BY <1>2, <2>2, <2>5 DEF StageInv, ListHolds
  <2>8. ChangesWait'
    <3>1. \A d \in 1..made : d \in Range(executed) \cup discarded \cup stageCrossed \/ Waiting(d)
      BY DEF StageInv, ChangesWait
    <3>2. \A d : Waiting(d) => Waiting(d)'
      BY <2>2 DEF Waiting
    <3>3. Waiting(c)'
      BY <2>2, <2>4 DEF Waiting, Content
    <3> QED BY <1>2, <2>2, <3>1, <3>2, <3>3 DEF ChangesWait
  <2>9. \A b \in batches' : BatchHolds(b)'
    <3>1. BatchHolds(n)'
      BY <1>2, <2>2, <2>3, <2>4 DEF BatchHolds
    <3>2. \A b \in batches : BatchHolds(b)'
      BY <1>2, <2>2 DEF StageInv, BatchHolds
    <3> QED BY <2>2, <3>1, <3>2
  <2>10. \A b, d \in batches' : b # d => Content(b) \cap Content(d) = {}
    BY <1>2, <2>2, <2>4 DEF StageInv
  <2> QED BY <2>6, <2>7, <2>8, <2>9, <2>10 DEF StageInv
<1>5. CASE ~direct
  <2>1. /\ staged' = <<c>> \o staged /\ UNCHANGED batches
        /\ stageCrossed' = IF Committing THEN stageCrossed \cup {c} ELSE stageCrossed
    BY <1>1, <1>5 DEF AddChange
  <2>2. staged' \in Seq(Changes) /\ Range(staged') = Range(staged) \cup {c} /\ Falling(staged')
    BY <1>2, <2>1, StageTypes, RangeFirst DEF StageInv, ListHolds
  <2>3. Committing' <=> Committing
    BY <2>1 DEF Committing
  <2>4. StageTypeOK'
    BY <1>2, <1>3, <2>1, <2>2 DEF StageInv, StageTypeOK
  <2>5. ListHolds'
    BY <1>2, <2>2, <2>3 DEF StageInv, ListHolds
  <2>6. ChangesWait'
    <3>1. \A d \in 1..made : d \in Range(executed) \cup discarded \cup stageCrossed \/ Waiting(d)
      BY DEF StageInv, ChangesWait
    <3>2. \A d : Waiting(d) => Waiting(d)'
      BY <2>1, <2>2 DEF Waiting
    <3>3. Waiting(c)'
      BY <2>2 DEF Waiting
    <3> QED BY <1>2, <2>1, <3>1, <3>2, <3>3 DEF ChangesWait
  <2>7. \A b \in batches' : BatchHolds(b)'
    <3> SUFFICES ASSUME NEW b \in batches PROVE BatchHolds(b)'
      BY <2>1
    <3>1. b.commit => Committing
      BY DEF Committing
    <3>2. c \notin Content(b) /\ BatchHolds(b)
      BY <1>2 DEF StageInv
    <3> QED BY <1>2, <2>1, <2>2, <3>1, <3>2 DEF BatchHolds
  <2> QED BY <2>1, <2>4, <2>5, <2>6, <2>7 DEF StageInv
<1> QED BY <1>4, <1>5

LEMMA ClearKeeps == ASSUME StageInv, Clear PROVE StageInv'
<1>1. /\ staged' = <<>> /\ discarded' = discarded \cup Range(staged)
      /\ stageCrossed \subseteq stageCrossed' /\ stageCrossed' \subseteq stageCrossed \cup Range(staged)
      /\ UNCHANGED <<batches, made, executed, unanswered, direct>>
  BY DEF Clear
<1>2. /\ Range(staged') = {} /\ Falling(staged') /\ (Committing' <=> Committing)
  BY <1>1, RangeEmpty DEF Committing
<1>3. StageTypeOK'
  <2>1. Range(staged) \subseteq Changes
    BY StageTypes DEF StageInv, Range
  <2> QED BY <1>1, <2>1 DEF StageInv, StageTypeOK
<1>4. ListHolds'
  BY <1>1, <1>2 DEF StageInv, ListHolds
<1>5. ChangesWait'
  <2>1. \A d \in 1..made : d \in Range(executed) \cup discarded \cup stageCrossed \/ Waiting(d)
    BY DEF StageInv, ChangesWait
  <2>2. \A d : Waiting(d) => Waiting(d)' \/ d \in Range(staged)
    BY <1>1 DEF Waiting
  <2> QED BY <1>1, <2>1, <2>2 DEF ChangesWait
<1>6. \A b \in batches' : BatchHolds(b)'
  BY <1>1, <1>2 DEF StageInv, BatchHolds
<1> QED BY <1>1, <1>3, <1>4, <1>5, <1>6 DEF StageInv

(* The list is copied, oldest first.                                        *)
LEMMA BeginCommitKeeps == ASSUME StageInv, BeginCommit PROVE StageInv'
<1>1. PICK n : n = [todo |-> Reverse(staged), left |-> <<>>, failed |-> FALSE, commit |-> TRUE]
  OBVIOUS
<1>2. batches' = batches \cup {n} /\ ~Committing /\ UNCHANGED <<staged, made, executed, unanswered, discarded, direct, stageCrossed>>
  BY <1>1 DEF BeginCommit
<1>3. /\ Reverse(staged) \in Seq(Changes) /\ Range(Reverse(staged)) = Range(staged)
      /\ Rising(Reverse(staged))
  BY StageTypes, RangeReverse DEF StageInv, ListHolds
<1>4. n \in Batch /\ n.todo = Reverse(staged) /\ n.left = <<>> /\ n.commit = TRUE
  BY <1>1, <1>3 DEF Batch
<1>5. Content(n) = Range(staged) /\ Range(n.left) = {} /\ Rising(n.left)
  BY <1>3, <1>4, RangeEmpty DEF Content
<1>6. \A b \in batches : b.commit = FALSE
  BY <1>2, StageTypes DEF Committing, StageInv
<1>7. StageTypeOK'
  BY <1>2, <1>4, <1>6 DEF StageInv, StageTypeOK
<1>8. ListHolds'
  BY <1>2, <1>4 DEF StageInv, ListHolds, Committing
<1>9. ChangesWait'
  BY <1>2 DEF StageInv, ChangesWait, Waiting
<1>10. \A b \in batches' : BatchHolds(b)'
  <2>1. BatchHolds(n)'
    BY <1>2, <1>3, <1>4, <1>5 DEF StageInv, ListHolds, BatchHolds
  <2>2. \A b \in batches : BatchHolds(b)'
    BY <1>2 DEF StageInv, BatchHolds
  <2> QED BY <1>2, <2>1, <2>2
<1>11. \A b, d \in batches' : b # d => Content(b) \cap Content(d) = {}
  BY <1>2, <1>5, <1>6 DEF StageInv, BatchHolds
<1> QED BY <1>7, <1>8, <1>9, <1>10, <1>11 DEF StageInv

LEMMA RunStatementKeeps ==
  ASSUME StageInv, NEW b \in batches, NEW runs \in BOOLEAN, NEW ok \in BOOLEAN,
         RunStatement(b, runs, ok)
  PROVE  StageInv'
<1>1. PICK h : h = Head(b.todo)
  OBVIOUS
<1>2. PICK n : n = AfterRun(b, ok)
  OBVIOUS
<1>3. /\ b.todo # <<>> /\ batches' = (batches \ {b}) \cup {n}
      /\ ok => runs
      /\ executed' = IF runs THEN Append(executed, h) ELSE executed
      /\ unanswered' = IF runs /\ ~ok THEN unanswered \cup {h} ELSE unanswered
      /\ UNCHANGED <<staged, made, discarded, direct, stageCrossed>>
  BY <1>1, <1>2 DEF RunStatement
<1>4. /\ b \in Batch /\ b.todo \in Seq(Changes) /\ b.left \in Seq(Changes)
      /\ b.commit \in BOOLEAN /\ b.failed \in BOOLEAN /\ BatchHolds(b)
      /\ executed \in Seq(Changes) /\ Once(executed, unanswered)
  BY StageTypes DEF StageInv, ListHolds
<1>5. /\ Tail(b.todo) \in Seq(Changes) /\ h \in Changes /\ h \in Range(b.todo)
      /\ Range(b.todo) = Range(Tail(b.todo)) \cup {h}
      /\ Rising(Tail(b.todo)) /\ \A y \in Range(Tail(b.todo)) : h < y
      /\ h \notin Range(Tail(b.todo))
  <2>1. /\ Tail(b.todo) \in Seq(Changes) /\ h \in Changes /\ h \in Range(b.todo)
        /\ Range(b.todo) = Range(Tail(b.todo)) \cup {h}
        /\ Rising(Tail(b.todo)) /\ \A y \in Range(Tail(b.todo)) : h < y
    BY <1>1, <1>3, <1>4, RangeTail DEF BatchHolds
  <2>2. h \in Nat
    BY <2>1 DEF Changes
  <2> QED BY <2>1, <2>2
<1>6. PICK rest \in Seq(Changes) : /\ rest = IF ok THEN b.left ELSE Append(b.left, h)
                                   /\ Range(rest) = Range(b.left) \cup (IF ok THEN {} ELSE {h})
                                   /\ Rising(rest)
  <2>1. \A y \in Range(b.left) : y < h
    BY <1>4, <1>5 DEF BatchHolds
  <2> QED BY <1>4, <1>5, <2>1, RangeAppend DEF BatchHolds
<1>7. n \in Batch /\ n.todo = Tail(b.todo) /\ n.left = rest /\ n.commit = b.commit
  <2>1. n = [b EXCEPT !.todo = Tail(@), !.failed = @ \/ ~ok, !.left = rest]
    BY <1>1, <1>2, <1>4, <1>6 DEF AfterRun, Batch
  <2> QED BY <1>4, <1>5, <1>6, <2>1 DEF Batch
<1>8. /\ Content(n) = Content(b) \ (IF ok THEN {h} ELSE {})
      /\ Range(executed') = Range(executed) \cup (IF runs THEN {h} ELSE {})
      /\ executed' \in Seq(Changes) /\ Once(executed', unanswered')
      /\ unanswered \subseteq unanswered' /\ unanswered' \subseteq Changes
      /\ Content(n) \cap Range(executed') \subseteq unanswered'
  <2>1. h \notin Range(b.left)
    <3>1. \A y \in Range(b.left) : y < h
      BY <1>4, <1>5 DEF BatchHolds
    <3>2. h \in Nat
      BY <1>5 DEF Changes
    <3> QED BY <3>1, <3>2
  <2>2. Content(n) = Content(b) \ (IF ok THEN {h} ELSE {})
    BY <1>5, <1>6, <1>7, <2>1 DEF Content
  <2>3. h \in Content(b) /\ (h \in Range(executed) => h \in unanswered)
    BY <1>4, <1>5 DEF BatchHolds, Content
  <2>4. unanswered \subseteq unanswered' /\ unanswered' \subseteq Changes
    BY <1>3, <1>5 DEF StageInv, StageTypeOK
  <2>5. /\ Range(executed') = Range(executed) \cup (IF runs THEN {h} ELSE {})
        /\ executed' \in Seq(Changes)
    BY <1>3, <1>4, <1>5, RangeAppend
  <2>6. Once(executed', unanswered')
    <3>1. CASE runs
      BY <1>3, <1>4, <1>5, <2>3, <2>4, <3>1, OnceAppend
    <3>2. CASE ~runs
      BY <1>3, <1>4, <3>2 DEF Once
    <3> QED BY <3>1, <3>2
  <2>7. Content(n) \cap Range(executed') \subseteq unanswered'
    <3>1. Content(b) \cap Range(executed) \subseteq unanswered
      BY <1>4 DEF BatchHolds
    <3>2. runs => h \notin Content(n) \/ h \in unanswered'
      BY <1>3, <2>2
    <3> QED BY <2>2, <2>4, <2>5, <3>1, <3>2
  <2> QED BY <2>2, <2>4, <2>5, <2>6, <2>7
<1>9. h \in Content(b) /\ Content(n) \subseteq Content(b) /\ Content(b) \subseteq Content(n) \cup Range(executed')
  BY <1>3, <1>5, <1>8 DEF Content
<1>10. \A d \in batches \ {b} : Content(d) \cap Content(b) = {}
  BY DEF StageInv
<1>11. Committing' <=> Committing
  BY <1>3, <1>7 DEF Committing
<1>12. StageTypeOK'
  <2>1. \A x, y \in batches' : x.commit /\ y.commit => x = y
    BY <1>3, <1>7 DEF StageInv, StageTypeOK
  <2> QED BY <1>3, <1>7, <1>8, <2>1 DEF StageInv, StageTypeOK
<1>13. ListHolds'
  <2>1. h \in 1..made
    BY <1>4, <1>9 DEF BatchHolds
  <2>2. ~Committing => h \notin Range(staged)
    BY <1>4, <1>9 DEF BatchHolds, Committing
  <2> QED BY <1>3, <1>8, <1>11, <2>1, <2>2 DEF StageInv, ListHolds
<1>14. ChangesWait'
  <2>1. \A d \in 1..made : d \in Range(executed) \cup discarded \cup stageCrossed \/ Waiting(d)
    BY DEF StageInv, ChangesWait
  <2>2. \A d : Waiting(d) => Waiting(d)' \/ d \in Range(executed')
    BY <1>3, <1>9 DEF Waiting, Content
  <2> QED BY <1>3, <1>8, <2>1, <2>2 DEF ChangesWait
<1>15. \A d \in batches' : BatchHolds(d)'
  <2>1. BatchHolds(n)'
    <3>1. \A x \in Range(rest), y \in Range(Tail(b.todo)) : x < y
      BY <1>4, <1>5, <1>6 DEF BatchHolds
    <3>2. Content(n) \cap Range(executed') \subseteq unanswered'
      BY <1>8
    <3>3. IF n.commit THEN Range(staged) \subseteq Range(executed') \cup Content(n) \cup stageCrossed
          ELSE Content(n) \cap Range(staged) = {}
      BY <1>3, <1>4, <1>7, <1>8, <1>9 DEF BatchHolds
    <3> QED BY <1>3, <1>4, <1>5, <1>6, <1>7, <1>9, <3>1, <3>2, <3>3 DEF BatchHolds
  <2>2. ASSUME NEW d \in batches \ {b} PROVE BatchHolds(d)'
    <3>1. BatchHolds(d) /\ h \notin Content(d)
      BY <1>9, <1>10 DEF StageInv
    <3> QED BY <1>3, <1>8, <3>1 DEF BatchHolds
  <2> QED BY <1>3, <2>1, <2>2
<1>16. \A d, e \in batches' : d # e => Content(d) \cap Content(e) = {}
  BY <1>3, <1>9, <1>10 DEF StageInv
<1> QED BY <1>12, <1>13, <1>14, <1>15, <1>16 DEF StageInv

(* The batch is over: a commit's left takes the place of the list.          *)
LEMMA EndBatchKeeps == ASSUME StageInv, NEW b \in batches, EndBatch(b) PROVE StageInv'
<1>1. /\ b.todo = <<>> /\ batches' = batches \ {b} /\ UNCHANGED <<made, executed, unanswered, direct, stageCrossed>>
      /\ staged' = IF b.commit THEN Reverse(b.left) ELSE staged
      /\ discarded' = IF b.commit THEN discarded ELSE discarded \cup Range(b.left)
  BY DEF EndBatch, StagedAfter
<1>2. /\ b.left \in Seq(Changes) /\ b.commit \in BOOLEAN /\ BatchHolds(b) /\ staged \in Seq(Changes)
      /\ Content(b) = Range(b.left)
  BY <1>1, StageTypes, RangeEmpty DEF StageInv, Content
<1>3. Range(b.left) \subseteq Changes
  BY <1>2 DEF Range
<1>4. CASE b.commit
  <2>1. staged' \in Seq(Changes) /\ Range(staged') = Content(b) /\ Falling(staged') /\ UNCHANGED discarded
    BY <1>1, <1>2, <1>4, RangeReverse DEF BatchHolds
  <2>2. \A d \in batches \ {b} : d.commit = FALSE
    BY <1>4, StageTypes DEF StageInv, StageTypeOK
  <2>3. StageTypeOK'
    BY <1>1, <2>1 DEF StageInv, StageTypeOK
  <2>4. ListHolds'
    BY <1>1, <1>2, <2>1 DEF StageInv, ListHolds, BatchHolds
  <2>5. ChangesWait'
    <3>1. \A d \in 1..made : d \in Range(executed) \cup discarded \cup stageCrossed \/ Waiting(d)
      BY DEF StageInv, ChangesWait
    <3>2. \A d : Waiting(d) => Waiting(d)' \/ d \in Range(executed) \cup stageCrossed
      BY <1>1, <1>2, <1>4, <2>1 DEF Waiting, Content, BatchHolds
    <3> QED BY <1>1, <2>1, <3>1, <3>2 DEF ChangesWait
  <2>6. \A d \in batches' : BatchHolds(d)'
    <3> SUFFICES ASSUME NEW d \in batches \ {b} PROVE BatchHolds(d)'
      BY <1>1
    <3>1. BatchHolds(d) /\ Content(d) \cap Content(b) = {} /\ d.commit = FALSE
      BY <2>2 DEF StageInv
    <3> QED BY <1>1, <2>1, <3>1 DEF BatchHolds
  <2> QED BY <1>1, <2>3, <2>4, <2>5, <2>6 DEF StageInv
<1>5. CASE ~b.commit
  <2>1. UNCHANGED staged /\ discarded' = discarded \cup Range(b.left)
    BY <1>1, <1>5
  <2>2. Committing' <=> Committing
    BY <1>1, <1>5 DEF Committing
  <2>3. StageTypeOK'
    BY <1>1, <1>3, <2>1 DEF StageInv, StageTypeOK
  <2>4. ListHolds'
    BY <1>1, <2>1, <2>2 DEF StageInv, ListHolds
  <2>5. ChangesWait'
    <3>1. \A d \in 1..made : d \in Range(executed) \cup discarded \cup stageCrossed \/ Waiting(d)
      BY DEF StageInv, ChangesWait
    <3>2. \A d : Waiting(d) => Waiting(d)' \/ d \in Range(b.left)
      BY <1>1, <1>2, <2>1 DEF Waiting, Content
    <3> QED BY <1>1, <2>1, <3>1, <3>2 DEF ChangesWait
  <2>6. \A d \in batches' : BatchHolds(d)'
    BY <1>1, <2>1 DEF StageInv, BatchHolds
  <2> QED BY <1>1, <2>3, <2>4, <2>5, <2>6 DEF StageInv
<1> QED BY <1>2, <1>4, <1>5

LEMMA StageInvNext == StageInv /\ [StageNext]_stageVars => StageInv'
<1> SUFFICES ASSUME StageInv, [StageNext]_stageVars PROVE StageInv'
  OBVIOUS
<1>1. CASE AddChange \/ Clear \/ BeginCommit
  BY <1>1, AddChangeKeeps, ClearKeeps, BeginCommitKeeps
<1>2. CASE \E b \in batches : (\E runs, answered \in BOOLEAN : RunStatement(b, runs, answered)) \/ EndBatch(b)
  BY <1>2, RunStatementKeeps, EndBatchKeeps
<1>3. CASE SwitchDirect \/ UNCHANGED stageVars
  <2>1. UNCHANGED <<staged, batches, made, executed, unanswered, discarded, stageCrossed>> /\ direct' \in BOOLEAN
    BY <1>3 DEF SwitchDirect, stageVars, StageInv, StageTypeOK
  <2>2. StageTypeOK' /\ ListHolds' /\ ChangesWait'
    BY <2>1 DEF StageInv, StageTypeOK, ListHolds, ChangesWait, Waiting, Committing
  <2>3. \A b \in batches' : BatchHolds(b)'
    BY <2>1 DEF StageInv, BatchHolds
  <2> QED BY <2>1, <2>2, <2>3 DEF StageInv
<1> QED BY <1>1, <1>2, <1>3 DEF StageNext

LEMMA StageInvariant == StageSpec => []StageInv
BY StageInvInit, StageInvNext, PTL DEF StageSpec

(* The list, the batches and what ran are sequences of changes; there is    *)
(* one commit at a time.                                                    *)
THEOREM StageTypeCorrect == StageSpec => []StageTypeOK
<1>1. StageInv => StageTypeOK
  BY DEF StageInv
<1> QED BY <1>1, StageInvariant, PTL

(* For any number of changes: each is waiting, discarded, run or was staged *)
(* during a commit (useStagedChanges.ts); it runs a second time, or stays   *)
(* after it ran, only if an answer was lost (runQuery); and the list stays  *)
(* in the order the changes were made.                                      *)
THEOREM ChangesStayAccounted == StageSpec => []ChangesAccounted
<1>1. StageInv => ChangesAccounted
  <2> SUFFICES ASSUME StageInv PROVE RunOnceInOrder
    BY DEF StageInv, ChangesAccounted
  <2>1. \A i, j \in DOMAIN executed : i # j /\ executed[i] = executed[j] => executed[i] \in unanswered
    BY DEF StageInv, ListHolds, Once
  <2>2. \A i, j \in DOMAIN staged : i < j => staged[i] > staged[j]
    BY DEF StageInv, ListHolds, Falling
  <2>3. \A c \in Range(staged) \cap Range(executed) : c \in unanswered \/ Committing
    BY DEF StageInv, ListHolds
  <2> QED BY <2>1, <2>2, <2>3 DEF RunOnceInOrder
<1> QED BY <1>1, StageInvariant, PTL
-----------------------------------------------------------------------------
(***************************************************************************)
(* Why a design and its statements survive: whatever an operation carries  *)
(* still holds every statement that is not accounted for elsewhere.        *)
(***************************************************************************)

(* Ran, taken off, or staged while an operation was under way.              *)
Gone == Range(released) \cup taken \cup late

(* No statement twice, none that was never made.                            *)
Fine(s) == s \in Pages /\ Range(s) \subseteq 1..stagedEver /\ IsInjective(s)

(* Nothing is missing that is not gone.                                     *)
Carried(s) == Fine(s) /\ 1..stagedEver \subseteq Range(s) \cup Gone

Clean(s) == Range(s) \cap Range(released) = {}

InRow(S) == S \subseteq Range(designs[page].sql) \cup Gone

(* The statements s an operation on row i began with.                       *)
WorkHolds(i, s) ==
  /\ i \in DesignIds /\ Carried(s) /\ \E j \in There : i <= j
  /\ move.at = "delete" => i # move.copy
  /\ i # page => InRow(Range(s))

RowsHold ==
  /\ page \in There
  /\ \A i \in DesignIds : /\ Fine(designs[i].sql)
                          /\ designs[i].kind = "none" => designs[i] = NoDesign

PageHolds ==
  /\ Carried(onPage) /\ InRow(saved)
  /\ Range(released) \subseteq 1..stagedEver

(* The writes under way, and the one a sync is to make.                     *)
Calls == writes \cup (IF sync = NoSync THEN {} ELSE {[id |-> sync.id, sql |-> sync.sql]})

CallsHold == \A w \in Calls : WorkHolds(w.id, w.sql)

ReleaseHolds(r) ==
  /\ WorkHolds(r.id, r.plan) /\ r.ran <= Len(r.plan)
  /\ \A k \in 1..r.ran : r.plan[k] \in Range(released)

DialogHolds ==
  /\ dialog # NoDialog => move = NoMove /\ ~Releasing
  /\ dialog.at \in {"reading", "review"} => dialog.plan = onPage

(* What a move has taken along.                                             *)
Copies == IF move = NoMove THEN {} ELSE {move.sql}

MoveHolds ==
  /\ \A s \in Copies : Carried(s)
  /\ move.at = "delete" => /\ move.copy \in There /\ page < move.copy
                           /\ designs[move.copy].sql = move.sql

(* A release nothing overlapped is alone.                                   *)
Alone(r) ==
  /\ releases = {r} /\ r.here /\ r.id = page
  /\ sync = NoSync /\ writes = {} /\ dialog = NoDialog /\ move = NoMove
  /\ \A k \in (r.ran + 1)..Len(r.plan) : r.plan[k] \notin Range(released)

NothingRunIsCarried ==
  /\ Clean(onPage) /\ Clean(designs[page].sql)
  /\ \A w \in Calls : Clean(w.sql)
  /\ \A s \in Copies : Clean(s)

RunOnce ==
  ~tangled => /\ IsInjective(released)
              /\ releases = {} => NothingRunIsCarried
              /\ \A r \in releases : Alone(r)

DesignInv ==
  /\ DesignTypeOK /\ RowsHold /\ PageHolds /\ CallsHold
  /\ \A r \in releases : ReleaseHolds(r)
  /\ DialogHolds /\ MoveHolds /\ RunOnce
-----------------------------------------------------------------------------
(* Sequences of statements: added to, shortened, what is left of them.      *)
LEMMA InPage ==
  ASSUME NEW s \in Pages, NEW i \in DOMAIN s
  PROVE  s[i] \in Statements /\ s[i] \in Nat /\ s[i] \in Range(s)
<1>1. s[i] \in Statements
  BY DEF Pages
<1>2. s[i] \in Nat
  BY <1>1, DesignAssumption DEF Statements
<1> QED BY <1>1, <1>2 DEF Range

LEMMA EmptyPage == <<>> \in Pages /\ Range(<<>>) = {} /\ IsInjective(<<>>)
BY DEF Pages, Range, IsInjective

LEMMA PageAppend ==
  ASSUME NEW s \in Pages, NEW x \in Statements
  PROVE  /\ Append(s, x) \in Pages /\ Range(Append(s, x)) = Range(s) \cup {x}
         /\ IsInjective(s) /\ x \notin Range(s) => IsInjective(Append(s, x))
<1>1. PICK r : r = Append(s, x)
  OBVIOUS
<1>2. /\ r \in Seq(Statements) /\ DOMAIN r = 1..(Len(s) + 1) /\ DOMAIN s = 1..Len(s) /\ Len(s) \in Nat
      /\ r[Len(s) + 1] = x /\ \A i \in 1..Len(s) : r[i] = s[i]
  BY <1>1 DEF Pages
<1>3. Range(r) = Range(s) \cup {x}
  BY <1>2 DEF Range
<1>4. ASSUME IsInjective(s), x \notin Range(s) PROVE IsInjective(r)
  <2>1. \A i \in DOMAIN s : s[i] # x
    BY <1>4 DEF Range
  <2> QED BY <1>2, <1>4, <2>1 DEF IsInjective
<1> QED BY <1>1, <1>2, <1>3, <1>4 DEF Pages

LEMMA PageRest ==
  ASSUME NEW s \in Pages, NEW m \in 0..Len(s)
  PROVE  LET r == SubSeq(s, m + 1, Len(s))
         IN  /\ r \in Pages /\ Range(r) = {s[k] : k \in (m + 1)..Len(s)}
             /\ IsInjective(s) => IsInjective(r)
<1>1. PICK r : r = SubSeq(s, m + 1, Len(s))
  OBVIOUS
<1>2. /\ r \in Seq(Statements) /\ DOMAIN r = 1..(Len(s) - m) /\ DOMAIN s = 1..Len(s) /\ Len(s) \in Nat
      /\ \A i \in DOMAIN r : r[i] = s[i + m]
  BY <1>1 DEF Pages
<1>3. \A i \in DOMAIN r : i + m \in (m + 1)..Len(s)
  BY <1>2
<1>4. \A k \in (m + 1)..Len(s) : k - m \in DOMAIN r /\ r[k - m] = s[k]
  <2> SUFFICES ASSUME NEW k \in (m + 1)..Len(s) PROVE k - m \in DOMAIN r /\ r[k - m] = s[k]
    OBVIOUS
  <2>1. k - m \in DOMAIN r /\ (k - m) + m = k
    BY <1>2
  <2> QED BY <1>2, <2>1
<1>5. Range(r) = {s[k] : k \in (m + 1)..Len(s)}
  BY <1>2, <1>3, <1>4 DEF Range
<1>6. ASSUME IsInjective(s) PROVE IsInjective(r)
  <2> SUFFICES ASSUME NEW i \in DOMAIN r, NEW j \in DOMAIN r, r[i] = r[j] PROVE i = j
    BY DEF IsInjective
  <2>1. i + m \in DOMAIN s /\ j + m \in DOMAIN s /\ s[i + m] = s[j + m]
    BY <1>2, <1>3
  <2>2. i + m = j + m
    BY <1>6, <2>1 DEF IsInjective
  <2> QED BY <1>2, <2>2
<1> QED BY <1>1, <1>2, <1>5, <1>6 DEF Pages

LEMMA PageWithout ==
  ASSUME NEW s \in Pages, NEW i \in DOMAIN s
  PROVE  /\ RemoveAt(s, i) \in Pages
         /\ Range(RemoveAt(s, i)) \subseteq Range(s) /\ Range(s) \subseteq Range(RemoveAt(s, i)) \cup {s[i]}
         /\ IsInjective(s) => IsInjective(RemoveAt(s, i))
<1>1. PICK r : r = RemoveAt(s, i)
  OBVIOUS
<1>2. /\ DOMAIN s = 1..Len(s) /\ Len(s) \in Nat /\ i \in Nat
      /\ SubSeq(s, 1, i - 1) \in Seq(Statements) /\ SubSeq(s, i + 1, Len(s)) \in Seq(Statements)
      /\ Len(SubSeq(s, 1, i - 1)) = i - 1 /\ Len(SubSeq(s, i + 1, Len(s))) = Len(s) - i
      /\ \A k \in 1..(i - 1) : SubSeq(s, 1, i - 1)[k] = s[k]
      /\ \A k \in 1..(Len(s) - i) : SubSeq(s, i + 1, Len(s))[k] = s[k + i]
    BY DEF Pages
<1>3. /\ r \in Seq(Statements) /\ DOMAIN r = 1..(Len(s) - 1)
      /\ \A k \in 1..(i - 1) : r[k] = s[k]
      /\ \A k \in i..(Len(s) - 1) : r[k] = s[k + 1]
  <2>1. r = SubSeq(s, 1, i - 1) \o SubSeq(s, i + 1, Len(s))
    BY <1>1 DEF RemoveAt
  <2>2. r \in Seq(Statements) /\ DOMAIN r = 1..(Len(s) - 1)
    BY <1>2, <2>1
  <2>3. \A k \in 1..(i - 1) : r[k] = s[k]
    BY <1>2, <2>1
  <2>4. \A k \in i..(Len(s) - 1) : r[k] = s[k + 1]
    <3> SUFFICES ASSUME NEW k \in i..(Len(s) - 1) PROVE r[k] = s[k + 1]
      OBVIOUS
    <3>0. Len(s) \in Nat /\ i \in Nat
      BY <1>2
    <3>1. k - (i - 1) \in 1..(Len(s) - i) /\ (k - (i - 1)) + i = k + 1
      BY <3>0
    <3>2. PICK p : p = SubSeq(s, 1, i - 1)
      OBVIOUS
    <3>3. PICK q : q = SubSeq(s, i + 1, Len(s))
      OBVIOUS
    <3>4. r = p \o q /\ p \in Seq(Statements) /\ q \in Seq(Statements) /\ Len(p) = i - 1 /\ Len(q) = Len(s) - i
      BY <1>2, <2>1, <3>2, <3>3
    <3>5. k \in (Len(p) + 1)..(Len(p) + Len(q)) /\ k - Len(p) = k - (i - 1)
      BY <1>2, <3>4
    <3>6. r[k] = q[k - (i - 1)]
      BY <3>4, <3>5
    <3> QED BY <1>2, <3>1, <3>3, <3>6
  <2> QED BY <2>2, <2>3, <2>4
<1>4. /\ \A k \in DOMAIN r : k < i => k \in DOMAIN s /\ r[k] = s[k]
      /\ \A k \in DOMAIN r : ~(k < i) => k + 1 \in DOMAIN s /\ r[k] = s[k + 1]
      /\ \A k \in DOMAIN r : k \in Nat
  <2>1. \A k \in 1..(Len(s) - 1) : k < i => k \in 1..(i - 1) /\ k \in 1..Len(s)
    BY <1>2
  <2>2. \A k \in 1..(Len(s) - 1) : ~(k < i) => k \in i..(Len(s) - 1) /\ k + 1 \in 1..Len(s)
    BY <1>2
  <2>3. \A k \in 1..(Len(s) - 1) : k \in Nat
    BY <1>2
  <2>4. \A k \in 1..(Len(s) - 1) : k < i => r[k] = s[k]
    BY <1>3, <2>1
  <2>5. \A k \in 1..(Len(s) - 1) : ~(k < i) => r[k] = s[k + 1]
    BY <1>3, <2>2
  <2> QED BY <1>2, <1>3, <2>1, <2>2, <2>3, <2>4, <2>5
<1>5. /\ \A k \in DOMAIN s : k < i => k \in DOMAIN r /\ r[k] = s[k]
      /\ \A k \in DOMAIN s : k > i => k - 1 \in DOMAIN r /\ r[k - 1] = s[k]
  <2>1. \A k \in 1..Len(s) : k < i => k \in 1..(i - 1) /\ k \in 1..(Len(s) - 1)
    BY <1>2
  <2>2. \A k \in 1..Len(s) : k > i => k - 1 \in i..(Len(s) - 1) /\ k - 1 \in 1..(Len(s) - 1) /\ (k - 1) + 1 = k
    BY <1>2
  <2> QED BY <1>2, <1>3, <2>1, <2>2
<1>6. Range(r) \subseteq Range(s)
  BY <1>4 DEF Range
<1>7. Range(s) \subseteq Range(r) \cup {s[i]}
  <2>1. \A k \in DOMAIN s : k < i \/ k = i \/ k > i
    BY <1>2
  <2>2. \A k \in DOMAIN s : s[k] \in Range(r) \cup {s[i]}
    BY <1>5, <2>1 DEF Range
  <2> QED BY <2>2 DEF Range
<1>8. ASSUME IsInjective(s) PROVE IsInjective(r)
  <2> SUFFICES ASSUME NEW a \in DOMAIN r, NEW b \in DOMAIN r, r[a] = r[b] PROVE a = b
    BY DEF IsInjective
  <2>1. CASE a < i /\ b < i
    BY <1>4, <1>8, <2>1 DEF IsInjective
  <2>2. CASE a < i /\ ~(b < i)
    <3>1. a = b + 1
      BY <1>4, <1>8, <2>2 DEF IsInjective
    <3> QED BY <1>2, <1>4, <2>2, <3>1
  <2>3. CASE ~(a < i) /\ b < i
    <3>1. a + 1 = b
      BY <1>4, <1>8, <2>3 DEF IsInjective
    <3> QED BY <1>2, <1>4, <2>3, <3>1
  <2>4. CASE ~(a < i) /\ ~(b < i)
    <3>1. a + 1 = b + 1
      BY <1>4, <1>8, <2>4 DEF IsInjective
    <3> QED BY <1>4, <3>1
  <2> QED BY <2>1, <2>2, <2>3, <2>4
<1> QED BY <1>1, <1>3, <1>6, <1>7, <1>8 DEF Pages
-----------------------------------------------------------------------------
LEMMA DesignTypes ==
  ASSUME DesignTypeOK
  PROVE  /\ designs \in [DesignIds -> [kind : {"none", "scratch", "linked"}, sql : Pages]]
         /\ DOMAIN designs = DesignIds
         /\ \A i \in DesignIds : /\ designs[i] \in [kind : {"none", "scratch", "linked"}, sql : Pages]
                                 /\ designs[i].sql \in Pages /\ i \in Nat /\ i >= 1 /\ i <= MaxDesigns
         /\ page \in DesignIds /\ onPage \in Pages /\ released \in Pages
         /\ stagedEver \in Nat /\ 1..stagedEver \subseteq Statements
         /\ sync.sql \in Pages /\ dialog.plan \in Pages /\ move.sql \in Pages
<1>1. \A i \in DesignIds : i \in Nat /\ i >= 1 /\ i <= MaxDesigns
  BY DesignAssumption DEF DesignIds
<1>2. stagedEver \in Nat /\ 1..stagedEver \subseteq Statements
  BY DesignAssumption DEF DesignTypeOK, Statements
<1> QED BY <1>1, <1>2 DEF DesignTypeOK

(* A step that makes no statement and forgets none.                         *)
Keeps ==
  /\ stagedEver' = stagedEver /\ page' = page /\ There' = There
  /\ Gone \subseteq Gone' /\ Range(released) \subseteq Range(released)'
  /\ Range(designs[page].sql) \subseteq Range(designs[page].sql)' \cup Gone'
  /\ move'.at = "delete" => move' = move

LEMMA Kept ==
  ASSUME Keeps
  PROVE  /\ \A s : Fine(s) => Fine(s)'
         /\ \A s : Carried(s) => Carried(s)'
         /\ \A S : InRow(S) => InRow(S)'
         /\ \A i, s : WorkHolds(i, s) => WorkHolds(i, s)'
         /\ \A r : ReleaseHolds(r) => ReleaseHolds(r)'
<1>1. \A s : Fine(s) => Fine(s)'
  BY DEF Keeps, Fine
<1>2. \A s : Carried(s) => Carried(s)'
  BY <1>1 DEF Keeps, Carried
<1>3. \A S : InRow(S) => InRow(S)'
  BY DEF Keeps, InRow
<1>4. \A i, s : WorkHolds(i, s) => WorkHolds(i, s)'
  <2> SUFFICES ASSUME NEW i, NEW s, WorkHolds(i, s) PROVE WorkHolds(i, s)'
    OBVIOUS
  <2>1. Carried(s)' /\ (i # page' => InRow(Range(s))')
    BY <1>2, <1>3 DEF Keeps, WorkHolds
  <2>2. /\ i \in DesignIds /\ \E j \in There' : i <= j
        /\ move'.at = "delete" => i # move'.copy
    BY DEF Keeps, WorkHolds
  <2> QED BY <2>1, <2>2 DEF WorkHolds
<1>5. \A r : ReleaseHolds(r) => ReleaseHolds(r)'
  BY <1>4 DEF Keeps, ReleaseHolds
<1> QED BY <1>1, <1>2, <1>3, <1>4, <1>5

Still == UNCHANGED <<designs, page, onPage, stagedEver, released, taken, saved, late>>

(* A step that leaves the rows and the page alone.                          *)
LEMMA StillKeeps ==
  ASSUME DesignInv, Still, move'.at = "delete" => move' = move
  PROVE  Keeps /\ RowsHold' /\ PageHolds' /\ \A s : Clean(s) => Clean(s)'
<1>1. Keeps
  BY DEF Still, Keeps, There, Gone
<1>2. RowsHold'
  BY <1>1, Kept DEF DesignInv, RowsHold, Still, Keeps
<1>3. PageHolds'
  BY DEF DesignInv, PageHolds, Still, Carried, Fine, InRow, Gone
<1> QED BY <1>1, <1>2, <1>3 DEF Still, Clean

(* The row id is written with statements none of which is missing.          *)
LEMMA RowWritten ==
  ASSUME DesignInv, NEW id \in DesignIds, NEW sql, Carried(sql)', Fine(sql),
         designs' = Persisted(id, sql), page' = page, stagedEver' = stagedEver,
         Gone \subseteq Gone', Range(released) \subseteq Range(released)',
         move'.at = "delete" => move' = move
  PROVE  /\ Keeps /\ RowsHold'
         /\ designs' \in [DesignIds -> [kind : {"none", "scratch", "linked"}, sql : Pages]]
         /\ \A i \in DesignIds : i # id => designs'[i] = designs[i]
         /\ designs'[id].sql = IF id \in There THEN sql ELSE designs[id].sql
<1> USE DEF DesignInv
<1>1. /\ designs \in [DesignIds -> [kind : {"none", "scratch", "linked"}, sql : Pages]]
      /\ \A i \in DesignIds : /\ designs[i] \in [kind : {"none", "scratch", "linked"}, sql : Pages]
                              /\ designs[i].sql \in Pages
      /\ page \in DesignIds /\ sql \in Pages
  BY DesignTypes DEF Fine
<1>2. \A i \in DesignIds : i # id => designs'[i] = designs[i]
  BY <1>1 DEF Persisted
<1>3. CASE designs[id] = NoDesign
  <2>1. designs' = designs
    BY <1>1, <1>3 DEF Persisted
  <2>2. Keeps
    BY <2>1 DEF Keeps, There
  <2>3. RowsHold'
    BY <2>1, <2>2, Kept DEF RowsHold, Keeps
  <2> QED BY <1>1, <1>3, <2>1, <2>2, <2>3 DEF There
<1>4. CASE designs[id] # NoDesign
  <2>1. designs[id].kind \in {"scratch", "linked"}
    BY <1>1, <1>4 DEF RowsHold
  <2>2. designs'[id] = [kind |-> designs[id].kind, sql |-> sql]
    BY <1>1, <1>4 DEF Persisted
  <2>3. designs'[id] # NoDesign /\ designs'[id].kind # "none" /\ designs'[id].sql = sql
    BY <2>1, <2>2 DEF NoDesign
  <2>4. There' = There
    BY <1>2, <1>4, <2>3 DEF There
  <2>5. Range(designs[page].sql) \subseteq Range(designs'[page].sql) \cup Gone'
    <3>1. CASE page = id
      BY <2>3, <3>1, <1>1 DEF Carried, RowsHold, Fine
    <3>2. CASE page # id
      BY <1>1, <1>2, <3>2
    <3> QED BY <3>1, <3>2
  <2>6. Keeps
    BY <2>4, <2>5 DEF Keeps
  <2>7. RowsHold'
    <3>1. page' \in There'
      BY <2>4 DEF RowsHold
    <3>2. \A i \in DesignIds : Fine(designs[i].sql)'
      <4> SUFFICES ASSUME NEW i \in DesignIds PROVE Fine(designs[i].sql)'
        OBVIOUS
      <4>1. PICK s : s = designs'[i].sql
        OBVIOUS
      <4>2. Fine(s)
        BY <1>2, <2>3, <4>1 DEF RowsHold
      <4>3. Fine(s)'
        BY <2>6, <4>2, Kept
      <4> QED BY <4>1, <4>3 DEF Fine
    <3>3. \A i \in DesignIds : designs'[i].kind = "none" => designs'[i] = NoDesign
      BY <1>2, <2>3 DEF RowsHold
    <3> QED BY <3>1, <3>2, <3>3 DEF RowsHold
  <2>8. designs' \in [DesignIds -> [kind : {"none", "scratch", "linked"}, sql : Pages]]
    BY <1>1, <1>4, <2>1 DEF Persisted
  <2> QED BY <1>2, <1>4, <2>3, <2>6, <2>7, <2>8 DEF There
<1> QED BY <1>3, <1>4

(* An operation the page begins has all its statements.                     *)
LEMMA PageWork ==
  ASSUME DesignInv, move.at # "delete"
  PROVE  WorkHolds(page, onPage)
BY DesignTypes DEF DesignInv, RowsHold, PageHolds, WorkHolds

-----------------------------------------------------------------------------
LEMMA DesignInvInit == DesignInit => DesignInv
<1> SUFFICES ASSUME DesignInit PROVE DesignInv
  OBVIOUS
<1>1. PICK k \in {"scratch", "linked"} :
        designs = [i \in DesignIds |-> IF i = 1 THEN [kind |-> k, sql |-> <<>>] ELSE NoDesign]
  BY DEF DesignInit
<1>2. 1 \in DesignIds /\ <<>> \in Pages /\ 0 \in 0..MaxOperations /\ 0 \in 0..MaxStatements /\ 1..0 = {}
  BY DesignAssumption DEF DesignIds, Pages
<1>3. DesignTypeOK
  <2>1. designs \in [DesignIds -> [kind : {"none", "scratch", "linked"}, sql : Pages]]
    BY <1>1, <1>2 DEF NoDesign
  <2>2. /\ page \in DesignIds /\ onPage \in Pages /\ released \in Pages /\ writes = {} /\ releases = {}
        /\ begun \in 0..MaxOperations /\ stagedEver \in 0..MaxStatements /\ tangled \in BOOLEAN
        /\ taken \cup saved \cup late \subseteq 1..stagedEver
    BY <1>2 DEF DesignInit
  <2>3. /\ dialog \in [at : {"closed", "reading", "failed", "review"}, plan : Pages]
        /\ sync \in [at : {"idle", "read", "write"}, id : DesignIds \cup {0}, sql : Pages, held : BOOLEAN]
        /\ move \in [at : {"idle", "create", "delete"}, sql : Pages, copy : DesignIds \cup {0}]
    BY <1>2 DEF DesignInit, NoDialog, NoSync, NoMove
  <2> QED BY <2>1, <2>2, <2>3 DEF DesignTypeOK
<1>4. RowsHold
  <2>1. designs[1] = [kind |-> k, sql |-> <<>>] /\ \A i \in DesignIds : i # 1 => designs[i] = NoDesign
    BY <1>1, <1>2
  <2>2. \A i \in DesignIds : designs[i].sql = <<>> /\ (designs[i].kind = "none" => designs[i] = NoDesign)
    BY <2>1 DEF NoDesign
  <2>3. designs[1] # NoDesign
    BY <2>1 DEF NoDesign
  <2> QED BY <1>2, <2>2, <2>3, EmptyPage DEF DesignInit, RowsHold, There, Fine
<1>5. PageHolds
  BY <1>2, EmptyPage DEF DesignInit, PageHolds, Carried, Fine, InRow
<1>6. CallsHold /\ (\A r \in releases : ReleaseHolds(r)) /\ MoveHolds /\ DialogHolds
  BY DEF DesignInit, CallsHold, Calls, MoveHolds, Copies, NoMove, DialogHolds, NoDialog
<1>7. RunOnce
  <2>1. \A i \in DesignIds : designs[i].sql = <<>>
    BY <1>1, <1>2 DEF NoDesign
  <2> QED BY <1>2, <2>1, EmptyPage DEF DesignInit, RunOnce, NothingRunIsCarried, Clean, Calls, Copies
<1> QED BY <1>3, <1>4, <1>5, <1>6, <1>7 DEF DesignInv

LEMMA CallsKept ==
  ASSUME DesignInv, Keeps, NEW i, NEW s, WorkHolds(i, s), Calls' \subseteq Calls \cup {[id |-> i, sql |-> s]}
  PROVE  CallsHold'
<1> SUFFICES ASSUME NEW w \in Calls' PROVE WorkHolds(w.id, w.sql)'
  BY DEF CallsHold
<1>1. WorkHolds(w.id, w.sql)
  BY DEF DesignInv, CallsHold
<1> QED BY <1>1, Kept

LEMMA CallsStay ==
  ASSUME DesignInv, Keeps, Calls' \subseteq Calls
  PROVE  CallsHold'
<1> SUFFICES ASSUME NEW w \in Calls' PROVE WorkHolds(w.id, w.sql)'
  BY DEF CallsHold
<1>1. WorkHolds(w.id, w.sql)
  BY DEF DesignInv, CallsHold
<1> QED BY <1>1, Kept

LEMMA ReleasesStay ==
  ASSUME DesignInv, Keeps, releases' \subseteq releases
  PROVE  \A r \in releases' : ReleaseHolds(r)'
BY Kept DEF DesignInv

LEMMA MoveStays ==
  ASSUME DesignInv, Keeps, move' = move,
         move.at = "delete" => designs'[move.copy].sql = designs[move.copy].sql
  PROVE  MoveHolds'
<1>1. \A s \in Copies' : Carried(s)'
  BY Kept DEF DesignInv, MoveHolds, Copies
<1> QED BY <1>1 DEF DesignInv, MoveHolds, Keeps

LEMMA NothingCovered ==
  ASSUME DesignInv, ~Covered
  PROVE  dialog = NoDialog /\ move = NoMove /\ move.at # "delete" /\ Copies = {} /\ dialog.at = "closed"
BY DEF Covered, NoMove, Copies, NoDialog

LEMMA BeginsTypes ==
  ASSUME DesignTypeOK, Begins
  PROVE  begun' \in 0..MaxOperations /\ tangled' \in BOOLEAN
<1>1. begun' \in 0..MaxOperations
  BY DesignAssumption DEF DesignTypeOK, Begins
<1>2. tangled' \in BOOLEAN
  BY Zenon DEF Begins
<1> QED BY <1>1, <1>2

LEMMA SaveKeeps == ASSUME DesignInv, Save PROVE DesignInv'
<1>0. dialog = NoDialog /\ move = NoMove /\ move.at # "delete"
  BY NothingCovered DEF Save
<1>1. Keeps /\ RowsHold' /\ PageHolds' /\ \A s : Clean(s) => Clean(s)'
  BY StillKeeps DEF Save, Still
<1>2. DesignTypeOK'
  <2>1. writes' \subseteq [id : DesignIds, sql : Pages]
    BY DEF DesignInv, DesignTypeOK, Save
  <2> QED BY <2>1, BeginsTypes DEF DesignInv, DesignTypeOK, Save
<1>3. Calls' = Calls \cup {[id |-> page, sql |-> onPage]}
  BY DEF Save, Calls
<1>4. CallsHold'
  <2>1. PICK i, s : i = page /\ s = onPage
    OBVIOUS
  <2> QED BY <1>0, <1>1, <1>3, <2>1, PageWork, CallsKept
<1>5. (\A r \in releases' : ReleaseHolds(r)') /\ MoveHolds' /\ DialogHolds'
  BY <1>1, ReleasesStay, MoveStays DEF Save, DesignInv, DialogHolds, Releasing
<1>6. RunOnce'
  <2> SUFFICES ASSUME ~tangled' PROVE RunOnce'
    BY DEF RunOnce
  <2>1. ~tangled /\ releases = {} /\ releases' = {}
    BY DEF Save, Begins
  <2>2. NothingRunIsCarried /\ IsInjective(released)
    BY <2>1 DEF DesignInv, RunOnce
  <2>3. Copies' = Copies
    BY DEF Save, Copies
  <2>4. \A w \in Calls' : Clean(w.sql)'
    BY <1>1, <1>3, <2>2 DEF NothingRunIsCarried
  <2> QED BY <1>1, <2>1, <2>2, <2>3, <2>4 DEF NothingRunIsCarried, RunOnce, Save, Clean
<1> QED BY <1>1, <1>2, <1>4, <1>5, <1>6 DEF DesignInv

LEMMA SyncSchemaKeeps == ASSUME DesignInv, SyncSchema PROVE DesignInv'
<1>0. dialog = NoDialog /\ move = NoMove /\ move.at # "delete"
  BY NothingCovered DEF SyncSchema
<1>1. Keeps /\ RowsHold' /\ PageHolds' /\ \A s : Clean(s) => Clean(s)'
  BY StillKeeps DEF SyncSchema, Still
<1>2. DesignTypeOK'
  <2>1. sync' \in [at : {"idle", "read", "write"}, id : DesignIds \cup {0}, sql : Pages, held : BOOLEAN]
    BY DEF DesignInv, DesignTypeOK, SyncSchema, Reads
  <2> QED BY <2>1, BeginsTypes DEF DesignInv, DesignTypeOK, SyncSchema
<1>3. Calls' = Calls \cup {[id |-> page, sql |-> onPage]}
  <2>1. sync' # NoSync /\ sync'.id = page /\ sync'.sql = onPage
    BY DEF SyncSchema, Reads, NoSync
  <2> QED BY <2>1 DEF SyncSchema, Calls
<1>4. CallsHold'
  <2>1. PICK i, s : i = page /\ s = onPage
    OBVIOUS
  <2> QED BY <1>0, <1>1, <1>3, <2>1, PageWork, CallsKept
<1>5. (\A r \in releases' : ReleaseHolds(r)') /\ MoveHolds' /\ DialogHolds'
  BY <1>1, ReleasesStay, MoveStays DEF SyncSchema, DesignInv, DialogHolds, Releasing
<1>6. RunOnce'
  <2> SUFFICES ASSUME ~tangled' PROVE RunOnce'
    BY DEF RunOnce
  <2>1. ~tangled /\ releases = {} /\ releases' = {}
    BY DEF SyncSchema, Begins
  <2>2. NothingRunIsCarried /\ IsInjective(released)
    BY <2>1 DEF DesignInv, RunOnce
  <2>3. Copies' = Copies
    BY DEF SyncSchema, Copies
  <2>4. \A w \in Calls' : Clean(w.sql)'
    BY <1>1, <1>3, <2>2 DEF NothingRunIsCarried
  <2> QED BY <1>1, <2>1, <2>2, <2>3, <2>4 DEF NothingRunIsCarried, RunOnce, SyncSchema, Clean
<1> QED BY <1>1, <1>2, <1>4, <1>5, <1>6 DEF DesignInv

LEMMA SyncReadKeeps == ASSUME DesignInv, SyncRead PROVE DesignInv'
<1>1. Keeps /\ RowsHold' /\ PageHolds' /\ \A s : Clean(s) => Clean(s)'
  BY StillKeeps DEF SyncRead, Still
<1>2. sync' \in [at : {"idle", "read", "write"}, id : DesignIds \cup {0}, sql : Pages, held : BOOLEAN]
  BY DEF DesignInv, DesignTypeOK, SyncRead
<1>3. DesignTypeOK'
  BY <1>2 DEF DesignInv, DesignTypeOK, SyncRead
<1>4. sync # NoSync /\ sync' # NoSync /\ Calls' = Calls
  <2>1. sync # NoSync
    BY DEF SyncRead, NoSync
  <2>2. sync'.at = "write" /\ sync'.id = sync.id /\ sync'.sql = sync.sql
    BY DEF DesignInv, DesignTypeOK, SyncRead
  <2>3. sync' # NoSync
    BY <2>2 DEF NoSync
  <2> QED BY <2>1, <2>2, <2>3 DEF SyncRead, Calls
<1>5. CallsHold' /\ (\A r \in releases' : ReleaseHolds(r)') /\ MoveHolds' /\ DialogHolds'
  BY <1>1, <1>4, CallsStay, ReleasesStay, MoveStays DEF SyncRead, DesignInv, DialogHolds, Releasing
<1>6. RunOnce'
  <2>1. Copies' = Copies
    BY DEF SyncRead, Copies
  <2>2. NothingRunIsCarried => NothingRunIsCarried'
    BY <1>1, <1>4, <2>1 DEF NothingRunIsCarried, SyncRead, Clean
  <2>3. ~tangled => releases = {}
    BY <1>4 DEF DesignInv, RunOnce, Alone
  <2> QED BY <2>2, <2>3 DEF DesignInv, RunOnce, SyncRead
<1> QED BY <1>1, <1>3, <1>5, <1>6 DEF DesignInv

LEMMA CloseReleaseKeeps == ASSUME DesignInv, CloseRelease PROVE DesignInv'
<1>1. Keeps /\ RowsHold' /\ PageHolds' /\ \A s : Clean(s) => Clean(s)'
  BY StillKeeps DEF CloseRelease, Still
<1>2. DesignTypeOK'
  <2>1. NoDialog \in [at : {"closed", "reading", "failed", "review"}, plan : Pages]
    BY EmptyPage DEF NoDialog
  <2> QED BY <2>1 DEF DesignInv, DesignTypeOK, CloseRelease
<1>3. Calls' = Calls /\ Copies' = Copies
  BY DEF CloseRelease, Calls, Copies
<1>4. DialogHolds'
  BY DEF CloseRelease, DialogHolds, NoDialog
<1>5. CallsHold' /\ (\A r \in releases' : ReleaseHolds(r)') /\ MoveHolds'
  BY <1>1, <1>3, CallsStay, ReleasesStay, MoveStays DEF CloseRelease, DesignInv
<1>6. RunOnce'
  <2>1. NothingRunIsCarried => NothingRunIsCarried'
    BY <1>1, <1>3 DEF NothingRunIsCarried, CloseRelease, Clean
  <2>2. \A r \in releases : Alone(r) => Alone(r)'
    BY DEF Alone, CloseRelease
  <2> QED BY <2>1, <2>2 DEF DesignInv, RunOnce, CloseRelease
<1> QED BY <1>1, <1>2, <1>4, <1>5, <1>6 DEF DesignInv

LEMMA OpenReleaseKeeps == ASSUME DesignInv, OpenRelease PROVE DesignInv'
<1>0. move = NoMove /\ move.at # "delete" /\ ~Releasing
  BY NothingCovered DEF OpenRelease, DesignInv, DialogHolds, NoMove, NoDialog
<1>1. Keeps /\ RowsHold' /\ PageHolds' /\ \A s : Clean(s) => Clean(s)'
  BY StillKeeps DEF OpenRelease, Still
<1>2. \/ /\ sync = NoSync /\ dialog' = [at |-> "reading", plan |-> onPage] /\ Reads(FALSE) /\ Begins
      \/ dialog' = [at |-> "failed", plan |-> <<>>] /\ UNCHANGED <<sync, begun, tangled>>
  BY DEF OpenRelease
<1>3. DesignTypeOK'
  <2>0. onPage \in Pages /\ page \in DesignIds /\ <<>> \in Pages
    BY EmptyPage DEF DesignInv, DesignTypeOK
  <2>1. dialog' \in [at : {"closed", "reading", "failed", "review"}, plan : Pages]
    <3>1. PICK p \in Pages, a \in {"reading", "failed"} : dialog' = [at |-> a, plan |-> p]
      BY <1>2, <2>0
    <3> QED BY <3>1
  <2>2. sync' \in [at : {"idle", "read", "write"}, id : DesignIds \cup {0}, sql : Pages, held : BOOLEAN]
    <3>1. CASE Reads(FALSE)
      BY <2>0, <3>1 DEF Reads
    <3>2. CASE UNCHANGED sync
      BY <3>2 DEF DesignInv, DesignTypeOK
    <3> QED BY <1>2, <3>1, <3>2
  <2>3. begun' \in 0..MaxOperations /\ tangled' \in BOOLEAN
    BY <1>2, BeginsTypes DEF DesignInv, DesignTypeOK
  <2> QED BY <2>1, <2>2, <2>3 DEF DesignInv, DesignTypeOK, OpenRelease
<1>4. DialogHolds'
  <2>1. ~Releasing' /\ move' = NoMove
    BY <1>0 DEF OpenRelease, Releasing
  <2>2. onPage' = onPage
    BY DEF OpenRelease
  <2>3. dialog'.at \in {"reading", "review"} => dialog'.plan = onPage
    <3>1. CASE dialog' = [at |-> "reading", plan |-> onPage]
      BY <3>1
    <3>2. CASE dialog' = [at |-> "failed", plan |-> <<>>]
      BY <3>2
    <3> QED BY <1>2, <3>1, <3>2
  <2> QED BY <2>1, <2>2, <2>3 DEF DialogHolds
<1>5. Calls' \subseteq Calls \cup {[id |-> page, sql |-> onPage]}
  <2>1. CASE Reads(FALSE)
    <3>1. sync' # NoSync /\ sync'.id = page /\ sync'.sql = onPage
      BY <2>1 DEF Reads, NoSync
    <3> QED BY <3>1 DEF OpenRelease, Calls
  <2>2. CASE UNCHANGED sync
    BY <2>2 DEF OpenRelease, Calls
  <2> QED BY <1>2, <2>1, <2>2
<1>6. CallsHold'
  <2>1. PICK i, s : i = page /\ s = onPage
    OBVIOUS
  <2> QED BY <1>0, <1>1, <1>5, <2>1, PageWork, CallsKept
<1>7. (\A r \in releases' : ReleaseHolds(r)') /\ MoveHolds'
  BY <1>1, ReleasesStay, MoveStays DEF OpenRelease, DesignInv
<1>8. RunOnce'
  <2> SUFFICES ASSUME ~tangled' PROVE RunOnce'
    BY DEF RunOnce
  <2>1. ~tangled
    BY <1>2 DEF Begins
  <2>2. releases = {} /\ releases' = {}
    BY <1>0, <2>1 DEF DesignInv, RunOnce, Alone, Releasing, OpenRelease
  <2>3. NothingRunIsCarried /\ IsInjective(released)
    BY <2>1, <2>2 DEF DesignInv, RunOnce
  <2>4. Copies' = Copies
    BY DEF OpenRelease, Copies
  <2>5. \A w \in Calls' : Clean(w.sql)'
    BY <1>1, <1>5, <2>3 DEF NothingRunIsCarried
  <2> QED BY <1>1, <2>2, <2>3, <2>4, <2>5 DEF NothingRunIsCarried, RunOnce, OpenRelease, Clean
<1> QED BY <1>1, <1>3, <1>4, <1>6, <1>7, <1>8 DEF DesignInv

LEMMA ConfirmReleaseKeeps == ASSUME DesignInv, ConfirmRelease PROVE DesignInv'
<1>0. /\ dialog # NoDialog /\ move = NoMove /\ move.at # "delete" /\ dialog.plan = onPage
      /\ \A r \in releases : ~r.here
  BY DEF ConfirmRelease, DesignInv, DialogHolds, NoMove, NoDialog, Releasing
<1>1. Keeps /\ RowsHold' /\ PageHolds' /\ \A s : Clean(s) => Clean(s)'
  BY StillKeeps DEF ConfirmRelease, Still
<1>2. PICK n : n = [plan |-> onPage, ran |-> 0, id |-> page, here |-> TRUE, ended |-> FALSE]
  OBVIOUS
<1>3. releases' = releases \cup {n} /\ dialog' = NoDialog
  BY <1>0, <1>2 DEF ConfirmRelease
<1>4. DesignTypeOK'
  <2>1. NoDialog \in [at : {"closed", "reading", "failed", "review"}, plan : Pages]
    BY EmptyPage DEF NoDialog
  <2>2. n \in [plan : Pages, ran : Nat, id : DesignIds, here : BOOLEAN, ended : BOOLEAN]
    BY <1>2 DEF DesignInv, DesignTypeOK
  <2>3. tangled' \in BOOLEAN
    BY Zenon DEF ConfirmRelease
  <2> QED BY <1>3, <2>1, <2>2, <2>3 DEF DesignInv, DesignTypeOK, ConfirmRelease
<1>5. DialogHolds'
  BY DEF ConfirmRelease, DialogHolds, NoDialog
<1>6. Calls' = Calls /\ Copies' = Copies
  BY DEF ConfirmRelease, Calls, Copies
<1>7. CallsHold' /\ MoveHolds'
  BY <1>1, <1>6, CallsStay, MoveStays DEF ConfirmRelease, DesignInv
<1>8. \A r \in releases' : ReleaseHolds(r)'
  <2>1. WorkHolds(n.id, n.plan)
    BY <1>0, <1>2, PageWork
  <2>2. n.ran <= Len(n.plan) /\ 1..n.ran = {}
    BY <1>2, DesignTypes DEF DesignInv, Pages
  <2>3. ReleaseHolds(n)
    BY <2>1, <2>2 DEF ReleaseHolds
  <2> QED BY <1>1, <1>3, <2>3, Kept DEF DesignInv
<1>9. RunOnce'
  <2> SUFFICES ASSUME ~tangled' PROVE RunOnce'
    BY DEF RunOnce
  <2>1. ~tangled /\ releases = {} /\ writes = {} /\ sync = NoSync
    BY DEF ConfirmRelease, Busy
  <2>2. NothingRunIsCarried /\ IsInjective(released)
    BY <2>1 DEF DesignInv, RunOnce
  <2>3. \A k \in (n.ran + 1)..Len(n.plan) : n.plan[k] \notin Range(released)
    <3>1. Len(onPage) \in Nat /\ DOMAIN onPage = 1..Len(onPage) /\ Clean(onPage)
      BY <2>2, DesignTypes DEF DesignInv, NothingRunIsCarried, Pages
    <3>2. \A k \in DOMAIN onPage : onPage[k] \in Range(onPage)
      BY DEF Range
    <3>3. n.plan = onPage /\ n.ran + 1 = 1
      BY <1>2
    <3> QED BY <3>1, <3>2, <3>3 DEF Clean
  <2>4. Alone(n)'
    BY <1>0, <1>2, <1>3, <2>1, <2>3 DEF Alone, ConfirmRelease
  <2> QED BY <1>3, <2>1, <2>2, <2>4 DEF RunOnce, ConfirmRelease
<1> QED BY <1>1, <1>4, <1>5, <1>7, <1>8, <1>9 DEF DesignInv

LEMMA WriteKeeps == ASSUME DesignInv, NEW w \in writes, NEW ok \in BOOLEAN, Write(w, ok) PROVE DesignInv'
<1>0. w \in Calls /\ WorkHolds(w.id, w.sql) /\ Fine(w.sql) /\ w.id \in DesignIds /\ w.sql \in Pages
  BY DEF Calls, DesignInv, CallsHold, WorkHolds, Carried, Fine
<1>1. Gone' = Gone /\ Carried(w.sql)'
  BY <1>0 DEF Write, Gone, WorkHolds, Carried, Fine
<1>2. /\ Keeps /\ RowsHold'
      /\ designs' \in [DesignIds -> [kind : {"none", "scratch", "linked"}, sql : Pages]]
      /\ \A i \in DesignIds : i # w.id => designs'[i] = designs[i]
      /\ designs'[w.id].sql \in {designs[w.id].sql, w.sql}
      /\ ok /\ w.id \in There => designs'[w.id].sql = w.sql
  <2>1. CASE ok
    BY <1>0, <1>1, <2>1, RowWritten DEF Write
  <2>2. CASE ~ok
    <3>1. designs' = designs /\ page' = page /\ There' = There
      BY <2>2 DEF Write, There
    <3>2. Keeps
      BY <1>1, <3>1 DEF Keeps, Write
    <3>3. RowsHold'
      BY <3>1, <3>2, Kept DEF DesignInv, RowsHold
    <3> QED BY <2>2, <3>1, <3>2, <3>3, DesignTypes DEF DesignInv
  <2> QED BY <2>1, <2>2
<1>3. Range(w.sql) \subseteq 1..stagedEver
  BY <1>0 DEF Fine
<1>4. DesignTypeOK'
  BY <1>2, <1>3 DEF DesignInv, DesignTypeOK, Write
<1>5. PageHolds'
  <2>1. PICK S : S = saved
    OBVIOUS
  <2>2. InRow(S)'
    BY <1>2, <2>1, Kept DEF DesignInv, PageHolds
  <2>3. ok /\ w.id \in There => InRow(Range(w.sql))'
    <3>1. CASE w.id = page
      BY <1>2, <3>1 DEF InRow, Write
    <3>2. CASE w.id # page
      BY <1>0, <1>2, <3>2, Kept DEF WorkHolds
    <3> QED BY <3>1, <3>2
  <2>4. InRow(saved)'
    BY <2>1, <2>2, <2>3 DEF InRow, Write
  <2>5. Carried(onPage)'
    BY <1>1 DEF DesignInv, PageHolds, Carried, Fine, Write
  <2> QED BY <2>4, <2>5 DEF PageHolds, DesignInv, Write
<1>6. Calls' \subseteq Calls /\ Copies' = Copies
  BY DEF Write, Calls, Copies
<1>7. MoveHolds'
  <2>1. move.at = "delete" => move.copy # w.id /\ move.copy \in DesignIds
    BY <1>0 DEF WorkHolds, DesignInv, MoveHolds, There
  <2> QED BY <1>2, <2>1, MoveStays DEF Write
<1>8. CallsHold' /\ (\A r \in releases' : ReleaseHolds(r)') /\ DialogHolds'
  BY <1>2, <1>6, CallsStay, ReleasesStay DEF Write, DesignInv, DialogHolds, Releasing
<1>9. RunOnce'
  <2> SUFFICES ASSUME ~tangled' PROVE RunOnce'
    BY DEF RunOnce
  <2>1. ~tangled /\ releases = {} /\ releases' = {}
    BY DEF Write, DesignInv, RunOnce, Alone
  <2>2. NothingRunIsCarried /\ IsInjective(released)
    BY <2>1 DEF DesignInv, RunOnce
  <2>3. designs'[page].sql \in {designs[page].sql, w.sql}
    BY <1>2, DesignTypes DEF DesignInv
  <2>4. Clean(designs[page].sql)'
    BY <1>0, <2>2, <2>3 DEF NothingRunIsCarried, Clean, Write
  <2>5. \A s : Clean(s) => Clean(s)'
    BY DEF Clean, Write
  <2>6. \A c \in Calls' : Clean(c.sql)'
    BY <1>6, <2>2, <2>5 DEF NothingRunIsCarried
  <2> QED BY <1>6, <2>1, <2>2, <2>4, <2>5, <2>6 DEF NothingRunIsCarried, RunOnce, Write, Clean
<1> QED BY <1>2, <1>4, <1>5, <1>7, <1>8, <1>9 DEF DesignInv

LEMMA SyncEndsKeeps == ASSUME DesignInv, NEW ok \in BOOLEAN, SyncEnds(ok) PROVE DesignInv'
<1> PICK w : w = [id |-> sync.id, sql |-> sync.sql]
  OBVIOUS
<1>0. /\ w \in Calls /\ WorkHolds(w.id, w.sql) /\ Fine(w.sql) /\ w.id \in DesignIds /\ w.sql \in Pages
      /\ w.id = sync.id /\ w.sql = sync.sql
  BY DEF SyncEnds, Calls, DesignInv, CallsHold, WorkHolds, Carried, Fine
<1>1. Gone' = Gone /\ Carried(w.sql)'
  BY <1>0 DEF SyncEnds, Gone, WorkHolds, Carried, Fine
<1>2. /\ Keeps /\ RowsHold'
      /\ designs' \in [DesignIds -> [kind : {"none", "scratch", "linked"}, sql : Pages]]
      /\ \A i \in DesignIds : i # w.id => designs'[i] = designs[i]
      /\ designs'[w.id].sql \in {designs[w.id].sql, w.sql}
  <2>1. CASE ok
    <3>1. designs' = Persisted(w.id, w.sql)
      BY <1>0, <2>1 DEF SyncEnds
    <3> QED BY <1>0, <1>1, <3>1, RowWritten DEF SyncEnds
  <2>2. CASE ~ok
    <3>1. designs' = designs /\ page' = page /\ There' = There
      BY <2>2 DEF SyncEnds, There
    <3>2. Keeps
      BY <1>1, <3>1 DEF Keeps, SyncEnds
    <3>3. RowsHold'
      BY <3>1, <3>2, Kept DEF DesignInv, RowsHold
    <3> QED BY <3>1, <3>2, <3>3, DesignTypes DEF DesignInv
  <2> QED BY <2>1, <2>2
<1>3. /\ dialog' \in [at : {"closed", "reading", "failed", "review"}, plan : Pages]
      /\ dialog' # NoDialog => dialog # NoDialog
      /\ dialog'.at \in {"reading", "review"} => dialog.at \in {"reading", "review"} /\ dialog'.plan = dialog.plan
  <2>1. dialog \in [at : {"closed", "reading", "failed", "review"}, plan : Pages] /\ <<>> \in Pages
    BY EmptyPage DEF DesignInv, DesignTypeOK
  <2>2. CASE dialog.at # "reading"
    BY <2>1, <2>2 DEF SyncEnds
  <2>3. CASE dialog.at = "reading"
    <3>1. dialog # NoDialog
      BY <2>3 DEF NoDialog
    <3>2. dialog' = [at |-> "review", plan |-> dialog.plan] \/ dialog' = [at |-> "failed", plan |-> <<>>]
      BY <2>3 DEF SyncEnds
    <3>3. CASE dialog' = [at |-> "review", plan |-> dialog.plan]
      BY <2>1, <2>3, <3>1, <3>3
    <3>4. CASE dialog' = [at |-> "failed", plan |-> <<>>]
      BY <2>1, <3>1, <3>4
    <3> QED BY <3>2, <3>3, <3>4
  <2> QED BY <2>2, <2>3
<1>4. DesignTypeOK'
  <2>1. NoSync \in [at : {"idle", "read", "write"}, id : DesignIds \cup {0}, sql : Pages, held : BOOLEAN]
    BY EmptyPage DEF NoSync
  <2> QED BY <1>2, <1>3, <2>1 DEF DesignInv, DesignTypeOK, SyncEnds
<1>5. PageHolds'
  <2>1. PICK S : S = saved
    OBVIOUS
  <2>2. InRow(S)'
    BY <1>2, <2>1, Kept DEF DesignInv, PageHolds
  <2>3. InRow(saved)'
    BY <2>1, <2>2 DEF InRow, SyncEnds
  <2>4. Carried(onPage)'
    BY <1>1 DEF DesignInv, PageHolds, Carried, Fine, SyncEnds
  <2> QED BY <2>3, <2>4 DEF PageHolds, DesignInv, SyncEnds
<1>6. Calls' \subseteq Calls /\ Copies' = Copies
  BY DEF SyncEnds, Calls, Copies
<1>7. MoveHolds'
  <2>1. move.at = "delete" => move.copy # w.id /\ move.copy \in DesignIds
    BY <1>0 DEF WorkHolds, DesignInv, MoveHolds, There
  <2> QED BY <1>2, <2>1, MoveStays DEF SyncEnds
<1>8. CallsHold' /\ (\A r \in releases' : ReleaseHolds(r)')
  BY <1>2, <1>6, CallsStay, ReleasesStay DEF SyncEnds, DesignInv
<1>9. DialogHolds'
  BY <1>3 DEF SyncEnds, DesignInv, DialogHolds, Releasing
<1>10. RunOnce'
  <2> SUFFICES ASSUME ~tangled' PROVE RunOnce'
    BY DEF RunOnce
  <2>1. ~tangled /\ releases = {} /\ releases' = {}
    BY DEF SyncEnds, DesignInv, RunOnce, Alone
  <2>2. NothingRunIsCarried /\ IsInjective(released)
    BY <2>1 DEF DesignInv, RunOnce
  <2>3. designs'[page].sql \in {designs[page].sql, w.sql}
    BY <1>2, DesignTypes DEF DesignInv
  <2>4. Clean(designs[page].sql)'
    BY <1>0, <2>2, <2>3 DEF NothingRunIsCarried, Clean, SyncEnds
  <2>5. \A s : Clean(s) => Clean(s)'
    BY DEF Clean, SyncEnds
  <2>6. \A c \in Calls' : Clean(c.sql)'
    BY <1>6, <2>2, <2>5 DEF NothingRunIsCarried
  <2> QED BY <1>6, <2>1, <2>2, <2>4, <2>5, <2>6 DEF NothingRunIsCarried, RunOnce, SyncEnds, Clean
<1> QED BY <1>2, <1>4, <1>5, <1>7, <1>8, <1>9, <1>10 DEF DesignInv

LEMMA RunNextKeeps == ASSUME DesignInv, NEW r \in releases, RunNext(r) PROVE DesignInv'
<1> PICK x : x = r.plan[r.ran + 1]
  OBVIOUS
<1>0. PICK answered \in BOOLEAN, runs \in BOOLEAN :
        /\ answered => runs
        /\ released' = IF runs THEN Append(released, x) ELSE released
        /\ releases' = (releases \ {r}) \cup
                         {IF answered THEN [r EXCEPT !.ran = @ + 1] ELSE [r EXCEPT !.ended = TRUE]}
        /\ tangled' = (tangled \/ (runs /\ ~answered))
  BY DEF RunNext
<1>1. /\ r \in [plan : Pages, ran : Nat, id : DesignIds, here : BOOLEAN, ended : BOOLEAN]
      /\ ReleaseHolds(r) /\ WorkHolds(r.id, r.plan) /\ Fine(r.plan) /\ r.plan \in Pages
      /\ r.ran \in Nat /\ r.ran < Len(r.plan) /\ Len(r.plan) \in Nat /\ DOMAIN r.plan = 1..Len(r.plan)
  BY DEF DesignInv, DesignTypeOK, ReleaseHolds, WorkHolds, Carried, Fine, RunNext, Pages
<1>2. PICK n : n = IF answered THEN [r EXCEPT !.ran = @ + 1] ELSE [r EXCEPT !.ended = TRUE]
  OBVIOUS
<1>3. /\ n \in [plan : Pages, ran : Nat, id : DesignIds, here : BOOLEAN, ended : BOOLEAN]
      /\ n.plan = r.plan /\ n.id = r.id /\ n.here = r.here
      /\ n.ran = IF answered THEN r.ran + 1 ELSE r.ran
  <2>1. CASE answered
    <3>1. n = [r EXCEPT !.ran = @ + 1] /\ r.ran + 1 \in Nat
      BY <1>1, <1>2, <2>1
    <3> QED BY <1>1, <2>1, <3>1
  <2>2. CASE ~answered
    <3>1. n = [r EXCEPT !.ended = TRUE]
      BY <1>2, <2>2
    <3> QED BY <1>1, <2>2, <3>1
  <2> QED BY <2>1, <2>2
<1>4. releases' = (releases \ {r}) \cup {n}
  BY <1>0, <1>2
<1>5. x \in Statements /\ x \in Range(r.plan) /\ x \in 1..stagedEver
  <2>1. r.ran + 1 \in DOMAIN r.plan
    BY <1>1
  <2>2. x \in Range(r.plan) /\ x \in Statements
    BY <1>1, <2>1, InPage
  <2> QED BY <1>1, <2>2 DEF Fine
<1>6. /\ released' \in Pages
      /\ Range(released') = IF runs THEN Range(released) \cup {x} ELSE Range(released)
      /\ IsInjective(released) /\ x \notin Range(released) => IsInjective(released')
  BY <1>0, <1>5, PageAppend, DesignTypes DEF DesignInv
<1>7. Keeps
  BY <1>6 DEF Keeps, RunNext, There, Gone
<1>8. RowsHold'
  BY <1>7, Kept DEF DesignInv, RowsHold, Keeps, RunNext
<1>9. DesignTypeOK'
  <2>1. tangled' \in BOOLEAN
    BY <1>0, Zenon
  <2> QED BY <1>3, <1>4, <1>6, <2>1 DEF DesignInv, DesignTypeOK, RunNext
<1>10. PageHolds'
  <2>1. Carried(onPage)'
    BY <1>7 DEF DesignInv, PageHolds, Carried, Fine, RunNext, Keeps
  <2>2. InRow(saved)'
    BY <1>7 DEF DesignInv, PageHolds, InRow, RunNext, Keeps
  <2> QED BY <1>5, <1>6, <2>1, <2>2 DEF PageHolds, DesignInv, RunNext
<1>11. Calls' = Calls /\ Copies' = Copies
  BY DEF RunNext, Calls, Copies
<1>12. CallsHold' /\ MoveHolds'
  BY <1>7, <1>11, CallsStay, MoveStays DEF RunNext
<1>13. \A q \in releases' : ReleaseHolds(q)'
  <2>1. ReleaseHolds(n)'
    <3>1. WorkHolds(n.id, n.plan)'
      BY <1>1, <1>3, <1>7, Kept
    <3>2. n.ran <= Len(n.plan)
      BY <1>1, <1>3
    <3>3. \A k \in 1..n.ran : n.plan[k] \in Range(released')
      <4> SUFFICES ASSUME NEW k \in 1..n.ran PROVE n.plan[k] \in Range(released')
        OBVIOUS
      <4>1. CASE k \in 1..r.ran
        BY <1>1, <1>3, <1>6, <4>1 DEF ReleaseHolds
      <4>2. CASE k \notin 1..r.ran
        <5>1. answered /\ k = r.ran + 1
          BY <1>1, <1>3, <4>2
        <5> QED BY <1>0, <1>3, <1>6, <5>1
      <4> QED BY <4>1, <4>2
    <3> QED BY <3>1, <3>2, <3>3 DEF ReleaseHolds
  <2>2. \A q \in releases : ReleaseHolds(q)'
    BY <1>7, Kept DEF DesignInv
  <2> QED BY <1>4, <2>1, <2>2
<1>14. DialogHolds'
  BY <1>3, <1>4 DEF RunNext, DesignInv, DialogHolds, Releasing
<1>15. RunOnce'
  <2> SUFFICES ASSUME ~tangled' PROVE RunOnce'
    BY DEF RunOnce
  <2>1. ~tangled /\ (runs => answered) /\ Alone(r) /\ IsInjective(released)
    BY <1>0 DEF DesignInv, RunOnce
  <2>2. x \notin Range(released) /\ releases' = {n}
    <3>1. r.ran + 1 \in (r.ran + 1)..Len(r.plan)
      BY <1>1
    <3> QED BY <1>4, <2>1, <3>1 DEF Alone
  <2>3. IsInjective(released')
    BY <1>6, <2>1, <2>2
  <2>4. \A k \in (n.ran + 1)..Len(n.plan) : n.plan[k] \notin Range(released')
    <3> SUFFICES ASSUME NEW k \in (n.ran + 1)..Len(n.plan) PROVE n.plan[k] \notin Range(released')
      OBVIOUS
    <3>1. k \in (r.ran + 1)..Len(r.plan) /\ k \in DOMAIN r.plan /\ r.ran + 1 \in DOMAIN r.plan
      BY <1>1, <1>3
    <3>2. r.plan[k] \notin Range(released)
      BY <2>1, <3>1 DEF Alone
    <3>3. CASE runs
      <4>1. k # r.ran + 1
        BY <1>1, <1>3, <2>1, <3>3
      <4>2. r.plan[k] # x
        BY <1>1, <3>1, <4>1 DEF Fine, IsInjective
      <4> QED BY <1>3, <1>6, <3>2, <4>2
    <3>4. CASE ~runs
      BY <1>3, <1>6, <3>2, <3>4
    <3> QED BY <3>3, <3>4
  <2>5. Alone(n)'
    BY <1>3, <2>1, <2>2, <2>4 DEF Alone, RunNext
  <2> QED BY <2>2, <2>3, <2>5 DEF RunOnce
<1> QED BY <1>8, <1>9, <1>10, <1>12, <1>13, <1>14, <1>15 DEF DesignInv

LEMMA EndReleaseKeeps ==
  ASSUME DesignInv, NEW r \in releases, NEW ok \in BOOLEAN, EndRelease(r, ok)
  PROVE  DesignInv'
<1> PICK s : s = Remaining(r)
  OBVIOUS
<1> DEFINE stays == ok /\ r.id \in There
<1>0. /\ ReleaseHolds(r) /\ WorkHolds(r.id, r.plan) /\ Carried(r.plan) /\ Fine(r.plan) /\ r.plan \in Pages
      /\ r.id \in DesignIds /\ r.ran \in 0..Len(r.plan) /\ Len(r.plan) \in Nat /\ DOMAIN r.plan = 1..Len(r.plan)
  <2>1. /\ ReleaseHolds(r) /\ WorkHolds(r.id, r.plan) /\ Carried(r.plan) /\ Fine(r.plan) /\ r.plan \in Pages
        /\ r.id \in DesignIds /\ r.ran \in Nat /\ r.ran <= Len(r.plan)
    BY DEF DesignInv, DesignTypeOK, ReleaseHolds, WorkHolds, Carried, Fine
  <2>2. Len(r.plan) \in Nat /\ DOMAIN r.plan = 1..Len(r.plan)
    BY <2>1 DEF Pages
  <2> QED BY <2>1, <2>2
<1>1. s \in Pages /\ Range(s) = {r.plan[k] : k \in (r.ran + 1)..Len(r.plan)} /\ IsInjective(s)
  BY <1>0, PageRest DEF Remaining, Fine
<1>2. Range(s) \subseteq Range(r.plan) /\ Range(r.plan) \subseteq Range(s) \cup Range(released)
  <2>1. \A k \in DOMAIN r.plan : k \in 1..r.ran \/ k \in (r.ran + 1)..Len(r.plan)
    BY <1>0
  <2>2. \A k \in (r.ran + 1)..Len(r.plan) : k \in DOMAIN r.plan
    BY <1>0
  <2>3. \A k \in DOMAIN r.plan : r.plan[k] \in Range(s) \cup Range(released)
    BY <1>0, <1>1, <2>1 DEF ReleaseHolds
  <2>4. Range(s) \subseteq Range(r.plan)
    BY <1>1, <2>2 DEF Range
  <2> QED BY <2>3, <2>4 DEF Range
<1>3. Fine(s) /\ Carried(s)
  BY <1>0, <1>1, <1>2 DEF Fine, Carried, Gone
<1>4. Gone' = Gone /\ Carried(s)'
  BY <1>3 DEF EndRelease, Gone, Carried, Fine
<1>5. /\ Keeps /\ RowsHold'
      /\ designs' \in [DesignIds -> [kind : {"none", "scratch", "linked"}, sql : Pages]]
      /\ \A i \in DesignIds : i # r.id => designs'[i] = designs[i]
      /\ stays => designs'[r.id].sql = s
  <2>1. CASE stays
    <3>1. designs' = Persisted(r.id, s)
      BY <2>1 DEF EndRelease
    <3> QED BY <1>0, <1>3, <1>4, <2>1, <3>1, RowWritten DEF EndRelease
  <2>2. CASE ~stays
    <3>1. designs' = designs /\ page' = page /\ There' = There
      BY <2>2 DEF EndRelease, There
    <3>2. Keeps
      BY <1>4, <3>1 DEF Keeps, EndRelease
    <3>3. RowsHold'
      BY <3>1, <3>2, Kept DEF DesignInv, RowsHold
    <3> QED BY <2>2, <3>1, <3>2, <3>3, DesignTypes DEF DesignInv
  <2> QED BY <2>1, <2>2
<1>6. onPage' = IF stays /\ r.here THEN s ELSE onPage
  BY DEF EndRelease
<1>7. DesignTypeOK'
  <2>1. tangled' \in BOOLEAN
    BY Zenon DEF EndRelease
  <2> QED BY <1>1, <1>5, <1>6, <2>1 DEF DesignInv, DesignTypeOK, EndRelease
<1>8. PageHolds'
  <2>1. PICK S : S = saved
    OBVIOUS
  <2>2. InRow(S)'
    BY <1>5, <2>1, Kept DEF DesignInv, PageHolds
  <2>3. InRow(saved)'
    BY <2>1, <2>2 DEF InRow, EndRelease
  <2>4. Carried(onPage)'
    BY <1>3, <1>4, <1>6 DEF DesignInv, PageHolds, Carried, Fine, EndRelease
  <2> QED BY <2>3, <2>4 DEF PageHolds, DesignInv, EndRelease
<1>9. Calls' = Calls /\ Copies' = Copies /\ releases' \subseteq releases
  BY DEF EndRelease, Calls, Copies
<1>10. MoveHolds'
  <2>1. move.at = "delete" => move.copy # r.id /\ move.copy \in DesignIds
    BY <1>0 DEF WorkHolds, DesignInv, MoveHolds, There
  <2> QED BY <1>5, <2>1, MoveStays DEF EndRelease
<1>11. CallsHold' /\ (\A q \in releases' : ReleaseHolds(q)')
  BY <1>5, <1>9, CallsStay, ReleasesStay
<1>12. DialogHolds'
  <2>1. dialog' # NoDialog => ~Releasing' /\ move' = NoMove
    BY <1>9 DEF EndRelease, DesignInv, DialogHolds, Releasing
  <2>2. dialog.at \in {"reading", "review"} => onPage' = onPage
    <3>1. r.here => dialog = NoDialog
      BY DEF DesignInv, DialogHolds, Releasing
    <3> QED BY <1>6, <3>1 DEF NoDialog
  <2>3. dialog' = dialog
    BY DEF EndRelease
  <2> QED BY <2>1, <2>2, <2>3 DEF DesignInv, DialogHolds
<1>13. RunOnce'
  <2> SUFFICES ASSUME ~tangled' PROVE RunOnce'
    BY DEF RunOnce
  <2>1. ~tangled /\ stays /\ Alone(r) /\ IsInjective(released) /\ released' = released
    BY DEF EndRelease, DesignInv, RunOnce
  <2>2. releases' = {} /\ Calls' = {} /\ Copies' = {}
    BY <1>9, <2>1 DEF Alone, EndRelease, Calls, Copies
  <2>3. Range(s) \cap Range(released') = {}
    BY <1>1, <2>1 DEF Alone
  <2>4. onPage' = s /\ designs'[page'].sql = s
    BY <1>5, <1>6, <2>1 DEF Alone, EndRelease
  <2>5. NothingRunIsCarried'
    BY <2>2, <2>3, <2>4 DEF NothingRunIsCarried, Clean
  <2> QED BY <2>1, <2>2, <2>5 DEF RunOnce
<1> QED BY <1>5, <1>7, <1>8, <1>10, <1>11, <1>12, <1>13 DEF DesignInv

LEMMA BeginMoveKeeps == ASSUME DesignInv, BeginMove PROVE DesignInv'
<1>0. dialog = NoDialog /\ move = NoMove /\ Copies = {}
  BY NothingCovered DEF BeginMove
<1>1. move' = [at |-> "create", sql |-> onPage, copy |-> 0]
  BY DEF BeginMove
<1>2. Keeps /\ RowsHold' /\ PageHolds' /\ \A s : Clean(s) => Clean(s)'
  BY <1>1, StillKeeps DEF BeginMove, Still
<1>3. DesignTypeOK'
  <2>1. move' \in [at : {"idle", "create", "delete"}, sql : Pages, copy : DesignIds \cup {0}]
    BY <1>1 DEF DesignInv, DesignTypeOK
  <2> QED BY <2>1, BeginsTypes DEF DesignInv, DesignTypeOK, BeginMove
<1>4. Calls' = Calls /\ Copies' = {onPage} /\ move'.at # "delete"
  <2>1. move' # NoMove
    BY <1>1 DEF NoMove
  <2> QED BY <1>1, <2>1 DEF BeginMove, Calls, Copies
<1>5. CallsHold' /\ (\A r \in releases' : ReleaseHolds(r)')
  BY <1>2, <1>4, CallsStay, ReleasesStay DEF BeginMove
<1>6. DialogHolds'
  BY <1>0 DEF BeginMove, DialogHolds, NoDialog
<1>7. MoveHolds'
  <2>1. \A s \in Copies' : Carried(s)'
    BY <1>2, <1>4, Kept DEF DesignInv, PageHolds
  <2> QED BY <1>4, <2>1 DEF MoveHolds
<1>8. RunOnce'
  <2> SUFFICES ASSUME ~tangled' PROVE RunOnce'
    BY DEF RunOnce
  <2>1. ~tangled /\ releases = {} /\ releases' = {}
    BY DEF BeginMove, Begins
  <2>2. NothingRunIsCarried /\ IsInjective(released)
    BY <2>1 DEF DesignInv, RunOnce
  <2>3. \A s \in Copies' : Clean(s)'
    BY <1>2, <1>4, <2>2 DEF NothingRunIsCarried
  <2>4. \A w \in Calls' : Clean(w.sql)'
    BY <1>2, <1>4, <2>2 DEF NothingRunIsCarried
  <2> QED BY <1>2, <2>1, <2>2, <2>3, <2>4 DEF NothingRunIsCarried, RunOnce, BeginMove, Clean
<1> QED BY <1>2, <1>3, <1>5, <1>6, <1>7, <1>8 DEF DesignInv

LEMMA StageKeeps == ASSUME DesignInv, Stage PROVE DesignInv'
<1> PICK c : c = stagedEver + 1
  OBVIOUS
<1>0. /\ dialog = NoDialog /\ move = NoMove /\ Copies = {} /\ stagedEver < MaxStatements
      /\ stagedEver' = c /\ onPage' = Append(onPage, c)
      /\ late' = IF Busy THEN late \cup {c} ELSE late
  BY NothingCovered DEF Stage
<1>1. /\ stagedEver \in Nat /\ c \in Statements /\ c \in 0..MaxStatements
      /\ 1..c = 1..stagedEver \cup {c} /\ c \notin 1..stagedEver
  <2>1. stagedEver \in Nat /\ MaxStatements \in Nat
    BY DesignAssumption, DesignTypes DEF DesignInv
  <2>2. c \in 1..MaxStatements /\ 1..c = 1..stagedEver \cup {c} /\ c \notin 1..stagedEver
    BY <1>0, <2>1
  <2> QED BY <2>1, <2>2 DEF Statements
<1>2. /\ onPage \in Pages /\ Range(onPage) \subseteq 1..stagedEver /\ IsInjective(onPage)
      /\ 1..stagedEver \subseteq Range(onPage) \cup Gone
      /\ InRow(saved) /\ Range(released) \subseteq 1..stagedEver
  BY DEF DesignInv, PageHolds, Carried, Fine
<1>3. onPage' \in Pages /\ Range(onPage') = Range(onPage) \cup {c} /\ IsInjective(onPage')
  BY <1>0, <1>1, <1>2, PageAppend
<1>4. Gone \subseteq Gone' /\ (Busy => c \in Gone')
  BY <1>0 DEF Stage, Gone
<1>5. \A s : Fine(s) => Fine(s)'
  BY <1>0, <1>1 DEF Fine
<1>6. Busy => \A s : Carried(s) => Carried(s)'
  BY <1>0, <1>1, <1>4, <1>5 DEF Carried
<1>7. DesignTypeOK'
  BY <1>0, <1>1, <1>3 DEF DesignInv, DesignTypeOK, Stage
<1>8. RowsHold'
  BY <1>5 DEF DesignInv, RowsHold, Stage, There
<1>9. PageHolds'
  <2>1. Carried(onPage)'
    BY <1>0, <1>1, <1>2, <1>3, <1>4 DEF Carried, Fine
  <2>2. InRow(saved)'
    BY <1>2, <1>4 DEF InRow, Stage
  <2>3. Range(released') \subseteq 1..stagedEver'
    BY <1>0, <1>1, <1>2 DEF Stage
  <2> QED BY <2>1, <2>2, <2>3 DEF PageHolds
<1>10. Busy => \A i, s : WorkHolds(i, s) => WorkHolds(i, s)'
  BY <1>4, <1>6 DEF WorkHolds, Stage, There, InRow
<1>11. Calls' = Calls /\ Copies' = {} /\ (~Busy => Calls = {} /\ releases = {})
  BY <1>0 DEF Stage, Calls, Busy, Copies
<1>12. CallsHold'
  BY <1>10, <1>11 DEF CallsHold, DesignInv
<1>13. \A r \in releases' : ReleaseHolds(r)'
  BY <1>10, <1>11 DEF ReleaseHolds, DesignInv, Stage
<1>14. DialogHolds' /\ MoveHolds'
  BY <1>0, <1>11 DEF Stage, DialogHolds, NoDialog, MoveHolds, NoMove
<1>15. RunOnce'
  <2> SUFFICES ASSUME ~tangled PROVE RunOnce'
    BY DEF RunOnce, Stage
  <2>1. \A r \in releases : Alone(r) => Alone(r)'
    BY DEF Alone, Stage
  <2>2. NothingRunIsCarried => NothingRunIsCarried'
    BY <1>1, <1>2, <1>3, <1>11 DEF NothingRunIsCarried, Clean, Stage
  <2> QED BY <2>1, <2>2 DEF DesignInv, RunOnce, Stage
<1> QED BY <1>7, <1>8, <1>9, <1>12, <1>13, <1>14, <1>15 DEF DesignInv

(* A step of the user on the page: what it takes away is taken.             *)
LEMMA PageStep ==
  ASSUME DesignInv, ~Covered, onPage' \in Pages, IsInjective(onPage'), Range(onPage') \subseteq Range(onPage),
         Range(onPage) \subseteq Range(onPage') \cup taken', taken \subseteq taken', taken' \subseteq 1..stagedEver,
         UNCHANGED <<designs, page, dialog, sync, writes, releases, move, stagedEver, released, saved, begun, late, tangled>>
  PROVE  DesignInv'
<1>0. dialog = NoDialog /\ move = NoMove /\ Copies = {} /\ dialog.at = "closed"
  BY NothingCovered
<1>1. Keeps
  BY DEF Keeps, There, Gone
<1>2. DesignTypeOK'
  BY DEF DesignInv, DesignTypeOK
<1>3. RowsHold'
  BY <1>1, Kept DEF DesignInv, RowsHold, Keeps
<1>4. PageHolds'
  <2>1. Carried(onPage)'
    BY <1>1 DEF DesignInv, PageHolds, Carried, Fine, Gone
  <2>2. InRow(saved)'
    BY <1>1 DEF DesignInv, PageHolds, InRow, Keeps
  <2> QED BY <2>1, <2>2 DEF PageHolds, DesignInv
<1>5. Calls' = Calls /\ Copies' = Copies
  BY DEF Calls, Copies
<1>6. CallsHold' /\ MoveHolds' /\ \A r \in releases' : ReleaseHolds(r)'
  BY <1>1, <1>5, CallsStay, MoveStays, ReleasesStay
<1>7. DialogHolds'
  BY <1>0 DEF DialogHolds
<1>8. RunOnce'
  <2>1. NothingRunIsCarried => NothingRunIsCarried'
    BY <1>5 DEF NothingRunIsCarried, Clean
  <2>2. \A r \in releases : Alone(r) => Alone(r)'
    BY DEF Alone
  <2> QED BY <2>1, <2>2 DEF DesignInv, RunOnce
<1> QED BY <1>2, <1>3, <1>4, <1>6, <1>7, <1>8 DEF DesignInv

LEMMA TakeOffKeeps == ASSUME DesignInv, NEW i \in DOMAIN onPage, TakeOff(i) PROVE DesignInv'
<1>1. onPage \in Pages /\ Range(onPage) \subseteq 1..stagedEver /\ IsInjective(onPage)
  BY DEF DesignInv, PageHolds, Carried, Fine
<1>2. onPage' = RemoveAt(onPage, i) /\ taken' = taken \cup {onPage[i]} /\ ~Covered
  BY DEF TakeOff
<1>3. /\ onPage' \in Pages /\ IsInjective(onPage') /\ Range(onPage') \subseteq Range(onPage)
      /\ Range(onPage) \subseteq Range(onPage') \cup taken'
  BY <1>1, <1>2, PageWithout
<1>4. taken' \subseteq 1..stagedEver
  BY <1>1, <1>2, InPage DEF DesignInv, DesignTypeOK
<1>5. taken \subseteq taken'
  BY <1>2
<1> QED BY <1>2, <1>3, <1>4, <1>5, PageStep DEF TakeOff

LEMMA TakeAllOffKeeps == ASSUME DesignInv, TakeAllOff PROVE DesignInv'
<1>1. Range(onPage) \subseteq 1..stagedEver
  BY DEF DesignInv, PageHolds, Carried, Fine
<1>2. onPage' = <<>> /\ taken' = taken \cup Range(onPage) /\ ~Covered
  BY DEF TakeAllOff
<1>3. onPage' \in Pages /\ IsInjective(onPage') /\ Range(onPage') = {}
  BY <1>2, EmptyPage
<1>4. taken' \subseteq 1..stagedEver /\ taken \subseteq taken' /\ Range(onPage) \subseteq Range(onPage') \cup taken'
  BY <1>1, <1>2 DEF DesignInv, DesignTypeOK
<1> QED BY <1>2, <1>3, <1>4, PageStep DEF TakeAllOff

LEMMA ReopenKeeps == ASSUME DesignInv, Reopen PROVE DesignInv'
<1>0. dialog = NoDialog /\ move = NoMove /\ Copies = {} /\ dialog.at = "closed"
  BY NothingCovered DEF Reopen
<1>1. Keeps
  BY DEF Keeps, There, Gone, Reopen
<1>2. /\ Fine(designs[page].sql) /\ Fine(onPage) /\ designs[page].sql \in Pages
      /\ InRow(saved) /\ 1..stagedEver \subseteq Range(onPage) \cup Gone
  BY DesignTypes DEF DesignInv, RowsHold, PageHolds, Carried
<1>3. Calls' \subseteq Calls /\ Copies' = {}
  BY <1>0 DEF Reopen, Calls, Copies
<1>4. DesignTypeOK'
  <2>1. NoSync \in [at : {"idle", "read", "write"}, id : DesignIds \cup {0}, sql : Pages, held : BOOLEAN]
    BY EmptyPage DEF NoSync
  <2>2. writes' \subseteq [id : DesignIds, sql : Pages]
    <3>1. sync # NoSync => sync.id \in DesignIds /\ sync.sql \in Pages
      <4>1. ASSUME sync # NoSync PROVE sync.id \in DesignIds /\ sync.sql \in Pages
        <5>1. [id |-> sync.id, sql |-> sync.sql] \in Calls
          BY <4>1 DEF Calls
        <5> QED BY <5>1 DEF DesignInv, CallsHold, WorkHolds, Carried, Fine
      <4> QED BY <4>1
    <3> QED BY <3>1 DEF DesignInv, DesignTypeOK, Reopen
  <2>3. releases' \subseteq [plan : Pages, ran : Nat, id : DesignIds, here : BOOLEAN, ended : BOOLEAN]
    <3>1. ASSUME NEW r \in releases
          PROVE  [r EXCEPT !.here = FALSE] \in [plan : Pages, ran : Nat, id : DesignIds, here : BOOLEAN, ended : BOOLEAN]
      BY DEF DesignInv, DesignTypeOK
    <3> QED BY <3>1 DEF Reopen
  <2>4. taken' \subseteq 1..stagedEver
    BY <1>2 DEF DesignInv, DesignTypeOK, Reopen, Fine
  <2> QED BY <1>2, <2>1, <2>2, <2>3, <2>4, BeginsTypes DEF DesignInv, DesignTypeOK, Reopen
<1>5. RowsHold'
  BY <1>1, Kept DEF DesignInv, RowsHold, Keeps, Reopen
<1>6. PageHolds'
  <2>1. 1..stagedEver \subseteq Range(designs[page].sql) \cup Gone'
    <3> SUFFICES ASSUME NEW x \in 1..stagedEver PROVE x \in Range(designs[page].sql) \cup Gone'
      OBVIOUS
    <3>1. CASE x \in Gone
      BY <1>1, <3>1 DEF Keeps
    <3>2. CASE x \in Range(onPage) /\ x \in saved
      BY <1>1, <1>2, <3>2 DEF InRow, Keeps
    <3>3. CASE x \in Range(onPage) /\ x \notin saved
      BY <3>3 DEF Reopen, Gone
    <3> QED BY <1>2, <3>1, <3>2, <3>3
  <2>2. Carried(onPage)'
    BY <1>2, <2>1 DEF Carried, Fine, Reopen
  <2>3. InRow(saved)'
    BY <1>1, <1>2 DEF InRow, Keeps, Reopen
  <2> QED BY <2>2, <2>3 DEF PageHolds, DesignInv, Reopen
<1>7. CallsHold' /\ MoveHolds'
  BY <1>0, <1>1, <1>3, CallsStay, MoveStays DEF Reopen, NoMove
<1>8. \A r \in releases' : ReleaseHolds(r)'
  <2> SUFFICES ASSUME NEW r \in releases' PROVE ReleaseHolds(r)'
    OBVIOUS
  <2>1. PICK q \in releases : r = [q EXCEPT !.here = FALSE]
    BY DEF Reopen
  <2>2. q \in [plan : Pages, ran : Nat, id : DesignIds, here : BOOLEAN, ended : BOOLEAN]
    BY DEF DesignInv, DesignTypeOK
  <2>3. r.plan = q.plan /\ r.ran = q.ran /\ r.id = q.id
    BY <2>1, <2>2
  <2>4. ReleaseHolds(q)'
    BY <1>1, Kept DEF DesignInv
  <2> QED BY <2>3, <2>4 DEF ReleaseHolds
<1>9. DialogHolds'
  BY <1>0 DEF DialogHolds, Reopen
<1>10. RunOnce'
  <2> SUFFICES ASSUME ~tangled' PROVE RunOnce'
    BY DEF RunOnce
  <2>1. ~tangled /\ releases = {} /\ releases' = {}
    BY DEF Reopen, Begins
  <2>2. NothingRunIsCarried /\ IsInjective(released)
    BY <2>1 DEF DesignInv, RunOnce
  <2>3. NothingRunIsCarried'
    BY <1>3, <2>2 DEF NothingRunIsCarried, Clean, Reopen
  <2> QED BY <2>1, <2>2, <2>3 DEF RunOnce, Reopen
<1> QED BY <1>4, <1>5, <1>6, <1>7, <1>8, <1>9, <1>10 DEF DesignInv

LEMMA CreateCopyKeeps ==
  ASSUME DesignInv, NEW i \in DesignIds, NEW ok \in BOOLEAN, CreateCopy(i, ok)
  PROVE  DesignInv'
<1>0. /\ move.at = "create" /\ move # NoMove /\ Copies = {move.sql} /\ dialog = NoDialog /\ dialog.at = "closed"
      /\ i \notin There /\ \A j \in There : j < i
  BY DesignTypes DEF CreateCopy, DesignInv, DialogHolds, NoMove, NoDialog, Copies, There
<1>1. Calls' = Calls
  BY DEF CreateCopy, Calls
<1>2. DialogHolds'
  BY <1>0 DEF DialogHolds, CreateCopy
<1>3. CASE ~ok
  <2>1. move' = NoMove /\ designs' = designs /\ Copies' = {} /\ move'.at # "delete"
    BY <1>3 DEF CreateCopy, Copies, NoMove
  <2>2. Keeps /\ RowsHold' /\ PageHolds' /\ \A s : Clean(s) => Clean(s)'
    BY <2>1, StillKeeps DEF CreateCopy, Still
  <2>3. DesignTypeOK'
    <3>1. NoMove \in [at : {"idle", "create", "delete"}, sql : Pages, copy : DesignIds \cup {0}]
      BY EmptyPage DEF NoMove
    <3> QED BY <2>1, <3>1 DEF DesignInv, DesignTypeOK, CreateCopy
  <2>4. CallsHold' /\ (\A r \in releases' : ReleaseHolds(r)') /\ MoveHolds'
    BY <1>1, <2>1, <2>2, CallsStay, ReleasesStay DEF CreateCopy, MoveHolds
  <2>5. RunOnce'
    <3>1. NothingRunIsCarried => NothingRunIsCarried'
      BY <1>1, <2>1, <2>2 DEF NothingRunIsCarried, CreateCopy, Clean
    <3>2. \A r \in releases : Alone(r) => Alone(r)'
      BY <1>0 DEF Alone
    <3> QED BY <3>1, <3>2 DEF DesignInv, RunOnce, CreateCopy
  <2> QED BY <1>2, <2>2, <2>3, <2>4, <2>5 DEF DesignInv
<1>4. CASE ok
  <2> PICK d : d = [kind |-> OtherKind, sql |-> move.sql]
    OBVIOUS
  <2>1. /\ designs' = [designs EXCEPT ![i] = d] /\ move' = [move EXCEPT !.at = "delete", !.copy = i]
        /\ d.sql = move.sql /\ d.kind \in {"scratch", "linked"} /\ d.kind # "none"
    BY <1>4 DEF CreateCopy, OtherKind
  <2>2. d # NoDesign /\ d \in [kind : {"none", "scratch", "linked"}, sql : Pages]
    BY <2>1, DesignTypes DEF NoDesign, DesignInv, OtherKind
  <2>3. move' \in [at : {"idle", "create", "delete"}, sql : Pages, copy : DesignIds \cup {0}]
        /\ move'.at = "delete" /\ move'.copy = i /\ move'.sql = move.sql
    BY <2>1 DEF DesignInv, DesignTypeOK
  <2>4. /\ designs' \in [DesignIds -> [kind : {"none", "scratch", "linked"}, sql : Pages]]
        /\ designs'[i] = d /\ \A j \in DesignIds : j # i => designs'[j] = designs[j]
    BY <2>1, <2>2, DesignTypes DEF DesignInv
  <2>5. There' = There \cup {i}
    BY <2>2, <2>4 DEF There
  <2>6. page \in There /\ page # i /\ page < i /\ page' = page /\ page \in DesignIds
    BY <1>0, DesignTypes DEF DesignInv, RowsHold, CreateCopy
  <2>7. Copies' = {move.sql}
    <3>1. move' # NoMove
      BY <2>3 DEF NoMove
    <3> QED BY <2>3, <3>1 DEF Copies
  <2>8. /\ \A s : Carried(s) => Carried(s)'
        /\ \A s : Fine(s) => Fine(s)'
        /\ \A S : InRow(S) => InRow(S)'
    BY <2>4, <2>6 DEF Carried, Fine, InRow, CreateCopy, Gone
  <2>9. \A k, s : WorkHolds(k, s) => WorkHolds(k, s)'
    <3> SUFFICES ASSUME NEW k, NEW s, WorkHolds(k, s) PROVE WorkHolds(k, s)'
      OBVIOUS
    <3>1. PICK j \in There : k <= j
      BY DEF WorkHolds
    <3>2. k # i
      <4>1. j < i /\ j \in Nat /\ i \in Nat /\ k \in Nat
        BY <1>0, DesignTypes DEF DesignInv, There, WorkHolds
      <4> QED BY <3>1, <4>1
    <3>3. k \in DesignIds /\ Carried(s)' /\ (k # page' => InRow(Range(s))')
      BY <2>6, <2>8 DEF WorkHolds
    <3> QED BY <2>3, <2>5, <3>1, <3>2, <3>3 DEF WorkHolds
  <2>10. DesignTypeOK'
    BY <2>3, <2>4 DEF DesignInv, DesignTypeOK, CreateCopy
  <2>11. Carried(move.sql) /\ Fine(move.sql)
    BY <1>0 DEF DesignInv, MoveHolds, Carried
  <2>12. RowsHold'
    <3>1. \A j \in DesignIds : Fine(designs[j].sql)'
      <4> SUFFICES ASSUME NEW j \in DesignIds PROVE Fine(designs[j].sql)'
        OBVIOUS
      <4>1. PICK s : s = designs'[j].sql
        OBVIOUS
      <4>2. Fine(s)
        BY <2>1, <2>4, <2>11, <4>1 DEF DesignInv, RowsHold
      <4>3. Fine(s)'
        BY <2>8, <4>2
      <4> QED BY <4>1, <4>3 DEF Fine
    <3>2. \A j \in DesignIds : designs'[j].kind = "none" => designs'[j] = NoDesign
      BY <2>1, <2>4 DEF DesignInv, RowsHold
    <3> QED BY <2>5, <2>6, <3>1, <3>2 DEF RowsHold
  <2>13. PageHolds'
    BY <2>4, <2>6 DEF DesignInv, PageHolds, CreateCopy, Carried, Fine, InRow, Gone
  <2>14. CallsHold' /\ \A r \in releases' : ReleaseHolds(r)'
    BY <1>1, <2>9 DEF CallsHold, ReleaseHolds, DesignInv, CreateCopy
  <2>15. MoveHolds'
    <3>1. \A s \in Copies' : Carried(s)'
      BY <2>7, <2>8, <2>11
    <3>2. move'.copy \in There' /\ page' < move'.copy /\ designs'[move'.copy].sql = move'.sql
      BY <2>1, <2>3, <2>4, <2>5, <2>6
    <3> QED BY <3>1, <3>2 DEF MoveHolds
  <2>16. RunOnce'
    <3>1. NothingRunIsCarried => NothingRunIsCarried'
      BY <1>0, <1>1, <2>4, <2>6, <2>7 DEF NothingRunIsCarried, CreateCopy, Clean
    <3>2. \A r \in releases : Alone(r) => Alone(r)'
      BY <1>0 DEF Alone
    <3> QED BY <3>1, <3>2 DEF DesignInv, RunOnce, CreateCopy
  <2> QED BY <1>2, <2>10, <2>12, <2>13, <2>14, <2>15, <2>16 DEF DesignInv
<1> QED BY <1>3, <1>4

LEMMA DeleteOriginalKeeps == ASSUME DesignInv, NEW ok \in BOOLEAN, DeleteOriginal(ok) PROVE DesignInv'
<1>0. /\ move.at = "delete" /\ move # NoMove /\ Copies = {move.sql} /\ dialog = NoDialog /\ dialog.at = "closed"
      /\ move' = NoMove /\ move'.at # "delete" /\ Copies' = {}
  BY DEF DeleteOriginal, DesignInv, DialogHolds, NoMove, NoDialog, Copies
<1>1. Calls' = Calls
  BY DEF DeleteOriginal, Calls
<1>2. DialogHolds' /\ MoveHolds'
  BY <1>0 DEF DialogHolds, MoveHolds, DeleteOriginal
<1>3. NoMove \in [at : {"idle", "create", "delete"}, sql : Pages, copy : DesignIds \cup {0}]
  BY EmptyPage DEF NoMove
<1>4. CASE ~ok
  <2>1. Keeps /\ RowsHold' /\ PageHolds' /\ \A s : Clean(s) => Clean(s)'
    BY <1>0, <1>4, StillKeeps DEF DeleteOriginal, Still
  <2>2. DesignTypeOK'
    BY <1>0, <1>3, <1>4 DEF DesignInv, DesignTypeOK, DeleteOriginal
  <2>3. CallsHold' /\ (\A r \in releases' : ReleaseHolds(r)')
    BY <1>1, <2>1, CallsStay, ReleasesStay DEF DeleteOriginal
  <2>4. RunOnce'
    <3>1. NothingRunIsCarried => NothingRunIsCarried'
      BY <1>0, <1>1, <1>4, <2>1 DEF NothingRunIsCarried, DeleteOriginal, Clean
    <3>2. \A r \in releases : Alone(r) => Alone(r)'
      BY <1>0 DEF Alone
    <3> QED BY <3>1, <3>2 DEF DesignInv, RunOnce, DeleteOriginal
  <2> QED BY <1>2, <2>1, <2>2, <2>3, <2>4 DEF DesignInv
<1>5. CASE ok
  <2> PICK k : k = move.copy
    OBVIOUS
  <2>1. /\ designs' = [designs EXCEPT ![page] = NoDesign] /\ page' = k /\ onPage' = designs[k].sql
        /\ taken' = taken \cup (Range(onPage) \ Range(move.sql))
    BY <1>5 DEF DeleteOriginal
  <2>2. /\ k \in There /\ page < k /\ designs[k].sql = move.sql /\ Carried(move.sql) /\ page \in There
        /\ k \in DesignIds /\ k # page /\ k \in Nat /\ page \in Nat /\ page \in DesignIds
    BY <1>0, DesignTypes DEF DesignInv, MoveHolds, RowsHold, There
  <2>3. /\ designs' \in [DesignIds -> [kind : {"none", "scratch", "linked"}, sql : Pages]]
        /\ designs'[page] = NoDesign /\ \A j \in DesignIds : j # page => designs'[j] = designs[j]
    <3>1. NoDesign \in [kind : {"none", "scratch", "linked"}, sql : Pages]
      BY EmptyPage DEF NoDesign
    <3> QED BY <2>1, <3>1, DesignTypes DEF DesignInv
  <2>4. There' = There \ {page}
    BY <2>3 DEF There
  <2>5. /\ \A s : Fine(s) => Fine(s)'
        /\ \A s : Carried(s) => Carried(s)'
    BY <2>1 DEF Fine, Carried, DeleteOriginal, Gone
  <2>6. designs'[page'].sql = move.sql /\ onPage' = move.sql
    BY <2>1, <2>2, <2>3
  <2>7. \A S : S \subseteq 1..stagedEver => InRow(S)'
    <3>1. 1..stagedEver \subseteq Range(move.sql) \cup Gone
      BY <2>2 DEF Carried
    <3>2. Gone \subseteq Gone'
      BY <2>1 DEF DeleteOriginal, Gone
    <3> QED BY <2>6, <3>1, <3>2 DEF InRow
  <2>8. \A i, s : WorkHolds(i, s) => WorkHolds(i, s)'
    <3> SUFFICES ASSUME NEW i, NEW s, WorkHolds(i, s) PROVE WorkHolds(i, s)'
      OBVIOUS
    <3>1. i \in DesignIds /\ Carried(s)' /\ InRow(Range(s))'
      BY <2>5, <2>7 DEF WorkHolds, Carried, Fine
    <3>2. \E j \in There' : i <= j
      <4>1. PICK j \in There : i <= j
        BY DEF WorkHolds
      <4>2. CASE j # page
        BY <2>4, <4>1, <4>2
      <4>3. CASE j = page
        <5>1. i \in Nat
          BY <3>1, DesignTypes DEF DesignInv
        <5>2. i <= k /\ k \in There'
          BY <2>2, <2>4, <4>1, <4>3, <5>1
        <5> QED BY <5>2
      <4> QED BY <4>2, <4>3
    <3> QED BY <1>0, <3>1, <3>2 DEF WorkHolds
  <2>9. Fine(move.sql) /\ Range(onPage) \subseteq 1..stagedEver
    BY <2>2 DEF Carried, DesignInv, PageHolds, Fine
  <2>10. DesignTypeOK'
    BY <1>0, <1>3, <2>1, <2>2, <2>3, <2>6, <2>9 DEF DesignInv, DesignTypeOK, DeleteOriginal, Fine
  <2>11. RowsHold'
    <3>1. \A j \in DesignIds : Fine(designs[j].sql)'
      <4> SUFFICES ASSUME NEW j \in DesignIds PROVE Fine(designs[j].sql)'
        OBVIOUS
      <4>1. PICK s : s = designs'[j].sql
        OBVIOUS
      <4>2. Fine(s)
        BY <2>3, <4>1, EmptyPage DEF DesignInv, RowsHold, NoDesign, Fine
      <4>3. Fine(s)'
        BY <2>5, <4>2
      <4> QED BY <4>1, <4>3 DEF Fine
    <3>2. \A j \in DesignIds : designs'[j].kind = "none" => designs'[j] = NoDesign
      BY <2>3 DEF DesignInv, RowsHold
    <3> QED BY <2>1, <2>2, <2>4, <3>1, <3>2 DEF RowsHold
  <2>12. PageHolds'
    <3>1. Carried(onPage)'
      <4>1. PICK s : s = move.sql
        OBVIOUS
      <4>2. Carried(s)'
        BY <2>2, <2>5, <4>1
      <4> QED BY <2>6, <4>1, <4>2 DEF Carried, Fine
    <3>2. InRow(saved)'
      <4>1. PICK S : S = saved
        OBVIOUS
      <4>2. InRow(S)'
        BY <2>7, <4>1 DEF DesignInv, DesignTypeOK
      <4> QED BY <4>1, <4>2 DEF InRow, DeleteOriginal
    <3> QED BY <3>1, <3>2 DEF PageHolds, DesignInv, DeleteOriginal
  <2>13. CallsHold' /\ \A r \in releases' : ReleaseHolds(r)'
    BY <1>1, <2>8 DEF CallsHold, ReleaseHolds, DesignInv, DeleteOriginal
  <2>14. RunOnce'
    <3> SUFFICES ASSUME ~tangled' PROVE RunOnce'
      BY DEF RunOnce
    <3>1. ~tangled /\ releases = {} /\ releases' = {}
      BY <1>0 DEF DesignInv, RunOnce, Alone, DeleteOriginal
    <3>2. NothingRunIsCarried /\ IsInjective(released)
      BY <3>1 DEF DesignInv, RunOnce
    <3>3. NothingRunIsCarried'
      BY <1>0, <1>1, <2>6, <3>2 DEF NothingRunIsCarried, Clean, DeleteOriginal
    <3> QED BY <3>1, <3>2, <3>3 DEF RunOnce, DeleteOriginal
  <2> QED BY <1>2, <2>10, <2>11, <2>12, <2>13, <2>14 DEF DesignInv
<1> QED BY <1>4, <1>5

LEMMA DesignInvNext == DesignInv /\ [DesignNext]_designVars => DesignInv'
<1> SUFFICES ASSUME DesignInv, [DesignNext]_designVars PROVE DesignInv'
  OBVIOUS
<1>1. CASE UNCHANGED designVars
  BY <1>1 DEF designVars, DesignInv, DesignTypeOK, RowsHold, PageHolds, CallsHold, Calls, ReleaseHolds,
              DialogHolds, MoveHolds, RunOnce, NothingRunIsCarried, Alone, Copies, WorkHolds, Carried,
              Fine, Clean, InRow, Gone, There, Releasing
<1>2. CASE DesignNext
  <2>1. CASE Stage \/ TakeAllOff \/ \E i \in DOMAIN onPage : TakeOff(i)
    BY <2>1, StageKeeps, TakeAllOffKeeps, TakeOffKeeps
  <2>2. CASE Reopen \/ Save \/ SyncSchema \/ SyncRead \/ OpenRelease \/ CloseRelease \/ ConfirmRelease
    BY <2>2, ReopenKeeps, SaveKeeps, SyncSchemaKeeps, SyncReadKeeps, OpenReleaseKeeps, CloseReleaseKeeps,
       ConfirmReleaseKeeps
  <2>3. CASE \E w \in writes, ok \in BOOLEAN : Write(w, ok)
    BY <2>3, WriteKeeps
  <2>4. CASE \E ok \in BOOLEAN : SyncEnds(ok) \/ DeleteOriginal(ok) \/ \E i \in DesignIds : CreateCopy(i, ok)
    BY <2>4, SyncEndsKeeps, DeleteOriginalKeeps, CreateCopyKeeps
  <2>5. CASE \E r \in releases : RunNext(r) \/ \E ok \in BOOLEAN : EndRelease(r, ok)
    BY <2>5, RunNextKeeps, EndReleaseKeeps
  <2>6. CASE BeginMove
    BY <2>6, BeginMoveKeeps
  <2> QED BY <1>2, <2>1, <2>2, <2>3, <2>4, <2>5, <2>6 DEF DesignNext
<1> QED BY <1>1, <1>2

(* Every state of a design page is one of the types its code declares       *)
(* (useSchemaDraftController.ts).                                          *)
THEOREM DesignTypeCorrect == DesignSpec => []DesignTypeOK
<1>1. DesignInv => DesignTypeOK
  BY DEF DesignInv
<1> QED BY <1>1, DesignInvInit, DesignInvNext, PTL DEF DesignSpec

(* A design is never nowhere, no statement of it gets lost without a trace, *)
(* and what a release nothing overlapped has run is not offered or run      *)
(* again (linkToConnection, save, release of useSchemaDraftController.ts).  *)
THEOREM DesignStaysKept == DesignSpec => []DesignKept
<1>1. DesignInv => DesignKept
  <2> SUFFICES ASSUME DesignInv PROVE DesignKept
    OBVIOUS
  <2>1. There # {}
    BY DEF DesignInv, RowsHold
  <2>2. 1..stagedEver \subseteq Range(onPage) \cup Range(released) \cup taken \cup late
    BY DEF DesignInv, PageHolds, Carried, Gone
  <2>3. ~tangled /\ releases = {} =>
          /\ Range(released) \cap (Range(onPage) \cup Range(designs[page].sql)) = {}
          /\ IsInjective(released)
    BY DEF DesignInv, RunOnce, NothingRunIsCarried, Clean
  <2> QED BY <2>1, <2>2, <2>3 DEF DesignKept
<1> QED BY <1>1, DesignInvInit, DesignInvNext, PTL DEF DesignSpec
-----------------------------------------------------------------------------
(* What the operations make of the list of tabs.                            *)
Entry == AllKeys \X Panes
Apart(list) == \A i, j \in DOMAIN list : list[i][1] = list[j][1] => i = j

LEMMA LeastOf ==
  ASSUME NEW S \in SUBSET Nat, S # {}
  PROVE  \E m \in S : \A n \in S : m <= n
<1> DEFINE R == OpToRel(<, Nat)
<1>1. \A m, n \in Nat : m < n => <<m, n>> \in R
  BY DEF OpToRel
<1>2. IsWellFoundedOn(R, Nat)
  BY NatLessThanWellFounded, Zenon
<1> HIDE DEF R
<1>3. PICK m \in S : \A n \in S : ~(<<n, m>> \in R)
  BY <1>2, WFMin
<1>4. \A n \in S : ~(n < m)
  BY <1>1, <1>3
<1> QED BY <1>3, <1>4

(* A recursive function on 0..n that steps with F exists.                   *)
Iterated(T, n, a, F) ==
  \E g \in [0..n -> T] : g[0] = a /\ \A i \in 1..n : g[i] = F[<<i, g[i - 1]>>]

LEMMA Iterates ==
  ASSUME NEW T, NEW n \in Nat, NEW a \in T, NEW F \in [(1..n) \X T -> T]
  PROVE  Iterated(T, n, a, F)
<1> DEFINE Good(m, g) == g[0] = a /\ \A i \in 1..m : g[i] = F[<<i, g[i - 1]>>]
           S == {m \in Nat : m <= n /\ ~\E g \in [0..m -> T] : Good(m, g)}
<1>1. S = {}
  <2> SUFFICES ASSUME S # {} PROVE FALSE
    OBVIOUS
  <2>1. PICK m \in S : \A k \in S : m <= k
    <3>1. S \in SUBSET Nat
      <4> HIDE DEF Good
      <4> QED OBVIOUS
    <3> HIDE DEF S
    <3> QED BY <3>1, LeastOf
  <2>2. m \in Nat /\ m <= n
    BY <2>1
  <2>3. m # 0
    <3> SUFFICES ASSUME m = 0 PROVE FALSE
      OBVIOUS
    <3> DEFINE g == [k \in 0..0 |-> a]
    <3>1. g \in [0..0 -> T] /\ Good(0, g)
      OBVIOUS
    <3> QED BY <2>1, <3>1
  <2>4. m - 1 \in Nat /\ m - 1 <= n /\ m - 1 \notin S
    <3>1. m - 1 \in Nat /\ m - 1 <= n /\ ~(m <= m - 1)
      BY <2>2, <2>3
    <3> HIDE DEF S
    <3> QED BY <2>1, <3>1
  <2>5. PICK g \in [0..(m - 1) -> T] : Good(m - 1, g)
    BY <2>4
  <2> DEFINE h == [k \in 0..m |-> IF k = m THEN F[<<m, g[m - 1]>>] ELSE g[k]]
  <2>6. h \in [0..m -> T]
    <3>1. m \in 1..n /\ g[m - 1] \in T
      BY <2>2, <2>3, <2>4, <2>5
    <3>2. F[<<m, g[m - 1]>>] \in T
      BY <3>1
    <3>3. \A k \in 0..m : k # m => k \in 0..(m - 1)
      BY <2>2
    <3> QED BY <2>5, <3>2, <3>3
  <2>7. Good(m, h)
    <3>1. h[0] = a
      BY <2>2, <2>3, <2>5
    <3>2. ASSUME NEW i \in 1..m PROVE h[i] = F[<<i, h[i - 1]>>]
      <4>1. i - 1 \in 0..m /\ i - 1 # m /\ h[i - 1] = g[i - 1]
        BY <2>2
      <4>2. CASE i = m
        BY <4>1, <4>2
      <4>3. CASE i # m
        <5>1. i \in 1..(m - 1) /\ h[i] = g[i]
          BY <2>2, <4>3
        <5> QED BY <2>5, <4>1, <5>1
      <4> QED BY <4>2, <4>3
    <3> QED BY <3>1, <3>2
  <2>8. m \notin S
    BY <2>6, <2>7
  <2> QED BY <2>1, <2>8
<1>2. n \notin S
  BY <1>1
<1> QED BY <1>2 DEF Iterated

(* The recursive function in Without.                                       *)
Filtered(list, ks) ==
  \E g \in [0..Len(list) -> Seq(Entry)] :
    /\ g[0] = <<>> /\ Without(list, ks) = g[Len(list)]
    /\ \A i \in 1..Len(list) :
         g[i] = IF list[i][1] \in ks THEN g[i - 1] ELSE Append(g[i - 1], list[i])

LEMMA WithoutRuns ==
  ASSUME NEW list \in Seq(Entry), NEW ks
  PROVE  Filtered(list, ks)
<1> DEFINE n == Len(list)
           T == Seq(Entry)
           Step(i, s) == IF list[i][1] \in ks THEN s ELSE Append(s, list[i])
           F == [x \in (1..n) \X T |-> Step(x[1], x[2])]
           Grows(g) == g = [m \in 0..n |-> IF m = 0 THEN <<>> ELSE Step(m, g[m - 1])]
<1>1. n \in Nat /\ <<>> \in T /\ \A i \in 1..n : list[i] \in Entry
  OBVIOUS
<1>2. F \in [(1..n) \X T -> T]
  <2>1. \A i \in 1..n, s \in T : Step(i, s) \in T
    BY <1>1
  <2> HIDE DEF T, n, Step
  <2> QED BY <2>1
<1>3. PICK g \in [0..n -> T] : g[0] = <<>> /\ \A i \in 1..n : g[i] = F[<<i, g[i - 1]>>]
  <2> HIDE DEF F, T, n
  <2>1. Iterated(T, n, <<>>, F)
    BY <1>1, <1>2, Iterates
  <2> QED BY <2>1 DEF Iterated
<1>4. \A i \in 1..n : g[i] = Step(i, g[i - 1])
  <2> SUFFICES ASSUME NEW i \in 1..n PROVE g[i] = Step(i, g[i - 1])
    OBVIOUS
  <2>1. i - 1 \in 0..n
    BY <1>1
  <2>2. <<i, g[i - 1]>> \in (1..n) \X T
    BY <1>3, <2>1
  <2> HIDE DEF Step, T, n
  <2> QED BY <1>3, <2>2
<1>5. Grows(g)
  <2>1. \A m \in 0..n : m # 0 => m \in 1..n
    BY <1>1
  <2> HIDE DEF Step, T, n
  <2> QED BY <1>3, <1>4, <2>1
<1> DEFINE c == CHOOSE k : Grows(k)
<1>6. Grows(c)
  BY <1>5
<1>7. Without(list, ks) = c[n]
  BY DEF Without
<1> HIDE DEF c
<1>8. c[n] = g[n]
  <2> DEFINE S == {m \in 0..n : c[m] # g[m]}
  <2> SUFFICES ASSUME S # {} PROVE FALSE
    BY <1>1
  <2>1. PICK m \in S : \A k \in S : m <= k
    <3>1. S \in SUBSET Nat
      BY <1>1
    <3> HIDE DEF S
    <3> QED BY <3>1, LeastOf
  <2>2. m \in 0..n /\ c[m] = IF m = 0 THEN <<>> ELSE Step(m, c[m - 1])
    <3> HIDE DEF Step, n
    <3> QED BY <1>6, <2>1
  <2>3. m # 0
    BY <1>3, <2>1, <2>2
  <2>4. m - 1 \in 0..n /\ m \in 1..n /\ m - 1 \notin S
    BY <1>1, <2>1, <2>2, <2>3
  <2>5. c[m - 1] = g[m - 1]
    BY <2>4
  <2>6. c[m] = Step(m, g[m - 1])
    <3> HIDE DEF Step
    <3> QED BY <2>2, <2>3, <2>5
  <2> HIDE DEF Step
  <2> QED BY <1>4, <2>1, <2>4, <2>6
<1> QED BY <1>3, <1>4, <1>7, <1>8 DEF Filtered

(* What Without keeps of a list.                                            *)
LEMMA WithoutKeeps ==
  ASSUME NEW list \in Seq(Entry), NEW ks
  PROVE  /\ Without(list, ks) \in Seq(Entry)
         /\ Range(Without(list, ks)) = {t \in Range(list) : t[1] \notin ks}
         /\ Apart(list) => Apart(Without(list, ks))
<1> DEFINE n == Len(list)
<1>1. PICK g \in [0..n -> Seq(Entry)] :
        /\ g[0] = <<>> /\ Without(list, ks) = g[n]
        /\ \A i \in 1..n : g[i] = IF list[i][1] \in ks THEN g[i - 1] ELSE Append(g[i - 1], list[i])
  <2>1. Filtered(list, ks)
    BY WithoutRuns
  <2> QED BY <2>1 DEF Filtered
<1>2. n \in Nat /\ \A i \in 1..n : list[i] \in Entry
  OBVIOUS
<1> DEFINE Sofar(m) == {list[j] : j \in {i \in 1..m : list[i][1] \notin ks}}
           Good(m) == Range(g[m]) = Sofar(m) /\ (Apart(list) => Apart(g[m]))
           S == {m \in 0..n : ~Good(m)}
<1>3. S = {}
  <2> SUFFICES ASSUME S # {} PROVE FALSE
    OBVIOUS
  <2>1. PICK m \in S : \A k \in S : m <= k
    <3>1. S \in SUBSET Nat
      BY <1>2
    <3> HIDE DEF S
    <3> QED BY <3>1, LeastOf
  <2>2. m \in 0..n /\ ~Good(m)
    BY <2>1
  <2>3. Good(0)
    <3>1. Range(<<>>) = {} /\ Apart(<<>>)
      BY DEF Range, Apart
    <3>2. Sofar(0) = {}
      OBVIOUS
    <3> QED BY <1>1, <3>1, <3>2
  <2>4. m \in 1..n /\ m - 1 \in 0..n
    BY <1>2, <2>2, <2>3
  <2>5. Good(m - 1)
    BY <1>2, <2>1, <2>4
  <2>6. Sofar(m) = Sofar(m - 1) \cup (IF list[m][1] \in ks THEN {} ELSE {list[m]})
    <3>1. \A i : i \in 1..m <=> i \in 1..(m - 1) \/ i = m
      BY <1>2, <2>4
    <3> QED BY <3>1
  <2>7. CASE list[m][1] \in ks
    <3>1. g[m] = g[m - 1]
      BY <1>1, <2>4, <2>7
    <3> QED BY <2>2, <2>5, <2>6, <2>7, <3>1
  <2>8. CASE list[m][1] \notin ks
    <3>1. PICK s \in Seq(Entry) : s = g[m - 1]
      BY <1>1, <2>4
    <3>2. PICK r : r = g[m]
      OBVIOUS
    <3>3. r = Append(s, list[m])
      BY <1>1, <2>4, <2>8, <3>1, <3>2
    <3>4. /\ Len(r) = Len(s) + 1 /\ DOMAIN r = 1..(Len(s) + 1) /\ DOMAIN s = 1..Len(s)
          /\ r[Len(s) + 1] = list[m] /\ \A i \in 1..Len(s) : r[i] = s[i]
      BY <1>2, <2>4, <3>3
    <3>5. Range(r) = Range(s) \cup {list[m]}
      BY <3>4 DEF Range
    <3>6. ASSUME Apart(list) PROVE Apart(r)
      <4>1. Apart(s)
        BY <2>5, <3>1, <3>6
      <4>2. \A t \in Range(s) : t[1] # list[m][1]
        <5> SUFFICES ASSUME NEW t \in Sofar(m - 1) PROVE t[1] # list[m][1]
          BY <2>5, <3>1
        <5>1. PICK j \in 1..(m - 1) : t = list[j]
          OBVIOUS
        <5>2. j \in DOMAIN list /\ m \in DOMAIN list /\ j # m
          BY <1>2, <2>4
        <5> QED BY <3>6, <5>1, <5>2 DEF Apart
      <4>3. \A i \in 1..Len(s) : s[i][1] # list[m][1]
        BY <3>4, <4>2 DEF Range
      <4> QED BY <3>4, <4>1, <4>3 DEF Apart
    <3> QED BY <2>2, <2>5, <2>6, <2>8, <3>1, <3>2, <3>5, <3>6
  <2> QED BY <2>7, <2>8
<1>4. Good(n)
  <2>1. n \in 0..n
    BY <1>2
  <2> HIDE DEF Good
  <2> QED BY <1>3, <2>1
<1>5. Sofar(n) = {t \in Range(list) : t[1] \notin ks}
  <2>1. DOMAIN list = 1..n
    OBVIOUS
  <2> HIDE DEF n
  <2> QED BY <2>1 DEF Range
<1> QED BY <1>1, <1>2, <1>4, <1>5

LEMMA InsertKeeps ==
  ASSUME NEW list \in Seq(Entry), NEW at \in 1..(Len(list) + 1), NEW e \in Entry,
         \A t \in Range(list) : t[1] # e[1], Apart(list)
  PROVE  /\ InsertAt(list, at, e) \in Seq(Entry) /\ Apart(InsertAt(list, at, e))
         /\ Range(InsertAt(list, at, e)) = Range(list) \cup {e}
<1>1. PICK r : r = InsertAt(list, at, e)
  OBVIOUS
<1>2. PICK n \in Nat : n = Len(list) /\ DOMAIN list = 1..n /\ at \in Nat /\ at >= 1 /\ at <= n + 1
  OBVIOUS
<1> DEFINE a == SubSeq(list, 1, at - 1)
           b == SubSeq(list, at, n)
           f == <<e>>
           c == a \o f
<1>3. /\ a \in Seq(Entry) /\ Len(a) = at - 1 /\ \A i \in 1..(at - 1) : a[i] = list[i]
      /\ b \in Seq(Entry) /\ Len(b) = n + 1 - at /\ \A i \in 1..(n + 1 - at) : b[i] = list[i + at - 1]
  <2>1. \A i \in 1..(at - 1) : i \in 1..n
    BY <1>2
  <2>2. \A i \in at..n : i \in 1..n
    BY <1>2
  <2> QED BY <1>2, <2>1, <2>2, SubSeqProperties
<1> HIDE DEF a, b
<1>4. f \in Seq(Entry) /\ Len(f) = 1 /\ f[1] = e
  OBVIOUS
<1> HIDE DEF f
<1>5. c \in Seq(Entry) /\ Len(c) = at /\ c[at] = e /\ \A i \in 1..(at - 1) : c[i] = list[i]
  <2>1. /\ c \in Seq(Entry) /\ Len(c) = (at - 1) + 1
        /\ \A i \in 1..((at - 1) + 1) : c[i] = IF i <= at - 1 THEN a[i] ELSE f[i - (at - 1)]
    <3>1. /\ a \o f \in Seq(Entry) /\ Len(a \o f) = Len(a) + Len(f)
          /\ \A i \in 1..(Len(a) + Len(f)) : (a \o f)[i] = IF i <= Len(a) THEN a[i] ELSE f[i - Len(a)]
      <4>1. a \in Seq(Entry) /\ f \in Seq(Entry)
        BY <1>3, <1>4
      <4> HIDE DEF Entry, c
      <4> QED BY <4>1, ConcatProperties
    <3> QED BY <1>3, <1>4, <3>1
  <2>2. (at - 1) + 1 = at /\ at \in 1..at /\ ~(at <= at - 1) /\ at - (at - 1) = 1
    BY <1>2
  <2>3. \A i \in 1..(at - 1) : i \in 1..at /\ i <= at - 1
    BY <1>2
  <2> HIDE DEF c
  <2> QED BY <1>3, <1>4, <2>1, <2>2, <2>3
<1>6. r = c \o b
  BY <1>1, <1>2 DEF InsertAt, a, b, f
<1> HIDE DEF c
<1>8. r \in Seq(Entry) /\ Len(r) = n + 1
  <2>1. c \o b \in Seq(Entry) /\ Len(c \o b) = Len(c) + Len(b)
    BY <1>3, <1>5, ConcatProperties
  <2>2. at + (n + 1 - at) = n + 1
    BY <1>2
  <2> QED BY <1>3, <1>5, <1>6, <2>1, <2>2
<1>9. /\ r[at] = e /\ \A i \in 1..(at - 1) : r[i] = list[i]
      /\ \A i \in (at + 1)..(n + 1) : r[i] = list[i - 1]
  <2>1. \A i \in 1..(n + 1) : r[i] = IF i <= at THEN c[i] ELSE b[i - at]
    BY <1>2, <1>3, <1>5, <1>6, ConcatProperties
  <2>2. \A i \in (at + 1)..(n + 1) : i - at \in 1..(n + 1 - at) /\ (i - at) + at - 1 = i - 1
    BY <1>2
  <2>3. \A i \in (at + 1)..(n + 1) : i \in 1..(n + 1) /\ ~(i <= at)
    BY <1>2
  <2>4. \A i \in 1..at : i \in 1..(n + 1) /\ i <= at
    BY <1>2
  <2>5. at \in 1..at /\ \A i \in 1..(at - 1) : i \in 1..at
    BY <1>2
  <2>6. \A i \in (at + 1)..(n + 1) : r[i] = list[i - 1]
    <3> SUFFICES ASSUME NEW i \in (at + 1)..(n + 1) PROVE r[i] = list[i - 1]
      OBVIOUS
    <3>1. r[i] = b[i - at]
      BY <2>1, <2>3
    <3>2. b[i - at] = list[(i - at) + at - 1]
      BY <1>3, <2>2
    <3> QED BY <2>2, <3>1, <3>2
  <2> QED BY <1>5, <2>1, <2>4, <2>5, <2>6
<1>10. DOMAIN r = 1..(n + 1) /\ DOMAIN list = 1..n /\ n \in Nat /\ at \in 1..(n + 1)
  BY <1>2, <1>8
<1>11. Range(r) = Range(list) \cup {e}
  <2>1. \A i \in 1..n : IF i < at THEN i \in 1..(n + 1) /\ r[i] = list[i]
                        ELSE i + 1 \in 1..(n + 1) /\ r[i + 1] = list[i]
    <3> SUFFICES ASSUME NEW i \in 1..n
                 PROVE  IF i < at THEN i \in 1..(n + 1) /\ r[i] = list[i]
                        ELSE i + 1 \in 1..(n + 1) /\ r[i + 1] = list[i]
      OBVIOUS
    <3>1. CASE i < at
      <4>1. i \in 1..(at - 1) /\ i \in 1..(n + 1)
        BY <1>10, <3>1
      <4> QED BY <1>9, <3>1, <4>1
    <3>2. CASE ~(i < at)
      <4>1. i + 1 \in (at + 1)..(n + 1) /\ i + 1 \in 1..(n + 1) /\ (i + 1) - 1 = i
        BY <1>10, <3>2
      <4> QED BY <1>9, <3>2, <4>1
    <3> QED BY <3>1, <3>2
  <2>2. \A i \in 1..(n + 1) : i = at \/ (i < at /\ i \in 1..n /\ r[i] = list[i])
                                \/ (i > at /\ i - 1 \in 1..n /\ r[i] = list[i - 1])
    <3> SUFFICES ASSUME NEW i \in 1..(n + 1), i # at
                 PROVE  \/ (i < at /\ i \in 1..n /\ r[i] = list[i])
                        \/ (i > at /\ i - 1 \in 1..n /\ r[i] = list[i - 1])
      OBVIOUS
    <3>1. CASE i < at
      <4>1. i \in 1..(at - 1) /\ i \in 1..n
        BY <1>10, <3>1
      <4> QED BY <1>9, <3>1, <4>1
    <3>2. CASE i > at
      <4>1. i \in (at + 1)..(n + 1) /\ i - 1 \in 1..n
        BY <1>10, <3>2
      <4> QED BY <1>9, <3>2, <4>1
    <3> QED BY <1>10, <3>1, <3>2
  <2>3. \A t : (\E i \in 1..(n + 1) : t = r[i]) <=> (\E i \in 1..n : t = list[i]) \/ t = e
    BY <1>9, <1>10, <2>1, <2>2
  <2>4. Range(r) = {r[k] : k \in 1..(n + 1)} /\ Range(list) = {list[k] : k \in 1..n}
    BY <1>10 DEF Range
  <2> QED BY <2>3, <2>4
<1>12. Apart(r)
  <2> SUFFICES ASSUME NEW i \in 1..(n + 1), NEW j \in 1..(n + 1), r[i][1] = r[j][1] PROVE i = j
    BY <1>10 DEF Apart
  <2> DEFINE From(k) == IF k < at THEN k ELSE k - 1
  <2>1. \A k \in 1..(n + 1) : k # at => From(k) \in 1..n /\ r[k] = list[From(k)]
    <3> SUFFICES ASSUME NEW k \in 1..(n + 1), k # at
                 PROVE  From(k) \in 1..n /\ r[k] = list[From(k)]
      OBVIOUS
    <3>1. CASE k < at
      <4>1. k \in 1..(at - 1) /\ k \in 1..n
        BY <1>10, <3>1
      <4> QED BY <1>9, <3>1, <4>1
    <3>2. CASE k > at
      <4>1. k \in (at + 1)..(n + 1) /\ k - 1 \in 1..n /\ ~(k < at)
        BY <1>10, <3>2
      <4> QED BY <1>9, <3>2, <4>1
    <3> QED BY <1>10, <3>1, <3>2
  <2>2. \A k \in 1..(n + 1) : k # at => r[k][1] # e[1]
    BY <1>10, <2>1 DEF Range
  <2>3. CASE i = at \/ j = at
    BY <1>9, <2>2, <2>3
  <2>4. CASE i # at /\ j # at
    <3>1. From(i) = From(j)
      <4>1. list[From(i)][1] = list[From(j)][1] /\ From(i) \in DOMAIN list /\ From(j) \in DOMAIN list
        BY <1>10, <2>1, <2>4
      <4> HIDE DEF From
      <4> QED BY <4>1 DEF Apart
    <3> QED BY <2>4, <3>1, <1>10
  <2> QED BY <2>3, <2>4
<1> QED BY <1>1, <1>8, <1>11, <1>12

LEMMA AppendApart ==
  ASSUME NEW list \in Seq(Entry), NEW e \in Entry, \A t \in Range(list) : t[1] # e[1], Apart(list)
  PROVE  /\ Append(list, e) \in Seq(Entry) /\ Apart(Append(list, e))
         /\ Range(Append(list, e)) = Range(list) \cup {e}
<1>1. PICK r : r = Append(list, e)
  OBVIOUS
<1>2. /\ r \in Seq(Entry) /\ Len(r) = Len(list) + 1 /\ DOMAIN r = 1..(Len(list) + 1)
      /\ DOMAIN list = 1..Len(list) /\ r[Len(list) + 1] = e /\ \A i \in 1..Len(list) : r[i] = list[i]
  BY <1>1
<1>3. Range(r) = Range(list) \cup {e}
  BY <1>2 DEF Range
<1>4. \A i \in 1..Len(list) : list[i][1] # e[1]
  BY <1>2 DEF Range
<1>5. Apart(r)
  BY <1>2, <1>4 DEF Apart
<1> QED BY <1>1, <1>2, <1>3, <1>5

LEMMA PaneFacts ==
  ASSUME NEW list \in Seq(Entry), NEW p
  PROVE  /\ (InPane(list, p) = {}) <=> (\A t \in Range(list) : t[2] # p)
         /\ \A t \in Range(list) : t[2] = p => t[1] \in KeysIn(list, p)
         /\ \A k \in KeysIn(list, p) : \E t \in Range(list) : t[1] = k /\ t[2] = p
         /\ KeysIn(list, p) \subseteq AllKeys
<1>1. \A i \in DOMAIN list : list[i] \in Entry /\ list[i][1] \in AllKeys
  BY DEF Entry
<1> QED BY <1>1 DEF InPane, KeysIn, Range

LEMMA LastIs ==
  ASSUME NEW list \in Seq(Entry), NEW p, InPane(list, p) # {}
  PROVE  list[Max(InPane(list, p))][1] \in KeysIn(list, p)
<1> DEFINE P == InPane(list, p)
           S == {Len(list) - i : i \in P}
<1>1. P \subseteq 1..Len(list) /\ Len(list) \in Nat
  BY DEF InPane
<1>2. \E i \in P : \A j \in P : i >= j
  <2>1. S \in SUBSET Nat /\ S # {}
    BY <1>1
  <2>2. PICK m \in S : \A n \in S : m <= n
    <3> HIDE DEF S
    <3> QED BY <2>1, LeastOf
  <2>3. PICK i \in P : m = Len(list) - i
    BY <2>2
  <2>4. \A j \in P : Len(list) - i <= Len(list) - j
    BY <2>2, <2>3
  <2> HIDE DEF P
  <2> QED BY <1>1, <2>3, <2>4
<1> HIDE DEF P
<1>3. Max(P) \in P
  BY <1>2 DEF Max
<1> QED BY <1>3 DEF P, KeysIn

(* What settlePanes leaves on screen is a tab of the pane, if it has one.   *)
LEMMA Settles ==
  ASSUME NEW list \in Seq(Entry), NEW cur, NEW want
  PROVE  /\ Settled(cur, list, want) \in [Panes -> AllKeys \cup {NoTab}]
         /\ \A p \in Panes : IF InPane(list, p) = {} THEN Settled(cur, list, want)[p] = NoTab
                             ELSE Settled(cur, list, want)[p] \in KeysIn(list, p)
<1>1. PICK s : s = Settled(cur, list, want)
  OBVIOUS
<1>2. ASSUME NEW p \in Panes
      PROVE  IF InPane(list, p) = {} THEN s[p] = NoTab ELSE s[p] \in KeysIn(list, p)
  <2>1. InPane(list, p) = {} => KeysIn(list, p) = {}
    BY DEF KeysIn
  <2>2. InPane(list, p) # {} => list[Max(InPane(list, p))][1] \in KeysIn(list, p)
    BY LastIs
  <2>3. \/ s[p] \in KeysIn(list, p)
        \/ s[p] = IF InPane(list, p) = {} THEN NoTab ELSE list[Max(InPane(list, p))][1]
    BY <1>1 DEF Settled
  <2> QED BY <2>1, <2>2, <2>3
<1>3. \A p \in Panes : s[p] \in AllKeys \cup {NoTab}
  BY <1>2, PaneFacts
<1>4. s \in [Panes -> AllKeys \cup {NoTab}]
  BY <1>1, <1>3 DEF Settled
<1> QED BY <1>1, <1>2, <1>4

LEMMA PaneIs ==
  ASSUME NEW list \in Seq(Entry), Apart(list), NEW k \in KeysOf(list)
  PROVE  /\ <<k, PaneOf(list, k)>> \in Range(list) /\ PaneOf(list, k) \in Panes /\ k \in AllKeys
         /\ \A t \in Range(list) : t[1] = k => t[2] = PaneOf(list, k)
<1> DEFINE t == CHOOSE u \in Range(list) : u[1] = k
<1>1. t \in Range(list) /\ t[1] = k
  BY DEF KeysOf
<1>2. PaneOf(list, k) = t[2]
  BY DEF PaneOf
<1> HIDE DEF t
<1>3. t \in Entry
  BY <1>1 DEF Range
<1>4. t = <<t[1], t[2]>> /\ t[1] \in AllKeys /\ t[2] \in Panes
  BY <1>3 DEF Entry
<1>5. \A u \in Range(list) : u[1] = k => u = t
  BY <1>1 DEF Apart, Range
<1> QED BY <1>1, <1>2, <1>4, <1>5

-----------------------------------------------------------------------------
(***************************************************************************)
(* Why each pane shows one of its tabs: the property is inductive with the  *)
(* types, given that no key is in the strip twice.                          *)
(***************************************************************************)

TabsInv == TabsTypeOK /\ PanesShowTheirTabs

LEMMA TabsKnown ==
  ASSUME TabsTypeOK
  PROVE  tabs \in Seq(Entry) /\ Apart(tabs)
BY DEF TabsTypeOK, Entry, Apart

LEMMA Rearranged ==
  ASSUME TabsInv, NEW list \in Seq(Entry), Apart(list), NEW want, NEW focus \in Panes,
         NEW splits \in BOOLEAN, ~strayed /\ ~Folds(list) => splits,
         Rearrange(list, want, focus, splits), UNCHANGED <<later, strayed>>
  PROVE  TabsInv'
<1>1. /\ tabs' = list /\ active' = Settled(active, list, want) /\ later' = later /\ strayed' = strayed
      /\ split' = (splits /\ ~Folds(list)) /\ focused' = IF Folds(list) THEN 0 ELSE focus
  BY DEF Rearrange
<1>2. Folds(list) <=> InPane(list, 1) = {}
  BY DEF Folds
<1>3. TabsTypeOK'
  <2>1. active' \in [Panes -> AllKeys \cup {NoTab}]
    BY <1>1, Settles
  <2>2. focused' \in Panes /\ split' \in BOOLEAN
    BY <1>1 DEF Panes
  <2> QED BY <1>1, <2>1, <2>2 DEF TabsInv, TabsTypeOK, Entry, Apart
<1>4. PanesShowTheirTabs'
  <2> SUFFICES ASSUME ~strayed PROVE PanesShowTheirTabs'
    BY <1>1 DEF PanesShowTheirTabs
  <2>1. split' <=> ~Folds(list)
    BY <1>1
  <2>2. focused' = 1 => split'
    BY <1>1, <2>1
  <2>3. \A p \in Panes : IF InPane(list, p) = {} THEN active'[p] = NoTab ELSE active'[p] \in KeysIn(list, p)
    BY <1>1, Settles
  <2>4. /\ InPane(tabs, 1)' = InPane(list, 1)
        /\ \A p \in Panes : InPane(tabs, p)' = InPane(list, p) /\ KeysIn(tabs, p)' = KeysIn(list, p)
    BY <1>1 DEF InPane, KeysIn
  <2> QED BY <1>2, <2>1, <2>2, <2>3, <2>4 DEF PanesShowTheirTabs
<1> QED BY <1>3, <1>4 DEF TabsInv

(* No list of which some tabs are left has a tab in pane 1 that had none.   *)
LEMMA Dropped ==
  ASSUME TabsInv, NEW ks, NEW want, Rearrange(Without(tabs, ks), want, focused, split),
         UNCHANGED <<later, strayed>>
  PROVE  TabsInv'
<1>1. tabs \in Seq(Entry) /\ Apart(tabs)
  BY TabsKnown DEF TabsInv
<1>2. PICK list \in Seq(Entry) : /\ list = Without(tabs, ks) /\ Apart(list)
                                /\ Range(list) \subseteq Range(tabs)
  BY <1>1, WithoutKeeps
<1>3. ~strayed /\ ~Folds(list) => split
  BY <1>1, <1>2, PaneFacts DEF Folds, TabsInv, PanesShowTheirTabs
<1>4. focused \in Panes /\ split \in BOOLEAN
  BY DEF TabsInv, TabsTypeOK
<1> QED BY <1>2, <1>3, <1>4, Rearranged

LEMMA TabOpened ==
  ASSUME TabsInv, NEW k \in AllKeys, NEW pane \in Panes, AfterOpen(k, pane),
         later' \in [Creations -> Panes \cup {NotUnderWay}]
  PROVE  TabsInv'
<1>1. tabs \in Seq(Entry) /\ Apart(tabs)
  BY TabsKnown DEF TabsInv
<1>2. PICK at : at = IF k \in KeysOf(tabs) THEN PaneOf(tabs, k) ELSE pane
  OBVIOUS
<1>3. /\ tabs' = IF k \in KeysOf(tabs) THEN tabs ELSE Append(tabs, <<k, at>>)
      /\ focused' = at /\ active' = [active EXCEPT ![at] = k]
      /\ strayed' = (strayed \/ (at = 1 /\ ~split)) /\ split' = split
  BY <1>2 DEF AfterOpen
<1>4. at \in Panes
  BY <1>1, <1>2, PaneIs
<1>5. /\ tabs' \in Seq(Entry) /\ Apart(tabs') /\ Range(tabs') = Range(tabs) \cup {<<k, at>>}
  <2>1. CASE k \in KeysOf(tabs)
    <3>1. <<k, at>> \in Range(tabs)
      BY <1>1, <1>2, <2>1, PaneIs
    <3> QED BY <1>1, <1>3, <2>1, <3>1
  <2>2. CASE k \notin KeysOf(tabs)
    <3>1. <<k, at>> \in Entry /\ <<k, at>>[1] = k
      BY <1>4 DEF Entry
    <3>2. \A t \in Range(tabs) : t[1] # k
      BY <2>2 DEF KeysOf
    <3> QED BY <1>1, <1>3, <2>2, <3>1, <3>2, AppendApart
  <2> QED BY <2>1, <2>2
<1>6. TabsTypeOK'
  <2>1. active' \in [Panes -> AllKeys \cup {NoTab}] /\ split' \in BOOLEAN /\ strayed' \in BOOLEAN
    BY <1>3 DEF TabsInv, TabsTypeOK
  <2> QED BY <1>3, <1>4, <1>5, <2>1 DEF TabsInv, TabsTypeOK, Entry, Apart
<1>7. PanesShowTheirTabs'
  <2> SUFFICES ASSUME ~strayed' PROVE PanesShowTheirTabs'
    BY DEF PanesShowTheirTabs
  <2>1. ~strayed /\ (at = 1 => split)
    BY <1>3 DEF TabsInv, TabsTypeOK
  <2>2. PICK list \in Seq(Entry) : list = tabs'
    BY <1>5
  <2>3. ASSUME NEW p \in Panes
        PROVE  /\ (InPane(list, p) = {}) <=> (p # at /\ InPane(tabs, p) = {})
               /\ KeysIn(tabs, p) \subseteq KeysIn(list, p) /\ (p = at => k \in KeysIn(list, p))
    <3>1. PICK e : Range(list) = Range(tabs) \cup {e} /\ e[1] = k /\ e[2] = at
      <4>1. <<k, at>>[1] = k /\ <<k, at>>[2] = at
        OBVIOUS
      <4>2. Range(list) = Range(tabs) \cup {<<k, at>>}
        BY <1>5, <2>2
      <4> QED BY <4>1, <4>2
    <3>2. (InPane(list, p) = {}) <=> (p # at /\ InPane(tabs, p) = {})
      <4>1. (InPane(list, p) = {}) <=> (\A t \in Range(list) : t[2] # p)
        BY PaneFacts
      <4>2. (InPane(tabs, p) = {}) <=> (\A t \in Range(tabs) : t[2] # p)
        BY <1>1, PaneFacts
      <4> QED BY <3>1, <4>1, <4>2
    <3>3. KeysIn(tabs, p) \subseteq KeysIn(list, p)
      <4>1. \A x \in KeysIn(tabs, p) : \E t \in Range(tabs) : t[1] = x /\ t[2] = p
        BY <1>1, PaneFacts
      <4>2. \A t \in Range(list) : t[2] = p => t[1] \in KeysIn(list, p)
        BY PaneFacts
      <4> QED BY <3>1, <4>1, <4>2
    <3>4. p = at => k \in KeysIn(list, p)
      BY <2>2, <3>1, PaneFacts
    <3> QED BY <3>2, <3>3, <3>4
  <2>4. split' <=> InPane(list, 1) # {}
    <3>1. 1 \in Panes
      BY DEF Panes
    <3> QED BY <1>3, <2>1, <2>3, <3>1 DEF TabsInv, PanesShowTheirTabs
  <2>5. \A p \in Panes : IF InPane(list, p) = {} THEN active'[p] = NoTab ELSE active'[p] \in KeysIn(list, p)
    <3> SUFFICES ASSUME NEW p \in Panes
                 PROVE  IF InPane(list, p) = {} THEN active'[p] = NoTab ELSE active'[p] \in KeysIn(list, p)
      OBVIOUS
    <3>1. active'[p] = IF p = at THEN k ELSE active[p]
      BY <1>3 DEF TabsInv, TabsTypeOK
    <3>2. IF InPane(tabs, p) = {} THEN active[p] = NoTab ELSE active[p] \in KeysIn(tabs, p)
      BY <2>1 DEF TabsInv, PanesShowTheirTabs
    <3>3. KeysIn(tabs, p) = {} \/ InPane(tabs, p) # {}
      BY DEF KeysIn
    <3> QED BY <2>3, <3>1, <3>2, <3>3
  <2>6. \A p \in Panes \cup {1} : InPane(tabs, p)' = InPane(list, p) /\ KeysIn(tabs, p)' = KeysIn(list, p)
    BY <2>2 DEF InPane, KeysIn
  <2>7. focused' = 1 => split'
    BY <1>3, <2>1
  <2> QED BY <2>4, <2>5, <2>6, <2>7 DEF PanesShowTheirTabs
<1> QED BY <1>6, <1>7 DEF TabsInv

(* A tab moved to another pane in place, and one put elsewhere in the strip. *)
LEMMA Refiled ==
  ASSUME NEW list \in Seq(Entry), Apart(list), NEW to \in [DOMAIN list -> Panes]
  PROVE  LET r == [i \in DOMAIN list |-> <<list[i][1], to[i]>>]
         IN  /\ r \in Seq(Entry) /\ Apart(r)
             /\ InPane(r, 1) = {i \in DOMAIN list : to[i] = 1}
<1>1. PICK r : r = [i \in DOMAIN list |-> <<list[i][1], to[i]>>]
  OBVIOUS
<1>2. DOMAIN r = DOMAIN list /\ DOMAIN list = 1..Len(list) /\ Len(list) \in Nat
  BY <1>1
<1>3. \A i \in DOMAIN list : r[i] \in Entry /\ r[i][1] = list[i][1] /\ r[i][2] = to[i]
  <2> SUFFICES ASSUME NEW i \in DOMAIN list
               PROVE  r[i] \in Entry /\ r[i][1] = list[i][1] /\ r[i][2] = to[i]
    OBVIOUS
  <2>1. r[i] = <<list[i][1], to[i]>> /\ list[i] \in Entry
    BY <1>1
  <2>2. list[i][1] \in AllKeys
    BY <2>1 DEF Entry
  <2> QED BY <2>1, <2>2 DEF Entry
<1>4. r \in Seq(Entry)
  <2>1. r \in [1..Len(list) -> Entry]
    BY <1>1, <1>2, <1>3
  <2> QED BY <1>2, <2>1
<1>5. Apart(r)
  BY <1>2, <1>3 DEF Apart
<1>6. InPane(r, 1) = {i \in DOMAIN list : to[i] = 1}
  BY <1>2, <1>3 DEF InPane
<1> QED BY <1>1, <1>4, <1>5, <1>6

LEMMA Inserted ==
  ASSUME TabsInv, NEW k \in KeysOf(tabs), NEW p \in Panes,
         NEW at \in 1..(Len(Without(tabs, {k})) + 1)
  PROVE  LET r == InsertAt(Without(tabs, {k}), at, <<k, p>>)
         IN  /\ r \in Seq(Entry) /\ Apart(r)
             /\ Range(r) = {t \in Range(tabs) : t[1] # k} \cup {<<k, p>>}
<1>1. tabs \in Seq(Entry) /\ Apart(tabs)
  BY TabsKnown DEF TabsInv
<1>2. PICK list \in Seq(Entry) : /\ list = Without(tabs, {k}) /\ Apart(list)
                                /\ Range(list) = {t \in Range(tabs) : t[1] \notin {k}}
  BY <1>1, WithoutKeeps
<1>3. PICK e : e = <<k, p>>
  OBVIOUS
<1>4. e \in Entry /\ e[1] = k
  BY <1>1, <1>3, PaneIs DEF Entry
<1>5. \A t \in Range(list) : t[1] # e[1]
  BY <1>2, <1>4
<1>6. at \in 1..(Len(list) + 1)
  BY <1>2
<1>7. /\ InsertAt(list, at, e) \in Seq(Entry) /\ Apart(InsertAt(list, at, e))
      /\ Range(InsertAt(list, at, e)) = Range(list) \cup {e}
  <2>1. Apart(list)
    BY <1>2
  <2> HIDE DEF Entry
  <2> QED BY <1>4, <1>5, <1>6, <2>1, InsertKeeps
<1> QED BY <1>2, <1>3, <1>7

LEMMA OpenStep ==
  ASSUME TabsInv, NEW k \in AllKeys, OpenTab(k) PROVE TabsInv'
BY TabOpened DEF OpenTab, TabsInv, TabsTypeOK

LEMMA BeginStep ==
  ASSUME TabsInv, NEW c \in Creations, BeginCreate(c) PROVE TabsInv'
<1>1. TabsTypeOK'
  BY DEF BeginCreate, TabsInv, TabsTypeOK
<1>2. PanesShowTheirTabs'
  BY DEF BeginCreate, TabsInv, PanesShowTheirTabs, InPane, KeysIn
<1> QED BY <1>1, <1>2 DEF TabsInv

LEMMA CreateStep ==
  ASSUME TabsInv, NEW c \in Creations, NEW k \in Keys, FinishCreate(c, k) PROVE TabsInv'
<1>1. later[c] \in Panes /\ k \in AllKeys
  BY DEF FinishCreate, TabsInv, TabsTypeOK, AllKeys
<1>2. later' \in [Creations -> Panes \cup {NotUnderWay}]
  BY DEF FinishCreate, TabsInv, TabsTypeOK
<1> QED BY <1>1, <1>2, TabOpened DEF FinishCreate

LEMMA MoveStep ==
  ASSUME TabsInv, NEW k \in KeysOf(tabs), NEW p \in Panes, MoveTabToPane(k, p)
  PROVE  TabsInv'
<1>1. tabs \in Seq(Entry) /\ Apart(tabs)
  BY TabsKnown DEF TabsInv
<1> DEFINE to == [i \in DOMAIN tabs |-> IF tabs[i][1] = k THEN p ELSE tabs[i][2]]
           list == [i \in DOMAIN tabs |-> <<tabs[i][1], to[i]>>]
<1>2. \A i \in DOMAIN tabs : tabs[i] = <<tabs[i][1], tabs[i][2]>> /\ tabs[i][2] \in Panes
  <2>1. \A i \in DOMAIN tabs : tabs[i] \in AllKeys \X Panes
    BY <1>1 DEF Entry
  <2> QED BY <2>1
<1>3. to \in [DOMAIN tabs -> Panes]
  BY <1>2
<1>4. Moved(tabs, k, p) = list
  BY <1>2 DEF Moved
<1> HIDE DEF to
<1>5. list \in Seq(Entry) /\ Apart(list) /\ InPane(list, 1) = {i \in DOMAIN tabs : to[i] = 1}
  BY <1>1, <1>3, Refiled
<1>6. ~strayed /\ ~Folds(list) => split \/ p = 1
  <2> SUFFICES ASSUME ~strayed, ~Folds(list), p # 1 PROVE split
    OBVIOUS
  <2>1. PICK i \in DOMAIN tabs : to[i] = 1
    BY <1>5 DEF Folds
  <2>2. tabs[i][2] = 1
    BY <2>1 DEF to
  <2>3. InPane(tabs, 1) # {}
    BY <2>2 DEF InPane
  <2> QED BY <2>3 DEF TabsInv, PanesShowTheirTabs
<1>7. (split \/ p = 1) \in BOOLEAN
  OBVIOUS
<1>8. Rearrange(list, Wanting(p, k), p, split \/ p = 1) /\ UNCHANGED <<later, strayed>>
  BY <1>4 DEF MoveTabToPane
<1> HIDE DEF list
<1> QED BY <1>5, <1>6, <1>7, <1>8, Rearranged

LEMMA UnsplitStep ==
  ASSUME TabsInv, Unsplit PROVE TabsInv'
<1>1. tabs \in Seq(Entry) /\ Apart(tabs)
  BY TabsKnown DEF TabsInv
<1> DEFINE to == [i \in DOMAIN tabs |-> 0]
           list == [i \in DOMAIN tabs |-> <<tabs[i][1], to[i]>>]
<1>2. to \in [DOMAIN tabs -> Panes] /\ 0 \in Panes
  BY DEF Panes
<1>3. list = [i \in DOMAIN tabs |-> <<tabs[i][1], 0>>]
  OBVIOUS
<1>4. \A i \in DOMAIN tabs : to[i] # 1
  OBVIOUS
<1> HIDE DEF to
<1>5. list \in Seq(Entry) /\ Apart(list) /\ InPane(list, 1) = {i \in DOMAIN tabs : to[i] = 1}
  BY <1>1, <1>2, Refiled
<1>6. Folds(list)
  BY <1>4, <1>5 DEF Folds
<1> HIDE DEF list
<1>7. PICK keep : Rearrange(list, Wanting(0, keep), 0, FALSE) /\ UNCHANGED <<later, strayed>>
  BY <1>3 DEF Unsplit
<1> QED BY <1>2, <1>5, <1>6, <1>7, Rearranged

LEMMA AdoptStep ==
  ASSUME TabsInv, NEW k, NEW p \in Panes, AdoptTab(k, p)
  PROVE  TabsInv'
<1>1. k \in KeysOf(tabs) /\ split /\ UNCHANGED <<later, strayed>>
  BY DEF AdoptTab
<1>2. PICK at \in 1..(Len(Without(tabs, {k})) + 1) :
        Rearrange(InsertAt(Without(tabs, {k}), at, <<k, p>>), Wanting(p, k), p, split)
  BY DEF AdoptTab
<1>3. PICK list \in Seq(Entry) : list = InsertAt(Without(tabs, {k}), at, <<k, p>>) /\ Apart(list)
  BY <1>1, Inserted
<1>4. split \in BOOLEAN
  BY DEF TabsInv, TabsTypeOK
<1> QED BY <1>1, <1>2, <1>3, <1>4, Rearranged

LEMMA ReorderStep ==
  ASSUME TabsInv, NEW k, MoveTab(k)
  PROVE  TabsInv'
<1>1. k \in KeysOf(tabs) /\ UNCHANGED <<active, focused, split, later, strayed>>
  BY DEF MoveTab
<1>2. PICK at \in 1..(Len(Without(tabs, {k})) + 1) :
        tabs' = InsertAt(Without(tabs, {k}), at, <<k, PaneOf(tabs, k)>>)
  BY DEF MoveTab
<1>3. tabs \in Seq(Entry) /\ Apart(tabs)
  BY TabsKnown DEF TabsInv
<1>4. /\ <<k, PaneOf(tabs, k)>> \in Range(tabs) /\ PaneOf(tabs, k) \in Panes
      /\ \A t \in Range(tabs) : t[1] = k => t[2] = PaneOf(tabs, k)
  BY <1>1, <1>3, PaneIs
<1>5. PICK list \in Seq(Entry) :
        /\ list = tabs' /\ Apart(list)
        /\ Range(list) = {t \in Range(tabs) : t[1] # k} \cup {<<k, PaneOf(tabs, k)>>}
  BY <1>1, <1>2, <1>4, Inserted
<1>6. Range(list) = Range(tabs)
  <2>1. \A t \in Range(tabs) : t = <<t[1], t[2]>>
    <3>1. \A t \in Range(tabs) : t \in AllKeys \X Panes
      BY <1>3 DEF Entry, Range
    <3> QED BY <3>1
  <2>2. \A t \in Range(tabs) : t[1] = k => t = <<k, PaneOf(tabs, k)>>
    BY <1>4, <2>1
  <2> QED BY <1>4, <1>5, <2>2
<1>7. TabsTypeOK'
  BY <1>1, <1>5 DEF TabsInv, TabsTypeOK, Entry, Apart
<1>8. \A p \in Panes : InPane(list, p) = {} <=> InPane(tabs, p) = {}
  BY <1>3, <1>6, PaneFacts
<1>9. \A p \in Panes : KeysIn(list, p) = KeysIn(tabs, p)
  <2> SUFFICES ASSUME NEW p \in Panes PROVE KeysIn(list, p) = KeysIn(tabs, p)
    OBVIOUS
  <2>1. \A x \in KeysIn(list, p) : x \in KeysIn(tabs, p)
    BY <1>3, <1>6, PaneFacts
  <2>2. \A x \in KeysIn(tabs, p) : x \in KeysIn(list, p)
    BY <1>3, <1>6, PaneFacts
  <2> QED BY <2>1, <2>2
<1>10. /\ \A p \in Panes : InPane(tabs, p)' = InPane(list, p) /\ KeysIn(tabs, p)' = KeysIn(list, p)
       /\ InPane(tabs, 1)' = InPane(list, 1) /\ 1 \in Panes
  BY <1>5 DEF InPane, KeysIn, Panes
<1>11. PanesShowTheirTabs'
  BY <1>1, <1>8, <1>9, <1>10 DEF TabsInv, PanesShowTheirTabs
<1> QED BY <1>7, <1>11 DEF TabsInv

LEMMA CloseStep ==
  ASSUME TabsInv, NEW k, NEW p,
         DropTab(k) \/ CloseTabsToRight(k) \/ CloseOtherTabs(k) \/ CloseAllTabs(p)
  PROVE  TabsInv'
<1>1. \E ks, want : Rearrange(Without(tabs, ks), want, focused, split)
  BY DEF DropTab, CloseTabsToRight, CloseOtherTabs, CloseAllTabs
<1>2. UNCHANGED <<later, strayed>>
  BY DEF DropTab, CloseTabsToRight, CloseOtherTabs, CloseAllTabs
<1> QED BY <1>1, <1>2, Dropped

LEMMA ShowStep ==
  ASSUME TabsInv, NEW k, NEW p \in Panes, Select(k) \/ Focus(p)
  PROVE  TabsInv'
<1>1. tabs \in Seq(Entry) /\ Apart(tabs)
  BY TabsKnown DEF TabsInv
<1>2. CASE Focus(p)
  <2>1. TabsTypeOK'
    BY <1>2 DEF Focus, TabsInv, TabsTypeOK
  <2>2. PanesShowTheirTabs'
    BY <1>2 DEF Focus, TabsInv, PanesShowTheirTabs, InPane, KeysIn
  <2> QED BY <2>1, <2>2 DEF TabsInv
<1>3. CASE Select(k)
  <2>1. PICK at : at = PaneOf(tabs, k)
    OBVIOUS
  <2>2. /\ k \in KeysOf(tabs) /\ (at = 1 => split) /\ active' = [active EXCEPT ![at] = k]
        /\ focused' = at /\ UNCHANGED <<tabs, split, later, strayed>>
    BY <1>3, <2>1 DEF Select
  <2>3. PICK t \in Range(tabs) : t[1] = k /\ t[2] = at
    <3>1. <<k, at>> \in Range(tabs)
      BY <1>1, <2>1, <2>2, PaneIs
    <3>2. <<k, at>>[1] = k /\ <<k, at>>[2] = at
      OBVIOUS
    <3> QED BY <3>1, <3>2
  <2>4. at \in Panes /\ k \in AllKeys
    BY <1>1, <2>1, <2>2, PaneIs
  <2>5. k \in KeysIn(tabs, at) /\ InPane(tabs, at) # {}
    BY <1>1, <2>3, PaneFacts
  <2>6. TabsTypeOK'
    BY <2>2, <2>4 DEF TabsInv, TabsTypeOK
  <2>7. \A q \in Panes : active'[q] = IF q = at THEN k ELSE active[q]
    BY <2>2 DEF TabsInv, TabsTypeOK
  <2>8. PanesShowTheirTabs'
    BY <2>2, <2>5, <2>7 DEF TabsInv, PanesShowTheirTabs, InPane, KeysIn
  <2> QED BY <2>6, <2>8 DEF TabsInv
<1> QED BY <1>2, <1>3

LEMMA TopicStep ==
  ASSUME TabsInv, TopicDeleted PROVE TabsInv'
<1>1. tabs \in Seq(Entry) /\ Apart(tabs)
  BY TabsKnown DEF TabsInv
<1> DEFINE lists == [i \in DOMAIN Views |-> Without(tabs, {Views[i]})]
           n == Len(Views)
           T == [Panes -> AllKeys \cup {NoTab}]
<1>2. n \in Nat /\ n # 0 /\ DOMAIN Views = 1..n
  <2>1. Views \in Seq(Range(Views)) /\ Range(Views) # {}
    BY TabsAssumption DEF TopicDeleted
  <2>2. n = 0 => Range(Views) = {}
    BY <2>1 DEF Range
  <2> QED BY <2>1, <2>2
<1>3. DOMAIN lists = 1..n /\ Len(lists) = n /\ \A i \in 1..n : lists[i] \in Seq(Entry) /\ Apart(lists[i])
  <2>1. \A i \in 1..n : lists[i] = Without(tabs, {Views[i]})
    BY <1>2
  <2>2. DOMAIN lists = 1..n
    BY <1>2
  <2>3. Len(lists) = n
    <3> HIDE DEF n, lists
    <3>1. lists \in [1..n -> {lists[i] : i \in 1..n}]
      BY <2>2 DEF lists
    <3> QED BY <1>2, <3>1
  <2>4. \A i \in 1..n : Without(tabs, {Views[i]}) \in Seq(Entry) /\ Apart(Without(tabs, {Views[i]}))
    BY <1>1, WithoutKeeps
  <2> HIDE DEF lists
  <2> QED BY <2>1, <2>2, <2>3, <2>4
<1>4. /\ DropAll(lists) /\ strayed' = TRUE /\ later' = later
  BY DEF TopicDeleted
<1> HIDE DEF lists, n
<1>5. active' \in T
  <2> DEFINE F == [x \in (1..n) \X T |-> Settled(x[2], lists[x[1]], Anything)]
             Goes(g) == g = [m \in 0..n |-> IF m = 0 THEN active ELSE Settled(g[m - 1], lists[m], Anything)]
  <2>1. F \in [(1..n) \X T -> T] /\ active \in T
    <3>1. \A i \in 1..n, c \in T : Settled(c, lists[i], Anything) \in T
      BY <1>3, Settles
    <3>2. active \in T
      BY DEF TabsInv, TabsTypeOK
    <3> HIDE DEF T
    <3> QED BY <3>1, <3>2
  <2>2. PICK g \in [0..n -> T] : g[0] = active /\ \A i \in 1..n : g[i] = F[<<i, g[i - 1]>>]
    <3> HIDE DEF F, T
    <3>1. Iterated(T, n, active, F)
      BY <1>2, <2>1, Iterates
    <3> QED BY <3>1 DEF Iterated
  <2>3. Goes(g)
    <3>1. \A i \in 1..n : g[i] = Settled(g[i - 1], lists[i], Anything)
      <4> SUFFICES ASSUME NEW i \in 1..n PROVE g[i] = Settled(g[i - 1], lists[i], Anything)
        OBVIOUS
      <4>1. i - 1 \in 0..n
        BY <1>2
      <4>2. <<i, g[i - 1]>> \in (1..n) \X T
        BY <2>2, <4>1
      <4> HIDE DEF T
      <4> QED BY <2>2, <4>2
    <3>2. \A m \in 0..n : m # 0 => m \in 1..n
      BY <1>2
    <3> HIDE DEF T, F
    <3> QED BY <2>2, <3>1, <3>2
  <2> DEFINE c == CHOOSE k : Goes(k)
  <2>4. Goes(c)
    BY <2>3
  <2>5. active' = c[n]
    BY <1>3, <1>4 DEF DropAll
  <2> HIDE DEF c
  <2>6. c[n] = Settled(c[n - 1], lists[n], Anything)
    BY <1>2, <2>4
  <2> QED BY <1>2, <1>3, <2>5, <2>6, Settles
<1>6. tabs' \in Seq(Entry) /\ Apart(tabs')
  <2>1. tabs' = lists[n]
    BY <1>3, <1>4 DEF DropAll, Last
  <2> QED BY <1>2, <1>3, <2>1
<1>7. split' \in BOOLEAN /\ focused' \in Panes
  BY <1>4 DEF DropAll, TabsInv, TabsTypeOK, Panes
<1>8. TabsTypeOK'
  BY <1>4, <1>5, <1>6, <1>7 DEF TabsInv, TabsTypeOK, Entry, Apart
<1> QED BY <1>4, <1>8 DEF TabsInv, PanesShowTheirTabs

LEMMA ResetStep ==
  ASSUME TabsInv, ResetTabs PROVE TabsInv'
<1>1. InPane(<<>>, 1) = {} /\ \A p \in Panes : InPane(<<>>, p) = {}
  BY DEF InPane
<1>2. TabsTypeOK'
  <2>1. tabs' = <<>> /\ active' = [p \in Panes |-> NoTab] /\ focused' = 0 /\ split' = FALSE
    BY DEF ResetTabs
  <2>2. later' \in [Creations -> Panes \cup {NotUnderWay}] /\ strayed' \in BOOLEAN
    BY DEF ResetTabs, TabsInv, TabsTypeOK
  <2> QED BY <2>1, <2>2 DEF TabsTypeOK, Panes
<1>3. PanesShowTheirTabs'
  BY <1>1 DEF ResetTabs, PanesShowTheirTabs, InPane
<1> QED BY <1>2, <1>3 DEF TabsInv

LEMMA TabsStart == TabsInit => TabsInv
<1> SUFFICES ASSUME TabsInit PROVE TabsInv
  OBVIOUS
<1>1. InPane(<<>>, 1) = {} /\ \A p \in Panes : InPane(<<>>, p) = {}
  BY DEF InPane
<1>2. TabsTypeOK
  BY DEF TabsInit, TabsTypeOK, Panes, NotUnderWay
<1>3. PanesShowTheirTabs
  BY <1>1 DEF TabsInit, PanesShowTheirTabs
<1> QED BY <1>2, <1>3 DEF TabsInv

LEMMA TabsStep == TabsInv /\ [TabsNext]_tabVars => TabsInv'
<1> SUFFICES ASSUME TabsInv, [TabsNext]_tabVars PROVE TabsInv'
  OBVIOUS
<1>1. CASE UNCHANGED tabVars
  BY <1>1 DEF tabVars, TabsInv, TabsTypeOK, PanesShowTheirTabs, InPane, KeysIn
<1>2. ASSUME NEW k \in AllKeys, OpenTab(k) PROVE TabsInv'
  BY <1>2, OpenStep
<1>3. ASSUME NEW k \in AllKeys, DropTab(k) \/ CloseTabsToRight(k) \/ CloseOtherTabs(k) PROVE TabsInv'
  BY <1>3, CloseStep
<1>4. ASSUME NEW k \in AllKeys, Select(k) PROVE TabsInv'
  <2>1. 0 \in Panes
    BY DEF Panes
  <2> QED BY <1>4, <2>1, ShowStep
<1>5. ASSUME NEW c \in Creations, NEW k \in Keys, FinishCreate(c, k) PROVE TabsInv'
  BY <1>5, CreateStep
<1>6. ASSUME NEW k \in AllKeys, NEW p \in Panes, MoveTabToPane(k, p) \/ AdoptTab(k, p) PROVE TabsInv'
  <2>1. CASE MoveTabToPane(k, p)
    <3>1. k \in KeysOf(tabs)
      BY <2>1 DEF MoveTabToPane
    <3> QED BY <2>1, <3>1, MoveStep
  <2>2. CASE AdoptTab(k, p)
    BY <2>2, AdoptStep
  <2> QED BY <1>6, <2>1, <2>2
<1>7. ASSUME NEW k \in AllKeys, MoveTab(k) PROVE TabsInv'
  BY <1>7, ReorderStep
<1>8. ASSUME NEW p \in Panes, CloseAllTabs(p) \/ Focus(p) PROVE TabsInv'
  BY <1>8, CloseStep, ShowStep
<1>9. ASSUME NEW c \in Creations, BeginCreate(c) PROVE TabsInv'
  BY <1>9, BeginStep
<1>10. CASE SplitOff
  <2>1. MoveTabToPane(active[0], 1) /\ 1 \in Panes
    BY <1>10 DEF SplitOff, Panes
  <2>2. active[0] \in KeysOf(tabs)
    BY <2>1 DEF MoveTabToPane
  <2> QED BY <2>1, <2>2, MoveStep
<1>11. CASE Unsplit \/ TopicDeleted \/ ResetTabs
  BY <1>11, UnsplitStep, TopicStep, ResetStep
<1> QED BY <1>1, <1>2, <1>3, <1>4, <1>5, <1>6, <1>7, <1>8, <1>9, <1>10, <1>11 DEF TabsNext

(* The strip, and what each pane shows, have the types the handlers expect:  *)
(* no key is open twice (openTab).                                          *)
THEOREM TabsTypeCorrect == TabsSpec => []TabsTypeOK
<1>1. TabsInv => TabsTypeOK
  BY DEF TabsInv
<1> QED BY <1>1, TabsStart, TabsStep, PTL DEF TabsSpec

(* The split is there exactly while pane 1 has tabs, and each pane shows one *)
(* of its own (settlePanes), whatever is opened, moved or closed.           *)
THEOREM PanesAgree == TabsSpec => []PanesShowTheirTabs
<1>1. TabsInv => PanesShowTheirTabs
  BY DEF TabsInv
<1> QED BY <1>1, TabsStart, TabsStep, PTL DEF TabsSpec
=============================================================================
