--------------------------- MODULE Readers_proofs ---------------------------
(***************************************************************************)
(* Proofs about Readers, for every value of its constants: any set of      *)
(* relevant lines, any limits, any number of lines, failures, restarts and *)
(* requests.                                                               *)
(***************************************************************************)
EXTENDS Readers, SequenceTheorems, FiniteSetTheorems, TLAPS

-----------------------------------------------------------------------------
(* What makes the invariants of Readers inductive.                         *)

\* A sequence of lines in the order of their ids.
Ascending(s) == \A i, j \in 1..Len(s) : i < j => s[i] < s[j]

\* The journal holds lines that were appended, in order, and a line in doubt is there.
JournalInv ==
  /\ spent.lines <= MaxLines
  /\ \A i \in 1..Len(journal) : journal[i] <= spent.lines
  /\ Ascending(journal)
  /\ inDoubt => journal # <<>>

\* No position is ahead of what was ever appended, so that new lines are before it.
PositionsInv ==
  \A l \in Lanes : /\ ckpt[l] # None => ckpt[l].cursor <= spent.lines
                   /\ base[l] <= spent.lines

\* What a run at this cursor has left: lines behind the cursor in order, none newer than
\* the last one appended, and no line of the journal is missing among them.
Ahead(cursor, left, lines, last) ==
  /\ \A i \in 1..Len(left) : cursor < left[i] /\ left[i] <= last
  /\ Ascending(left)
  /\ \A id \in lines :
       cursor < id /\ (\E j \in 1..Len(left) : id <= left[j]) => \E i \in 1..Len(left) : left[i] = id

\* A run goes on where its lane's checkpoint says, or has lost that line.
RunInv ==
  op # None =>
    /\ ckpt[op.lane] \in Checkpoint
    /\ op.stage \in {"entries", "child", "ack"} => Ahead(ckpt[op.lane].cursor, op.left, Lines, spent.lines)
    /\ op.stage \in {"child", "ack"} => op.left # <<>>
    /\ op.stage = "gap" => ckpt[op.lane].cursor \notin Lines

\* The one invocation there may be: of the run in progress, or an orphan that keeps the lock.
ChildInv ==
  /\ \A c, d \in children : c = d
  /\ \A c \in children :
       /\ ckpt[c.lane] \in Checkpoint
       /\ ckpt[c.lane].phase = "running" /\ ckpt[c.lane].inflight = c.id
       /\ IF c.orphan THEN op = None
          ELSE op # None /\ op.stage = "child" /\ op.lane = c.lane

\* Recovery is attached at or before fresh delivery, as far as lines are retained.
AttachedInv ==
  ~halfway => \A id \in Lines : base["fresh"] < id => base["replay"] < id

ReadersInv ==
  /\ TypeOK /\ JournalInv /\ PositionsInv /\ RunInv /\ ChildInv /\ AttachedInv
  /\ ReplaySkipsNothing

-----------------------------------------------------------------------------
(* Scans.                                                                  *)

LEMMA IdsFacts == Ids \subseteq Nat \ {0}
  BY ReaderAssumption DEF Ids

\* What SubSeq keeps of a sequence: the elements from one position to another.
LEMMA PartFacts ==
  ASSUME NEW S, NEW q \in Seq(S), NEW k \in Nat, NEW m \in Nat, k <= m, m <= Len(q)
  PROVE  /\ SubSeq(q, k + 1, m) \in Seq(S)
         /\ Len(SubSeq(q, k + 1, m)) = m - k
         /\ \A i \in 1..m - k : SubSeq(q, k + 1, m)[i] = q[k + i]
  <1>1. Len(q) \in Nat /\ \A i \in 1..Len(q) : q[i] \in S
    BY LenProperties, ElementOfSeq
  <1> DEFINE s == SubSeq(q, k + 1, m)
  <1>2. k + 1 \in Int /\ m \in Int /\ \A i \in k + 1..m : q[i] \in S
    BY <1>1
  <1>3. /\ s \in Seq(S)
        /\ Len(s) = IF k + 1 <= m THEN m - (k + 1) + 1 ELSE 0
        /\ \A i \in 1..m - (k + 1) + 1 : s[i] = q[(k + 1) + i - 1]
    BY <1>2, SubSeqProperties
  <1> HIDE DEF s
  <1>4. Len(s) = m - k
    BY <1>3
  <1>5. ASSUME NEW i \in 1..m - k
        PROVE  s[i] = q[k + i]
    <2>1. i \in 1..m - (k + 1) + 1 /\ (k + 1) + i - 1 = k + i
      OBVIOUS
    <2>2. QED
      BY <1>3, <2>1
  <1>6. QED
    BY <1>3, <1>4, <1>5 DEF s

LEMMA ToSetFacts ==
  ASSUME NEW S, NEW q \in Seq(S)
  PROVE  /\ Len(q) \in Nat /\ DOMAIN q = 1..Len(q) /\ ToSet(q) \subseteq S
         /\ \A i \in 1..Len(q) : q[i] \in S /\ q[i] \in ToSet(q)
         /\ \A x \in ToSet(q) : \E i \in 1..Len(q) : q[i] = x
  BY LenProperties, ElementOfSeq DEF ToSet

LEMMA LineFacts ==
  ASSUME journal \in Seq(Ids)
  PROVE  /\ Len(journal) \in Nat /\ DOMAIN journal = 1..Len(journal) /\ Lines \subseteq Ids
         /\ \A i \in 1..Len(journal) : journal[i] \in Ids /\ journal[i] \in Lines
         /\ \A id \in Lines : id \in Ids /\ \E i \in 1..Len(journal) : journal[i] = id
  BY ToSetFacts DEF Lines

\* The tail is the last line that was appended and is still there.
LEMMA TailFacts ==
  ASSUME ReadersInv
  PROVE  /\ JournalTail \in Nat /\ JournalTail <= spent.lines
         /\ \A id \in Lines : id <= JournalTail
  <1>1. journal \in Seq(Ids) /\ JournalInv /\ spent.lines \in Nat
    BY DEF ReadersInv, TypeOK
  <1>2. CASE journal = <<>>
    BY <1>1, <1>2, LineFacts DEF JournalTail, NoCursor, Ids
  <1>3. CASE journal # <<>>
    <2>1. Len(journal) \in Nat \ {0} /\ JournalTail = journal[Len(journal)]
      BY <1>1, <1>3, EmptySeq, LenProperties DEF JournalTail, Last
    <2>2. JournalTail \in Ids /\ JournalTail <= spent.lines
      BY <1>1, <2>1, LineFacts DEF JournalInv
    <2>3. ASSUME NEW id \in Lines
          PROVE  id <= JournalTail
      <3>1. PICK i \in 1..Len(journal) : journal[i] = id
        BY <1>1, LineFacts
      <3>2. i = Len(journal) \/ journal[i] < journal[Len(journal)]
        BY <1>1, <2>1 DEF JournalInv, Ascending
      <3>3. journal[i] \in Nat /\ journal[Len(journal)] \in Nat
        BY <1>1, <2>1, LineFacts DEF Ids
      <3>4. QED
        BY <2>1, <3>1, <3>2, <3>3
    <2>4. QED
      BY <2>2, <2>3 DEF Ids
  <1>4. QED
    BY <1>2, <1>3

\* A scan gives exactly the lines behind its cursor, in their order.
LEMMA AfterFacts ==
  ASSUME ReadersInv, NEW cursor \in Nat, Anchored(cursor)
  PROVE  After(cursor) \in Seq(Ids) /\ Ahead(cursor, After(cursor), Lines, spent.lines)
  <1>1. /\ journal \in Seq(Ids) /\ JournalInv /\ Len(journal) \in Nat /\ spent.lines \in Nat
        /\ \A i \in 1..Len(journal) : journal[i] \in Nat /\ journal[i] >= 1
    BY LineFacts DEF ReadersInv, TypeOK, Ids
  <1>2. CASE cursor = NoCursor
    <2>1. After(cursor) = journal
      BY <1>2 DEF After
    <2>2. QED
      BY <1>1, <1>2, <2>1, LineFacts DEF Ahead, JournalInv, NoCursor
  <1>3. CASE cursor # NoCursor
    <2> DEFINE k == Position(cursor)
    <2>1. k \in 1..Len(journal) /\ journal[k] = cursor
      <3>1. \E i \in DOMAIN journal : journal[i] = cursor
        BY <1>1, <1>3, LineFacts DEF Anchored
      <3>2. k \in DOMAIN journal /\ journal[k] = cursor
        BY <3>1 DEF Position
      <3>3. QED
        BY <1>1, <3>2, LineFacts
    <2> DEFINE s == After(cursor)
    <2>2. /\ s \in Seq(Ids) /\ Len(s) = Len(journal) - k
          /\ \A i \in 1..Len(s) : s[i] = journal[k + i]
      <3>1. k \in Nat /\ Len(journal) \in Nat /\ k <= Len(journal) /\ Len(journal) <= Len(journal)
        BY <1>1, <2>1
      <3>2. s = SubSeq(journal, k + 1, Len(journal))
        BY <1>3 DEF After
      <3> HIDE DEF s, k
      <3>3. Len(s) = Len(journal) - k /\ s \in Seq(Ids)
        BY <1>1, <3>1, <3>2, PartFacts
      <3>4. QED
        BY <1>1, <3>1, <3>2, <3>3, PartFacts
    <2> HIDE DEF s, k
    <2>3. ASSUME NEW i \in 1..Len(s)
          PROVE  k + i \in 1..Len(journal) /\ s[i] = journal[k + i] /\ k < k + i
      BY <1>1, <2>1, <2>2
    <2>4. /\ \A i \in 1..Len(s) : cursor < s[i] /\ s[i] <= spent.lines
          /\ Ascending(s)
      <3>1. \A i \in 1..Len(s) : cursor < s[i] /\ s[i] <= spent.lines
        BY <1>1, <2>1, <2>3 DEF JournalInv, Ascending
      <3>2. ASSUME NEW i \in 1..Len(s), NEW j \in 1..Len(s), i < j
            PROVE  s[i] < s[j]
        <4>1. k + i < k + j
          BY <2>1, <3>2
        <4>2. QED
          BY <1>1, <2>3, <4>1 DEF JournalInv, Ascending
      <3>3. QED
        BY <3>1, <3>2 DEF Ascending
    <2>5. ASSUME NEW id \in Lines, cursor < id
          PROVE  \E i \in 1..Len(s) : s[i] = id
      <3>1. PICK j \in 1..Len(journal) : journal[j] = id
        BY <1>1, LineFacts
      <3>2. k < j
        BY <1>1, <2>1, <2>5, <3>1 DEF JournalInv, Ascending
      <3>3. j - k \in 1..Len(s) /\ s[j - k] = id
        BY <1>1, <2>1, <2>2, <3>1, <3>2
      <3>4. QED
        BY <3>3
    <2>6. QED
      BY <2>2, <2>4, <2>5 DEF Ahead, s
  <1>4. QED
    BY <1>2, <1>3

\* What is left of a run behind its first line.
LEMMA AheadTail ==
  ASSUME NEW cursor \in Nat, NEW left \in Seq(Ids), left # <<>>,
         NEW lines \in SUBSET Nat, NEW last \in Nat, Ahead(cursor, left, lines, last)
  PROVE  /\ Head(left) \in Ids /\ cursor < Head(left) /\ Head(left) <= last
         /\ Tail(left) \in Seq(Ids)
         /\ Ahead(Head(left), Tail(left), lines, last)
         /\ \A id \in lines : cursor < id /\ id <= Head(left) => id = Head(left)
  <1>1. /\ Len(left) \in Nat \ {0} /\ Head(left) = left[1]
        /\ Tail(left) \in Seq(Ids) /\ Len(Tail(left)) = Len(left) - 1
        /\ \A i \in 1..Len(Tail(left)) : Tail(left)[i] = left[i + 1]
    BY EmptySeq, LenProperties, HeadTailProperties
  <1>2. \A i \in 1..Len(left) : left[i] \in Nat /\ left[i] \in Ids
    BY LenProperties, ElementOfSeq, IdsFacts
  <1>3. /\ \A i \in 1..Len(left) : cursor < left[i] /\ left[i] <= last
        /\ \A i, j \in 1..Len(left) : i < j => left[i] < left[j]
    BY DEF Ahead, Ascending
  <1>4. Head(left) \in Ids /\ cursor < Head(left) /\ Head(left) <= last
    BY <1>1, <1>2, <1>3
  <1>5. \A i \in 1..Len(Tail(left)) : Head(left) < Tail(left)[i] /\ Tail(left)[i] <= last
    BY <1>1, <1>3
  <1>6. Ascending(Tail(left))
    BY <1>1, <1>3 DEF Ascending
  <1>7. ASSUME NEW id \in lines, cursor < id, id <= Head(left)
        PROVE  id = Head(left)
    <2>1. PICK i \in 1..Len(left) : left[i] = id
      BY <1>1, <1>7 DEF Ahead
    <2>2. i = 1 \/ left[1] < left[i]
      BY <1>1, <1>3
    <2>3. QED
      BY <1>1, <1>2, <1>7, <2>1, <2>2
  <1>8. ASSUME NEW id \in lines, Head(left) < id, NEW j \in 1..Len(Tail(left)), id <= Tail(left)[j]
        PROVE  \E i \in 1..Len(Tail(left)) : Tail(left)[i] = id
    <2>1. id \in Nat /\ cursor < id
      <3>1. id \in Nat /\ Head(left) \in Nat
        BY <1>1, <1>2
      <3>2. QED
        BY <1>4, <1>8, <3>1
    <2>2. PICK i \in 1..Len(left) : left[i] = id
      <3>1. j + 1 \in 1..Len(left) /\ id <= left[j + 1]
        BY <1>1, <1>8
      <3>2. QED
        BY <2>1, <3>1 DEF Ahead
    <2>3. i # 1
      BY <1>1, <1>2, <1>8, <2>1, <2>2
    <2>4. i - 1 \in 1..Len(Tail(left)) /\ Tail(left)[i - 1] = id
      BY <1>1, <2>2, <2>3
    <2>5. QED
      BY <2>4
  <1>9. QED
    BY <1>1, <1>4, <1>5, <1>6, <1>7, <1>8 DEF Ahead

\* A run stays valid when the journal forgets lines, takes the last one back or grows.
LEMMA AheadOfOthers ==
  ASSUME NEW cursor \in Nat, NEW left \in Seq(Ids), NEW lines \in SUBSET Nat, NEW last \in Nat,
         NEW others \in SUBSET Nat, NEW later \in Nat, last <= later,
         \A id \in others : id \in lines \/ id > last,
         Ahead(cursor, left, lines, last)
  PROVE  Ahead(cursor, left, others, later)
  <1>1. \A i \in 1..Len(left) : left[i] \in Nat
    BY LenProperties, ElementOfSeq, IdsFacts
  <1>2. \A i \in 1..Len(left) : cursor < left[i] /\ left[i] <= later
    BY <1>1 DEF Ahead
  <1>3. ASSUME NEW id \in others, cursor < id, NEW j \in 1..Len(left), id <= left[j]
        PROVE  \E i \in 1..Len(left) : left[i] = id
    <2>1. id \in lines
      BY <1>1, <1>3 DEF Ahead
    <2>2. QED
      BY <1>3, <2>1 DEF Ahead
  <1>4. QED
    BY <1>2, <1>3 DEF Ahead

-----------------------------------------------------------------------------
(* What most steps leave alone.                                            *)

Bounds == {"lines", "failures", "stops", "requests"}

LEMMA SpendFacts ==
  ASSUME TypeOK, NEW what \in Bounds, Spend(what)
  PROVE  /\ spent' \in [lines : Nat, failures : Nat, stops : Nat, requests : Nat]
         /\ spent'.lines = IF what = "lines" THEN spent.lines + 1 ELSE spent.lines
  <1>1. spent \in [lines : Nat, failures : Nat, stops : Nat, requests : Nat]
    BY DEF TypeOK
  <1>2. spent' = [spent EXCEPT ![what] = spent[what] + 1] /\ spent[what] \in Nat
    BY <1>1 DEF Spend, Bounds
  <1>3. CASE what = "lines"
    BY <1>1, <1>2, <1>3
  <1>4. CASE what = "failures"
    BY <1>1, <1>2, <1>4
  <1>5. CASE what = "stops"
    BY <1>1, <1>2, <1>5
  <1>6. CASE what = "requests"
    BY <1>1, <1>2, <1>6
  <1>7. QED
    BY <1>3, <1>4, <1>5, <1>6 DEF Bounds

LEMMA JournalStays ==
  ASSUME ReadersInv, UNCHANGED journalVars, spent'.lines = spent.lines
  PROVE  JournalInv' /\ Lines' = Lines
  BY DEF ReadersInv, JournalInv, journalVars, Lines

LEMMA CheckpointsStay ==
  ASSUME ReadersInv, UNCHANGED <<journalVars, ckpt, base, handled, halfway>>, spent'.lines = spent.lines
  PROVE  PositionsInv' /\ AttachedInv' /\ ReplaySkipsNothing'
  <1>1. Lines' = Lines
    BY JournalStays
  <1>2. PositionsInv'
    BY DEF ReadersInv, PositionsInv
  <1>3. AttachedInv'
    BY <1>1 DEF ReadersInv, AttachedInv
  <1>4. ReplaySkipsNothing'
    BY <1>1 DEF ReadersInv, ReplaySkipsNothing, Behind
  <1>5. QED
    BY <1>2, <1>3, <1>4

LEMMA RunStays ==
  ASSUME ReadersInv, UNCHANGED <<journalVars, ckpt, op>>, spent'.lines = spent.lines
  PROVE  RunInv'
  <1>1. Lines' = Lines
    BY JournalStays
  <1>2. QED
    BY <1>1 DEF ReadersInv, RunInv

LEMMA ChildStays ==
  ASSUME ReadersInv, UNCHANGED <<ckpt, op, children>>
  PROVE  ChildInv'
  BY DEF ReadersInv, ChildInv

LEMMA LockFacts ==
  ASSUME LockFree
  PROVE  op = None /\ children = {}
  BY DEF LockFree

LEMMA NothingRuns ==
  ASSUME op' = None, children' = {}
  PROVE  RunInv' /\ ChildInv'
  BY DEF RunInv, ChildInv

\* The position of a lane moves backwards in its generation only when its line is lost.
Progress ==
  \A l \in Lanes :
    ckpt[l] # None /\ ckpt'[l].generation = ckpt[l].generation
      /\ ckpt'[l].cursor < ckpt[l].cursor => ckpt[l].cursor \notin Lines

LEMMA ProgressStays ==
  ASSUME TypeOK, UNCHANGED ckpt
  PROVE  Progress
  BY DEF Progress, TypeOK, Checkpoint

LEMMA FailedFacts ==
  ASSUME ReadersInv, NEW lane \in Lanes, Failed(lane) \/ Succeeded(lane)
  PROVE  /\ up' \in BOOLEAN /\ initialized' \in BOOLEAN
         /\ turn' \in {"attachReplay", "attachFresh", "init", "fresh", "skip", "replay"}
         /\ fails' \in [Lanes -> 0..FailureLimit]
  <1>1. /\ FailureLimit \in Nat \ {0} /\ fails \in [Lanes -> 0..FailureLimit]
        /\ up \in BOOLEAN /\ initialized \in BOOLEAN
    BY ReaderAssumption DEF ReadersInv, TypeOK
  <1>2. OneMore(fails[lane]) \in 0..FailureLimit /\ 0 \in 0..FailureLimit
    BY <1>1 DEF OneMore
  <1>3. fails' = [fails EXCEPT ![lane] = OneMore(fails[lane])] \/ fails' = [fails EXCEPT ![lane] = 0]
    BY DEF Failed, Succeeded
  <1>4. fails' \in [Lanes -> 0..FailureLimit]
    BY <1>1, <1>2, <1>3
  <1>5. QED
    BY <1>1, <1>4 DEF Failed, Succeeded, NextRound

\* A lane starts over: at the tail, or recovery at the beginning.
LEMMA NewGenerationFacts ==
  ASSUME ReadersInv, NEW lane \in Lanes, NEW cursor \in Nat, NewGeneration(lane, cursor),
         cursor = JournalTail \/ (lane = "replay" /\ cursor = NoCursor),
         UNCHANGED journalVars, spent'.lines = spent.lines
  PROVE  /\ ckpt' \in [Lanes -> Checkpoint \cup {None}]
         /\ ckpt'[lane] \in Checkpoint /\ ckpt'[lane].cursor = cursor
         /\ base' \in [Lanes -> Nat] /\ handled' \in [Lanes -> SUBSET Ids]
         /\ tries' \in 0..FailureLimit /\ halfway' \in BOOLEAN
         /\ PositionsInv' /\ AttachedInv' /\ ReplaySkipsNothing' /\ Progress
  <1>1. cursor <= spent.lines /\ (cursor # NoCursor => \A id \in Lines : id <= cursor)
    BY TailFacts DEF NoCursor, ReadersInv, TypeOK
  <1>2. Lines' = Lines /\ Lines \subseteq Nat \ {0}
    BY JournalStays, LineFacts, IdsFacts DEF ReadersInv, TypeOK
  <1> DEFINE new == Initial(NextGeneration(lane), cursor)
  <1>3. /\ new \in Checkpoint /\ new.cursor = cursor
        /\ ckpt[lane] # None => new.generation # ckpt[lane].generation
    BY DEF ReadersInv, TypeOK, Checkpoint, Initial, NextGeneration
  <1>4. /\ ckpt' = [ckpt EXCEPT ![lane] = new]
        /\ base' = [base EXCEPT ![lane] = cursor] /\ handled' = [handled EXCEPT ![lane] = {}]
        /\ tries' = IF lane = "fresh" THEN 0 ELSE tries
        /\ halfway' = (lane = "replay" /\ cursor # NoCursor)
    BY DEF NewGeneration
  <1> HIDE DEF new
  <1>5. /\ ckpt \in [Lanes -> Checkpoint \cup {None}] /\ base \in [Lanes -> Nat]
        /\ handled \in [Lanes -> SUBSET Ids] /\ tries \in 0..FailureLimit /\ FailureLimit \in Nat
        /\ PositionsInv
    BY ReaderAssumption DEF ReadersInv, TypeOK
  <1>6. /\ ckpt' \in [Lanes -> Checkpoint \cup {None}] /\ ckpt'[lane] = new
        /\ base' \in [Lanes -> Nat] /\ handled' \in [Lanes -> SUBSET Ids]
        /\ \A l \in Lanes : l # lane => ckpt'[l] = ckpt[l] /\ base'[l] = base[l] /\ handled'[l] = handled[l]
        /\ base'[lane] = cursor /\ handled'[lane] = {}
    BY <1>3, <1>4, <1>5
  <1>7. tries' \in 0..FailureLimit /\ halfway' \in BOOLEAN
    BY <1>4, <1>5
  <1>8. PositionsInv'
    BY <1>1, <1>3, <1>5, <1>6 DEF PositionsInv
  <1>9. AttachedInv'
    <2>1. CASE lane = "fresh"
      BY <1>1, <1>2, <1>5, <1>6, <2>1, TailFacts DEF AttachedInv
    <2>2. CASE lane = "replay" /\ cursor # NoCursor
      BY <1>4, <2>2 DEF AttachedInv
    <2>3. CASE lane = "replay" /\ cursor = NoCursor
      BY <1>2, <1>6, <2>3 DEF AttachedInv, NoCursor
    <2>4. QED
      BY <2>1, <2>2, <2>3 DEF Lanes
  <1>10. ReplaySkipsNothing'
    <2>1. CASE lane = "replay"
      <3>1. ASSUME NEW id \in Behind("replay")'
            PROVE  FALSE
        <4>1. new # None /\ ckpt'["replay"] = new /\ base'["replay"] = cursor
          BY <1>3, <1>6, <2>1, NoneAssumption
        <4>2. id \in Lines' /\ cursor < id /\ id <= cursor
          BY <1>3, <3>1, <4>1 DEF Behind
        <4>3. QED
          BY <1>2, <4>2
      <3>2. QED
        BY <3>1 DEF ReplaySkipsNothing
    <2>2. CASE lane # "replay"
      BY <1>2, <1>6, <2>2 DEF ReadersInv, ReplaySkipsNothing, Behind, Lanes
    <2>3. QED
      BY <2>1, <2>2
  <1>11. Progress
    BY <1>3, <1>5, <1>6 DEF Progress, Checkpoint
  <1>12. QED
    BY <1>3, <1>6, <1>7, <1>8, <1>9, <1>10, <1>11

\* A lane gets another checkpoint: its position stays, moves forward over lines that
\* recovery has handled, or starts again because its line is lost.
LEMMA CheckpointMoves ==
  ASSUME ReadersInv, NEW lane \in Lanes, ckpt[lane] \in Checkpoint, NEW c \in Checkpoint,
         ckpt' = [ckpt EXCEPT ![lane] = c], c.cursor <= spent.lines,
         ckpt[lane].cursor <= c.cursor \/ ckpt[lane].cursor \notin Lines,
         lane = "replay" => \A id \in Lines : ckpt[lane].cursor < id /\ id <= c.cursor
                                               => id \in handled'["replay"],
         handled' \in [Lanes -> SUBSET Ids], handled["replay"] \subseteq handled'["replay"],
         UNCHANGED <<journalVars, base, halfway>>, spent'.lines = spent.lines
  PROVE  /\ ckpt' \in [Lanes -> Checkpoint \cup {None}] /\ ckpt'[lane] = c
         /\ \A l \in Lanes : l # lane => ckpt'[l] = ckpt[l]
         /\ PositionsInv' /\ AttachedInv' /\ ReplaySkipsNothing' /\ Progress
  <1>1. /\ ckpt \in [Lanes -> Checkpoint \cup {None}] /\ base \in [Lanes -> Nat] /\ PositionsInv
        /\ AttachedInv /\ ReplaySkipsNothing /\ Lines \subseteq Nat /\ Lines' = Lines
        /\ ckpt[lane].cursor \in Nat /\ c.cursor \in Nat /\ ckpt[lane] # None /\ c # None
    BY JournalStays, LineFacts, IdsFacts, NoneAssumption DEF ReadersInv, TypeOK, Checkpoint
  <1>2. /\ ckpt' \in [Lanes -> Checkpoint \cup {None}] /\ ckpt'[lane] = c
        /\ \A l \in Lanes : l # lane => ckpt'[l] = ckpt[l]
    BY <1>1
  <1>3. PositionsInv'
    BY <1>1, <1>2 DEF PositionsInv
  <1>4. AttachedInv'
    BY <1>1 DEF AttachedInv
  <1>5. ReplaySkipsNothing'
    <2>1. ASSUME NEW id \in Behind("replay")'
          PROVE  id \in handled'["replay"]
      <3>1. /\ ckpt'["replay"] # None /\ id \in Lines
            /\ base["replay"] < id /\ id <= ckpt'["replay"].cursor
        BY <1>1, <2>1 DEF Behind
      <3>2. CASE lane # "replay"
        BY <1>1, <1>2, <3>1, <3>2 DEF ReplaySkipsNothing, Behind, Lanes
      <3>3. CASE lane = "replay" /\ ckpt[lane].cursor < id
        BY <1>2, <3>1, <3>3
      <3>4. CASE lane = "replay" /\ id <= ckpt[lane].cursor
        BY <1>1, <3>1, <3>4 DEF ReplaySkipsNothing, Behind
      <3>5. id \in Nat
        BY <1>1, <3>1
      <3>6. QED
        BY <1>1, <3>2, <3>3, <3>4, <3>5
    <2>2. QED
      BY <2>1 DEF ReplaySkipsNothing
  <1>6. Progress
    BY <1>1, <1>2 DEF Progress, Checkpoint
  <1>7. QED
    BY <1>2, <1>3, <1>4, <1>5, <1>6

-----------------------------------------------------------------------------
(* The steps: the writer.                                                  *)

\* The journal loses lines at its ends.
LEMMA PartOfJournal ==
  ASSUME ReadersInv, NEW k \in Nat, NEW m \in Nat, k <= m, m <= Len(journal),
         journal' = SubSeq(journal, k + 1, m), spent' = spent
  PROVE  /\ journal' \in Seq(Ids) /\ Len(journal') = m - k
         /\ \A i \in 1..Len(journal') : journal'[i] <= spent'.lines
         /\ Ascending(journal') /\ Lines' \subseteq Lines
  <1>1. /\ journal \in Seq(Ids) /\ Len(journal) \in Nat
        /\ \A i \in 1..Len(journal) : journal[i] <= spent.lines /\ journal[i] \in Lines
        /\ \A i, j \in 1..Len(journal) : i < j => journal[i] < journal[j]
    BY LineFacts DEF ReadersInv, TypeOK, JournalInv, Ascending
  <1>2. /\ journal' \in Seq(Ids) /\ Len(journal') = m - k
        /\ \A i \in 1..m - k : journal'[i] = journal[k + i]
    BY <1>1, PartFacts
  <1>3. \A i \in 1..Len(journal') : journal'[i] = journal[k + i] /\ k + i \in 1..Len(journal)
    BY <1>1, <1>2
  <1>4. \A i \in 1..Len(journal') : journal'[i] <= spent'.lines /\ journal'[i] \in Lines
    BY <1>1, <1>3
  <1>5. ASSUME NEW i \in 1..Len(journal'), NEW j \in 1..Len(journal'), i < j
        PROVE  journal'[i] < journal'[j]
    <2>1. k + i < k + j
      BY <1>2, <1>5
    <2>2. QED
      BY <1>1, <1>3, <2>1
  <1>6. Lines' \subseteq Lines
    <2>1. Lines' = {journal'[i] : i \in 1..Len(journal')}
      BY <1>2, LenProperties DEF Lines, ToSet
    <2>2. QED
      BY <1>4, <2>1
  <1>7. QED
    BY <1>2, <1>4, <1>5, <1>6 DEF Ascending

\* What any step of the writer does to the lines.
LEMMA WriterFacts ==
  ASSUME ReadersInv, WriterStep
  PROVE  /\ journal' \in Seq(Ids) /\ inDoubt' \in BOOLEAN /\ retracted' \subseteq Ids
         /\ spent' \in [lines : Nat, failures : Nat, stops : Nat, requests : Nat]
         /\ spent.lines <= spent'.lines /\ JournalInv'
         /\ \A id \in Lines' : id \in Lines \/ id > spent.lines
  <1>1. /\ journal \in Seq(Ids) /\ inDoubt \in BOOLEAN /\ retracted \subseteq Ids /\ TypeOK
        /\ spent \in [lines : Nat, failures : Nat, stops : Nat, requests : Nat]
        /\ JournalInv /\ Len(journal) \in Nat /\ MaxLines \in Nat /\ spent.lines \in Nat
        /\ \A i \in 1..Len(journal) : journal[i] \in Ids
    BY LineFacts, ReaderAssumption DEF ReadersInv, TypeOK
  <1>2. CASE /\ spent.lines < MaxLines /\ Writer!Extend(spent.lines + 1)
             /\ Spend("lines") /\ UNCHANGED retracted
    <2> DEFINE new == spent.lines + 1
    <2>1. /\ journal' = Append(journal, new) /\ inDoubt' = TRUE /\ retracted' = retracted
          /\ \A i \in 1..Len(journal) : journal[i] < new
      BY <1>2 DEF Writer!Extend
    <2>2. new \in Ids /\ new \in Nat /\ spent.lines < new
      BY <1>1, <1>2 DEF Ids
    <2>3. /\ spent' \in [lines : Nat, failures : Nat, stops : Nat, requests : Nat]
          /\ spent'.lines = new
      BY <1>1, <1>2, SpendFacts DEF Bounds
    <2>4. new <= MaxLines
      BY <1>1, <1>2
    <2> HIDE DEF new
    <2>5. /\ journal' \in Seq(Ids) /\ Len(journal') = Len(journal) + 1
          /\ \A i \in 1..Len(journal) : journal'[i] = journal[i]
          /\ journal'[Len(journal) + 1] = new
      BY <1>1, <2>1, <2>2, AppendProperties
    <2>6. \A i \in 1..Len(journal') : (i \in 1..Len(journal) /\ journal'[i] = journal[i])
                                      \/ (i = Len(journal) + 1 /\ journal'[i] = new)
      BY <1>1, <2>5
    <2>7. \A i \in 1..Len(journal) : journal[i] \in Lines /\ journal[i] \in Nat
      BY <1>1, LineFacts, IdsFacts
    <2>8. \A i \in 1..Len(journal') : journal'[i] <= spent'.lines
      BY <2>1, <2>2, <2>3, <2>6, <2>7
    <2>9. Ascending(journal')
      BY <1>1, <2>1, <2>2, <2>6, <2>7 DEF JournalInv, Ascending
    <2>10. ASSUME NEW id \in Lines'
           PROVE  id \in Lines \/ id > spent.lines
      <3>1. PICK i \in 1..Len(journal') : journal'[i] = id
        BY <2>5, LenProperties DEF Lines, ToSet
      <3>2. QED
        BY <2>2, <2>6, <2>7, <3>1
    <2>11. journal' # <<>>
      BY <1>1, <2>5, EmptySeq
    <2>12. JournalInv'
      BY <2>3, <2>4, <2>8, <2>9, <2>11 DEF JournalInv
    <2>13. QED
      BY <1>1, <2>1, <2>2, <2>3, <2>5, <2>10, <2>12
  <1>3. CASE Writer!Confirm /\ UNCHANGED <<retracted, spent>>
    <2>1. journal' = journal /\ inDoubt' = FALSE /\ retracted' = retracted /\ spent' = spent
      BY <1>3 DEF Writer!Confirm
    <2>2. Lines' = Lines
      BY <2>1 DEF Lines
    <2>3. JournalInv'
      BY <1>1, <2>1 DEF JournalInv
    <2>4. inDoubt' \in BOOLEAN
      BY <2>1
    <2>5. /\ journal' \in Seq(Ids) /\ retracted' \subseteq Ids /\ spent.lines <= spent'.lines
          /\ spent' \in [lines : Nat, failures : Nat, stops : Nat, requests : Nat]
      BY <1>1, <2>1
    <2>6. QED
      BY <2>2, <2>3, <2>4, <2>5
  <1>4. CASE Writer!Confirmed > 0 /\ Writer!Forget(1) /\ UNCHANGED <<retracted, spent>>
    <2>1. journal' = SubSeq(journal, 1 + 1, Len(journal)) /\ inDoubt' = inDoubt
      BY <1>4 DEF Writer!Forget
    <2>2. 1 <= Len(journal) /\ (inDoubt => 2 <= Len(journal))
      BY <1>1, <1>4 DEF Writer!Confirmed
    <2>3. /\ journal' \in Seq(Ids) /\ Len(journal') = Len(journal) - 1
          /\ \A i \in 1..Len(journal') : journal'[i] <= spent'.lines
          /\ Ascending(journal') /\ Lines' \subseteq Lines
      <3>1. 1 \in Nat /\ Len(journal) <= Len(journal) /\ spent' = spent
        BY <1>1, <1>4
      <3>2. QED
        BY <1>1, <2>1, <2>2, <3>1, PartOfJournal
    <2>4. inDoubt' => journal' # <<>>
      <3>1. inDoubt' => Len(journal') # 0
        BY <1>1, <2>1, <2>2, <2>3
      <3>2. QED
        BY <3>1, EmptySeq
    <2>5. QED
      BY <1>1, <1>4, <2>1, <2>3, <2>4 DEF JournalInv
  <1>5. CASE Writer!Retract(0) /\ retracted' = retracted \cup {Last(journal)} /\ UNCHANGED spent
    <2>1. inDoubt /\ ~inDoubt' /\ inDoubt' \in BOOLEAN
          /\ journal' = SubSeq(journal, 0 + 1, Len(journal) - 1)
      BY <1>5 DEF Writer!Retract
    <2>2. 1 <= Len(journal) /\ Len(journal) - 1 \in Nat
      BY <1>1, <2>1, EmptySeq DEF JournalInv
    <2>3. /\ journal' \in Seq(Ids)
          /\ \A i \in 1..Len(journal') : journal'[i] <= spent'.lines
          /\ Ascending(journal') /\ Lines' \subseteq Lines
      <3>1. 0 <= Len(journal) - 1 /\ Len(journal) - 1 <= Len(journal)
        BY <1>1, <2>2
      <3>2. QED
        BY <1>5, <2>1, <2>2, <3>1, PartOfJournal
    <2>4. Last(journal) \in Ids
      BY <1>1, <2>2 DEF Last
    <2>5. QED
      BY <1>1, <1>5, <2>1, <2>3, <2>4 DEF JournalInv
  <1>6. QED
    BY <1>2, <1>3, <1>4, <1>5 DEF WriterStep

LEMMA WriterKeepsInv ==
  ASSUME ReadersInv, WriterStep
  PROVE  ReadersInv' /\ Progress
  <1>1. /\ TypeOK /\ PositionsInv /\ RunInv /\ ChildInv /\ AttachedInv /\ ReplaySkipsNothing
        /\ spent.lines \in Nat /\ spent'.lines \in Nat /\ spent.lines <= spent'.lines
        /\ \A id \in Lines' : id \in Lines \/ id > spent.lines
        /\ Lines \subseteq Nat /\ Lines' \subseteq Nat
    <2>1. journal \in Seq(Ids) /\ journal' \in Seq(Ids)
      BY WriterFacts DEF ReadersInv, TypeOK
    <2>2. Lines \subseteq Nat /\ Lines' \subseteq Nat
      BY <2>1, ToSetFacts, IdsFacts DEF Lines
    <2>3. QED
      BY <2>2, WriterFacts DEF ReadersInv, TypeOK
  <1>2. UNCHANGED <<ckpt, up, turn, initialized, fails, op, children, base, handled, tries, halfway>>
    BY DEF WriterStep, thread, history
  <1>3. TypeOK'
    BY <1>1, <1>2, WriterFacts DEF TypeOK
  <1>4. PositionsInv'
    BY <1>1, <1>2 DEF PositionsInv, TypeOK, Checkpoint
  <1>5. RunInv'
    <2>1. SUFFICES ASSUME op # None
                   PROVE  RunInv'
      BY <1>2 DEF RunInv
    <2>2. /\ ckpt[op.lane] \in Checkpoint /\ ckpt[op.lane].cursor \in Nat
          /\ op.left \in Seq(Ids) /\ op.lane \in Lanes /\ ckpt[op.lane] # None
      BY <1>1, <2>1, NoneAssumption DEF RunInv, TypeOK, Run, Checkpoint
    <2>3. op.stage \in {"entries", "child", "ack"}
            => Ahead(ckpt[op.lane].cursor, op.left, Lines', spent'.lines)
      BY <1>1, <2>1, <2>2, AheadOfOthers DEF RunInv
    <2>4. op.stage = "gap" => ckpt[op.lane].cursor \notin Lines'
      BY <1>1, <2>1, <2>2 DEF RunInv, PositionsInv
    <2>5. QED
      BY <1>1, <1>2, <2>1, <2>3, <2>4 DEF RunInv
  <1>6. ChildInv'
    BY <1>2, ChildStays
  <1>7. AttachedInv'
    BY <1>1, <1>2 DEF AttachedInv, PositionsInv, TypeOK, Lanes
  <1>8. ReplaySkipsNothing'
    <2>1. ASSUME NEW id \in Behind("replay")'
          PROVE  id \in handled["replay"]
      <3>1. /\ ckpt["replay"] # None /\ id \in Lines'
            /\ base["replay"] < id /\ id <= ckpt["replay"].cursor
        BY <1>2, <2>1 DEF Behind
      <3>2. ckpt["replay"].cursor <= spent.lines /\ ckpt["replay"].cursor \in Nat
        BY <1>1, <3>1 DEF PositionsInv, TypeOK, Lanes, Checkpoint
      <3>3. id \in Lines
        BY <1>1, <3>1, <3>2
      <3>4. QED
        BY <1>1, <3>1, <3>3 DEF ReplaySkipsNothing, Behind
    <2>2. QED
      BY <1>2, <2>1 DEF ReplaySkipsNothing
  <1>9. Progress
    BY <1>1, <1>2, ProgressStays
  <1>10. QED
    BY <1>3, <1>4, <1>5, <1>6, <1>7, <1>8, <1>9, WriterFacts DEF ReadersInv

-----------------------------------------------------------------------------
(* The steps: the reader thread between two runs.                          *)

LEMMA FollowTailKeepsInv ==
  ASSUME ReadersInv, FollowTail
  PROVE  ReadersInv' /\ Progress
  <1>1. /\ TypeOK /\ UNCHANGED <<journal, inDoubt, retracted, op, children>> /\ up' = up
        /\ FailureLimit \in Nat \ {0} /\ fails \in [Lanes -> 0..FailureLimit]
    BY ReaderAssumption DEF ReadersInv, TypeOK, FollowTail, journalVars
  <1>2. /\ turn' \in {"attachReplay", "attachFresh", "init", "fresh", "skip", "replay"}
        /\ initialized' \in BOOLEAN
    BY <1>1 DEF FollowTail, TypeOK
  <1>3. fails' \in [Lanes -> 0..FailureLimit]
    <2>1. OneMore(fails["fresh"]) \in 0..FailureLimit /\ 0 \in 0..FailureLimit
      BY <1>1 DEF OneMore, Lanes
    <2>2. fails' = [fails EXCEPT !["fresh"] = 0] \/ fails' = [fails EXCEPT !["fresh"] = OneMore(fails["fresh"])]
      BY DEF FollowTail
    <2>3. QED
      BY <1>1, <2>1, <2>2
  <1>4. /\ spent' \in [lines : Nat, failures : Nat, stops : Nat, requests : Nat]
        /\ spent'.lines = spent.lines
    BY <1>1, SpendFacts DEF FollowTail, Bounds, TypeOK
  <1>5. JournalInv' /\ Lines' = Lines
    BY <1>1, <1>4, JournalStays DEF journalVars
  <1>6. CASE UNCHANGED <<ckpt, history>>
    <2>1. PositionsInv' /\ AttachedInv' /\ ReplaySkipsNothing' /\ RunInv' /\ ChildInv' /\ Progress
      BY <1>1, <1>4, <1>6, CheckpointsStay, RunStays, ChildStays, ProgressStays DEF history, journalVars
    <2>2. TypeOK'
      BY <1>1, <1>2, <1>3, <1>4, <1>6 DEF TypeOK, history
    <2>3. QED
      BY <1>5, <2>1, <2>2 DEF ReadersInv
  <1>7. CASE LockFree /\ NewGeneration("fresh", JournalTail)
    <2>1. /\ ckpt' \in [Lanes -> Checkpoint \cup {None}]
          /\ base' \in [Lanes -> Nat] /\ handled' \in [Lanes -> SUBSET Ids]
          /\ tries' \in 0..FailureLimit /\ halfway' \in BOOLEAN
          /\ PositionsInv' /\ AttachedInv' /\ ReplaySkipsNothing' /\ Progress
      BY <1>1, <1>4, <1>7, TailFacts, NewGenerationFacts DEF Lanes, journalVars
    <2>2. TypeOK'
      BY <1>1, <1>2, <1>3, <1>4, <2>1 DEF TypeOK
    <2>3. RunInv' /\ ChildInv'
      BY <1>1, <1>7, LockFacts, NothingRuns
    <2>4. QED
      BY <1>5, <2>1, <2>2, <2>3 DEF ReadersInv
  <1>8. QED
    BY <1>6, <1>7 DEF FollowTail

LEMMA ParkedKeepsInv ==
  ASSUME ReadersInv, Parked
  PROVE  ReadersInv' /\ Progress
  <1>1. /\ TypeOK /\ UNCHANGED <<journal, inDoubt, retracted, ckpt, up, initialized, fails, op, children>>
        /\ UNCHANGED <<base, handled, tries, halfway, spent>> /\ turn' = NextRound
    BY DEF ReadersInv, Parked, journalVars, history
  <1>2. TypeOK'
    BY <1>1 DEF TypeOK, NextRound
  <1>3. /\ JournalInv' /\ PositionsInv' /\ AttachedInv' /\ ReplaySkipsNothing' /\ RunInv' /\ ChildInv'
        /\ Progress
    BY <1>1, JournalStays, CheckpointsStay, RunStays, ChildStays, ProgressStays DEF journalVars
  <1>4. QED
    BY <1>2, <1>3 DEF ReadersInv

LEMMA AttachKeepsInv ==
  ASSUME ReadersInv, Attach
  PROVE  ReadersInv' /\ Progress
  <1>1. /\ TypeOK /\ UNCHANGED <<journal, inDoubt, retracted, op, children, up, initialized, fails>>
        /\ turn' \in {"attachReplay", "attachFresh", "init", "fresh", "skip", "replay"}
    BY DEF ReadersInv, TypeOK, Attach, journalVars
  <1>2. /\ spent' \in [lines : Nat, failures : Nat, stops : Nat, requests : Nat]
        /\ spent'.lines = spent.lines
    BY <1>1, SpendFacts DEF Attach, Bounds, TypeOK
  <1>3. JournalInv' /\ Lines' = Lines
    BY <1>1, <1>2, JournalStays DEF journalVars
  <1>4. CASE UNCHANGED <<ckpt, history>>
    <2>1. PositionsInv' /\ AttachedInv' /\ ReplaySkipsNothing' /\ RunInv' /\ ChildInv' /\ Progress
      BY <1>1, <1>2, <1>4, CheckpointsStay, RunStays, ChildStays, ProgressStays DEF history, journalVars
    <2>2. TypeOK'
      BY <1>1, <1>2, <1>4 DEF TypeOK, history
    <2>3. QED
      BY <1>3, <2>1, <2>2 DEF ReadersInv
  <1>5. CASE /\ LockFree
             /\ NewGeneration(IF turn = "attachReplay" THEN "replay" ELSE "fresh", JournalTail)
    <2>1. PICK lane \in Lanes : NewGeneration(lane, JournalTail)
      BY <1>5 DEF Lanes
    <2>2. /\ ckpt' \in [Lanes -> Checkpoint \cup {None}]
          /\ base' \in [Lanes -> Nat] /\ handled' \in [Lanes -> SUBSET Ids]
          /\ tries' \in 0..FailureLimit /\ halfway' \in BOOLEAN
          /\ PositionsInv' /\ AttachedInv' /\ ReplaySkipsNothing' /\ Progress
      BY <1>1, <1>2, <2>1, TailFacts, NewGenerationFacts DEF journalVars
    <2>3. TypeOK'
      BY <1>1, <1>2, <2>2 DEF TypeOK
    <2>4. RunInv' /\ ChildInv'
      BY <1>1, <1>5, LockFacts, NothingRuns
    <2>5. QED
      BY <1>3, <2>2, <2>3, <2>4 DEF ReadersInv
  <1>6. QED
    BY <1>4, <1>5 DEF Attach

LEMMA ReplayCommandKeepsInv ==
  ASSUME ReadersInv, ReplayCommand
  PROVE  ReadersInv' /\ Progress
  <1>1. /\ TypeOK /\ UNCHANGED <<journal, inDoubt, retracted, op, children, up, turn, initialized, fails>>
        /\ LockFree /\ NewGeneration("replay", NoCursor)
    BY DEF ReadersInv, ReplayCommand, journalVars, thread
  <1>2. /\ spent' \in [lines : Nat, failures : Nat, stops : Nat, requests : Nat]
        /\ spent'.lines = spent.lines
    BY <1>1, SpendFacts DEF ReplayCommand, Bounds
  <1>3. /\ ckpt' \in [Lanes -> Checkpoint \cup {None}]
        /\ base' \in [Lanes -> Nat] /\ handled' \in [Lanes -> SUBSET Ids]
        /\ tries' \in 0..FailureLimit /\ halfway' \in BOOLEAN
        /\ PositionsInv' /\ AttachedInv' /\ ReplaySkipsNothing' /\ Progress
    BY <1>1, <1>2, NewGenerationFacts DEF Lanes, NoCursor, journalVars
  <1>4. TypeOK'
    BY <1>1, <1>2, <1>3 DEF TypeOK
  <1>5. JournalInv' /\ RunInv' /\ ChildInv'
    BY <1>1, <1>2, JournalStays, LockFacts, NothingRuns DEF journalVars
  <1>6. QED
    BY <1>3, <1>4, <1>5 DEF ReadersInv

LEMMA SkipKeepsInv ==
  ASSUME ReadersInv, Skip
  PROVE  ReadersInv' /\ Progress
  <1>1. /\ TypeOK /\ UNCHANGED <<journal, inDoubt, retracted, op, children, up, initialized>>
        /\ turn' = "replay" /\ FailureLimit \in Nat \ {0} /\ "fresh" \in Lanes
        /\ base' = base /\ handled' = handled /\ halfway' = halfway
    BY ReaderAssumption DEF ReadersInv, Skip, journalVars, history, Lanes
  <1>2. /\ spent' \in [lines : Nat, failures : Nat, stops : Nat, requests : Nat]
        /\ spent'.lines = spent.lines
    BY <1>1, SpendFacts DEF Skip, Bounds, TypeOK
  <1>3. JournalInv' /\ Lines' = Lines
    BY <1>1, <1>2, JournalStays DEF journalVars
  <1>4. CASE UNCHANGED <<fails, ckpt, history>>
    <2>1. PositionsInv' /\ AttachedInv' /\ ReplaySkipsNothing' /\ RunInv' /\ ChildInv' /\ Progress
      BY <1>1, <1>2, <1>4, CheckpointsStay, RunStays, ChildStays, ProgressStays DEF history, journalVars
    <2>2. TypeOK'
      BY <1>1, <1>2, <1>4 DEF TypeOK, history
    <2>3. QED
      BY <1>3, <2>1, <2>2 DEF ReadersInv
  <1>5. CASE CanSkip /\ ckpt' = SkipsNext /\ fails' = [fails EXCEPT !["fresh"] = 0] /\ tries' = 0
    <2> DEFINE old == ckpt["fresh"]
               new == Head(After(old.cursor))
               c   == [old EXCEPT !.cursor = new, !.inflight = 0, !.phase = "ready"]
    <2>1. /\ LockFree /\ old # None /\ Anchored(old.cursor) /\ After(old.cursor) # <<>>
          /\ old \in Checkpoint /\ old.cursor \in Nat /\ spent.lines \in Nat /\ Lines \subseteq Nat
      BY <1>1, <1>5, LineFacts, IdsFacts DEF CanSkip, TypeOK, Checkpoint
    <2>2. /\ After(old.cursor) \in Seq(Ids)
          /\ Ahead(old.cursor, After(old.cursor), Lines, spent.lines)
      BY <2>1, AfterFacts
    <2>3. new \in Ids /\ new \in Nat /\ old.cursor < new /\ new <= spent.lines
      <3>1. new \in Ids /\ old.cursor < new /\ new <= spent.lines
        BY <2>1, <2>2, AheadTail
      <3>2. QED
        BY <3>1, IdsFacts
    <2>4. c \in Checkpoint /\ c.cursor = new
      BY <2>1, <2>3 DEF Checkpoint
    <2>5. ckpt' = [ckpt EXCEPT !["fresh"] = c]
      BY <1>5 DEF SkipsNext
    <2> HIDE DEF c, new
    <2>6. /\ ckpt' \in [Lanes -> Checkpoint \cup {None}]
          /\ PositionsInv' /\ AttachedInv' /\ ReplaySkipsNothing' /\ Progress
      <3>1. /\ ckpt["fresh"] \in Checkpoint /\ c.cursor <= spent.lines /\ ckpt["fresh"].cursor <= c.cursor
            /\ handled' \in [Lanes -> SUBSET Ids] /\ handled["replay"] \subseteq handled'["replay"]
        BY <1>1, <2>1, <2>3, <2>4 DEF TypeOK
      <3>2. UNCHANGED <<journalVars, base, halfway>>
        BY <1>1 DEF journalVars
      <3>3. QED
        BY <1>1, <1>2, <2>4, <2>5, <3>1, <3>2, CheckpointMoves
    <2>7. TypeOK'
      <3>1. fails' \in [Lanes -> 0..FailureLimit] /\ tries' \in 0..FailureLimit
        BY <1>1, <1>5 DEF TypeOK
      <3>2. QED
        BY <1>1, <1>2, <2>6, <3>1 DEF TypeOK
    <2>8. RunInv' /\ ChildInv'
      BY <1>1, <2>1, LockFacts, NothingRuns
    <2>9. QED
      BY <1>3, <2>6, <2>7, <2>8 DEF ReadersInv
  <1>6. QED
    BY <1>4, <1>5 DEF Skip

LEMMA RebindKeepsInv ==
  ASSUME ReadersInv, NEW lane \in Lanes, Rebind(lane)
  PROVE  ReadersInv' /\ Progress
  <1> DEFINE old == ckpt[lane]
             c   == [old EXCEPT !.generation = NextGeneration(lane), !.inflight = 0, !.phase = "ready"]
  <1>1. /\ TypeOK /\ UNCHANGED <<journal, inDoubt, retracted, op, children, up, turn, initialized, fails>>
        /\ LockFree /\ old # None /\ UNCHANGED <<base, handled, tries, halfway>>
    BY DEF ReadersInv, Rebind, journalVars, thread, history
  <1>2. /\ spent' \in [lines : Nat, failures : Nat, stops : Nat, requests : Nat]
        /\ spent'.lines = spent.lines
    BY <1>1, SpendFacts DEF Rebind, Bounds
  <1>3. /\ old \in Checkpoint /\ old.cursor \in Nat /\ old.cursor <= spent.lines
        /\ handled \in [Lanes -> SUBSET Ids]
    BY <1>1 DEF ReadersInv, TypeOK, PositionsInv, Checkpoint
  <1>4. c \in Checkpoint /\ c.cursor = old.cursor
    <2>1. NextGeneration(lane) \in Nat \ {0}
      BY <1>1, <1>3 DEF NextGeneration, Checkpoint
    <2>2. QED
      BY <1>3, <2>1 DEF Checkpoint
  <1>5. ckpt' = [ckpt EXCEPT ![lane] = c]
    BY DEF Rebind
  <1> HIDE DEF c
  <1>6. /\ ckpt' \in [Lanes -> Checkpoint \cup {None}]
        /\ PositionsInv' /\ AttachedInv' /\ ReplaySkipsNothing' /\ Progress
    <2>1. \A id \in Lines : ~(old.cursor < id /\ id <= c.cursor)
      <3>1. Lines \subseteq Nat
        BY <1>1, LineFacts, IdsFacts DEF TypeOK
      <3>2. QED
        BY <1>3, <1>4, <3>1
    <2>2. /\ ckpt[lane] \in Checkpoint /\ c.cursor <= spent.lines /\ ckpt[lane].cursor <= c.cursor
          /\ handled' \in [Lanes -> SUBSET Ids] /\ handled["replay"] \subseteq handled'["replay"]
      BY <1>1, <1>3, <1>4
    <2>3. UNCHANGED <<journalVars, base, halfway>>
      BY <1>1 DEF journalVars
    <2>4. QED
      BY <1>2, <1>4, <1>5, <2>1, <2>2, <2>3, CheckpointMoves
  <1>7. TypeOK'
    BY <1>1, <1>2, <1>6 DEF TypeOK
  <1>8. JournalInv' /\ RunInv' /\ ChildInv'
    BY <1>1, <1>2, JournalStays, LockFacts, NothingRuns DEF journalVars
  <1>9. QED
    BY <1>6, <1>7, <1>8 DEF ReadersInv

-----------------------------------------------------------------------------
(* The steps: a run.                                                       *)

LEMMA BeginKeepsInv ==
  ASSUME ReadersInv, NEW lane \in Lanes, Begin(lane)
  PROVE  ReadersInv' /\ Progress
  <1> DEFINE cursor == IF ckpt[lane] # None THEN ckpt[lane].cursor
                       ELSE IF lane = "fresh" THEN JournalTail ELSE NoCursor
  <1>1. /\ TypeOK /\ UNCHANGED <<journal, inDoubt, retracted, up, turn, initialized, fails, children, spent>>
        /\ op = None /\ children = {}
    BY LockFacts DEF ReadersInv, Begin, journalVars, thread
  <1>2. cursor \in Nat /\ JournalTail \in Nat /\ ckpt \in [Lanes -> Checkpoint \cup {None}]
    BY <1>1, TailFacts DEF TypeOK, Checkpoint, NoCursor
  <1>3. JournalInv' /\ Lines' = Lines /\ spent' = spent
    BY <1>1, JournalStays DEF journalVars
  <1>4. /\ ckpt' \in [Lanes -> Checkpoint \cup {None}]
        /\ ckpt'[lane] \in Checkpoint /\ ckpt'[lane].cursor = cursor
        /\ base' \in [Lanes -> Nat] /\ handled' \in [Lanes -> SUBSET Ids]
        /\ tries' \in 0..FailureLimit /\ halfway' \in BOOLEAN
        /\ PositionsInv' /\ AttachedInv' /\ ReplaySkipsNothing' /\ Progress
    <2>1. CASE ckpt[lane] = None
      <3>1. NewGeneration(lane, cursor) /\ (cursor = JournalTail \/ (lane = "replay" /\ cursor = NoCursor))
        BY <2>1 DEF Begin, Lanes
      <3> HIDE DEF cursor
      <3>2. QED
        BY <1>1, <1>2, <3>1, NewGenerationFacts DEF journalVars
    <2>2. CASE ckpt[lane] # None
      <3>1. UNCHANGED <<ckpt, base, handled, tries, halfway>>
        BY <2>2 DEF Begin, history
      <3>2. ckpt[lane] \in Checkpoint /\ cursor = ckpt[lane].cursor
        BY <1>2, <2>2
      <3>3. /\ base' \in [Lanes -> Nat] /\ handled' \in [Lanes -> SUBSET Ids]
            /\ tries' \in 0..FailureLimit /\ halfway' \in BOOLEAN
        BY <1>1, <3>1 DEF TypeOK
      <3>4. PositionsInv' /\ AttachedInv' /\ ReplaySkipsNothing' /\ Progress
        BY <1>1, <3>1, CheckpointsStay, ProgressStays DEF journalVars
      <3>5. QED
        BY <1>2, <3>1, <3>2, <3>3, <3>4
    <2>3. QED
      BY <2>1, <2>2
  <1>5. /\ op' \in Run /\ op'.lane = lane /\ op'.stage \in {"entries", "gap"}
        /\ op'.stage = "entries" => Ahead(cursor, op'.left, Lines, spent.lines)
        /\ op'.stage = "gap" => cursor \notin Lines
    <2>1. op' = [lane |-> lane, stage |-> IF Anchored(cursor) THEN "entries" ELSE "gap",
                 left |-> IF Anchored(cursor) THEN After(cursor) ELSE <<>>, done |-> 0, invoked |-> 0]
      BY DEF Begin
    <2> HIDE DEF cursor
    <2>2. CASE Anchored(cursor)
      <3>1. After(cursor) \in Seq(Ids) /\ Ahead(cursor, After(cursor), Lines, spent.lines)
        BY <1>2, <2>2, AfterFacts
      <3>2. QED
        BY <2>1, <2>2, <3>1 DEF Run
    <2>3. CASE ~Anchored(cursor)
      <3>1. <<>> \in Seq(Ids)
        BY EmptySeq
      <3>2. QED
        BY <2>1, <2>3, <3>1 DEF Run, Anchored
    <2>4. QED
      BY <2>2, <2>3
  <1> HIDE DEF cursor
  <1>6. TypeOK'
    BY <1>1, <1>4, <1>5 DEF TypeOK
  <1>7. RunInv'
    BY <1>3, <1>4, <1>5 DEF RunInv
  <1>8. ChildInv'
    BY <1>1 DEF ChildInv
  <1>9. QED
    BY <1>3, <1>4, <1>6, <1>7, <1>8 DEF ReadersInv

LEMMA RefusedKeepsInv ==
  ASSUME ReadersInv, NEW lane \in Lanes, Refused(lane)
  PROVE  ReadersInv' /\ Progress
  <1>1. /\ TypeOK /\ UNCHANGED <<journal, inDoubt, retracted, op, children, ckpt, base, handled, tries, halfway>>
        /\ Failed(lane)
    BY DEF ReadersInv, Refused, journalVars, history
  <1>2. /\ spent' \in [lines : Nat, failures : Nat, stops : Nat, requests : Nat]
        /\ spent'.lines = spent.lines
    BY <1>1, SpendFacts DEF Refused, Bounds, TypeOK
  <1>3. TypeOK'
    BY <1>1, <1>2, FailedFacts DEF TypeOK
  <1>4. /\ JournalInv' /\ PositionsInv' /\ AttachedInv' /\ ReplaySkipsNothing' /\ RunInv' /\ ChildInv'
        /\ Progress
    BY <1>1, <1>2, JournalStays, CheckpointsStay, RunStays, ChildStays, ProgressStays DEF journalVars
  <1>5. QED
    BY <1>3, <1>4 DEF ReadersInv

\* What holds of a run in progress.
LEMMA RunFacts ==
  ASSUME ReadersInv, op # None
  PROVE  /\ op \in Run /\ op.lane \in Lanes /\ op.left \in Seq(Ids)
         /\ ckpt[op.lane] \in Checkpoint /\ ckpt[op.lane].cursor \in Nat
         /\ ckpt[op.lane].cursor <= spent.lines
         /\ op.stage \in {"entries", "child", "ack"}
               => Ahead(ckpt[op.lane].cursor, op.left, Lines, spent.lines)
         /\ op.stage # "child" => children = {}
  BY NoneAssumption DEF ReadersInv, TypeOK, Run, Checkpoint, RunInv, PositionsInv, ChildInv

\* A record is behind the lane.
LEMMA AdvanceKeepsInv ==
  ASSUME ReadersInv, op # None, op.stage \in {"entries", "ack"}, op.left # <<>>,
         Advance(op.lane, Head(op.left)), NEW invoked \in Nat, Settled(invoked),
         UNCHANGED <<journalVars, thread, children, spent>>
  PROVE  ReadersInv' /\ Progress
  <1> DEFINE lane == op.lane
             id   == Head(op.left)
             c    == [ckpt[lane] EXCEPT !.cursor = id, !.inflight = 0, !.phase = "ready"]
  <1>1. /\ TypeOK /\ UNCHANGED <<journal, inDoubt, retracted, up, turn, initialized, fails, children, spent>>
        /\ base' = base /\ halfway' = halfway /\ children = {}
        /\ op \in Run /\ lane \in Lanes /\ op.left \in Seq(Ids)
        /\ ckpt[lane] \in Checkpoint /\ ckpt[lane].cursor \in Nat
        /\ Ahead(ckpt[lane].cursor, op.left, Lines, spent.lines)
    BY RunFacts DEF ReadersInv, Advance, journalVars, thread
  <1>2. Lines \subseteq Nat /\ spent.lines \in Nat /\ FailureLimit \in Nat
    BY <1>1, LineFacts, IdsFacts, ReaderAssumption DEF TypeOK
  <1>3. /\ id \in Ids /\ id \in Nat /\ ckpt[lane].cursor < id /\ id <= spent.lines
        /\ Tail(op.left) \in Seq(Ids) /\ Ahead(id, Tail(op.left), Lines, spent.lines)
        /\ \A other \in Lines : ckpt[lane].cursor < other /\ other <= id => other = id
    BY <1>1, <1>2, AheadTail, IdsFacts
  <1>4. JournalInv' /\ Lines' = Lines
    BY <1>1, JournalStays DEF journalVars
  <1>5. c \in Checkpoint /\ c.cursor = id
    BY <1>1, <1>3 DEF Checkpoint
  <1>6. ckpt' = [ckpt EXCEPT ![lane] = c] /\ handled' = [handled EXCEPT ![lane] = handled[lane] \cup {id}]
    BY DEF Advance
  <1>7. /\ op' \in Run /\ op'.lane = lane /\ op'.left = Tail(op.left) /\ op'.stage \in {"finish", "entries"}
    <2>1. PICK stage \in {"finish", "entries"} :
            op' = [op EXCEPT !.left = Tail(op.left), !.done = op.done + 1, !.invoked = invoked, !.stage = stage]
      BY DEF Settled
    <2>2. op.done + 1 \in Nat
      BY <1>1 DEF Run
    <2>3. QED
      BY <1>1, <1>3, <2>1, <2>2 DEF Run
  <1>8. handled' \in [Lanes -> SUBSET Ids] /\ tries' \in 0..FailureLimit
    BY <1>1, <1>2, <1>3, <1>6 DEF TypeOK, Advance
  <1>9. handled["replay"] \subseteq handled'["replay"] /\ id \in handled'[lane]
    BY <1>1, <1>6 DEF TypeOK, Lanes
  <1> HIDE DEF c, id, lane
  <1>10. /\ ckpt' \in [Lanes -> Checkpoint \cup {None}] /\ ckpt'[lane] = c
         /\ PositionsInv' /\ AttachedInv' /\ ReplaySkipsNothing' /\ Progress
    <2>1. /\ c.cursor <= spent.lines /\ ckpt[lane].cursor <= c.cursor
          /\ lane = "replay" => \A other \in Lines : ckpt[lane].cursor < other /\ other <= c.cursor
                                                      => other \in handled'["replay"]
      <3>1. c.cursor <= spent.lines /\ ckpt[lane].cursor <= c.cursor
        BY <1>1, <1>2, <1>3, <1>5
      <3>2. \A other \in Lines : ckpt[lane].cursor < other /\ other <= c.cursor => other = id
        BY <1>3, <1>5
      <3>3. QED
        BY <1>9, <3>1, <3>2
    <2>2. UNCHANGED <<journalVars, base, halfway>> /\ spent'.lines = spent.lines
      BY <1>1 DEF journalVars
    <2>3. QED
      BY <1>1, <1>5, <1>6, <1>8, <1>9, <2>1, <2>2, CheckpointMoves
  <1>11. TypeOK'
    BY <1>1, <1>7, <1>8, <1>10 DEF TypeOK
  <1>12. RunInv'
    BY <1>1, <1>3, <1>4, <1>5, <1>7, <1>10 DEF RunInv
  <1>13. ChildInv'
    BY <1>1 DEF ChildInv
  <1>14. QED
    BY <1>4, <1>10, <1>11, <1>12, <1>13 DEF ReadersInv

LEMMA GapKeepsInv ==
  ASSUME ReadersInv, Gap
  PROVE  ReadersInv' /\ Progress
  <1> DEFINE lane == op.lane
             c    == [ckpt[lane] EXCEPT !.cursor = GapTarget(lane), !.inflight = 0, !.phase = "ready"]
  <1>1. /\ TypeOK /\ UNCHANGED <<journal, inDoubt, retracted, up, turn, initialized, fails, children, spent>>
        /\ base' = base /\ handled' = handled /\ halfway' = halfway
        /\ op # None /\ op.stage = "gap"
    BY DEF ReadersInv, Gap, AtStage, journalVars, thread
  <1>2. /\ op \in Run /\ lane \in Lanes /\ children = {}
        /\ ckpt[lane] \in Checkpoint /\ ckpt[lane].cursor \notin Lines
    BY <1>1, RunFacts DEF ReadersInv, RunInv
  <1>3. /\ Lines \subseteq Nat \ {0} /\ spent.lines \in Nat /\ FailureLimit \in Nat
        /\ JournalTail \in Nat /\ JournalTail <= spent.lines
    BY <1>1, LineFacts, IdsFacts, TailFacts, ReaderAssumption DEF TypeOK
  <1>4. /\ GapTarget(lane) \in Nat /\ GapTarget(lane) <= spent.lines
        /\ lane = "replay" => GapTarget(lane) = 0
    BY <1>3 DEF GapTarget, NoCursor
  <1>5. c \in Checkpoint /\ c.cursor = GapTarget(lane)
    BY <1>2, <1>4 DEF Checkpoint
  <1>6. ckpt' = [ckpt EXCEPT ![lane] = c]
    BY DEF Gap
  <1>7. JournalInv' /\ Lines' = Lines
    BY <1>1, JournalStays DEF journalVars
  <1>8. /\ op' \in Run /\ op'.lane = lane /\ op'.stage \in {"finish", "entries"}
        /\ op'.stage = "entries" => Ahead(GapTarget(lane), op'.left, Lines, spent.lines)
    <2>1. CASE lane = "fresh"
      BY <1>2, <2>1 DEF Gap, Run
    <2>2. CASE lane # "fresh"
      <3>1. op' = [op EXCEPT !.stage = "entries", !.left = After(GapTarget(lane))]
        BY <2>2 DEF Gap
      <3>2. Anchored(GapTarget(lane))
        BY <1>2, <1>4, <2>2 DEF Anchored, NoCursor, Lanes
      <3>3. /\ After(GapTarget(lane)) \in Seq(Ids)
            /\ Ahead(GapTarget(lane), After(GapTarget(lane)), Lines, spent.lines)
        BY <1>4, <3>2, AfterFacts
      <3>4. QED
        BY <1>2, <3>1, <3>3 DEF Run
    <2>3. QED
      BY <2>1, <2>2
  <1>9. tries' \in 0..FailureLimit
    BY <1>1, <1>3 DEF Gap, TypeOK
  <1> HIDE DEF c, lane
  <1>10. /\ ckpt' \in [Lanes -> Checkpoint \cup {None}] /\ ckpt'[lane] = c
         /\ PositionsInv' /\ AttachedInv' /\ ReplaySkipsNothing' /\ Progress
    <2>1. lane = "replay" => \A id \in Lines : ~(id <= c.cursor)
      BY <1>3, <1>4, <1>5
    <2>2. /\ c.cursor <= spent.lines /\ UNCHANGED <<journalVars, base, halfway>> /\ spent'.lines = spent.lines
          /\ handled' \in [Lanes -> SUBSET Ids] /\ handled["replay"] \subseteq handled'["replay"]
      BY <1>1, <1>4, <1>5 DEF journalVars, TypeOK
    <2>3. QED
      BY <1>2, <1>5, <1>6, <2>1, <2>2, CheckpointMoves
  <1>11. TypeOK'
    BY <1>1, <1>8, <1>9, <1>10 DEF TypeOK
  <1>12. RunInv'
    BY <1>1, <1>5, <1>7, <1>8, <1>10 DEF RunInv
  <1>13. ChildInv'
    BY <1>1, <1>2 DEF ChildInv
  <1>14. QED
    BY <1>7, <1>10, <1>11, <1>12, <1>13 DEF ReadersInv

\* The checkpoint says that the record at the head of the run is in flight.
LEMMA DeliverKeepsInv ==
  ASSUME ReadersInv, Deliver
  PROVE  ReadersInv' /\ Progress
  <1> DEFINE lane  == op.lane
             id    == Head(op.left)
             c     == [ckpt[lane] EXCEPT !.inflight = id, !.phase = "running"]
             child == [lane |-> lane, id |-> id, orphan |-> FALSE]
  <1>1. /\ TypeOK /\ UNCHANGED <<journal, inDoubt, retracted, up, turn, initialized, fails, spent>>
        /\ UNCHANGED <<base, handled, tries, halfway>>
        /\ op # None /\ op.stage = "entries" /\ op.left # <<>>
        /\ op' = [op EXCEPT !.stage = "child"] /\ children' = children \cup {child}
    BY DEF ReadersInv, Deliver, AtStage, journalVars, thread, history
  <1>2. /\ op \in Run /\ lane \in Lanes /\ children = {} /\ op.left \in Seq(Ids)
        /\ ckpt[lane] \in Checkpoint /\ ckpt[lane].cursor \in Nat /\ ckpt[lane].cursor <= spent.lines
        /\ Ahead(ckpt[lane].cursor, op.left, Lines, spent.lines)
    BY <1>1, RunFacts
  <1>3. id \in Ids /\ id \in Nat /\ child \in Child /\ Lines \subseteq Nat
    BY <1>1, <1>2, ToSetFacts, EmptySeq, HeadTailProperties, IdsFacts, LineFacts DEF Child, TypeOK
  <1>4. c \in Checkpoint /\ c.cursor = ckpt[lane].cursor /\ c.phase = "running" /\ c.inflight = id
    BY <1>2, <1>3 DEF Checkpoint
  <1>5. ckpt' = [ckpt EXCEPT ![lane] = c]
    BY DEF Deliver
  <1>6. JournalInv' /\ Lines' = Lines
    BY <1>1, JournalStays DEF journalVars
  <1>7. /\ child.lane = lane /\ child.id = id /\ ~child.orphan /\ children' = {child}
    BY <1>1, <1>2
  <1>8. op' \in Run /\ op'.lane = lane /\ op'.stage = "child" /\ op'.left = op.left /\ op' # None
    BY <1>1, <1>2, NoneAssumption DEF Run
  <1> HIDE DEF c, lane, id, child
  <1>9. /\ ckpt' \in [Lanes -> Checkpoint \cup {None}] /\ ckpt'[lane] = c
        /\ PositionsInv' /\ AttachedInv' /\ ReplaySkipsNothing' /\ Progress
    <2>1. \A other \in Lines : ~(ckpt[lane].cursor < other /\ other <= c.cursor)
      <3>1. ckpt[lane].cursor \in Nat /\ c.cursor = ckpt[lane].cursor /\ Lines \subseteq Nat
        BY <1>2, <1>3, <1>4
      <3>2. QED
        BY <3>1
    <2>2. /\ c.cursor <= spent.lines /\ ckpt[lane].cursor <= c.cursor
          /\ UNCHANGED <<journalVars, base, halfway>> /\ spent'.lines = spent.lines
          /\ handled' \in [Lanes -> SUBSET Ids] /\ handled["replay"] \subseteq handled'["replay"]
      BY <1>1, <1>2, <1>4 DEF journalVars, TypeOK
    <2>3. QED
      BY <1>2, <1>4, <1>5, <2>1, <2>2, CheckpointMoves
  <1>10. TypeOK'
    BY <1>1, <1>3, <1>7, <1>8, <1>9 DEF TypeOK
  <1>11. RunInv'
    BY <1>1, <1>2, <1>4, <1>6, <1>8, <1>9 DEF RunInv
  <1>12. ChildInv'
    BY <1>4, <1>7, <1>8, <1>9 DEF ChildInv
  <1>13. QED
    BY <1>6, <1>9, <1>10, <1>11, <1>12 DEF ReadersInv

LEMMA ChildSucceedsKeepsInv ==
  ASSUME ReadersInv, ChildSucceeds
  PROVE  ReadersInv' /\ Progress
  <1>1. /\ TypeOK /\ UNCHANGED <<journal, inDoubt, retracted, up, turn, initialized, fails, spent>>
        /\ UNCHANGED <<ckpt, base, handled, tries, halfway>>
        /\ op # None /\ op.stage = "child" /\ op' = [op EXCEPT !.stage = "ack"]
        /\ children' = {child \in children : child.orphan}
    BY DEF ReadersInv, ChildSucceeds, AtStage, journalVars, thread, history
  <1>2. /\ op \in Run /\ RunInv /\ ChildInv
    BY <1>1, RunFacts DEF ReadersInv
  <1>3. children' = {}
    BY <1>1, <1>2 DEF ChildInv
  <1>4. op' \in Run /\ op'.lane = op.lane /\ op'.stage = "ack" /\ op'.left = op.left
    BY <1>1, <1>2 DEF Run
  <1>5. /\ JournalInv' /\ Lines' = Lines /\ PositionsInv' /\ AttachedInv' /\ ReplaySkipsNothing'
        /\ Progress
    BY <1>1, JournalStays, CheckpointsStay, ProgressStays DEF journalVars
  <1>6. TypeOK'
    BY <1>1, <1>3, <1>4 DEF TypeOK
  <1>7. RunInv'
    BY <1>1, <1>2, <1>4, <1>5 DEF RunInv
  <1>8. ChildInv'
    BY <1>3 DEF ChildInv
  <1>9. QED
    BY <1>5, <1>6, <1>7, <1>8 DEF ReadersInv

\* A run ends, well or badly: only the phase of its checkpoint changes, if anything does.
LEMMA EndOfRun ==
  ASSUME ReadersInv, op # None, op' = None, UNCHANGED <<journal, inDoubt, retracted, base, handled, halfway>>,
         spent' \in [lines : Nat, failures : Nat, stops : Nat, requests : Nat], spent'.lines = spent.lines,
         NEW phase \in {"idle", "failed"},
         ckpt' = ckpt \/ ckpt' = [ckpt EXCEPT ![op.lane] = [@ EXCEPT !.phase = phase]],
         Failed(op.lane) \/ Succeeded(op.lane), tries' \in 0..FailureLimit, children' = {}
  PROVE  ReadersInv' /\ Progress
  <1> DEFINE lane == op.lane
             c    == [ckpt[lane] EXCEPT !.phase = phase]
  <1>1. /\ TypeOK /\ lane \in Lanes /\ ckpt[lane] \in Checkpoint /\ ckpt[lane].cursor \in Nat
        /\ ckpt[lane].cursor <= spent.lines
    BY RunFacts DEF ReadersInv
  <1>2. c \in Checkpoint /\ c.cursor = ckpt[lane].cursor /\ Lines \subseteq Nat
    BY <1>1, LineFacts, IdsFacts DEF Checkpoint, TypeOK
  <1>3. JournalInv' /\ RunInv' /\ ChildInv'
    BY JournalStays, NothingRuns DEF journalVars
  <1>4. ckpt' = ckpt \/ ckpt' = [ckpt EXCEPT ![lane] = c]
    OBVIOUS
  <1> HIDE DEF c
  <1>5. /\ ckpt' \in [Lanes -> Checkpoint \cup {None}]
        /\ PositionsInv' /\ AttachedInv' /\ ReplaySkipsNothing' /\ Progress
    <2>1. CASE ckpt' = ckpt
      BY <1>1, <2>1, CheckpointsStay, ProgressStays DEF journalVars, TypeOK
    <2>2. CASE ckpt' = [ckpt EXCEPT ![lane] = c]
      <3>1. \A other \in Lines : ~(ckpt[lane].cursor < other /\ other <= c.cursor)
        BY <1>1, <1>2
      <3>2. c.cursor <= spent.lines /\ ckpt[lane].cursor <= c.cursor
        BY <1>1, <1>2
      <3>3. /\ UNCHANGED <<journalVars, base, halfway>>
            /\ handled' \in [Lanes -> SUBSET Ids] /\ handled["replay"] \subseteq handled'["replay"]
        BY <1>1 DEF journalVars, TypeOK
      <3>4. QED
        BY <1>1, <1>2, <2>2, <3>1, <3>2, <3>3, CheckpointMoves
    <2>3. QED
      BY <1>4, <2>1, <2>2
  <1>6. TypeOK'
    BY <1>1, <1>5, FailedFacts DEF TypeOK
  <1>7. QED
    BY <1>3, <1>5, <1>6 DEF ReadersInv

LEMMA FinishKeepsInv ==
  ASSUME ReadersInv, Finish
  PROVE  ReadersInv' /\ Progress
  <1>1. /\ op # None /\ op.stage # "child" /\ op' = None /\ Succeeded(op.lane)
        /\ UNCHANGED <<journal, inDoubt, retracted, base, handled, tries, halfway, spent, children>>
        /\ ckpt' = [ckpt EXCEPT ![op.lane] = [@ EXCEPT !.phase = "idle"]]
    BY DEF Finish, AtStage, journalVars, history
  <1>2. children' = {}
    BY <1>1, RunFacts
  <1>3. /\ spent' \in [lines : Nat, failures : Nat, stops : Nat, requests : Nat]
        /\ tries' \in 0..FailureLimit
    BY <1>1 DEF ReadersInv, TypeOK
  <1>4. QED
    BY <1>1, <1>2, <1>3, EndOfRun

LEMMA RunFailsKeepsInv ==
  ASSUME ReadersInv, NEW saved \in BOOLEAN, RunFails(saved)
  PROVE  ReadersInv' /\ Progress
  <1>1. /\ op # None /\ op' = None /\ Failed(op.lane)
        /\ UNCHANGED <<journal, inDoubt, retracted, base, handled, halfway>>
        /\ ckpt' = ckpt \/ ckpt' = [ckpt EXCEPT ![op.lane] = [@ EXCEPT !.phase = "failed"]]
        /\ children' = {child \in children : child.orphan}
    BY DEF RunFails, journalVars
  <1>2. children' = {}
    BY <1>1 DEF ReadersInv, ChildInv
  <1>3. /\ spent' \in [lines : Nat, failures : Nat, stops : Nat, requests : Nat]
        /\ spent'.lines = spent.lines
    BY SpendFacts DEF RunFails, Bounds, ReadersInv
  <1>4. tries' \in 0..FailureLimit
    <2>1. tries \in 0..FailureLimit /\ FailureLimit \in Nat \ {0}
      BY ReaderAssumption DEF ReadersInv, TypeOK
    <2>2. OneMore(tries) \in 0..FailureLimit
      BY <2>1 DEF OneMore
    <2>3. QED
      BY <2>1, <2>2 DEF RunFails
  <1>5. QED
    BY <1>1, <1>2, <1>3, <1>4, EndOfRun

LEMMA FilterKeepsInv ==
  ASSUME ReadersInv, Filter
  PROVE  ReadersInv' /\ Progress
  <1>1. op # None /\ op \in Run /\ op.invoked \in Nat
    BY RunFacts DEF Filter, AtStage, Run
  <1>2. QED
    BY <1>1, AdvanceKeepsInv DEF Filter, AtStage

LEMMA AcknowledgeKeepsInv ==
  ASSUME ReadersInv, Acknowledge
  PROVE  ReadersInv' /\ Progress
  <1>1. op # None /\ op \in Run /\ op.invoked + 1 \in Nat
    BY RunFacts DEF Acknowledge, AtStage, Run
  <1>2. op.left # <<>>
    BY <1>1 DEF ReadersInv, RunInv, Acknowledge, AtStage
  <1>3. QED
    BY <1>1, <1>2, AdvanceKeepsInv DEF Acknowledge, AtStage

-----------------------------------------------------------------------------
(* The steps: the controller.                                              *)

LEMMA ControllerKeepsInv ==
  ASSUME ReadersInv, (\E live \in BOOLEAN : Start(live)) \/ Detach
  PROVE  ReadersInv' /\ Progress
  <1>1. /\ TypeOK /\ FailureLimit \in Nat
        /\ UNCHANGED <<journal, inDoubt, retracted, ckpt, op, children, base, handled, tries, halfway>>
    BY ReaderAssumption DEF ReadersInv, Start, Detach, journalVars, history
  <1>2. /\ spent' \in [lines : Nat, failures : Nat, stops : Nat, requests : Nat]
        /\ spent'.lines = spent.lines
    BY <1>1, SpendFacts DEF Start, Detach, Bounds, TypeOK
  <1>3. /\ up' \in BOOLEAN /\ initialized' \in BOOLEAN /\ fails' \in [Lanes -> 0..FailureLimit]
        /\ turn' \in {"attachReplay", "attachFresh", "init", "fresh", "skip", "replay"}
    <2>1. 0 \in 0..FailureLimit /\ fails \in [Lanes -> 0..FailureLimit] /\ initialized \in BOOLEAN
      BY <1>1 DEF TypeOK
    <2>2. CASE \E live \in BOOLEAN : Start(live)
      BY <2>1, <2>2 DEF Start
    <2>3. CASE Detach
      BY <2>1, <2>3 DEF Detach
    <2>4. QED
      BY <2>2, <2>3
  <1>4. TypeOK'
    BY <1>1, <1>2, <1>3 DEF TypeOK
  <1>5. /\ JournalInv' /\ PositionsInv' /\ AttachedInv' /\ ReplaySkipsNothing' /\ RunInv' /\ ChildInv'
        /\ Progress
    BY <1>1, <1>2, JournalStays, CheckpointsStay, RunStays, ChildStays, ProgressStays DEF journalVars
  <1>6. QED
    BY <1>4, <1>5 DEF ReadersInv

\* The controller's child becomes the orphan that keeps the lock.
LEMMA CrashKeepsInv ==
  ASSUME ReadersInv, Crash
  PROVE  ReadersInv' /\ Progress
  <1>1. /\ TypeOK /\ UNCHANGED <<journal, inDoubt, retracted, ckpt, initialized, fails>>
        /\ UNCHANGED <<base, handled, tries, halfway>>
        /\ up' = FALSE /\ turn' = "init" /\ op' = None
        /\ children' = {[child EXCEPT !.orphan = TRUE] : child \in children}
    BY DEF ReadersInv, Crash, journalVars, history
  <1>2. /\ spent' \in [lines : Nat, failures : Nat, stops : Nat, requests : Nat]
        /\ spent'.lines = spent.lines
    BY SpendFacts DEF Crash, Bounds, ReadersInv
  <1>3. /\ JournalInv' /\ PositionsInv' /\ AttachedInv' /\ ReplaySkipsNothing' /\ Progress
    BY <1>1, <1>2, JournalStays, CheckpointsStay, ProgressStays DEF journalVars
  <1>4. /\ children' \subseteq Child /\ \A child \in children' : child.orphan
        /\ \A child \in children' : \E before \in children : child.lane = before.lane /\ child.id = before.id
        /\ \A child, other \in children' : child = other
    <2>1. children \subseteq Child /\ \A child, other \in children : child = other
      BY <1>1 DEF TypeOK, ReadersInv, ChildInv
    <2>2. \A child \in children : /\ [child EXCEPT !.orphan = TRUE] \in Child
                                  /\ [child EXCEPT !.orphan = TRUE].orphan = TRUE
                                  /\ [child EXCEPT !.orphan = TRUE].lane = child.lane
                                  /\ [child EXCEPT !.orphan = TRUE].id = child.id
      BY <2>1 DEF Child
    <2> DEFINE Orphaned(child) == [child EXCEPT !.orphan = TRUE]
    <2>3. children' = {Orphaned(child) : child \in children}
      BY <1>1
    <2>4. \A child \in children : /\ Orphaned(child) \in Child /\ Orphaned(child).orphan = TRUE
                                  /\ Orphaned(child).lane = child.lane /\ Orphaned(child).id = child.id
      BY <2>2
    <2> HIDE DEF Orphaned
    <2>5. QED
      BY <2>1, <2>3, <2>4
  <1>5. TypeOK'
    BY <1>1, <1>2, <1>4 DEF TypeOK
  <1>6. RunInv'
    BY <1>1 DEF RunInv
  <1>7. ChildInv'
    BY <1>1, <1>4 DEF ChildInv, ReadersInv
  <1>8. QED
    BY <1>3, <1>5, <1>6, <1>7 DEF ReadersInv

LEMMA OrphanEndsKeepsInv ==
  ASSUME ReadersInv, OrphanEnds
  PROVE  ReadersInv' /\ Progress
  <1>1. /\ TypeOK /\ UNCHANGED <<journal, inDoubt, retracted, ckpt, up, turn, initialized, fails, op, spent>>
        /\ UNCHANGED <<base, handled, tries, halfway>> /\ children' \subseteq children
    BY DEF ReadersInv, OrphanEnds, journalVars, thread, history
  <1>2. TypeOK'
    BY <1>1 DEF TypeOK
  <1>3. ChildInv'
    BY <1>1 DEF ReadersInv, ChildInv
  <1>4. /\ JournalInv' /\ PositionsInv' /\ AttachedInv' /\ ReplaySkipsNothing' /\ RunInv' /\ Progress
    BY <1>1, JournalStays, CheckpointsStay, RunStays, ProgressStays DEF journalVars
  <1>5. QED
    BY <1>2, <1>3, <1>4 DEF ReadersInv

-----------------------------------------------------------------------------
(* The invariant and what it says.                                         *)

LEMMA ReadersInit == Init => ReadersInv
  <1> SUFFICES ASSUME Init
               PROVE  ReadersInv
    OBVIOUS
  <1>1. <<>> \in Seq(Ids) /\ Len(<<>>) = 0 /\ ToSet(<<>>) = {}
    BY EmptySeq DEF ToSet
  <1>2. TypeOK
    <2>1. FailureLimit \in Nat /\ 0 \in 0..FailureLimit
      BY ReaderAssumption
    <2>2. fails \in [Lanes -> 0..FailureLimit] /\ tries \in 0..FailureLimit
      BY <2>1 DEF Init
    <2>3. /\ ckpt \in [Lanes -> Checkpoint \cup {None}] /\ base \in [Lanes -> Nat]
          /\ handled \in [Lanes -> SUBSET Ids]
          /\ spent \in [lines : Nat, failures : Nat, stops : Nat, requests : Nat]
      BY DEF Init
    <2>4. QED
      BY <1>1, <2>2, <2>3 DEF Init, TypeOK
  <1>3. Lines = {} /\ JournalInv
    BY <1>1, ReaderAssumption DEF Init, Lines, JournalInv, Ascending
  <1>4. PositionsInv /\ RunInv /\ ChildInv
    BY DEF Init, PositionsInv, RunInv, ChildInv
  <1>5. AttachedInv /\ ReplaySkipsNothing
    BY <1>3 DEF Init, AttachedInv, ReplaySkipsNothing, Behind, Lanes
  <1>6. QED
    BY <1>2, <1>3, <1>4, <1>5 DEF ReadersInv

LEMMA ReadersStep == ReadersInv /\ [Next]_vars => ReadersInv' /\ (Progress \/ UNCHANGED vars)
  <1> SUFFICES ASSUME ReadersInv, [Next]_vars
               PROVE  ReadersInv' /\ (Progress \/ UNCHANGED vars)
    OBVIOUS
  <1>1. CASE WriterStep
    BY <1>1, WriterKeepsInv
  <1>2. CASE FollowTail \/ Parked \/ Skip \/ Attach
    BY <1>2, FollowTailKeepsInv, ParkedKeepsInv, SkipKeepsInv, AttachKeepsInv
  <1>3. ASSUME NEW lane \in Lanes, Begin(lane) \/ Refused(lane) \/ Rebind(lane)
        PROVE  ReadersInv' /\ Progress
    BY <1>3, BeginKeepsInv, RefusedKeepsInv, RebindKeepsInv
  <1>4. CASE Gap \/ Filter \/ Deliver \/ ChildSucceeds \/ Acknowledge \/ Finish
    BY <1>4, GapKeepsInv, FilterKeepsInv, DeliverKeepsInv, ChildSucceedsKeepsInv, AcknowledgeKeepsInv,
       FinishKeepsInv
  <1>5. ASSUME NEW saved \in BOOLEAN, RunFails(saved)
        PROVE  ReadersInv' /\ Progress
    BY <1>5, RunFailsKeepsInv
  <1>6. CASE ReplayCommand
    BY <1>6, ReplayCommandKeepsInv
  <1>7. CASE (\E live \in BOOLEAN : Start(live)) \/ Detach
    BY <1>7, ControllerKeepsInv
  <1>8. CASE Crash \/ OrphanEnds
    BY <1>8, CrashKeepsInv, OrphanEndsKeepsInv
  <1>9. CASE UNCHANGED vars
    <2>1. UNCHANGED <<journal, inDoubt, retracted, ckpt, up, turn, initialized, fails, op, children>>
          /\ UNCHANGED <<base, handled, tries, halfway, spent>>
      BY <1>9 DEF vars, journalVars, thread, history
    <2>2. TypeOK'
      BY <2>1 DEF TypeOK, ReadersInv
    <2>3. /\ JournalInv' /\ PositionsInv' /\ AttachedInv' /\ ReplaySkipsNothing' /\ RunInv' /\ ChildInv'
      BY <2>1, JournalStays, CheckpointsStay, RunStays, ChildStays DEF journalVars
    <2>4. QED
      BY <1>9, <2>2, <2>3 DEF ReadersInv
  <1>10. QED
    BY <1>1, <1>2, <1>3, <1>4, <1>5, <1>6, <1>7, <1>8, <1>9 DEF Next, ReaderThread

\* The inductive invariant, which the other theorems follow from.
THEOREM ReadersInvariant == Spec => []ReadersInv
  BY ReadersInit, ReadersStep, PTL DEF Spec

\* Every variable of the reader keeps its type.
THEOREM ReaderTypes == Spec => []TypeOK
  <1>1. ReadersInv => TypeOK
    BY DEF ReadersInv
  <1>2. QED
    BY <1>1, ReadersInvariant, PTL

\* Reader.run(), replay lane: every line still retained that recovery has passed since it
\* was attached was acknowledged by a child or filtered.
THEOREM RecoverySkipsNothing == Spec => []ReplaySkipsNothing
  <1>1. ReadersInv => ReplaySkipsNothing
    BY DEF ReadersInv
  <1>2. QED
    BY <1>1, ReadersInvariant, PTL

LEMMA OwnedFromInv == ReadersInv => ReplayOwnsWhatFreshSkipped
  <1> SUFFICES ASSUME ReadersInv, ~halfway, NEW id \in Behind("fresh") \ handled["fresh"]
               PROVE  id \in Owned
    BY DEF ReplayOwnsWhatFreshSkipped
  <1>1. id \in Lines /\ base["fresh"] < id
    BY DEF Behind
  <1>2. base["replay"] < id
    BY <1>1 DEF ReadersInv, AttachedInv
  <1>3. CASE ckpt["replay"] = None
    BY <1>1, <1>3 DEF Owned
  <1>4. CASE ckpt["replay"] # None
    <2>1. id \in Nat /\ ckpt["replay"].cursor \in Nat
      BY <1>1, <1>4, LineFacts, IdsFacts DEF ReadersInv, TypeOK, Checkpoint, Lanes
    <2>2. CASE id <= ckpt["replay"].cursor
      BY <1>1, <1>2, <1>4, <2>2 DEF ReadersInv, ReplaySkipsNothing, Behind, Owned
    <2>3. CASE id > ckpt["replay"].cursor
      BY <1>1, <2>3 DEF Owned
    <2>4. QED
      BY <2>1, <2>2, <2>3
  <1>5. QED
    BY <1>3, <1>4

\* skip_failed_fresh(), gaps: whatever fresh delivery passed over without success,
\* recovery has delivered or still has in front of it.
THEOREM RecoveryOwnsTheRest == Spec => []ReplayOwnsWhatFreshSkipped
  BY OwnedFromInv, ReadersInvariant, PTL

LEMMA OneChildFromInv == ReadersInv => OneChildAtATime
  <1> SUFFICES ASSUME ReadersInv
               PROVE  OneChildAtATime
    OBVIOUS
  <1>1. /\ \A c, d \in children : c = d
        /\ \A c \in children : ckpt[c.lane].phase = "running" /\ ckpt[c.lane].inflight = c.id
    BY DEF ReadersInv, ChildInv
  <1>2. children = {} \/ \E c \in children : children = {c}
    BY <1>1
  <1>3. Cardinality(children) <= 1
    <2>1. CASE children = {}
      BY <2>1, FS_EmptySet
    <2>2. ASSUME NEW c \in children, children = {c}
          PROVE  Cardinality(children) <= 1
      BY <2>2, FS_Singleton
    <2>3. QED
      BY <1>2, <2>1, <2>2
  <1>4. QED
    BY <1>1, <1>3 DEF OneChildAtATime

\* execute() and the inherited lock: two invocations of one reader never overlap, through
\* every crash and restart, and the checkpoint names the one that runs.
THEOREM InvocationsNeverOverlap == Spec => []OneChildAtATime
  BY OneChildFromInv, ReadersInvariant, PTL

\* store(), run(), skip_failed_fresh(): a position never moves back within a generation,
\* unless its line is gone.
THEOREM ProgressIsKept == Spec => ProgressIsNeverUndone
  <1>1. ReadersInv /\ [Next]_vars => [Progress]_vars
    BY ReadersStep
  <1>2. [][Progress]_vars => ProgressIsNeverUndone
    BY PTL DEF ProgressIsNeverUndone, Progress
  <1>3. QED
    BY <1>1, <1>2, ReadersInvariant, PTL DEF Spec
=============================================================================
