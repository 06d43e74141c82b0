------------------------ MODULE CaptureWriter_proofs ------------------------
(***************************************************************************)
(* Proofs about CaptureWriter, for every value of its constants, and at    *)
(* the end about MCJournal, where the writer is one of the parts.          *)
(***************************************************************************)
EXTENDS MCJournal, SequenceTheorems, FiniteSetTheorems, TLAPS

ScanP == INSTANCE JournalScan_proofs
           WITH MaxLines <- MaxScanLines, disk <- files, confirmed <- lines

-----------------------------------------------------------------------------
(* Files as sequences of chunks.                                             *)

\* A prefix of a sequence: its type, its length, its elements.
LEMMA PrefixFacts ==
  ASSUME NEW S, NEW s \in Seq(S), NEW n \in 0..Len(s)
  PROVE  /\ SubSeq(s, 1, n) \in Seq(S)
         /\ Len(SubSeq(s, 1, n)) = n
         /\ \A i \in 1..n : SubSeq(s, 1, n)[i] = s[i]
  <1>1. \A i \in 1..n : s[i] \in S
    BY LenProperties
  <1>2. QED
    BY <1>1, SubSeqProperties, LenProperties

\* Repair() of a file whose only torn chunk, if any, is its last one keeps exactly
\* the complete chunks.
LEMMA RepairFacts ==
  ASSUME NEW s \in Seq(Chunk), \A i \in 1..Len(s) : ~s[i].whole => i = Len(s)
  PROVE  \E n \in 0..Len(s) : /\ Repair(s) = SubSeq(s, 1, n)
                              /\ \A i \in 1..n : s[i].whole
                              /\ \A i \in n+1..Len(s) : ~s[i].whole
  <1> DEFINE P(n) == /\ n > 0 => s[n].whole
                     /\ \A i \in n+1..Len(s) : ~s[i].whole
  <1>1. Len(s) \in Nat
    BY LenProperties
  <1>2. \E n \in 0..Len(s) : P(n)
    <2>1. CASE Len(s) = 0
      BY <2>1, <1>1
    <2>2. CASE Len(s) > 0 /\ s[Len(s)].whole
      BY <2>2, <1>1
    <2>3. CASE Len(s) > 0 /\ ~s[Len(s)].whole
      <3>1. Len(s) - 1 \in 0..Len(s) /\ (Len(s) - 1) + 1 = Len(s)
        BY <2>3, <1>1
      <3>2. Len(s) - 1 > 0 => s[Len(s) - 1].whole
        BY <2>3, <1>1
      <3>3. \A i \in (Len(s) - 1) + 1..Len(s) : ~s[i].whole
        <4>1. ASSUME NEW i \in (Len(s) - 1) + 1..Len(s)
              PROVE  i = Len(s)
          BY <1>1
        <4>2. QED
          BY <4>1, <2>3
      <3> HIDE DEF P
      <3>5. P(Len(s) - 1)
        BY <3>2, <3>3 DEF P
      <3>4. QED
        BY <3>1, <3>5
    <2>4. QED
      BY <2>1, <2>2, <2>3, <1>1
  <1>3. LastNewline(s) \in 0..Len(s) /\ P(LastNewline(s))
    <2>1. LastNewline(s) = CHOOSE n \in 0..Len(s) : P(n)
      BY DEF LastNewline
    <2>2. QED
      BY <1>2, <2>1
  <1>4. \A i \in 1..LastNewline(s) : s[i].whole
    BY <1>1, <1>3
  <1>5. QED
    BY <1>3, <1>4 DEF Repair

-----------------------------------------------------------------------------
(* Type correctness.                                                         *)

\* A Writer just constructed has its types.
LEMMA TypeInit == Init => TypeOK
  <1> SUFFICES ASSUME Init PROVE TypeOK
    OBVIOUS
  <1>1. IsFiniteSet({})
    BY FS_EmptySet
  <1>2. Stamps = {} /\ archives \in [Stamps -> Seq(Chunk)]
    BY DEF Init, Stamps
  <1>3. stream \in Seq(Chunk) /\ queue \in Seq(Record)
    BY DEF Init
  <1>4. inHand \in (IF pc \in Busy THEN Record ELSE {None}) /\ pc \in PCs
    BY DEF Init, Busy, PCs
  <1>5. /\ exists \in BOOLEAN /\ handle \in BOOLEAN /\ rollback \in Nat \cup {None}
        /\ stopping \in BOOLEAN /\ abandon \in BOOLEAN
    BY Zenon DEF Init
  <1>6. /\ closer \in {"running", "joining", "discarding", "returned"}
        /\ queuedBytes \in Int /\ written \in Nat /\ dropped \in Nat /\ offered \in Nat
        /\ repaired \in Nat /\ nextId \in Nat /\ restarts \in Nat
        /\ confirmed \subseteq Nat /\ failed \subseteq Nat
    BY DEF Init
  <1>7. QED
    BY <1>1, <1>2, <1>3, <1>4, <1>5, <1>6 DEF TypeOK

\* What open_stream() leaves behind, whatever stage it reached: a prefix of the file,
\* and with a handle only complete lines and no rollback pending.
LEMMA OpenStreamFacts ==
  ASSUME WriterInv, NEW gone \in SUBSET Stamps, NEW stage \in Stages, OpenStream(gone, stage)
  PROVE  /\ stream' \in Seq(Chunk) /\ Len(stream') \in 0..Len(stream)
         /\ \A i \in 1..Len(stream') : stream'[i] = stream[i]
         /\ rollback' # None => Len(stream') = Len(stream) /\ rollback' = rollback
         /\ rollback' = None /\ rollback # None => Len(stream') <= rollback
         /\ handle' => \A i \in 1..Len(stream') : stream[i].whole
         /\ Stamps' = Stamps \ gone /\ archives' = [s \in Stamps \ gone |-> archives[s]]
         /\ rollback' \in {rollback, None} /\ exists' \in BOOLEAN /\ handle' \in BOOLEAN
         /\ exists => exists'
         /\ ~exists' => stream' = <<>>
         /\ handle' => stage = "ready" /\ exists' /\ rollback' = None
         /\ stage = "ready" => handle'
  <1>1. /\ stream \in Seq(Chunk) /\ Len(stream) \in Nat
        /\ exists \in BOOLEAN /\ (~exists => stream = <<>>)
        /\ rollback # None => rollback \in 0..Len(stream)
        /\ \A i \in 1..Len(stream) : ~stream[i].whole => i = Len(stream)
    BY LenProperties DEF WriterInv, TypeOK, ControlInv, TornOnlyAtTheEnd
  <1> DEFINE m == IF rollback = None THEN Len(stream) ELSE rollback
  <1>2. m \in 0..Len(stream) /\ (rollback # None => m = rollback)
    BY <1>1
  <1>3. AfterRollback = SubSeq(stream, 1, m)
    BY <1>1, SubSeqFull DEF AfterRollback
  <1> HIDE DEF m
  <1>4. /\ AfterRollback \in Seq(Chunk) /\ Len(AfterRollback) = m
        /\ \A i \in 1..m : AfterRollback[i] = stream[i]
    BY <1>1, <1>2, <1>3, PrefixFacts
  <1>5. \A i \in 1..Len(AfterRollback) : ~AfterRollback[i].whole => i = Len(AfterRollback)
    BY <1>1, <1>2, <1>4
  <1>6. PICK n \in 0..Len(AfterRollback) :
                          /\ Repair(AfterRollback) = SubSeq(AfterRollback, 1, n)
                          /\ \A i \in 1..n : AfterRollback[i].whole
    BY <1>4, <1>5, RepairFacts
  <1>7. /\ Repair(AfterRollback) \in Seq(Chunk) /\ Len(Repair(AfterRollback)) = n
        /\ \A i \in 1..n : Repair(AfterRollback)[i] = AfterRollback[i]
    BY <1>4, <1>6, PrefixFacts
  <1>8. Stamps' = Stamps \ gone /\ archives' = [s \in Stamps \ gone |-> archives[s]]
    BY DEF OpenStream, Without, Stamps
  <1>9. /\ exists' = (exists \/ stage \in {"rollback", "tail", "ready"})
        /\ rollback' = IF stage \in {"tail", "ready"} THEN None ELSE rollback
        /\ handle' = (stage = "ready")
    BY DEF OpenStream
  <1>10. /\ rollback' \in {rollback, None} /\ exists' \in BOOLEAN /\ handle' \in BOOLEAN
         /\ exists => exists'
         /\ handle' => stage = "ready" /\ exists' /\ rollback' = None
         /\ stage = "ready" => handle'
    BY <1>1, <1>9
  <1>11. CASE stage = "ready"
    <2>1. stream' = Repair(AfterRollback)
      BY <1>11 DEF OpenStream
    <2>2. /\ stream' \in Seq(Chunk) /\ Len(stream') \in 0..Len(stream)
          /\ Len(stream') <= m /\ \A i \in 1..Len(stream') : stream'[i] = stream[i]
      BY <1>1, <1>2, <1>4, <1>7, <2>1
    <2>3. \A i \in 1..Len(stream') : stream[i].whole
      BY <1>2, <1>4, <1>6, <1>7, <2>1
    <2>4. QED
      BY <1>2, <1>8, <1>9, <1>10, <1>11, <2>2, <2>3
  <1>12. CASE stage = "tail"
    <2>1. stream' = AfterRollback
      BY <1>12 DEF OpenStream
    <2>2. /\ stream' \in Seq(Chunk) /\ Len(stream') \in 0..Len(stream)
          /\ Len(stream') <= m /\ \A i \in 1..Len(stream') : stream'[i] = stream[i]
      BY <1>1, <1>2, <1>4, <2>1
    <2>3. QED
      BY <1>2, <1>8, <1>9, <1>10, <1>12, <2>2
  <1>13. CASE stage \notin {"tail", "ready"}
    <2>1. stream' = stream /\ rollback' = rollback
      BY <1>9, <1>13 DEF OpenStream
    <2>2. QED
      BY <1>1, <1>8, <1>9, <1>10, <1>13, <2>1
  <1>14. QED
    BY <1>11, <1>12, <1>13

\* prune() keeps the newest archive, or leaves none.
LEMMA PruneKeepsNewest ==
  ASSUME NEW A, DOMAIN A \subseteq Nat, IsFiniteSet(DOMAIN A),
         NEW gone, Prunes(A, gone),
         DOMAIN A = {} \/ \E s \in DOMAIN A : \A t \in DOMAIN A : t <= s
  PROVE  DOMAIN A \ gone = {} \/ \E s \in DOMAIN A \ gone : \A t \in DOMAIN A \ gone : t <= s
  <1>1. CASE DOMAIN A = {}
    BY <1>1
  <1>2. CASE \E s \in DOMAIN A : \A t \in DOMAIN A : t <= s
    <2>1. PICK s \in DOMAIN A : \A t \in DOMAIN A : t <= s
      BY <1>2
    <2>2. CASE s \notin gone
      BY <2>1, <2>2
    <2>3. CASE s \in gone
      <3>1. {t \in DOMAIN A : t > s} = {}
        BY <2>1
      <3>2. Cardinality({t \in DOMAIN A : t > s}) = 0
        BY <3>1, FS_EmptySet
      <3>3. KeepRolls = 0
        <4>1. s \in Victims(A)
          BY <2>3 DEF Prunes
        <4>2. 0 >= KeepRolls
          BY <4>1, <3>2 DEF Victims
        <4>3. QED
          BY <4>2, WriterAssumption
      <3>4. \A t \in DOMAIN A : t \in Victims(A)
        <4>1. SUFFICES ASSUME NEW t \in DOMAIN A
                       PROVE  Cardinality({u \in DOMAIN A : u > t}) >= 0
          BY <3>3 DEF Victims
        <4>2. IsFiniteSet({u \in DOMAIN A : u > t})
          BY FS_Subset
        <4>3. QED
          BY <4>2, FS_CardinalityType
      <3>5. \A t \in DOMAIN A : t \in gone
        <4>1. ASSUME NEW t \in DOMAIN A, t # s PROVE t < s
          BY <4>1, <2>1
        <4>2. QED
          BY <4>1, <2>3, <3>4 DEF Prunes
      <3>6. QED
        BY <3>5
    <2>4. QED
      BY <2>2, <2>3
  <1>3. QED
    BY <1>1, <1>2

-----------------------------------------------------------------------------
(* The parts of the invariant that only the files and the ids decide.        *)

\* Removing archives and the end of the open segment keeps order, completeness and ids.
LEMMA FilesShrink ==
  ASSUME WriterInv,
         stream' \in Seq(Chunk), Len(stream') \in 0..Len(stream),
         \A i \in 1..Len(stream') : stream'[i] = stream[i],
         Stamps' \subseteq Stamps, \A s \in Stamps' : archives'[s] = archives[s],
         failed' \subseteq failed, confirmed' \subseteq confirmed
  PROVE  /\ JournalOrder'
         /\ \A s \in Stamps' : \A i \in 1..Len(archives'[s]) :
              archives'[s][i].whole /\ archives'[s][i].id \notin failed'
         /\ Used' \subseteq Used
  <1>1. Len(stream) \in Nat /\ Len(stream') \in Nat
    BY LenProperties DEF WriterInv, TypeOK
  <1>2. \A i \in 1..Len(stream') : i \in 1..Len(stream)
    BY <1>1
  <1>3. Ascending(stream')
    BY <1>2 DEF WriterInv, JournalOrder, Ascending
  <1>4. \A s \in Stamps' : Ascending(archives'[s])
    BY DEF WriterInv, JournalOrder, Ascending
  <1>5. JournalOrder'
    BY <1>2, <1>3, <1>4 DEF WriterInv, JournalOrder, Ascending
  <1>6. \A s \in Stamps' : \A i \in 1..Len(archives'[s]) :
              archives'[s][i].whole /\ archives'[s][i].id \notin failed'
    BY DEF WriterInv, TornOnlyAtTheEnd, NothingFollowsAFailedAppend
  <1>7. Used' \subseteq Used
    <2>1. IdsIn(stream') \subseteq IdsIn(stream)
      BY <1>2 DEF IdsIn
    <2>2. \A s \in Stamps' : s \in Stamps /\ IdsIn(archives'[s]) = IdsIn(archives[s])
      BY DEF IdsIn
    <2>3. InFiles' \subseteq InFiles
      BY <2>1, <2>2 DEF InFiles
    <2>4. QED
      BY <2>3 DEF Used
  <1>8. QED
    BY <1>5, <1>6, <1>7

\* Ids stay fresh when nothing new is used, queued or taken.
LEMMA FreshIdsKept ==
  ASSUME FreshIds, Used' \subseteq Used, queue' = queue, nextId' = nextId,
         failed' \cup confirmed' \subseteq failed \cup confirmed,
         inHand' = inHand \/ inHand' = None,
         inHand' # None => (pc # "writing" \/ pc' = "writing")
  PROVE  FreshIds'
  BY DEF FreshIds

\* A Writer just constructed satisfies the invariant.
LEMMA WriterInit == Init => WriterInv
  <1> SUFFICES ASSUME Init PROVE WriterInv
    OBVIOUS
  <1>1. TypeOK
    BY TypeInit
  <1>2. Stamps = {} /\ stream = <<>> /\ Len(stream) = 0 /\ queue = <<>> /\ Len(queue) = 0
    BY DEF Init, Stamps
  <1>3. Used = {}
    BY <1>2 DEF Used, InFiles, IdsIn, Init
  <1>4. ControlInv
    BY DEF Init, ControlInv
  <1>5. TornInv /\ TornOnlyAtTheEnd /\ NothingFollowsAFailedAppend /\ NewestStamp
    BY <1>2 DEF TornInv, TornOnlyAtTheEnd, NothingFollowsAFailedAppend, NewestStamp
  <1>6. JournalOrder
    BY <1>2 DEF JournalOrder, Ascending
  <1>7. FreshIds
    BY <1>2, <1>3 DEF FreshIds, Init
  <1>8. QED
    BY <1>1, <1>4, <1>5, <1>6, <1>7 DEF WriterInv

\* What is in Used.
LEMMA UsedFacts ==
  ASSUME TypeOK
  PROVE  /\ Used \subseteq Nat /\ failed \subseteq Used /\ confirmed \subseteq Used
         /\ \A i \in 1..Len(stream) : stream[i].id \in Used
         /\ \A s \in Stamps : \A i \in 1..Len(archives[s]) : archives[s][i].id \in Used
  <1>1. failed \subseteq Used /\ confirmed \subseteq Used
    BY Zenon DEF Used, InFiles, IdsIn
  <1>2. \A i \in 1..Len(stream) : stream[i].id \in Used
    BY Zenon DEF Used, InFiles, IdsIn
  <1>3. ASSUME NEW s \in Stamps, NEW i \in 1..Len(archives[s])
        PROVE  archives[s][i].id \in Used
    <2>1. archives[s][i].id \in IdsIn(archives[s])
      BY DEF IdsIn
    <2>2. IdsIn(archives[s]) \subseteq InFiles
      BY Zenon DEF InFiles
    <2>3. QED
      BY <2>1, <2>2 DEF Used
  <1>4. \A i \in 1..Len(stream) : stream[i].id \in Nat
    <2>1. stream \in Seq(Chunk)
      BY DEF TypeOK
    <2>2. \A i \in 1..Len(stream) : stream[i] \in Chunk
      BY <2>1, ElementOfSeq
    <2>3. QED
      BY <2>2 DEF Chunk
  <1>5. \A s \in Stamps : \A i \in 1..Len(archives[s]) : archives[s][i].id \in Nat
    <2>1. \A s \in Stamps : archives[s] \in Seq(Chunk)
      BY DEF TypeOK
    <2>2. \A s \in Stamps : \A i \in 1..Len(archives[s]) : archives[s][i] \in Chunk
      BY <2>1, ElementOfSeq
    <2>3. QED
      BY <2>2 DEF Chunk
  <1>6. failed \subseteq Nat /\ confirmed \subseteq Nat
    BY DEF TypeOK
  <1>7. Used \subseteq Nat
    <2>1. IdsIn(stream) \subseteq Nat
      BY <1>4 DEF IdsIn
    <2>2. \A s \in Stamps : IdsIn(archives[s]) \subseteq Nat
      BY <1>5 DEF IdsIn
    <2>3. QED
      BY <1>6, <2>1, <2>2 DEF Used, InFiles
  <1>8. QED
    BY <1>1, <1>2, <1>3, <1>7

\* A step that touches no file and settles no append keeps what the files promise.
LEMMA SameFiles ==
  ASSUME WriterInv, UNCHANGED <<disk, failed, confirmed, rollback>>,
         handle' => handle, pc = "writing" /\ handle' => pc' = "writing"
  PROVE  /\ TornInv' /\ TornOnlyAtTheEnd' /\ NothingFollowsAFailedAppend' /\ JournalOrder'
         /\ NewestStamp' /\ Used' = Used
  <1>1. Stamps' = Stamps /\ archives' = archives /\ stream' = stream
    BY DEF disk, Stamps
  <1>2. TornInv'
    BY <1>1 DEF WriterInv, TornInv
  <1>3. TornOnlyAtTheEnd' /\ NothingFollowsAFailedAppend' /\ NewestStamp'
    BY <1>1 DEF WriterInv, TornOnlyAtTheEnd, NothingFollowsAFailedAppend, NewestStamp
  <1>4. JournalOrder'
    BY <1>1 DEF WriterInv, JournalOrder, Ascending
  <1>5. Used' = Used
    BY <1>1 DEF Used, InFiles, IdsIn
  <1>6. QED
    BY <1>2, <1>3, <1>4, <1>5

\* The same, when only control state moves: what is left is the type and the handle.
LEMMA ControlStep ==
  ASSUME WriterInv, TypeOK', ControlInv', UNCHANGED <<disk, failed, confirmed, rollback, queue, nextId>>,
         handle' => handle, pc = "writing" /\ handle' => pc' = "writing",
         inHand' = inHand \/ inHand' = None,
         inHand' # None => (pc # "writing" \/ pc' = "writing")
  PROVE  WriterInv'
  <1>1. /\ TornInv' /\ TornOnlyAtTheEnd' /\ NothingFollowsAFailedAppend' /\ JournalOrder'
        /\ NewestStamp' /\ Used' = Used
    BY SameFiles
  <1>2. FreshIds'
    BY <1>1, FreshIdsKept DEF WriterInv
  <1>3. QED
    BY <1>1, <1>2 DEF WriterInv

-----------------------------------------------------------------------------
(* One lemma per group of actions.                                           *)

\* run(): the worker moves on and touches neither file nor record.
LEMMA ThreadControl ==
  ASSUME WriterInv, LeaveLoop \/ UseHandle \/ KeepSegment \/ StopIntake \/ WorkerEnds
  PROVE  WriterInv'
  <1> USE DEF LeaveLoop, UseHandle, KeepSegment, StopIntake, WorkerEnds, disk, control, history
  <1>1. TypeOK'
    <2>1. TypeOK /\ Stamps' = Stamps
      BY DEF WriterInv, Stamps
    <2>2. /\ pc' \in PCs /\ handle' \in BOOLEAN /\ stopping' \in BOOLEAN
          /\ (pc \in Busy <=> pc' \in Busy)
      BY <2>1 DEF TypeOK, Busy, PCs
    <2>3. inHand' \in IF pc' \in Busy THEN Record ELSE {None}
      BY <2>1, <2>2 DEF TypeOK
    <2>4. QED
      BY <2>1, <2>2, <2>3 DEF TypeOK
  <1>2. ControlInv'
    BY DEF WriterInv, ControlInv
  <1>3. UNCHANGED <<disk, failed, confirmed, rollback, queue, nextId, inHand>>
    OBVIOUS
  <1>4. handle' => handle
    BY DEF WriterInv, TypeOK
  <1>5. pc # "writing"
    OBVIOUS
  <1> QED
    BY <1>1, <1>2, <1>3, <1>4, <1>5, ControlStep

\* close(): the closing thread moves on.
LEMMA CloserControl ==
  ASSUME WriterInv, CloseBegins \/ CloseJoins \/ CloseTimesOut \/ CloserReturns
  PROVE  WriterInv'
  <1> USE DEF CloseBegins, CloseJoins, CloseTimesOut, CloserReturns, disk, control, history
  <1>1. TypeOK'
    BY DEF WriterInv, TypeOK, Stamps
  <1>2. ControlInv'
    BY DEF WriterInv, ControlInv
  <1>3. UNCHANGED <<disk, failed, confirmed, rollback, queue, nextId, inHand, handle, pc>>
    OBVIOUS
  <1> QED
    BY <1>1, <1>2, <1>3, ControlStep

\* run(): the record in hand is dropped before any of it reaches the file.
LEMMA DroppedWithoutWriting ==
  ASSUME WriterInv, Refuse \/ RenameFails
  PROVE  WriterInv'
  <1> USE DEF Refuse, RenameFails, Finish, disk, intake
  <1>0. inHand \in Record
    BY DEF WriterInv, TypeOK, Busy
  <1>1. queuedBytes - inHand.size \in Int /\ dropped + 1 \in Nat /\ written + 0 \in Nat
    BY <1>0 DEF WriterInv, TypeOK, Record
  <1>2. UNCHANGED <<disk, failed, confirmed, rollback, queue, nextId>> /\ inHand' = None
    OBVIOUS
  <1>3. handle' \in BOOLEAN /\ (handle' => handle) /\ pc # "writing" /\ pc' = "loop"
    <2>1. handle' = handle \/ handle' = FALSE
      BY Zenon
    <2>2. handle' \in BOOLEAN /\ (handle' => handle)
      <3>1. handle \in BOOLEAN
        BY DEF WriterInv, TypeOK
      <3>2. CASE handle' = FALSE
        BY <3>2
      <3>3. CASE handle' = handle
        BY <3>1, <3>3
      <3>4. QED
        BY <2>1, <3>2, <3>3
    <2>3. QED
      BY <2>2
  <1>4. TypeOK'
    BY <1>1, <1>3 DEF WriterInv, TypeOK, Stamps, Busy, PCs
  <1>5. ControlInv'
    BY <1>2, <1>3 DEF WriterInv, ControlInv
  <1> QED
    BY <1>2, <1>3, <1>4, <1>5, ControlStep

\* run(): the oldest queued record comes in hand; everything in a file is older.
LEMMA TakeStep == ASSUME WriterInv, Take PROVE WriterInv'
  <1> USE DEF Take, disk, control, history
  <1>1. /\ queue \in Seq(Record) /\ queue # <<>> /\ Len(queue) \in Nat \ {0}
        /\ inHand' = queue[1] /\ inHand' \in Record /\ queue' \in Seq(Record)
        /\ Len(queue') = Len(queue) - 1
        /\ \A i \in 1..Len(queue') : queue'[i] = queue[i + 1]
    BY HeadTailProperties, LenProperties, EmptySeq DEF WriterInv, TypeOK
  <1>2. TypeOK'
    BY <1>1 DEF WriterInv, TypeOK, Stamps, Busy, PCs
  <1>3. ControlInv'
    BY DEF WriterInv, ControlInv
  <1>4. /\ TornInv' /\ TornOnlyAtTheEnd' /\ NothingFollowsAFailedAppend' /\ JournalOrder'
        /\ NewestStamp' /\ Used' = Used
    BY SameFiles
  <1>5. FreshIds'
    <2>1. failed' = failed /\ confirmed' = confirmed /\ nextId' = nextId
      OBVIOUS
    <2>2. \A i \in 1..Len(queue') : i + 1 \in 1..Len(queue) /\ 1 < i + 1
      BY <1>1
    <2>3. \A u \in Used : u < queue[1].id /\ u \in Nat
      <3>1. 1 \in 1..Len(queue)
        BY <1>1
      <3>2. Used \subseteq Nat
        BY UsedFacts DEF WriterInv
      <3>3. QED
        BY <3>1, <3>2 DEF WriterInv, FreshIds
    <2>4. inHand'.id \in Nat /\ inHand'.id < nextId /\ inHand'.id \notin Used
      BY <1>1, <2>3 DEF WriterInv, FreshIds, Record
    <2>5. \A i \in 1..Len(queue') : inHand'.id < queue'[i].id
      BY <1>1, <2>2 DEF WriterInv, FreshIds
    <2>6. inHand'.id \notin failed \cup confirmed
      BY <2>4, UsedFacts DEF WriterInv
    <2>7. \A u \in Used : u <= inHand'.id
      BY <1>1, <2>3, <2>4
    <2>8. \A u \in Used : u < nextId /\ \A i \in 1..Len(queue') : u < queue'[i].id
      BY <1>1, <2>2 DEF WriterInv, FreshIds
    <2>9. /\ \A i \in 1..Len(queue') : queue'[i].id < nextId
          /\ \A i, j \in 1..Len(queue') : i < j => queue'[i].id < queue'[j].id
      BY <1>1, <2>2 DEF WriterInv, FreshIds
    <2>10. QED
      BY <1>4, <2>1, <2>4, <2>5, <2>6, <2>7, <2>8, <2>9 DEF FreshIds
  <1> QED
    BY <1>2, <1>3, <1>4, <1>5 DEF WriterInv

\* submit(): an accepted record is newer than all others, a refused one is only counted.
LEMMA SubmitStep == ASSUME WriterInv, NEW shape \in Shapes, Submit(shape) PROVE WriterInv'
  <1> USE DEF Submit, disk, control
  <1> DEFINE r == [id |-> nextId, size |-> shape.size, len |-> shape.len]
  <1>1. r \in Record /\ nextId \in Nat
    BY WriterAssumption DEF WriterInv, TypeOK, Record
  <1>2. queue \in Seq(Record) /\ Len(queue) \in Nat
    BY LenProperties DEF WriterInv, TypeOK
  <1>3. queue' = queue \/ (/\ queue' \in Seq(Record) /\ Len(queue') = Len(queue) + 1
                           /\ \A i \in 1..Len(queue) : queue'[i] = queue[i]
                           /\ queue'[Len(queue) + 1] = r)
    <2>1. queue' = queue \/ queue' = Append(queue, r)
      OBVIOUS
    <2> HIDE DEF r
    <2>2. /\ Append(queue, r) \in Seq(Record) /\ Len(Append(queue, r)) = Len(queue) + 1
          /\ \A i \in 1..Len(queue) : Append(queue, r)[i] = queue[i]
          /\ Append(queue, r)[Len(queue) + 1] = r
      BY <1>1, <1>2, AppendProperties
    <2>3. QED
      BY <2>1, <2>2
  <1>4. queue' \in Seq(Record) /\ queuedBytes' \in Int /\ dropped' \in Nat /\ nextId' \in Nat
        /\ offered' \in Nat
    <2>1. queuedBytes \in Int /\ dropped \in Nat /\ offered \in Nat
      BY DEF WriterInv, TypeOK
    <2>2. r.size \in Nat
      BY <1>1 DEF Record
    <2>3. queuedBytes' = queuedBytes \/ queuedBytes' = queuedBytes + r.size
      OBVIOUS
    <2>4. dropped' = dropped \/ dropped' = dropped + 1
      OBVIOUS
    <2>5. QED
      BY <1>1, <1>2, <1>3, <2>1, <2>2, <2>3, <2>4
  <1>5. TypeOK'
    BY <1>4 DEF WriterInv, TypeOK, Stamps
  <1>6. ControlInv'
    BY DEF WriterInv, ControlInv
  <1>7. /\ TornInv' /\ TornOnlyAtTheEnd' /\ NothingFollowsAFailedAppend' /\ JournalOrder'
        /\ NewestStamp' /\ Used' = Used
    BY SameFiles
  <1>8. FreshIds'
    <2>0. /\ nextId' = nextId + 1 /\ failed' = failed /\ confirmed' = confirmed
          /\ inHand' = inHand /\ pc' = pc
      OBVIOUS
    <2>1. Used \subseteq Nat
      BY UsedFacts DEF WriterInv
    <2>2. /\ \A i \in 1..Len(queue) : queue[i].id \in Nat
          /\ inHand # None => inHand.id \in Nat
      <3>1. \A i \in 1..Len(queue) : queue[i] \in Record
        BY <1>2, ElementOfSeq
      <3>2. inHand # None => inHand \in Record
        BY DEF WriterInv, TypeOK
      <3>3. QED
        BY <3>1, <3>2 DEF Record
    <2>3. CASE queue' = queue
      BY <1>1, <1>7, <2>0, <2>1, <2>2, <2>3 DEF WriterInv, FreshIds
    <2>4. CASE /\ queue' \in Seq(Record) /\ Len(queue') = Len(queue) + 1
               /\ \A i \in 1..Len(queue) : queue'[i] = queue[i]
               /\ queue'[Len(queue) + 1] = r
      <3>1. \A i \in 1..Len(queue') : i \in 1..Len(queue) \/ i = Len(queue) + 1
        BY <1>2, <2>4
      <3>2. r.id = nextId
        OBVIOUS
      <3>3. \A i \in 1..Len(queue') : queue'[i].id < nextId'
        BY <1>1, <2>0, <2>2, <2>4, <3>1, <3>2 DEF WriterInv, FreshIds
      <3>4. \A u \in Used : u < nextId' /\ \A i \in 1..Len(queue') : u < queue'[i].id
        BY <1>1, <2>0, <2>1, <2>4, <3>1, <3>2 DEF WriterInv, FreshIds
      <3>5. \A i, j \in 1..Len(queue') : i < j => queue'[i].id < queue'[j].id
        BY <1>2, <2>4, <3>1, <3>2 DEF WriterInv, FreshIds
      <3>6. inHand # None => /\ inHand.id < nextId'
                             /\ \A i \in 1..Len(queue') : inHand.id < queue'[i].id
        BY <1>1, <2>0, <2>2, <2>4, <3>1, <3>2 DEF WriterInv, FreshIds
      <3>7. QED
        BY <1>7, <2>0, <3>3, <3>4, <3>5, <3>6 DEF WriterInv, FreshIds
    <2>5. QED
      BY <1>3, <2>3, <2>4
  <1> QED
    BY <1>5, <1>6, <1>7, <1>8 DEF WriterInv

\* discard_pending(), by the worker or by close().
LEMMA DiscardStep == ASSUME WriterInv, WorkerDiscards \/ CloserDiscards PROVE WriterInv'
  <1> USE DEF WorkerDiscards, CloserDiscards, DiscardHead, disk, control, history
  <1>1. /\ queue \in Seq(Record) /\ queue # <<>> /\ Len(queue) \in Nat \ {0}
        /\ Head(queue) \in Record /\ queue' \in Seq(Record)
        /\ Len(queue') = Len(queue) - 1
        /\ \A i \in 1..Len(queue') : queue'[i] = queue[i + 1]
    <2>1. queue \in Seq(Record) /\ queue # <<>> /\ queue' = Tail(queue)
      BY DEF WriterInv, TypeOK
    <2>2. QED
      BY <2>1, HeadTailProperties, LenProperties, EmptySeq
  <1>2. queuedBytes' \in Int /\ dropped' \in Nat
    <2>1. queuedBytes \in Int /\ dropped \in Nat
      BY DEF WriterInv, TypeOK
    <2>2. Head(queue).size \in Nat
      BY <1>1 DEF Record
    <2>3. QED
      BY <2>1, <2>2
  <1>3. TypeOK'
    BY <1>1, <1>2 DEF WriterInv, TypeOK, Stamps
  <1>4. ControlInv'
    BY DEF WriterInv, ControlInv
  <1>5. /\ TornInv' /\ TornOnlyAtTheEnd' /\ NothingFollowsAFailedAppend' /\ JournalOrder'
        /\ NewestStamp' /\ Used' = Used
    BY SameFiles
  <1>6. FreshIds'
    <2>1. UNCHANGED <<failed, confirmed, nextId, inHand, pc>>
      OBVIOUS
    <2>2. \A i \in 1..Len(queue') : i + 1 \in 1..Len(queue)
      BY <1>1
    <2>3. \A i, j \in 1..Len(queue') : i < j => i + 1 < j + 1
      BY <1>1
    <2>4. QED
      BY <1>1, <1>5, <2>1, <2>2, <2>3 DEF WriterInv, FreshIds
  <1> QED
    BY <1>3, <1>4, <1>5, <1>6 DEF WriterInv

\* The process dies: files, confirmed ids and the order of ids stay.
LEMMA RestartStep == ASSUME WriterInv, Restart PROVE WriterInv'
  <1> USE DEF Restart, disk
  <1>1. queue' \in Seq(Record) /\ Len(queue') = 0 /\ inHand' = None /\ pc' = "start"
    BY EmptySeq
  <1>2. TypeOK'
    <2>1. stream' = stream /\ exists' = exists /\ archives' = archives /\ Stamps' = Stamps
          /\ confirmed' = confirmed /\ nextId' = nextId
      BY DEF Stamps
    <2>2. /\ stream \in Seq(Chunk) /\ exists \in BOOLEAN
          /\ Stamps \subseteq Nat /\ IsFiniteSet(Stamps) /\ archives \in [Stamps -> Seq(Chunk)]
          /\ confirmed \subseteq Nat /\ nextId \in Nat
      BY DEF WriterInv, TypeOK
    <2>3. inHand' \in (IF pc' \in Busy THEN Record ELSE {None}) /\ pc' \in PCs
      BY <1>1 DEF Busy, PCs
    <2>4. /\ handle' \in BOOLEAN /\ stopping' \in BOOLEAN /\ abandon' \in BOOLEAN
          /\ rollback' \in Nat \cup {None}
      BY Zenon
    <2>5. /\ closer' \in {"running", "joining", "discarding", "returned"}
          /\ queuedBytes' \in Int /\ written' \in Nat /\ dropped' \in Nat /\ offered' \in Nat
          /\ repaired' \in Nat /\ failed' \subseteq Nat
      OBVIOUS
    <2>6. restarts' \in Nat
      BY DEF WriterInv, TypeOK
    <2>7. QED
      BY <1>1, <2>1, <2>2, <2>3, <2>4, <2>5, <2>6 DEF TypeOK
  <1>3. ControlInv'
    BY DEF WriterInv, ControlInv
  <1>4. Stamps' = Stamps /\ archives' = archives /\ stream' = stream /\ failed' = {}
    BY DEF Stamps
  <1>5. JournalOrder' /\ Used' \subseteq Used
    BY <1>4 DEF WriterInv, JournalOrder, Ascending, Used, InFiles, IdsIn
  <1>6. TornInv' /\ TornOnlyAtTheEnd' /\ NothingFollowsAFailedAppend' /\ NewestStamp'
    BY <1>4 DEF WriterInv, TornInv, TornOnlyAtTheEnd, NothingFollowsAFailedAppend, NewestStamp
  <1>7. FreshIds'
    BY <1>1, <1>5 DEF WriterInv, FreshIds
  <1> QED
    BY <1>2, <1>3, <1>5, <1>6, <1>7 DEF WriterInv

\* Every way to call open_stream(): what it leaves is in order and complete.
LEMMA OpenStreamKeeps ==
  ASSUME WriterInv, NEW gone \in SUBSET Stamps, NEW stage \in Stages, OpenStream(gone, stage),
         UNCHANGED <<failed, confirmed>>, pc # "writing", pc' # "writing"
  PROVE  /\ TornInv' /\ TornOnlyAtTheEnd' /\ NothingFollowsAFailedAppend' /\ JournalOrder'
         /\ NewestStamp' /\ Used' \subseteq Used
         /\ stream' \in Seq(Chunk) /\ Stamps' \subseteq Nat /\ IsFiniteSet(Stamps')
         /\ archives' \in [Stamps' -> Seq(Chunk)]
         /\ rollback' \in Nat \cup {None} /\ exists' \in BOOLEAN /\ handle' \in BOOLEAN
         /\ ~exists' => stream' = <<>>
         /\ handle' => stage = "ready" /\ exists' /\ rollback' = None
         /\ stage = "ready" => handle'
         /\ rollback' # None => exists' /\ rollback' \in {Len(stream'), Len(stream') - 1}
  <1>1. /\ stream' \in Seq(Chunk) /\ Len(stream') \in 0..Len(stream)
        /\ \A i \in 1..Len(stream') : stream'[i] = stream[i]
        /\ rollback' # None => Len(stream') = Len(stream) /\ rollback' = rollback
        /\ rollback' = None /\ rollback # None => Len(stream') <= rollback
        /\ handle' => \A i \in 1..Len(stream') : stream[i].whole
        /\ Stamps' = Stamps \ gone /\ archives' = [s \in Stamps \ gone |-> archives[s]]
        /\ rollback' \in {rollback, None} /\ exists' \in BOOLEAN /\ handle' \in BOOLEAN
        /\ exists => exists'
        /\ ~exists' => stream' = <<>>
        /\ handle' => stage = "ready" /\ exists' /\ rollback' = None
        /\ stage = "ready" => handle'
    BY OpenStreamFacts
  <1>2. /\ Len(stream) \in Nat /\ Stamps \subseteq Nat /\ IsFiniteSet(Stamps)
        /\ archives \in [Stamps -> Seq(Chunk)] /\ rollback \in Nat \cup {None}
    BY LenProperties DEF WriterInv, TypeOK
  <1>3. /\ Stamps' \subseteq Stamps /\ IsFiniteSet(Stamps') /\ Stamps' \subseteq Nat
        /\ \A s \in Stamps' : archives'[s] = archives[s]
        /\ archives' \in [Stamps' -> Seq(Chunk)]
    BY <1>1, <1>2, FS_Subset
  <1>4. /\ JournalOrder'
        /\ \A s \in Stamps' : \A i \in 1..Len(archives'[s]) :
             archives'[s][i].whole /\ archives'[s][i].id \notin failed'
        /\ Used' \subseteq Used
    BY <1>1, <1>3, FilesShrink
  <1>5. \A i \in 1..Len(stream') : i \in 1..Len(stream) /\ (i = Len(stream) => i = Len(stream'))
    BY <1>1, <1>2
  <1>6. rollback' # None => exists' /\ rollback' \in {Len(stream'), Len(stream') - 1}
    BY <1>1 DEF WriterInv, ControlInv
  <1>7. \A i \in 1..Len(stream') :
          ~stream'[i].whole => /\ i = Len(stream') /\ ~handle'
                               /\ rollback' # None => rollback' = i - 1
    BY <1>1, <1>5 DEF WriterInv, TornInv
  <1>8. TornInv' /\ TornOnlyAtTheEnd'
    BY <1>4, <1>7 DEF TornInv, TornOnlyAtTheEnd
  <1>9. \A i \in 1..Len(stream') :
          stream'[i].id \in failed' => i = Len(stream') /\ rollback' = i - 1
    <2> SUFFICES ASSUME NEW i \in 1..Len(stream'), stream'[i].id \in failed'
                 PROVE  i = Len(stream') /\ rollback' = i - 1
      OBVIOUS
    <2>1. i = Len(stream) /\ rollback = i - 1 /\ i = Len(stream')
      BY <1>1, <1>5 DEF WriterInv, NothingFollowsAFailedAppend
    <2>2. rollback # None /\ rollback < Len(stream')
      BY <1>1, <1>2, <2>1, WriterAssumption
    <2>3. rollback' # None
      BY <1>1, <1>2, <2>2
    <2>4. QED
      BY <1>1, <2>1, <2>3
  <1>10. NothingFollowsAFailedAppend'
    BY <1>4, <1>9 DEF NothingFollowsAFailedAppend
  <1>11. NewestStamp'
    <2>1. DOMAIN archives = Stamps /\ Prunes(archives, gone)
      BY DEF Stamps, OpenStream
    <2>2. Stamps \ gone = {} \/ \E s \in Stamps \ gone : \A t \in Stamps \ gone : t <= s
      BY <1>2, <2>1, PruneKeepsNewest DEF WriterInv, NewestStamp
    <2>3. QED
      BY <1>1, <2>2 DEF NewestStamp
  <1>12. rollback' \in Nat \cup {None}
    BY <1>1, <1>2
  <1>13. QED
    BY <1>1, <1>3, <1>4, <1>6, <1>8, <1>10, <1>11, <1>12

\* open_stream() counts zero or one discarded tail.
LEMMA DiscardedNat == \A stage \in Stages : Discarded(stage) \in Nat
  BY DEF Discarded

\* run(): recovery and retention before the first record.
LEMMA RecoverStep == ASSUME WriterInv, Recover PROVE WriterInv'
  <1>1. /\ pc = "start" /\ pc' = "loop" /\ pc' \in PCs /\ inHand = None /\ inHand' = None
        /\ inHand' \in (IF pc' \in Busy THEN Record ELSE {None})
    BY DEF Recover, WriterInv, TypeOK, Busy, PCs
  <1>2. UNCHANGED <<queue, nextId, failed, confirmed, queuedBytes, written, stopping, abandon,
                    closer, offered, restarts>>
    BY DEF Recover, intake
  <1>3. /\ queue \in Seq(Record) /\ nextId \in Nat /\ failed \subseteq Nat
        /\ confirmed \subseteq Nat /\ queuedBytes \in Int /\ written \in Nat
        /\ stopping \in BOOLEAN /\ abandon \in BOOLEAN /\ offered \in Nat /\ restarts \in Nat
        /\ closer \in {"running", "joining", "discarding", "returned"}
        /\ dropped \in Nat /\ repaired \in Nat
    BY DEF WriterInv, TypeOK
  <1>4. CASE \E gone \in SUBSET Stamps, stage \in Stages :
               /\ OpenStream(gone, stage)
               /\ dropped' = dropped + Discarded(stage) /\ repaired' = repaired + Discarded(stage)
    <2>1. PICK gone \in SUBSET Stamps, stage \in Stages :
               /\ OpenStream(gone, stage)
               /\ dropped' = dropped + Discarded(stage) /\ repaired' = repaired + Discarded(stage)
      BY <1>4
    <2>2. dropped' \in Nat /\ repaired' \in Nat
      BY <1>3, <2>1, DiscardedNat
    <2>3. /\ TornInv' /\ TornOnlyAtTheEnd' /\ NothingFollowsAFailedAppend' /\ JournalOrder'
          /\ NewestStamp' /\ Used' \subseteq Used
          /\ stream' \in Seq(Chunk) /\ Stamps' \subseteq Nat /\ IsFiniteSet(Stamps')
          /\ archives' \in [Stamps' -> Seq(Chunk)]
          /\ rollback' \in Nat \cup {None} /\ exists' \in BOOLEAN /\ handle' \in BOOLEAN
          /\ ~exists' => stream' = <<>>
          /\ handle' => stage = "ready" /\ exists' /\ rollback' = None
          /\ rollback' # None => exists' /\ rollback' \in {Len(stream'), Len(stream') - 1}
      BY <1>1, <1>2, <2>1, OpenStreamKeeps
    <2>4. TypeOK'
      BY <1>1, <1>2, <1>3, <2>2, <2>3 DEF TypeOK
    <2>5. ControlInv'
      BY <1>1, <2>3 DEF ControlInv
    <2>6. FreshIds'
      BY <1>1, <1>2, <2>3, FreshIdsKept DEF WriterInv
    <2>7. QED
      BY <2>3, <2>4, <2>5, <2>6 DEF WriterInv
  <1>5. CASE \E gone \in SUBSET Stamps :
               /\ Prunes(archives, gone) /\ archives' = Without(archives, gone)
               /\ UNCHANGED <<stream, exists, handle, rollback, dropped, repaired>>
    <2>1. PICK gone \in SUBSET Stamps :
               /\ Prunes(archives, gone) /\ archives' = Without(archives, gone)
               /\ UNCHANGED <<stream, exists, handle, rollback, dropped, repaired>>
      BY <1>5
    <2>2. /\ DOMAIN archives = Stamps /\ Stamps \subseteq Nat /\ IsFiniteSet(Stamps)
          /\ archives \in [Stamps -> Seq(Chunk)] /\ stream \in Seq(Chunk) /\ Len(stream) \in Nat
          /\ exists \in BOOLEAN /\ handle \in BOOLEAN /\ rollback \in Nat \cup {None}
      BY LenProperties DEF WriterInv, TypeOK, Stamps
    <2>3. Stamps' = Stamps \ gone /\ archives' = [s \in Stamps \ gone |-> archives[s]]
      BY <2>1 DEF Without, Stamps
    <2>4. /\ Stamps' \subseteq Stamps /\ IsFiniteSet(Stamps') /\ Stamps' \subseteq Nat
          /\ \A s \in Stamps' : archives'[s] = archives[s]
          /\ archives' \in [Stamps' -> Seq(Chunk)]
      BY <2>2, <2>3, FS_Subset
    <2>5. /\ JournalOrder'
          /\ \A s \in Stamps' : \A i \in 1..Len(archives'[s]) :
               archives'[s][i].whole /\ archives'[s][i].id \notin failed'
          /\ Used' \subseteq Used
      <3>1. stream' = stream /\ failed' = failed /\ confirmed' = confirmed
        BY <1>2, <2>1
      <3>2. Len(stream') \in 0..Len(stream) /\ \A i \in 1..Len(stream') : stream'[i] = stream[i]
        BY <2>2, <3>1
      <3>3. QED
        BY <2>2, <2>4, <3>1, <3>2, FilesShrink
    <2>6. NewestStamp'
      <3>1. Stamps \ gone = {} \/ \E s \in Stamps \ gone : \A t \in Stamps \ gone : t <= s
        BY <2>1, <2>2, PruneKeepsNewest DEF WriterInv, NewestStamp
      <3>2. QED
        BY <2>3, <3>1 DEF NewestStamp
    <2>7. TornInv'
      BY <1>1, <2>1 DEF WriterInv, TornInv
    <2>8. TornOnlyAtTheEnd' /\ NothingFollowsAFailedAppend'
      BY <1>2, <2>1, <2>5 DEF WriterInv, TornOnlyAtTheEnd, NothingFollowsAFailedAppend
    <2>9. TypeOK'
      BY <1>1, <1>2, <1>3, <2>1, <2>2, <2>4 DEF TypeOK
    <2>10. ControlInv'
      BY <1>1, <2>1 DEF WriterInv, ControlInv
    <2>11. FreshIds'
      BY <1>1, <1>2, <2>5, FreshIdsKept DEF WriterInv
    <2>12. QED
      BY <2>5, <2>6, <2>7, <2>8, <2>9, <2>10, <2>11 DEF WriterInv
  <1>6. QED
    BY <1>4, <1>5 DEF Recover

\* run(): open_stream() with a record in hand, for the first write or after a roll.
LEMMA OpenForStep ==
  ASSUME WriterInv, OpenFirst \/ Reopen
  PROVE  WriterInv'
  <1>0. PICK next \in {"fit", "write"} : OpenFor(next)
    BY DEF OpenFirst, Reopen
  <1>1. /\ pc \in {"taken", "reopen"} /\ pc \in Busy /\ pc # "writing" /\ inHand \in Record
    BY DEF OpenFirst, Reopen, WriterInv, TypeOK, Busy
  <1>2. UNCHANGED <<queue, nextId, failed, confirmed, stopping, abandon, closer, offered, restarts>>
    BY <1>0 DEF OpenFor, intake
  <1>3. /\ queue \in Seq(Record) /\ nextId \in Nat /\ failed \subseteq Nat
        /\ confirmed \subseteq Nat /\ queuedBytes \in Int /\ written \in Nat
        /\ stopping \in BOOLEAN /\ abandon \in BOOLEAN /\ offered \in Nat /\ restarts \in Nat
        /\ closer \in {"running", "joining", "discarding", "returned"}
        /\ dropped \in Nat /\ repaired \in Nat
    BY DEF WriterInv, TypeOK
  <1>4. inHand.size \in Nat
    BY <1>1 DEF Record
  <1>5. PICK gone \in SUBSET Stamps, stage \in Stages :
          /\ OpenStream(gone, stage)
          /\ repaired' = repaired + Discarded(stage)
          /\ \/ /\ stage = "ready" /\ pc' = next
                /\ dropped' = dropped + Discarded(stage)
                /\ UNCHANGED <<inHand, queuedBytes, written>>
             \/ stage # "ready" /\ Finish(0, 1)
    BY <1>0 DEF OpenFor
  <1>6. \/ stage = "ready" /\ pc' \in {"fit", "write"} /\ inHand' = inHand
        \/ stage # "ready" /\ pc' = "loop" /\ inHand' = None
    BY <1>0, <1>5 DEF Finish
  <1>7. /\ pc' # "writing" /\ pc' \in PCs
        /\ inHand' \in (IF pc' \in Busy THEN Record ELSE {None})
    BY <1>1, <1>6 DEF Busy, PCs
  <1>8. dropped' \in Nat /\ repaired' \in Nat /\ queuedBytes' \in Int /\ written' \in Nat
    <2>1. CASE stage = "ready"
      BY <1>3, <1>5, <2>1, DiscardedNat
    <2>2. CASE stage # "ready"
      <3>1. /\ queuedBytes' = queuedBytes - inHand.size /\ written' = written + 0
            /\ dropped' = dropped + 1
        BY <1>5, <2>2 DEF Finish
      <3>2. QED
        BY <1>3, <1>4, <1>5, <3>1, DiscardedNat
    <2>3. QED
      BY <2>1, <2>2
  <1>9. /\ TornInv' /\ TornOnlyAtTheEnd' /\ NothingFollowsAFailedAppend' /\ JournalOrder'
        /\ NewestStamp' /\ Used' \subseteq Used
        /\ stream' \in Seq(Chunk) /\ Stamps' \subseteq Nat /\ IsFiniteSet(Stamps')
        /\ archives' \in [Stamps' -> Seq(Chunk)]
        /\ rollback' \in Nat \cup {None} /\ exists' \in BOOLEAN /\ handle' \in BOOLEAN
        /\ ~exists' => stream' = <<>>
        /\ handle' => stage = "ready" /\ exists' /\ rollback' = None
        /\ stage = "ready" => handle'
        /\ rollback' # None => exists' /\ rollback' \in {Len(stream'), Len(stream') - 1}
    BY <1>1, <1>2, <1>5, <1>7, OpenStreamKeeps
  <1>10. TypeOK'
    BY <1>2, <1>3, <1>7, <1>8, <1>9 DEF TypeOK
  <1>11. ControlInv'
    BY <1>6, <1>9 DEF ControlInv
  <1>12. FreshIds'
    BY <1>1, <1>2, <1>6, <1>9, FreshIdsKept DEF WriterInv
  <1>13. QED
    BY <1>9, <1>10, <1>11, <1>12 DEF WriterInv

\* roll() names the new archive above every existing one, whatever the clock says.
LEMMA StampIsNewest ==
  ASSUME WriterInv, NEW now \in Clock
  PROVE  Stamp(now) \in Nat /\ \A s \in Stamps : s < Stamp(now)
  <1>1. now \in Nat /\ Stamps \subseteq Nat
    BY WriterAssumption DEF WriterInv, TypeOK
  <1>2. CASE \A s \in Stamps : s < now
    BY <1>1, <1>2 DEF Stamp
  <1>3. CASE ~\A s \in Stamps : s < now
    <2> DEFINE newest == CHOOSE s \in Stamps : \A t \in Stamps : t <= s
    <2>1. \E s \in Stamps : \A t \in Stamps : t <= s
      BY <1>3 DEF WriterInv, NewestStamp
    <2>2. newest \in Stamps /\ \A t \in Stamps : t <= newest
      BY <2>1
    <2>3. Stamp(now) = newest + 1
      BY <1>3 DEF Stamp
    <2> HIDE DEF newest
    <2>4. QED
      BY <1>1, <2>2, <2>3
  <1>4. QED
    BY <1>2, <1>3

\* roll(): the open segment becomes the newest archive, then prune() runs.
LEMMA RollStep == ASSUME WriterInv, NEW now \in Clock, Roll(now) PROVE WriterInv'
  <1> DEFINE stamp   == Stamp(now)
             renamed == [s \in Stamps \cup {stamp} |-> IF s = stamp THEN stream ELSE archives[s]]
  <1>1. stamp \in Nat /\ \A s \in Stamps : s < stamp
    BY StampIsNewest
  <1> HIDE DEF stamp
  <1>2. PICK gone \in SUBSET (Stamps \cup {stamp}) :
          /\ Prunes(renamed, gone) /\ archives' = Without(renamed, gone)
          /\ \/ /\ pc' = "reopen"
                /\ UNCHANGED <<inHand, queuedBytes, written, dropped>>
             \/ Finish(0, 1)
    BY DEF Roll, stamp
  <1>3. /\ pc = "fit" /\ stream' = <<>> /\ exists' = FALSE /\ handle' = FALSE
        /\ UNCHANGED <<queue, stopping, abandon, closer, offered, nextId, restarts, rollback,
                       repaired, confirmed, failed>>
    BY DEF Roll, intake
  <1>4. /\ queue \in Seq(Record) /\ nextId \in Nat /\ failed \subseteq Nat
        /\ confirmed \subseteq Nat /\ queuedBytes \in Int /\ written \in Nat
        /\ stopping \in BOOLEAN /\ abandon \in BOOLEAN /\ offered \in Nat /\ restarts \in Nat
        /\ closer \in {"running", "joining", "discarding", "returned"}
        /\ dropped \in Nat /\ repaired \in Nat
        /\ Stamps \subseteq Nat /\ IsFiniteSet(Stamps) /\ archives \in [Stamps -> Seq(Chunk)]
        /\ stream \in Seq(Chunk) /\ Len(stream) \in Nat
    BY LenProperties DEF WriterInv, TypeOK
  <1>5. inHand \in Record /\ inHand.size \in Nat
    BY <1>3 DEF WriterInv, TypeOK, Busy, Record
  <1>6. handle /\ rollback = None
    BY <1>3 DEF WriterInv, ControlInv
  <1>7. \A i \in 1..Len(stream) : stream[i].whole /\ stream[i].id \notin failed
    <2>1. \A i \in 1..Len(stream) : stream[i].whole
      BY <1>3, <1>6 DEF WriterInv, TornInv
    <2>2. ASSUME NEW i \in 1..Len(stream), stream[i].id \in failed PROVE FALSE
      <3>1. rollback = i - 1
        BY <2>2 DEF WriterInv, NothingFollowsAFailedAppend
      <3>2. i - 1 \in Nat
        BY <1>4
      <3>3. QED
        BY <1>6, <3>1, <3>2, WriterAssumption
    <2>3. QED
      BY <2>1, <2>2
  <1>8. /\ DOMAIN renamed = Stamps \cup {stamp} /\ DOMAIN renamed \subseteq Nat
        /\ IsFiniteSet(DOMAIN renamed) /\ stamp \in DOMAIN renamed
        /\ \A t \in DOMAIN renamed : t <= stamp
    <2>1. DOMAIN renamed = Stamps \cup {stamp}
      OBVIOUS
    <2>2. IsFiniteSet(Stamps \cup {stamp})
      BY <1>4, FS_AddElement
    <2>3. \A t \in Stamps \cup {stamp} : t <= stamp
      BY <1>1, <1>4
    <2>4. QED
      BY <1>1, <1>4, <2>1, <2>2, <2>3
  <1>9. /\ renamed[stamp] = stream
        /\ \A s \in DOMAIN renamed : s # stamp => s \in Stamps /\ renamed[s] = archives[s]
    OBVIOUS
  <1>10. \A s \in DOMAIN renamed : renamed[s] \in Seq(Chunk)
    BY <1>4, <1>9
  <1> HIDE DEF renamed
  <1>11. /\ Stamps' = DOMAIN renamed \ gone
         /\ archives' = [s \in DOMAIN renamed \ gone |-> renamed[s]]
    BY <1>2 DEF Without, Stamps
  <1>12. /\ Stamps' \subseteq DOMAIN renamed /\ Stamps' \subseteq Nat /\ IsFiniteSet(Stamps')
         /\ archives' \in [Stamps' -> Seq(Chunk)]
         /\ \A s \in Stamps' : archives'[s] = renamed[s]
    BY <1>8, <1>10, <1>11, FS_Subset
  <1>13. NewestStamp'
    <2>1. DOMAIN renamed \ gone = {} \/
            \E s \in DOMAIN renamed \ gone : \A t \in DOMAIN renamed \ gone : t <= s
      BY <1>2, <1>8, PruneKeepsNewest
    <2>2. QED
      BY <1>11, <2>1 DEF NewestStamp
  <1>14. Len(stream') = 0
    BY <1>3
  <1>15. \A s \in Stamps' : archives'[s] = stream \/ (s \in Stamps /\ archives'[s] = archives[s])
    BY <1>9, <1>12
  <1>16. TornInv' /\ TornOnlyAtTheEnd'
    BY <1>7, <1>14, <1>15 DEF WriterInv, TornInv, TornOnlyAtTheEnd
  <1>17. NothingFollowsAFailedAppend'
    BY <1>3, <1>7, <1>14, <1>15 DEF WriterInv, NothingFollowsAFailedAppend
  <1>18. JournalOrder'
    <2>1. \A s \in Stamps' : Ascending(archives'[s])
      BY <1>15 DEF WriterInv, JournalOrder
    <2>2. Ascending(stream')
      BY <1>14 DEF Ascending
    <2>3. ASSUME NEW s \in Stamps', NEW t \in Stamps', s < t,
                 NEW i \in 1..Len(archives'[s]), NEW j \in 1..Len(archives'[t])
          PROVE  archives'[s][i].id < archives'[t][j].id
      <3>1. s # stamp /\ s \in Stamps /\ archives'[s] = archives[s]
        BY <1>1, <1>8, <1>9, <1>12, <2>3
      <3>2. CASE t = stamp
        <4>1. archives'[t] = stream
          BY <1>9, <1>12, <3>2
        <4>2. QED
          BY <2>3, <3>1, <4>1 DEF WriterInv, JournalOrder
      <3>3. CASE t # stamp
        <4>1. t \in Stamps /\ archives'[t] = archives[t]
          BY <1>9, <1>12, <3>3
        <4>2. QED
          BY <2>3, <3>1, <4>1 DEF WriterInv, JournalOrder
      <3>4. QED
        BY <3>2, <3>3
    <2>4. QED
      BY <1>14, <2>1, <2>2, <2>3 DEF JournalOrder
  <1>19. Used' \subseteq Used
    <2>1. \A s \in Stamps' : IdsIn(archives'[s]) \subseteq InFiles
      <3>1. IdsIn(stream) \subseteq InFiles
        BY DEF InFiles
      <3>2. \A s \in Stamps : IdsIn(archives[s]) \subseteq InFiles
        BY DEF InFiles
      <3>3. QED
        BY <1>15, <3>1, <3>2
    <2>2. IdsIn(stream') = {}
      BY <1>14 DEF IdsIn
    <2>3. InFiles' \subseteq InFiles
      BY <2>1, <2>2 DEF InFiles
    <2>4. QED
      BY <1>3, <2>3 DEF Used
  <1>20. /\ pc' \in {"reopen", "loop"} /\ pc' \in PCs
         /\ inHand' \in (IF pc' \in Busy THEN Record ELSE {None})
         /\ (inHand' = inHand \/ inHand' = None)
    BY <1>2, <1>5 DEF Finish, Busy, PCs
  <1>21. queuedBytes' \in Int /\ written' \in Nat /\ dropped' \in Nat
    BY <1>2, <1>4, <1>5 DEF Finish
  <1>22. TypeOK'
    <2>1. stream' \in Seq(Chunk)
      BY <1>3
    <2>2. /\ exists' \in BOOLEAN /\ handle' \in BOOLEAN /\ stopping' \in BOOLEAN
          /\ abandon' \in BOOLEAN
      BY <1>3, <1>4, Zenon
    <2>3. QED
      BY <1>3, <1>4, <1>6, <1>12, <1>20, <1>21, <2>1, <2>2 DEF TypeOK
  <1>23. ControlInv'
    BY <1>3, <1>6, <1>20 DEF ControlInv
  <1>24. FreshIds'
    BY <1>3, <1>19, <1>20, FreshIdsKept DEF WriterInv
  <1>25. QED
    BY <1>13, <1>16, <1>17, <1>18, <1>22, <1>23, <1>24 DEF WriterInv

-----------------------------------------------------------------------------
(* write().                                                                  *)

\* While write() runs, the record it appends is in no archive, and in the open
\* segment at most as the last chunk.
LEMMA InHandIsNotFiledYet ==
  ASSUME WriterInv, pc \in {"write", "writing"}
  PROVE  /\ inHand \in Record /\ inHand.id \in Nat /\ inHand.size \in Nat /\ handle /\ exists
         /\ \A s \in Stamps : \A i \in 1..Len(archives[s]) : archives[s][i].id # inHand.id
         /\ \A i \in 1..Len(stream) :
              stream[i].id = inHand.id => pc = "writing" /\ i = Len(stream)
         /\ pc = "write" => rollback = None
         /\ pc = "writing" => rollback = Len(stream) - 1 /\ Len(stream) \in Nat \ {0}
         /\ \A i \in 1..Len(stream) : stream[i].id \notin failed
  <1>1. inHand \in Record /\ handle /\ exists /\ inHand # None
    <2>1. inHand \in Record
      BY DEF WriterInv, TypeOK, Busy
    <2>2. handle /\ exists
      BY DEF WriterInv, ControlInv
    <2>3. QED
      BY <2>1, <2>2, WriterAssumption DEF Record
  <1>2. inHand.id \in Nat /\ inHand.size \in Nat
    BY <1>1 DEF Record
  <1>3. /\ pc = "write" => rollback = None
        /\ pc = "writing" => rollback = Len(stream) - 1 /\ stream[Len(stream)].id = inHand.id
        /\ Len(stream) \in Nat /\ rollback \in Nat \cup {None}
    BY LenProperties DEF WriterInv, ControlInv, TypeOK
  <1>4. pc = "writing" => Len(stream) \in Nat \ {0}
    <2>1. pc = "writing" => stream # <<>>
      BY DEF WriterInv, ControlInv
    <2>2. stream \in Seq(Chunk)
      BY DEF WriterInv, TypeOK
    <2>3. QED
      BY <1>3, <2>1, <2>2, EmptySeq
  <1>5. /\ \A i \in 1..Len(stream) : stream[i].id \in Nat /\ stream[i].id \in Used
        /\ \A s \in Stamps : \A i \in 1..Len(archives[s]) :
             archives[s][i].id \in Nat /\ archives[s][i].id \in Used
    BY UsedFacts DEF WriterInv
  <1>6. CASE pc = "write"
    <2>1. inHand.id \notin Used
      BY <1>1, <1>6 DEF WriterInv, FreshIds
    <2>2. ASSUME NEW i \in 1..Len(stream), stream[i].id \in failed PROVE FALSE
      <3>1. rollback = i - 1
        BY <2>2 DEF WriterInv, NothingFollowsAFailedAppend
      <3>2. i - 1 \in Nat
        BY <1>3
      <3>3. QED
        BY <1>3, <1>6, <3>1, <3>2, WriterAssumption
    <2>3. QED
      BY <1>1, <1>2, <1>3, <1>4, <1>5, <1>6, <2>1, <2>2
  <1>7. CASE pc = "writing"
    <2>1. \A s \in Stamps : \A i \in 1..Len(archives[s]) : archives[s][i].id # inHand.id
      <3>1. \A s \in Stamps : \A i \in 1..Len(archives[s]), j \in 1..Len(stream) :
              archives[s][i].id < stream[j].id
        BY DEF WriterInv, JournalOrder
      <3>2. Len(stream) \in 1..Len(stream)
        BY <1>4, <1>7
      <3>3. QED
        BY <1>2, <1>3, <1>5, <1>7, <3>1, <3>2
    <2>2. \A i \in 1..Len(stream) : stream[i].id = inHand.id => i = Len(stream)
      <3>1. \A i \in 1..Len(stream) : i < Len(stream) => stream[i].id < inHand.id
        BY <1>3, <1>4, <1>7 DEF WriterInv, JournalOrder, Ascending
      <3>2. QED
        BY <1>2, <1>3, <1>5, <3>1
    <2>3. \A i \in 1..Len(stream) : stream[i].id \notin failed
      <3>1. inHand.id \notin failed
        BY <1>1 DEF WriterInv, FreshIds
      <3>2. \A i \in 1..Len(stream) : stream[i].id \in failed => i = Len(stream)
        BY DEF WriterInv, NothingFollowsAFailedAppend
      <3>3. QED
        BY <1>3, <1>7, <3>1, <3>2
    <2>4. QED
      BY <1>1, <1>2, <1>3, <1>4, <1>7, <2>1, <2>2, <2>3
  <1>8. QED
    BY <1>6, <1>7

\* The record in hand is settled: everything still queued is newer.
LEMMA SettledFreshIds ==
  ASSUME WriterInv, inHand # None, inHand' = None, queue' = queue, nextId' = nextId,
         Used' \subseteq Used \cup {inHand.id}
  PROVE  FreshIds'
  BY DEF WriterInv, FreshIds

\* write(): the first bytes of the record reach the file.
LEMMA AppendBytesStep ==
  ASSUME WriterInv, NEW whole \in BOOLEAN, AppendBytes(whole)
  PROVE  WriterInv'
  <1> DEFINE c == [id |-> inHand.id, len |-> IF whole THEN inHand.len ELSE 1, whole |-> whole]
  <1>1. /\ pc = "write" /\ pc' = "writing" /\ rollback' = Len(stream)
        /\ stream' = Append(stream, c)
        /\ UNCHANGED <<exists, archives, queue, stopping, abandon, closer, offered, nextId,
                       restarts, queuedBytes, inHand, handle, written, dropped, repaired,
                       confirmed, failed>>
    BY DEF AppendBytes, intake
  <1>2. /\ inHand \in Record /\ inHand.id \in Nat /\ handle /\ exists /\ rollback = None
        /\ \A i \in 1..Len(stream) : stream[i].id \notin failed
    BY <1>1, InHandIsNotFiledYet
  <1>3. c \in Chunk /\ c.id = inHand.id
    BY <1>2 DEF Record, Chunk
  <1>4. stream \in Seq(Chunk) /\ Len(stream) \in Nat
    BY LenProperties DEF WriterInv, TypeOK
  <1> HIDE DEF c
  <1>5. /\ stream' \in Seq(Chunk) /\ Len(stream') = Len(stream) + 1
        /\ \A i \in 1..Len(stream) : stream'[i] = stream[i]
        /\ stream'[Len(stream) + 1] = c
    BY <1>1, <1>3, <1>4, AppendProperties
  <1>6. \A i \in 1..Len(stream') : i \in 1..Len(stream) \/ i = Len(stream')
    BY <1>4, <1>5
  <1>7. Stamps' = Stamps
    BY <1>1 DEF Stamps
  <1>8. TypeOK'
    BY <1>1, <1>4, <1>5, <1>7 DEF WriterInv, TypeOK, Busy, PCs
  <1>9. ControlInv'
    <2>1. rollback' = Len(stream') - 1 /\ stream'[Len(stream')].id = inHand'.id
      BY <1>1, <1>3, <1>4, <1>5
    <2>2. QED
      BY <1>1, <1>2, <2>1 DEF ControlInv
  <1>10. \A i \in 1..Len(stream) : stream[i].whole
    BY <1>1, <1>2 DEF WriterInv, TornInv
  <1>11. TornInv' /\ TornOnlyAtTheEnd'
    <2>1. \A i \in 1..Len(stream') : ~stream'[i].whole => i = Len(stream') /\ rollback' = i - 1
      BY <1>1, <1>4, <1>5, <1>6, <1>10
    <2>2. QED
      BY <1>1, <1>7, <2>1 DEF WriterInv, TornInv, TornOnlyAtTheEnd
  <1>12. NothingFollowsAFailedAppend'
    <2>1. inHand.id \notin failed
      BY <1>2, WriterAssumption DEF WriterInv, FreshIds, Record
    <2>2. \A i \in 1..Len(stream') : stream'[i].id \notin failed'
      BY <1>1, <1>2, <1>3, <1>5, <1>6, <2>1
    <2>3. QED
      BY <1>1, <1>7, <2>2 DEF WriterInv, NothingFollowsAFailedAppend
  <1>13. \A u \in Used : u \in Nat /\ u < inHand.id
    <2>1. inHand.id \notin Used /\ \A u \in Used : u <= inHand.id
      BY <1>1, <1>2, WriterAssumption DEF WriterInv, FreshIds, Record
    <2>2. Used \subseteq Nat
      BY UsedFacts DEF WriterInv
    <2>3. QED
      BY <1>2, <2>1, <2>2
  <1>14. /\ \A i \in 1..Len(stream) : stream[i].id < inHand.id
         /\ \A s \in Stamps : \A i \in 1..Len(archives[s]) : archives[s][i].id < inHand.id
    BY <1>13, UsedFacts DEF WriterInv
  <1>15. JournalOrder'
    <2>1. Ascending(stream')
      <3>1. ASSUME NEW i \in 1..Len(stream'), NEW j \in 1..Len(stream'), i < j
            PROVE  stream'[i].id < stream'[j].id
        <4>1. i \in 1..Len(stream)
          BY <1>4, <1>5, <3>1
        <4>2. CASE j \in 1..Len(stream)
          BY <1>5, <3>1, <4>1, <4>2 DEF WriterInv, JournalOrder, Ascending
        <4>3. CASE j = Len(stream')
          BY <1>3, <1>5, <1>14, <4>1, <4>3
        <4>4. QED
          BY <1>6, <4>2, <4>3
      <3>2. QED
        BY <3>1 DEF Ascending
    <2>2. \A s \in Stamps : \A i \in 1..Len(archives[s]), j \in 1..Len(stream') :
            archives[s][i].id < stream'[j].id
      <3>1. ASSUME NEW s \in Stamps, NEW i \in 1..Len(archives[s]), NEW j \in 1..Len(stream')
            PROVE  archives[s][i].id < stream'[j].id
        <4>1. CASE j \in 1..Len(stream)
          BY <1>5, <4>1 DEF WriterInv, JournalOrder
        <4>2. CASE j = Len(stream')
          BY <1>3, <1>5, <1>14, <4>2
        <4>3. QED
          BY <1>6, <4>1, <4>2
      <3>2. QED
        BY <3>1
    <2>3. QED
      BY <1>1, <1>7, <2>1, <2>2 DEF WriterInv, JournalOrder, Ascending
  <1>16. Used' \subseteq Used \cup {inHand.id}
    <2>1. \A i \in 1..Len(stream') : stream'[i].id \in IdsIn(stream) \cup {inHand.id}
      BY <1>3, <1>5, <1>6 DEF IdsIn
    <2>2. IdsIn(stream') \subseteq IdsIn(stream) \cup {inHand.id}
      BY <2>1 DEF IdsIn
    <2>3. InFiles' \subseteq InFiles \cup {inHand.id}
      BY <1>1, <1>7, <2>2 DEF InFiles
    <2>4. QED
      BY <1>1, <2>3 DEF Used
  <1>17. FreshIds'
    <2>1. inHand # None
      BY <1>2, WriterAssumption DEF Record
    <2>2. /\ inHand.id < nextId /\ inHand.id \notin failed \cup confirmed
          /\ \A i \in 1..Len(queue) : inHand.id < queue[i].id
      BY <2>1 DEF WriterInv, FreshIds
    <2>3. \A u \in Used' : u <= inHand.id
      BY <1>2, <1>13, <1>16
    <2>4. \A u \in Used' : u < nextId /\ \A i \in 1..Len(queue) : u < queue[i].id
      BY <1>16, <2>2 DEF WriterInv, FreshIds
    <2>5. QED
      BY <1>1, <2>2, <2>3, <2>4 DEF WriterInv, FreshIds
  <1>18. NewestStamp'
    BY <1>7 DEF WriterInv, NewestStamp
  <1>19. QED
    BY <1>8, <1>9, <1>11, <1>12, <1>15, <1>17, <1>18 DEF WriterInv

\* write(): the rest of a torn line reaches the file.
LEMMA AppendRestStep == ASSUME WriterInv, AppendRest PROVE WriterInv'
  <1>1. /\ pc = "writing" /\ pc' = pc
        /\ stream' = [stream EXCEPT ![Len(stream)] = [@ EXCEPT !.len = inHand.len, !.whole = TRUE]]
        /\ UNCHANGED <<exists, archives, queue, queuedBytes, inHand, handle, rollback, stopping,
                       abandon, closer, written, dropped, offered, repaired, confirmed, failed,
                       nextId, restarts>>
    BY DEF AppendRest, control, history
  <1>2. /\ inHand \in Record /\ handle /\ exists /\ rollback = Len(stream) - 1
        /\ Len(stream) \in Nat \ {0} /\ \A i \in 1..Len(stream) : stream[i].id \notin failed
    BY <1>1, InHandIsNotFiledYet
  <1> DEFINE c == [stream[Len(stream)] EXCEPT !.len = inHand.len, !.whole = TRUE]
  <1>3. stream \in Seq(Chunk) /\ stream[Len(stream)] \in Chunk
    BY <1>2, ElementOfSeq DEF WriterInv, TypeOK
  <1>4. c \in Chunk /\ c.id = stream[Len(stream)].id /\ c.whole
    BY <1>2, <1>3 DEF Chunk, Record
  <1>5. stream' = [stream EXCEPT ![Len(stream)] = c]
    BY <1>1
  <1> HIDE DEF c
  <1>6. /\ stream' \in Seq(Chunk) /\ Len(stream') = Len(stream)
        /\ \A i \in 1..Len(stream) : stream'[i] = IF i = Len(stream) THEN c ELSE stream[i]
    BY <1>2, <1>3, <1>4, <1>5, ExceptSeq
  <1>7. \A i \in 1..Len(stream') : stream'[i].id = stream[i].id /\ (~stream'[i].whole => ~stream[i].whole)
    BY <1>2, <1>4, <1>6
  <1>8. Stamps' = Stamps /\ archives' = archives
    BY <1>1 DEF Stamps
  <1>9. TypeOK'
    BY <1>1, <1>6, <1>8 DEF WriterInv, TypeOK
  <1>10. ControlInv'
    <2>1. stream'[Len(stream')].id = inHand'.id
      <3>1. stream[Len(stream)].id = inHand.id /\ Len(stream) \in 1..Len(stream)
        BY <1>1, <1>2 DEF WriterInv, ControlInv
      <3>2. QED
        BY <1>1, <1>6, <1>7, <3>1
    <2>2. QED
      BY <1>1, <1>2, <1>6, <2>1 DEF ControlInv
  <1>11. TornInv' /\ TornOnlyAtTheEnd'
    BY <1>1, <1>6, <1>7, <1>8 DEF WriterInv, TornInv, TornOnlyAtTheEnd
  <1>12. NothingFollowsAFailedAppend'
    BY <1>1, <1>2, <1>6, <1>7, <1>8 DEF WriterInv, NothingFollowsAFailedAppend
  <1>13. JournalOrder'
    <2>1. JournalOrder
      BY DEF WriterInv
    <2>2. Ascending(stream')
      BY <1>6, <1>7, <2>1 DEF JournalOrder, Ascending
    <2>3. QED
      BY <1>6, <1>7, <1>8, <2>1, <2>2 DEF JournalOrder
  <1>14. Used' = Used
    <2>1. IdsIn(stream') = IdsIn(stream)
      BY <1>6, <1>7 DEF IdsIn
    <2>2. InFiles' = InFiles
      BY <1>8, <2>1 DEF InFiles
    <2>3. QED
      BY <1>1, <2>2 DEF Used
  <1>15. FreshIds'
    BY <1>1, <1>14, FreshIdsKept DEF WriterInv
  <1>16. NewestStamp'
    BY <1>8 DEF WriterInv, NewestStamp
  <1>17. QED
    BY <1>9, <1>10, <1>11, <1>12, <1>13, <1>15, <1>16 DEF WriterInv

\* write(): every byte was accepted.
LEMMA AppendDoneStep == ASSUME WriterInv, AppendDone PROVE WriterInv'
  <1>1. /\ pc = "writing" /\ pc' = "loop" /\ inHand' = None /\ rollback' = None
        /\ Last(stream).whole /\ confirmed' = confirmed \cup {inHand.id}
        /\ queuedBytes' = queuedBytes - inHand.size
        /\ written' = written + 1 /\ dropped' = dropped + 0
        /\ UNCHANGED <<stream, exists, archives, queue, stopping, abandon, closer, offered,
                       nextId, restarts, handle, repaired, failed>>
    BY DEF AppendDone, Finish, disk, intake
  <1>2. /\ inHand \in Record /\ inHand.id \in Nat /\ inHand.size \in Nat /\ handle /\ exists
        /\ Len(stream) \in Nat \ {0} /\ \A i \in 1..Len(stream) : stream[i].id \notin failed
    BY <1>1, InHandIsNotFiledYet
  <1>3. stream[Len(stream)].whole
    BY <1>1 DEF Last
  <1>4. \A i \in 1..Len(stream) : stream[i].whole
    BY <1>3 DEF WriterInv, TornInv
  <1>5. Stamps' = Stamps /\ archives' = archives /\ stream' = stream
    BY <1>1 DEF Stamps
  <1>6. TypeOK'
    <2>0. queuedBytes \in Int /\ written \in Nat /\ dropped \in Nat /\ confirmed \subseteq Nat
      BY DEF WriterInv, TypeOK
    <2>1. queuedBytes' \in Int /\ written' \in Nat /\ dropped' \in Nat /\ confirmed' \subseteq Nat
      <3>1. queuedBytes' = queuedBytes - inHand.size /\ inHand.size \in Nat
        BY <1>1, <1>2
      <3>2. queuedBytes' \in Int
        BY <2>0, <3>1
      <3>3. written' \in Nat /\ dropped' \in Nat
        BY <1>1, <2>0
      <3>4. confirmed' \subseteq Nat
        BY <1>1, <1>2, <2>0
      <3>5. QED
        BY <3>2, <3>3, <3>4
    <2>2. QED
      BY <1>1, <1>5, <2>1 DEF WriterInv, TypeOK, Busy, PCs
  <1>7. ControlInv'
    BY <1>1, <1>2 DEF WriterInv, ControlInv
  <1>8. TornInv' /\ TornOnlyAtTheEnd'
    BY <1>4, <1>5 DEF WriterInv, TornInv, TornOnlyAtTheEnd
  <1>9. NothingFollowsAFailedAppend'
    BY <1>1, <1>2, <1>5 DEF WriterInv, NothingFollowsAFailedAppend
  <1>10. JournalOrder' /\ NewestStamp'
    BY <1>5 DEF WriterInv, JournalOrder, Ascending, NewestStamp
  <1>11. Used' \subseteq Used \cup {inHand.id}
    <2>1. InFiles' = InFiles
      BY <1>5 DEF InFiles, IdsIn
    <2>2. QED
      BY <1>1, <2>1 DEF Used
  <1>12. inHand # None
    BY <1>2, WriterAssumption DEF Record
  <1>13. FreshIds'
    BY <1>1, <1>11, <1>12, SettledFreshIds
  <1>14. QED
    BY <1>6, <1>7, <1>8, <1>9, <1>10, <1>13 DEF WriterInv

\* write(): a call raised, with the file truncated or the rollback left to open_stream().
LEMMA AppendFailsStep ==
  ASSUME WriterInv, NEW truncated \in BOOLEAN, AppendFails(truncated)
  PROVE  WriterInv'
  <1> DEFINE offset == IF pc = "write" THEN Len(stream) ELSE rollback
  <1>1. /\ pc \in {"write", "writing"} /\ pc' = "loop" /\ inHand' = None /\ handle' = FALSE
        /\ failed' = failed \cup {inHand.id}
        /\ \/ stream' = SubSeq(stream, 1, offset) /\ rollback' = None
           \/ rollback' = offset /\ stream' = stream
        /\ queuedBytes' = queuedBytes - inHand.size
        /\ written' = written + 0 /\ dropped' = dropped + 1
        /\ UNCHANGED <<exists, archives, queue, stopping, abandon, closer, offered, nextId,
                       restarts, repaired, confirmed>>
    BY DEF AppendFails, Finish, intake
  <1>2. /\ inHand \in Record /\ inHand.id \in Nat /\ inHand.size \in Nat /\ handle /\ exists
        /\ \A s \in Stamps : \A i \in 1..Len(archives[s]) : archives[s][i].id # inHand.id
        /\ \A i \in 1..Len(stream) :
             stream[i].id = inHand.id => pc = "writing" /\ i = Len(stream)
        /\ pc = "writing" => rollback = Len(stream) - 1 /\ Len(stream) \in Nat \ {0}
        /\ \A i \in 1..Len(stream) : stream[i].id \notin failed
    BY <1>1, InHandIsNotFiledYet
  <1>3. /\ stream \in Seq(Chunk) /\ Len(stream) \in Nat
        /\ \A i \in 1..Len(stream) : ~stream[i].whole => i = Len(stream) /\ pc = "writing"
    BY <1>2, LenProperties DEF WriterInv, TypeOK, TornInv
  <1>4. offset \in 0..Len(stream) /\ offset \in {Len(stream), Len(stream) - 1}
        /\ (pc = "writing" => offset = Len(stream) - 1)
    BY <1>1, <1>2, <1>3
  <1> HIDE DEF offset
  <1>5. /\ stream' \in Seq(Chunk) /\ Len(stream') \in 0..Len(stream)
        /\ \A i \in 1..Len(stream') : stream'[i] = stream[i]
        /\ rollback' \in {None, offset}
        /\ rollback' = None => Len(stream') = offset
        /\ rollback' # None => Len(stream') = Len(stream)
    <2>1. CASE stream' = SubSeq(stream, 1, offset) /\ rollback' = None
      <3>1. /\ stream' \in Seq(Chunk) /\ Len(stream') = offset
            /\ \A i \in 1..offset : stream'[i] = stream[i]
        BY <1>3, <1>4, <2>1, PrefixFacts
      <3>2. QED
        BY <1>4, <2>1, <3>1
    <2>2. CASE rollback' = offset /\ stream' = stream
      <3>1. offset # None
        BY <1>3, <1>4, WriterAssumption
      <3>2. QED
        BY <1>3, <2>2, <3>1
    <2>3. QED
      BY <1>1, <2>1, <2>2
  <1>6. \A i \in 1..Len(stream') :
          /\ i \in 1..Len(stream)
          /\ stream'[i].id = inHand.id \/ ~stream'[i].whole => i = Len(stream') /\ rollback' = i - 1
    <2> SUFFICES ASSUME NEW i \in 1..Len(stream')
                 PROVE  /\ i \in 1..Len(stream)
                        /\ stream'[i].id = inHand.id \/ ~stream'[i].whole
                             => i = Len(stream') /\ rollback' = i - 1
      OBVIOUS
    <2>1. i \in 1..Len(stream)
      BY <1>3, <1>5
    <2>2. ASSUME stream'[i].id = inHand.id \/ ~stream'[i].whole
          PROVE  i = Len(stream') /\ rollback' = i - 1
      <3>1. pc = "writing" /\ i = Len(stream)
        BY <1>2, <1>3, <1>5, <2>1, <2>2
      <3>2. offset = i - 1
        BY <1>4, <3>1
      <3>3. rollback' # None
        BY <1>3, <1>5, <3>1, <3>2
      <3>4. QED
        BY <1>3, <1>5, <3>1, <3>2, <3>3
    <2>3. QED
      BY <2>1, <2>2
  <1>7. Stamps' = Stamps /\ archives' = archives
    BY <1>1 DEF Stamps
  <1>8. rollback' \in Nat \cup {None}
    BY <1>3, <1>4, <1>5
  <1>9. TypeOK'
    <2>0. queuedBytes \in Int /\ written \in Nat /\ dropped \in Nat /\ failed \subseteq Nat
      BY DEF WriterInv, TypeOK
    <2>1. queuedBytes' \in Int /\ written' \in Nat /\ dropped' \in Nat /\ failed' \subseteq Nat
      <3>1. queuedBytes' = queuedBytes - inHand.size /\ inHand.size \in Nat
        BY <1>1, <1>2
      <3>2. queuedBytes' \in Int
        BY <2>0, <3>1
      <3>3. written' \in Nat /\ dropped' \in Nat
        BY <1>1, <2>0
      <3>4. failed' \subseteq Nat
        BY <1>1, <1>2, <2>0
      <3>5. QED
        BY <3>2, <3>3, <3>4
    <2>2. handle' \in BOOLEAN
      BY <1>1
    <2>3. QED
      BY <1>1, <1>5, <1>7, <1>8, <2>1, <2>2 DEF WriterInv, TypeOK, Busy, PCs
  <1>10. ControlInv'
    <2>1. rollback' # None => rollback' \in {Len(stream'), Len(stream') - 1}
      BY <1>4, <1>5
    <2>2. QED
      BY <1>1, <1>2, <2>1 DEF ControlInv
  <1>11. TornInv' /\ TornOnlyAtTheEnd'
    BY <1>1, <1>6, <1>7 DEF WriterInv, TornInv, TornOnlyAtTheEnd
  <1>12. NothingFollowsAFailedAppend'
    <2>1. \A i \in 1..Len(stream') :
            stream'[i].id \in failed' => i = Len(stream') /\ rollback' = i - 1
      BY <1>1, <1>2, <1>5, <1>6
    <2>2. QED
      BY <1>1, <1>2, <1>7, <2>1 DEF WriterInv, NothingFollowsAFailedAppend
  <1>13. JournalOrder'
    <2>1. Ascending(stream')
      BY <1>5, <1>6 DEF WriterInv, JournalOrder, Ascending
    <2>2. \A s \in Stamps : \A i \in 1..Len(archives[s]), j \in 1..Len(stream') :
            archives[s][i].id < stream'[j].id
      BY <1>5, <1>6 DEF WriterInv, JournalOrder
    <2>3. QED
      BY <1>7, <2>1, <2>2 DEF WriterInv, JournalOrder
  <1>14. NewestStamp'
    BY <1>7 DEF WriterInv, NewestStamp
  <1>15. Used' \subseteq Used \cup {inHand.id}
    <2>1. IdsIn(stream') \subseteq IdsIn(stream)
      BY <1>5, <1>6 DEF IdsIn
    <2>2. InFiles' \subseteq InFiles
      BY <1>7, <2>1 DEF InFiles
    <2>3. QED
      BY <1>1, <2>2 DEF Used
  <1>16. inHand # None
    BY <1>2, WriterAssumption DEF Record
  <1>17. FreshIds'
    BY <1>1, <1>15, <1>16, SettledFreshIds
  <1>18. QED
    BY <1>9, <1>10, <1>11, <1>12, <1>13, <1>14, <1>17 DEF WriterInv

-----------------------------------------------------------------------------
(* The theorems.                                                             *)

\* Every step of the program keeps the invariant.
LEMMA WriterStep == WriterInv /\ [Next]_vars => WriterInv'
  <1> SUFFICES ASSUME WriterInv, [Next]_vars PROVE WriterInv'
    OBVIOUS
  <1>1. ASSUME NEW shape \in Shapes, Submit(shape) PROVE WriterInv'
    BY <1>1, SubmitStep
  <1>2. CASE Recover
    BY <1>2, RecoverStep
  <1>3. CASE Take
    BY <1>3, TakeStep
  <1>4. CASE LeaveLoop \/ UseHandle \/ KeepSegment \/ StopIntake \/ WorkerEnds
    BY <1>4, ThreadControl
  <1>5. CASE Refuse \/ RenameFails
    BY <1>5, DroppedWithoutWriting
  <1>6. CASE OpenFirst \/ Reopen
    BY <1>6, OpenForStep
  <1>7. ASSUME NEW now \in Clock, Roll(now) PROVE WriterInv'
    BY <1>7, RollStep
  <1>8. ASSUME NEW whole \in BOOLEAN, AppendBytes(whole) PROVE WriterInv'
    BY <1>8, AppendBytesStep
  <1>9. CASE AppendRest
    BY <1>9, AppendRestStep
  <1>10. CASE AppendDone
    BY <1>10, AppendDoneStep
  <1>11. ASSUME NEW truncated \in BOOLEAN, AppendFails(truncated) PROVE WriterInv'
    BY <1>11, AppendFailsStep
  <1>12. CASE WorkerDiscards \/ CloserDiscards
    BY <1>12, DiscardStep
  <1>13. CASE CloseBegins \/ CloseJoins \/ CloseTimesOut \/ CloserReturns
    BY <1>13, CloserControl
  <1>14. CASE Restart
    BY <1>14, RestartStep
  <1>15. CASE UNCHANGED vars
    <2>1. UNCHANGED <<stream, exists, archives, queue, queuedBytes, inHand, pc, handle, rollback,
                      stopping, abandon, closer, written, dropped, offered, repaired, confirmed,
                      failed, nextId, restarts>>
      BY <1>15 DEF vars, disk, control, history
    <2>2. TypeOK'
      BY <2>1 DEF WriterInv, TypeOK, Stamps
    <2>3. ControlInv'
      BY <2>1 DEF WriterInv, ControlInv
    <2>4. QED
      BY <2>1, <2>2, <2>3, ControlStep DEF disk
  <1>16. QED
    BY <1>1, <1>2, <1>3, <1>4, <1>5, <1>6, <1>7, <1>8, <1>9, <1>10, <1>11, <1>12, <1>13, <1>14,
       <1>15 DEF Next, Worker, Closer, Terminated

\* Everything the worker, the submitting hooks and close() do, with every failure and
\* restart, keeps the writer's invariant.
THEOREM WriterInvariant == Spec => []WriterInv
  <1>1. QED
    BY WriterInit, WriterStep, PTL DEF Spec

\* The variables of Writer keep their types in every state.
THEOREM WriterTypes == Spec => []TypeOK
  <1>1. WriterInv => TypeOK
    BY DEF WriterInv
  <1>2. QED
    BY <1>1, WriterInvariant, PTL

\* write(), open_stream() and roll() never leave a torn line before another line or
\* inside an archive.
THEOREM NoGluedRecords == Spec => []TornOnlyAtTheEnd
  <1>1. WriterInv => TornOnlyAtTheEnd
    BY DEF WriterInv
  <1>2. QED
    BY <1>1, WriterInvariant, PTL

\* write() and open_stream(): a failed append is rolled back before any other record
\* reaches the file, and is never archived.
THEOREM FailedAppendsStayLast == Spec => []NothingFollowsAFailedAppend
  <1>1. WriterInv => NothingFollowsAFailedAppend
    BY DEF WriterInv
  <1>2. QED
    BY <1>1, WriterInvariant, PTL

\* roll(): archives and lines are in submission order, without duplicates, for any
\* sequence of clock readings.
THEOREM FilesInSubmissionOrder == Spec => []JournalOrder
  <1>1. WriterInv => JournalOrder
    BY DEF WriterInv
  <1>2. QED
    BY <1>1, WriterInvariant, PTL

-----------------------------------------------------------------------------
(* Accounting and shutdown.                                                  *)

\* A Writer just constructed has counted nothing.
LEMMA CountInit == Init => EachRecordCountedOnce
  BY DEF Init, EachRecordCountedOnce, Pending

\* Sums: one record leaves the hand for a counter, ...
LEMMA SettleOne ==
  ASSUME NEW w \in Nat, NEW d \in Nat, NEW q \in Nat
  PROVE  (w + d + 1) + q = w + d + q + 1
  OBVIOUS

\* ... one record more was offered, and is queued or dropped, ...
LEMMA CountOffered ==
  ASSUME NEW o \in Nat, NEW r \in Nat, NEW w \in Nat, NEW d \in Nat, NEW q \in Nat, NEW h \in Nat,
         o + r = w + d + q + h
  PROVE  (o + 1) + r = w + d + (q + 1) + h /\ (o + 1) + r = w + (d + 1) + q + h
  OBVIOUS

\* ... and a discarded tail is added on both sides of the account.
LEMMA CountTail ==
  ASSUME NEW o \in Nat, NEW r \in Nat, NEW w \in Nat, NEW d \in Nat, NEW q \in Nat, NEW h \in Nat,
         NEW k \in Nat, o + r = w + d + q + h
  PROVE  o + (r + k) = w + (d + k) + q + h
  OBVIOUS

\* A settled record moves from the queue or the hand to exactly one counter.
LEMMA CountStep ==
  ASSUME TypeOK, TypeOK', EachRecordCountedOnce, [Next]_vars
  PROVE  EachRecordCountedOnce'
  <1> DEFINE InHandCount == IF inHand = None THEN 0 ELSE 1
  <1>1. /\ queue \in Seq(Record) /\ Len(queue) \in Nat
        /\ written \in Nat /\ dropped \in Nat /\ offered \in Nat /\ repaired \in Nat
        /\ InHandCount \in {0, 1} /\ InHandCount' \in {0, 1}
        /\ written' \in Nat /\ dropped' \in Nat /\ offered' \in Nat /\ repaired' \in Nat
    BY LenProperties DEF TypeOK
  <1>2. offered + repaired = written + dropped + Len(queue) + InHandCount
    <2>1. offered + repaired = written + dropped + (Len(queue) + InHandCount)
      BY DEF EachRecordCountedOnce, Pending
    <2> HIDE DEF InHandCount
    <2>2. QED
      BY <1>1, <2>1
  <1>3. ASSUME offered' + repaired' = written' + dropped' + Len(queue') + InHandCount'
        PROVE  EachRecordCountedOnce'
    <2>1. Len(queue') \in Nat
      BY LenProperties DEF TypeOK
    <2>2. EachRecordCountedOnce' = (offered' + repaired' = written' + dropped' + (Len(queue') + InHandCount'))
      BY DEF EachRecordCountedOnce, Pending
    <2> HIDE DEF InHandCount
    <2>3. /\ written' \in Nat /\ dropped' \in Nat /\ Len(queue') \in Nat /\ InHandCount' \in Nat
      BY <1>1, <2>1
    <2>4. written' + dropped' + Len(queue') + InHandCount' = written' + dropped' + (Len(queue') + InHandCount')
      BY <2>3
    <2>5. QED
      BY <1>3, <2>2, <2>4, Zenon
  <1>4. ASSUME inHand # None, inHand' = None PROVE InHandCount = 1 /\ InHandCount' = 0
    BY <1>4
  <1>5. pc \in Busy => inHand # None
    BY WriterAssumption DEF TypeOK, Record
  <1>6. ASSUME UNCHANGED <<queue, inHand, written, dropped, offered, repaired>>
        PROVE  EachRecordCountedOnce'
    BY <1>2, <1>6 DEF EachRecordCountedOnce, Pending
  <1>7. ASSUME pc \in Busy, inHand' = None, UNCHANGED <<queue, offered, repaired>>,
               written' + dropped' = written + dropped + 1
        PROVE  EachRecordCountedOnce'
    <2>1. InHandCount = 1 /\ InHandCount' = 0
      BY <1>4, <1>5, <1>7
    <2>2. Len(queue') = Len(queue) /\ offered' = offered /\ repaired' = repaired
      BY <1>7
    <2> HIDE DEF InHandCount
    <2>3. /\ offered \in Nat /\ repaired \in Nat /\ written \in Nat /\ dropped \in Nat
          /\ Len(queue) \in Nat /\ written' \in Nat /\ dropped' \in Nat
      BY <1>1
    <2>4. offered + repaired = written + dropped + Len(queue) + 1
      BY <1>2, <2>1
    <2>5. (written + dropped + 1) + Len(queue) = written + dropped + Len(queue) + 1
      BY <2>3, SettleOne
    <2>6. offered + repaired = written' + dropped' + Len(queue)
      BY <1>7, <2>4, <2>5, Zenon
    <2>7. offered' + repaired' = written' + dropped' + Len(queue') + InHandCount'
      BY <2>1, <2>2, <2>3, <2>6
    <2>8. QED
      BY <1>3, <2>7
  <1>8. ASSUME DiscardHead, UNCHANGED <<inHand, written, offered, repaired>>
        PROVE  EachRecordCountedOnce'
    <2>1. Len(queue') = Len(queue) - 1 /\ dropped' = dropped + 1 /\ InHandCount' = InHandCount
      BY <1>1, <1>8, HeadTailProperties DEF DiscardHead
    <2> HIDE DEF InHandCount
    <2>2. QED
      BY <1>1, <1>2, <1>3, <1>8, <2>1
  <1>9. ASSUME NEW shape \in Shapes, Submit(shape) PROVE EachRecordCountedOnce'
    <2> DEFINE r == [id |-> nextId, size |-> shape.size, len |-> shape.len]
    <2>1. r \in Record
      BY WriterAssumption DEF TypeOK, Record
    <2>2. \/ Len(queue') = Len(queue) + 1 /\ dropped' = dropped
          \/ Len(queue') = Len(queue) /\ dropped' = dropped + 1
      <3>1. \/ queue' = Append(queue, r) /\ dropped' = dropped
            \/ queue' = queue /\ dropped' = dropped + 1
        BY <1>9 DEF Submit
      <3>2. Len(Append(queue, r)) = Len(queue) + 1
        BY <1>1, <2>1, AppendProperties
      <3> HIDE DEF r
      <3>3. QED
        BY <3>1, <3>2
    <2>3. offered' = offered + 1 /\ InHandCount' = InHandCount /\ UNCHANGED <<written, repaired>>
      BY <1>9 DEF Submit
    <2> HIDE DEF InHandCount
    <2>4. /\ (offered + 1) + repaired = written + dropped + (Len(queue) + 1) + InHandCount
          /\ (offered + 1) + repaired = written + (dropped + 1) + Len(queue) + InHandCount
      <3>1. InHandCount \in Nat
        BY <1>1
      <3>2. QED
        BY <1>1, <1>2, <3>1, CountOffered
    <2>5. QED
      BY <1>3, <2>2, <2>3, <2>4
  <1>10. CASE Recover
    <2>1. \/ \E stage \in Stages : /\ dropped' = dropped + Discarded(stage)
                                   /\ repaired' = repaired + Discarded(stage)
          \/ UNCHANGED <<dropped, repaired>>
      BY <1>10 DEF Recover
    <2>2. InHandCount' = InHandCount /\ UNCHANGED <<queue, written, offered>>
      BY <1>10 DEF Recover, intake
    <2> HIDE DEF InHandCount
    <2>3. PICK k \in Nat : dropped' = dropped + k /\ repaired' = repaired + k
      BY <1>1, <2>1, DiscardedNat
    <2>4. offered + (repaired + k) = written + (dropped + k) + Len(queue) + InHandCount
      BY <1>1, <1>2, CountTail
    <2>5. QED
      BY <1>3, <2>2, <2>3, <2>4
  <1>11. CASE Take
    <2>1. Len(queue') = Len(queue) - 1 /\ UNCHANGED <<written, dropped, offered, repaired>>
      BY <1>1, <1>11, HeadTailProperties DEF Take, history
    <2>2. InHandCount = 0 /\ InHandCount' = 1
      <3>1. inHand = None
        BY <1>11 DEF Take, TypeOK, Busy
      <3>2. inHand' # None
        BY <1>11, WriterAssumption DEF Take, TypeOK, Busy, Record
      <3>3. QED
        BY <3>1, <3>2
    <2> HIDE DEF InHandCount
    <2>3. QED
      BY <1>1, <1>2, <1>3, <2>1, <2>2
  <1>12. CASE Refuse \/ RenameFails
    <2>1. Finish(0, 1) /\ pc \in Busy /\ UNCHANGED <<queue, offered, repaired>>
      BY <1>12 DEF Refuse, RenameFails, Busy, intake
    <2>2. QED
      BY <1>1, <1>7, <2>1 DEF Finish
  <1>13. CASE OpenFirst \/ Reopen
    <2>1. pc \in Busy /\ \E next \in {"fit", "write"} : OpenFor(next)
      BY <1>13 DEF OpenFirst, Reopen, Busy
    <2>2. PICK stage \in Stages :
            /\ repaired' = repaired + Discarded(stage)
            /\ \/ /\ dropped' = dropped + Discarded(stage)
                  /\ UNCHANGED <<inHand, written>>
               \/ stage # "ready" /\ Finish(0, 1)
      BY <2>1 DEF OpenFor
    <2>3. UNCHANGED <<queue, offered>>
      BY <2>1 DEF OpenFor, intake
    <2>4. CASE dropped' = dropped + Discarded(stage) /\ UNCHANGED <<inHand, written>>
      <3>1. InHandCount' = InHandCount
        BY <2>4
      <3>2. PICK k \in Nat : dropped' = dropped + k /\ repaired' = repaired + k
        BY <2>2, <2>4, DiscardedNat
      <3>3. Len(queue') = Len(queue) /\ written' = written /\ offered' = offered
        BY <2>3, <2>4
      <3> HIDE DEF InHandCount
      <3>4. offered + (repaired + k) = written + (dropped + k) + Len(queue) + InHandCount
        BY <1>1, <1>2, CountTail
      <3>5. QED
        BY <1>3, <3>1, <3>2, <3>3, <3>4
    <2>5. CASE stage # "ready" /\ Finish(0, 1)
      BY <1>1, <1>7, <2>1, <2>2, <2>3, <2>5 DEF Finish, Discarded
    <2>6. QED
      BY <2>2, <2>4, <2>5
  <1>14. ASSUME NEW now \in Clock, Roll(now) PROVE EachRecordCountedOnce'
    <2>1. pc \in Busy /\ UNCHANGED <<queue, offered, repaired>>
      BY <1>14 DEF Roll, Busy, intake
    <2>2. UNCHANGED <<inHand, written, dropped>> \/ Finish(0, 1)
      BY <1>14 DEF Roll
    <2>3. CASE UNCHANGED <<inHand, written, dropped>>
      BY <1>6, <2>1, <2>3
    <2>4. CASE Finish(0, 1)
      BY <1>1, <1>7, <2>1, <2>4 DEF Finish
    <2>5. QED
      BY <2>2, <2>3, <2>4
  <1>15. CASE AppendDone
    BY <1>1, <1>7, <1>15 DEF AppendDone, Finish, Busy, intake
  <1>16. ASSUME NEW truncated \in BOOLEAN, AppendFails(truncated) PROVE EachRecordCountedOnce'
    BY <1>1, <1>7, <1>16 DEF AppendFails, Finish, Busy, intake
  <1>17. CASE WorkerDiscards \/ CloserDiscards
    BY <1>8, <1>17 DEF WorkerDiscards, CloserDiscards, history
  <1>18. CASE Restart
    BY <1>18 DEF Restart, EachRecordCountedOnce, Pending
  <1>19. CASE \/ LeaveLoop \/ UseHandle \/ KeepSegment \/ StopIntake \/ WorkerEnds
              \/ CloseBegins \/ CloseJoins \/ CloseTimesOut \/ CloserReturns
              \/ AppendRest \/ \E whole \in BOOLEAN : AppendBytes(whole)
    BY <1>6, <1>19 DEF LeaveLoop, UseHandle, KeepSegment, StopIntake, WorkerEnds, CloseBegins,
       CloseJoins, CloseTimesOut, CloserReturns, AppendRest, AppendBytes, history, intake
  <1>20. CASE UNCHANGED vars
    BY <1>6, <1>20 DEF vars, history
  <1>21. QED
    BY <1>9, <1>10, <1>11, <1>12, <1>13, <1>14, <1>15, <1>16, <1>17, <1>18, <1>19, <1>20
       DEF Next, Worker, Closer, Terminated

\* submit(), run() and discard_pending(): whatever fails, is abandoned or is discarded
\* by two threads at once, every offered record is counted exactly once.
THEOREM NoRecordUncounted == Spec => []EachRecordCountedOnce
  <1>1. TypeOK /\ TypeOK' /\ EachRecordCountedOnce /\ [Next]_vars => EachRecordCountedOnce'
    BY CountStep
  <1>2. QED
    BY <1>1, CountInit, WriterTypes, PTL DEF Spec

\* A worker in its finally block has stopped intake, and it ends on an empty queue.
StoppedInv == pc \in {"drain", "done"} => stopping

\* Once intake is closed, nothing joins the queue the worker empties.
LEMMA StoppedStep ==
  ASSUME TypeOK, TypeOK', NothingLeftBehind, StoppedInv, [Next]_vars
  PROVE  NothingLeftBehind' /\ StoppedInv'
  <1>1. inHand' = None \/ pc' # "done"
    BY DEF TypeOK, Busy
  <1>2. ASSUME NEW shape \in Shapes, Submit(shape) PROVE NothingLeftBehind' /\ StoppedInv'
    <2>1. pc' = pc /\ stopping' = stopping /\ (stopping => queue' = queue)
      BY <1>2 DEF Submit, control, Accepts
    <2>2. QED
      BY <1>1, <2>1 DEF NothingLeftBehind, StoppedInv
  <1>3. CASE WorkerDiscards \/ CloserDiscards
    BY <1>1, <1>3 DEF WorkerDiscards, CloserDiscards, DiscardHead, control, NothingLeftBehind, StoppedInv
  <1>4. CASE Restart
    BY <1>4 DEF Restart, NothingLeftBehind, StoppedInv
  <1>5. CASE StopIntake
    BY <1>5 DEF StopIntake, NothingLeftBehind, StoppedInv
  <1>6. CASE WorkerEnds
    BY <1>1, <1>6 DEF WorkerEnds, NothingLeftBehind, StoppedInv
  <1>7. CASE CloseBegins \/ CloseJoins \/ CloseTimesOut \/ CloserReturns
    BY <1>1, <1>7 DEF CloseBegins, CloseJoins, CloseTimesOut, CloserReturns, control,
       NothingLeftBehind, StoppedInv
  <1>8. ASSUME pc' \in Busy \cup {"loop", "final"} PROVE NothingLeftBehind' /\ StoppedInv'
    BY <1>8 DEF Busy, NothingLeftBehind, StoppedInv
  <1>9. CASE Recover \/ Take \/ LeaveLoop \/ Refuse \/ UseHandle \/ KeepSegment \/ RenameFails
             \/ AppendRest \/ AppendDone
    BY <1>8, <1>9 DEF Recover, Take, LeaveLoop, Refuse, UseHandle, KeepSegment, RenameFails,
       AppendRest, AppendDone, Finish, Busy
  <1>10. CASE OpenFirst \/ Reopen
    BY <1>8, <1>10 DEF OpenFirst, Reopen, OpenFor, Finish, Busy
  <1>11. ASSUME NEW now \in Clock, Roll(now) PROVE NothingLeftBehind' /\ StoppedInv'
    BY <1>8, <1>11 DEF Roll, Finish, Busy
  <1>12. ASSUME NEW whole \in BOOLEAN, AppendBytes(whole) PROVE NothingLeftBehind' /\ StoppedInv'
    BY <1>8, <1>12 DEF AppendBytes, Busy
  <1>13. ASSUME NEW truncated \in BOOLEAN, AppendFails(truncated)
         PROVE  NothingLeftBehind' /\ StoppedInv'
    BY <1>8, <1>13 DEF AppendFails, Finish, Busy
  <1>14. CASE UNCHANGED vars
    BY <1>1, <1>14 DEF vars, control, NothingLeftBehind, StoppedInv
  <1>15. QED
    BY <1>2, <1>3, <1>4, <1>5, <1>6, <1>7, <1>9, <1>10, <1>11, <1>12, <1>13, <1>14
       DEF Next, Worker, Closer, Terminated

\* run(): no record is left in the queue of a worker that has ended, because its finally
\* block closes the intake before it empties the queue.
THEOREM NoRecordStranded == Spec => []NothingLeftBehind
  <1>1. Init => NothingLeftBehind /\ StoppedInv
    BY DEF Init, NothingLeftBehind, StoppedInv
  <1>2. TypeOK /\ TypeOK' /\ NothingLeftBehind /\ StoppedInv /\ [Next]_vars
          => NothingLeftBehind' /\ StoppedInv'
    BY StoppedStep
  <1>3. QED
    BY <1>1, <1>2, WriterTypes, PTL DEF Spec

-----------------------------------------------------------------------------
(* The size of a file.                                                       *)

\* The induction that the provers can use: over a set, not over an operator.  Where it
\* failed, adding one would map a finite set one to one, but not onto, itself.
LEMMA SetInduction ==
  ASSUME NEW S \in SUBSET Nat, 0 \in S, \A m \in S : m + 1 \in S
  PROVE  S = Nat
  <1> SUFFICES ASSUME NEW n \in Nat, n \notin S PROVE FALSE
    OBVIOUS
  <1> DEFINE A == {m \in S : m <= n}
  <1>1. IsFiniteSet(A)
    BY FS_BoundedSetOfNaturals
  <1>2. \A m \in A : m + 1 \in A
    OBVIOUS
  <1>3. /\ \A m \in A : m \in Nat
        /\ 0 \in A
    <2>1. \A m \in S : m \in Nat
      OBVIOUS
    <2>2. 0 <= n
      OBVIOUS
    <2>3. QED
      BY <2>1, <2>2
  <1> HIDE DEF A
  <1> DEFINE f == [m \in A |-> m + 1]
  <1>4. /\ f \in [A -> A]
        /\ \A m \in A : f[m] = m + 1
    BY <1>2
  <1> HIDE DEF f
  <1>5. /\ \A l, m \in A : f[l] = f[m] => l = m
        /\ \A m \in A : f[m] # 0
    BY <1>3, <1>4
  <1>6. f \in Injection(A, A)
    BY <1>4, <1>5 DEF Injection, IsInjective
  <1>7. f \in Surjection(A, A)
    BY <1>1, <1>6, FS_Injection
  <1>8. \E m \in A : f[m] = 0
    BY <1>3, <1>7 DEF Surjection
  <1>9. QED
    BY <1>5, <1>8

\* f says where the first n chunks of a file end.
Ends(f, s, n) ==
  /\ f \in [0..n -> Nat] /\ f[0] = 0
  /\ \A i \in 1..n : f[i] = f[i - 1] + s[i].len

\* Chunks have lengths.
LEMMA ChunkLengths ==
  ASSUME NEW s \in Seq(Chunk)
  PROVE  Len(s) \in Nat /\ \A i \in 1..Len(s) : s[i].len \in Nat
  <1>1. \A i \in 1..Len(s) : s[i] \in Chunk
    BY ElementOfSeq
  <1>2. QED
    BY <1>1, LenProperties DEF Chunk

LEMMA EndsExist ==
  ASSUME NEW s \in Seq(Chunk)
  PROVE  \E f : Ends(f, s, Len(s))
  <1>1. Len(s) \in Nat /\ \A i \in 1..Len(s) : s[i].len \in Nat
    BY ChunkLengths
  <1> DEFINE S == {n \in Nat : n <= Len(s) => \E f : Ends(f, s, n)}
  <1>2. 0 \in S
    <2> DEFINE f == [i \in 0..0 |-> 0]
    <2>1. Ends(f, s, 0)
      BY DEF Ends
    <2>2. QED
      BY <2>1
  <1>3. ASSUME NEW n \in S PROVE n + 1 \in S
    <2>1. n \in Nat
      OBVIOUS
    <2> SUFFICES ASSUME n + 1 <= Len(s) PROVE \E g : Ends(g, s, n + 1)
      BY <2>1
    <2>2. PICK f : Ends(f, s, n)
      BY <1>1, <2>1
    <2> DEFINE g == [i \in 0..n+1 |-> IF i = n + 1 THEN f[n] + s[n + 1].len ELSE f[i]]
    <2>3. n + 1 \in 1..Len(s) /\ s[n + 1].len \in Nat /\ f[n] \in Nat
      BY <1>1, <2>1, <2>2 DEF Ends
    <2>4. g \in [0..n+1 -> Nat]
      BY <2>1, <2>2, <2>3 DEF Ends
    <2>5. \A i \in 0..n : g[i] = f[i]
      BY <2>1
    <2>6. g[n + 1] = f[n] + s[n + 1].len
      BY <2>1
    <2> HIDE DEF g
    <2>7. ASSUME NEW i \in 1..n+1 PROVE g[i] = g[i - 1] + s[i].len
      <3>1. CASE i = n + 1
        BY <2>1, <2>5, <2>6, <3>1
      <3>2. CASE i # n + 1
        <4>1. i \in 1..n /\ i - 1 \in 0..n /\ i \in 0..n
          BY <2>1, <3>2
        <4>2. QED
          BY <2>2, <2>5, <4>1 DEF Ends
      <3>3. QED
        BY <3>1, <3>2
    <2>8. g[0] = 0
      BY <2>1, <2>2, <2>5 DEF Ends
    <2>9. Ends(g, s, n + 1)
      BY <2>4, <2>7, <2>8 DEF Ends
    <2>10. QED
      BY <2>9
  <1> HIDE DEF S
  <1>4. S = Nat
    <2>1. S \in SUBSET Nat
      BY DEF S
    <2>2. QED
      BY <1>2, <1>3, <2>1, SetInduction
  <1>5. QED
    BY <1>1, <1>4 DEF S

\* The size of a file is where its last chunk ends.
LEMMA BytesEnd ==
  ASSUME NEW s \in Seq(Chunk)
  PROVE  \E f : Ends(f, s, Len(s)) /\ Bytes(s) = f[Len(s)]
  <1> DEFINE E(f) == f = [i \in 0..Len(s) |-> IF i = 0 THEN 0 ELSE f[i - 1] + s[i].len]
             end  == CHOOSE f : E(f)
  <1>1. Len(s) \in Nat
    BY LenProperties
  <1>2. Bytes(s) = end[Len(s)]
    BY DEF Bytes
  <1>3. PICK g : Ends(g, s, Len(s))
    BY EndsExist
  <1>4. E(g)
    <2>1. \A i \in 0..Len(s) : g[i] = IF i = 0 THEN 0 ELSE g[i - 1] + s[i].len
      BY <1>1, <1>3 DEF Ends
    <2>2. QED
      BY <1>3, <2>1 DEF Ends
  <1>5. E(end)
    BY <1>4
  <1>6. Ends(end, s, Len(s))
    <2> HIDE DEF end
    <2> DEFINE S == {n \in Nat : n <= Len(s) => end[n] = g[n]}
    <2>1. \A i \in 0..Len(s) : end[i] = IF i = 0 THEN 0 ELSE end[i - 1] + s[i].len
      BY <1>5
    <2>2. 0 \in S
      BY <1>1, <1>3, <2>1 DEF Ends
    <2>3. ASSUME NEW n \in S PROVE n + 1 \in S
      <3>1. n \in Nat
        OBVIOUS
      <3> SUFFICES ASSUME n + 1 <= Len(s) PROVE end[n + 1] = g[n + 1]
        BY <3>1
      <3>2. end[n] = g[n]
        BY <1>1, <3>1
      <3>3. n + 1 \in 1..Len(s) /\ n + 1 \in 0..Len(s) /\ (n + 1) - 1 = n /\ n + 1 # 0
        BY <1>1, <3>1
      <3>4. end[n + 1] = end[n] + s[n + 1].len
        BY <2>1, <3>3
      <3>5. g[n + 1] = g[n] + s[n + 1].len
        BY <1>3, <3>3 DEF Ends
      <3>6. QED
        BY <3>2, <3>4, <3>5
    <2> HIDE DEF S
    <2>4. S = Nat
      <3>1. S \in SUBSET Nat
        BY DEF S
      <3>2. QED
        BY <2>2, <2>3, <3>1, SetInduction
    <2>5. \A i \in 0..Len(s) : end[i] = g[i]
      BY <1>1, <2>4 DEF S
    <2>6. end = g
      <3>1. end = [i \in 0..Len(s) |-> end[i]]
        BY <1>5
      <3>2. g = [i \in 0..Len(s) |-> g[i]]
        BY <1>3 DEF Ends
      <3>3. QED
        BY <2>5, <3>1, <3>2
    <2>7. QED
      BY <1>3, <2>6
  <1>7. QED
    BY <1>2, <1>6

\* The same chunks end at the same places, ...
LEMMA EndsAgree ==
  ASSUME NEW s, NEW t, NEW f, NEW g, NEW m \in Nat, NEW n \in Nat, NEW k \in Nat, k <= m, k <= n,
         Ends(f, s, m), Ends(g, t, n), \A i \in 1..k : s[i] = t[i]
  PROVE  f[k] = g[k]
  <1> DEFINE S == {j \in Nat : j <= k => f[j] = g[j]}
  <1>1. 0 \in S
    BY DEF Ends
  <1>2. ASSUME NEW j \in S PROVE j + 1 \in S
    <2>1. j \in Nat
      OBVIOUS
    <2> SUFFICES ASSUME j + 1 <= k PROVE f[j + 1] = g[j + 1]
      BY <2>1
    <2>2. f[j] = g[j] /\ j + 1 \in 1..k /\ j + 1 \in 1..m /\ j + 1 \in 1..n /\ (j + 1) - 1 = j
      BY <2>1
    <2>3. f[j + 1] = f[j] + s[j + 1].len /\ g[j + 1] = g[j] + t[j + 1].len
      BY <2>2 DEF Ends
    <2>4. QED
      BY <2>2, <2>3
  <1> HIDE DEF S
  <1>3. S = Nat
    <2>1. S \in SUBSET Nat
      BY DEF S
    <2>2. QED
      BY <1>1, <1>2, <2>1, SetInduction
  <1>4. QED
    BY <1>3 DEF S

\* ... and behind those before them.
LEMMA EndsGrow ==
  ASSUME NEW s \in Seq(Chunk), NEW f, NEW k \in 0..Len(s), Ends(f, s, Len(s))
  PROVE  f[k] \in Nat /\ f[k] <= f[Len(s)]
  <1>1. /\ Len(s) \in Nat /\ \A i \in 1..Len(s) : s[i].len \in Nat
        /\ \A i \in 0..Len(s) : f[i] \in Nat
    BY ChunkLengths DEF Ends
  <1> DEFINE S == {j \in Nat : k <= j /\ j <= Len(s) => f[k] <= f[j]}
  <1>2. 0 \in S
    BY <1>1
  <1>3. ASSUME NEW j \in S PROVE j + 1 \in S
    <2>1. j \in Nat
      OBVIOUS
    <2> SUFFICES ASSUME k <= j + 1, j + 1 <= Len(s) PROVE f[k] <= f[j + 1]
      BY <2>1
    <2>2. CASE k = j + 1
      BY <1>1, <2>1, <2>2
    <2>3. CASE k # j + 1
      <3>1. /\ k <= j /\ j + 1 \in 1..Len(s) /\ (j + 1) - 1 = j /\ f[k] <= f[j]
            /\ j \in 0..Len(s)
        BY <1>1, <2>1, <2>3
      <3>2. f[j + 1] = f[j] + s[j + 1].len
        BY <3>1 DEF Ends
      <3>3. QED
        BY <1>1, <3>1, <3>2
    <2>4. QED
      BY <2>2, <2>3
  <1> HIDE DEF S
  <1>4. S = Nat
    <2>1. S \in SUBSET Nat
      BY DEF S
    <2>2. QED
      BY <1>2, <1>3, <2>1, SetInduction
  <1>5. QED
    BY <1>1, <1>4 DEF S

\* A chunk adds its length.
LEMMA BytesOfOneMore ==
  ASSUME NEW s \in Seq(Chunk), NEW t \in Seq(Chunk), Len(t) = Len(s) + 1,
         \A i \in 1..Len(s) : t[i] = s[i]
  PROVE  Bytes(t) = Bytes(s) + t[Len(t)].len
  <1>1. Len(s) \in Nat /\ Len(t) \in 1..Len(t) /\ Len(t) - 1 = Len(s)
    BY LenProperties
  <1>2. PICK f : Ends(f, s, Len(s)) /\ Bytes(s) = f[Len(s)]
    BY BytesEnd
  <1>3. PICK g : Ends(g, t, Len(t)) /\ Bytes(t) = g[Len(t)]
    BY BytesEnd
  <1>4. g[Len(s)] = f[Len(s)]
    BY <1>1, <1>2, <1>3, EndsAgree
  <1>5. g[Len(t)] = g[Len(t) - 1] + t[Len(t)].len
    BY <1>1, <1>3 DEF Ends
  <1>6. QED
    BY <1>1, <1>2, <1>3, <1>4, <1>5

\* The beginning of a file is no larger than the file.
LEMMA BytesOfPrefix ==
  ASSUME NEW s \in Seq(Chunk), NEW t \in Seq(Chunk), Len(t) <= Len(s),
         \A i \in 1..Len(t) : t[i] = s[i]
  PROVE  Bytes(t) \in Nat /\ Bytes(t) <= Bytes(s)
  <1>1. Len(s) \in Nat /\ Len(t) \in Nat /\ Len(t) \in 0..Len(s)
    BY LenProperties
  <1>2. PICK f : Ends(f, s, Len(s)) /\ Bytes(s) = f[Len(s)]
    BY BytesEnd
  <1>3. PICK g : Ends(g, t, Len(t)) /\ Bytes(t) = g[Len(t)]
    BY BytesEnd
  <1>4. g[Len(t)] = f[Len(t)]
    BY <1>1, <1>2, <1>3, EndsAgree
  <1>5. f[Len(t)] \in Nat /\ f[Len(t)] <= f[Len(s)]
    BY <1>1, <1>2, EndsGrow
  <1>6. QED
    BY <1>2, <1>3, <1>4, <1>5

\* Only an empty file has no size.
LEMMA BytesOfSome ==
  ASSUME NEW s \in Seq(Chunk), s # <<>>, \A i \in 1..Len(s) : s[i].len > 0
  PROVE  Bytes(s) > 0
  <1>1. Len(s) \in Nat /\ 1 \in 1..Len(s) /\ 1 \in 0..Len(s)
    BY LenProperties, EmptySeq
  <1>2. PICK f : Ends(f, s, Len(s)) /\ Bytes(s) = f[Len(s)]
    BY BytesEnd
  <1>3. f[1] = f[0] + s[1].len /\ f[0] = 0
    BY <1>1, <1>2 DEF Ends
  <1>4. s[1].len \in Nat /\ s[1].len > 0
    BY <1>1, ChunkLengths
  <1>5. f[1] \in Nat /\ f[1] <= f[Len(s)] /\ f[Len(s)] \in Nat
    BY <1>1, <1>2, EndsGrow DEF Ends
  <1>6. QED
    BY <1>2, <1>3, <1>4, <1>5

-----------------------------------------------------------------------------
(* Nothing confirmed is missing behind a line that is left.                  *)

\* prune() takes the oldest archives: what it leaves is newer than what it unlinked.
LEMMA PrunesOldest ==
  ASSUME NEW A, DOMAIN A \subseteq Nat, IsFiniteSet(DOMAIN A), NEW gone, Prunes(A, gone),
         NEW s \in gone, NEW t \in DOMAIN A \ gone
  PROVE  s < t
  <1>1. s \in Victims(A) /\ s \in Nat /\ t \in Nat /\ s # t
    BY DEF Prunes, Victims
  <1> SUFFICES ASSUME t < s PROVE FALSE
    BY <1>1
  <1> DEFINE after(v) == {u \in DOMAIN A : u > v}
  <1>2. IsFiniteSet(after(t)) /\ after(s) \subseteq after(t)
    <2>1. after(s) \subseteq after(t)
      BY <1>1
    <2>2. QED
      BY <2>1, FS_Subset
  <1>3. /\ Cardinality(after(s)) \in Nat /\ Cardinality(after(t)) \in Nat
        /\ Cardinality(after(s)) <= Cardinality(after(t))
    BY <1>2, FS_Subset, FS_CardinalityType
  <1>4. Cardinality(after(s)) >= KeepRolls
    BY <1>1 DEF Victims
  <1> HIDE DEF after
  <1>5. Cardinality(after(t)) >= KeepRolls
    BY <1>3, <1>4, WriterAssumption
  <1>6. t \in Victims(A)
    BY <1>5 DEF Victims, after
  <1>7. QED
    BY <1>1, <1>6 DEF Prunes

\* A line in the files, before and after a step.
LEMMA InFilesFacts ==
  ASSUME NEW id
  PROVE  /\ id \in InFiles <=>
              \/ \E s \in Stamps : \E i \in 1..Len(archives[s]) : archives[s][i].id = id
              \/ \E i \in 1..Len(stream) : stream[i].id = id
         /\ id \in InFiles' <=>
              \/ \E s \in Stamps' : \E i \in 1..Len(archives'[s]) : archives'[s][i].id = id
              \/ \E i \in 1..Len(stream') : stream'[i].id = id
  BY DEF InFiles, IdsIn

KeptInv == NoHoleInTheJournal /\ ConfirmedStands

\* Unlinking the oldest archives, or cutting lines that were not confirmed off the end
\* of the open segment, leaves no hole.
LEMMA KeptWhenFilesShrink ==
  ASSUME WriterInv, KeptInv, NEW gone \in SUBSET Stamps, Prunes(archives, gone),
         Stamps' = Stamps \ gone, \A s \in Stamps' : archives'[s] = archives[s],
         stream' \in Seq(Chunk), Len(stream') \in 0..Len(stream),
         \A i \in 1..Len(stream') : stream'[i] = stream[i],
         \A i \in 1..Len(stream) : stream[i].id \in confirmed => i <= Len(stream'),
         rollback' \in {rollback, None}, confirmed' = confirmed
  PROVE  KeptInv'
  <1>1. /\ Len(stream) \in Nat /\ Len(stream') \in Nat /\ Stamps \subseteq Nat
        /\ IsFiniteSet(Stamps) /\ DOMAIN archives = Stamps
        /\ \A i \in 1..Len(stream') : i \in 1..Len(stream)
        /\ \A i \in 1..Len(stream) : i <= Len(stream') => i \in 1..Len(stream')
    BY LenProperties DEF WriterInv, TypeOK, Stamps
  <1>2. ConfirmedStands'
    BY <1>1 DEF KeptInv, ConfirmedStands
  <1>3. ASSUME NEW id \in confirmed, NEW kept \in InFiles', kept <= id, id \notin InFiles'
        PROVE  FALSE
    <2>1. kept \in InFiles
      BY <1>1, InFilesFacts
    <2>2. id \in InFiles
      BY <1>3, <2>1 DEF KeptInv, NoHoleInTheJournal
    <2>3. ASSUME NEW i \in 1..Len(stream) PROVE stream[i].id # id
      BY <1>1, <1>3, InFilesFacts
    <2>4. PICK s \in Stamps : \E i \in 1..Len(archives[s]) : archives[s][i].id = id
      BY <2>2, <2>3, InFilesFacts
    <2>5. s \in gone
      BY <1>3, <2>4, InFilesFacts
    <2>6. id < kept
      <3>1. CASE \E j \in 1..Len(stream') : stream'[j].id = kept
        BY <1>1, <2>4, <3>1 DEF WriterInv, JournalOrder
      <3>2. CASE \E t \in Stamps' : \E j \in 1..Len(archives'[t]) : archives'[t][j].id = kept
        <4>1. PICK t \in Stamps' : \E j \in 1..Len(archives'[t]) : archives'[t][j].id = kept
          BY <3>2
        <4>2. s < t
          BY <1>1, <2>5, PrunesOldest
        <4>3. QED
          BY <2>4, <4>1, <4>2 DEF WriterInv, JournalOrder
      <3>3. QED
        BY <3>1, <3>2, InFilesFacts
    <2>7. id \in Nat /\ kept \in Nat
      BY <2>1, UsedFacts DEF WriterInv, Used, TypeOK
    <2>8. QED
      BY <1>3, <2>4, <2>6, <2>7
  <1>4. NoHoleInTheJournal'
    BY <1>3 DEF NoHoleInTheJournal
  <1>5. QED
    BY <1>2, <1>4 DEF KeptInv

\* open_stream() cuts a rolled back or torn end off the file, and neither was confirmed.
LEMMA OpenStreamCutsNothingConfirmed ==
  ASSUME WriterInv, KeptInv, NEW gone \in SUBSET Stamps, NEW stage \in Stages,
         OpenStream(gone, stage)
  PROVE  \A i \in 1..Len(stream) : stream[i].id \in confirmed => i <= Len(stream')
  <1>1. /\ stream \in Seq(Chunk) /\ Len(stream) \in Nat
        /\ rollback # None => rollback \in 0..Len(stream)
        /\ \A i \in 1..Len(stream) : ~stream[i].whole => i = Len(stream)
    BY LenProperties DEF WriterInv, TypeOK, ControlInv, TornOnlyAtTheEnd
  <1> DEFINE m == IF rollback = None THEN Len(stream) ELSE rollback
  <1>2. /\ m \in 0..Len(stream)
        /\ \A i \in 1..Len(stream) : stream[i].id \in confirmed => stream[i].whole /\ i <= m
    BY <1>1 DEF KeptInv, ConfirmedStands
  <1>3. AfterRollback = SubSeq(stream, 1, m)
    BY <1>1, SubSeqFull DEF AfterRollback
  <1> HIDE DEF m
  <1>4. /\ AfterRollback \in Seq(Chunk) /\ Len(AfterRollback) = m
        /\ \A i \in 1..m : AfterRollback[i] = stream[i]
    BY <1>1, <1>2, <1>3, PrefixFacts
  <1>5. \A i \in 1..Len(AfterRollback) : ~AfterRollback[i].whole => i = Len(AfterRollback)
    BY <1>1, <1>2, <1>4
  <1>6. PICK n \in 0..Len(AfterRollback) :
                          /\ Repair(AfterRollback) = SubSeq(AfterRollback, 1, n)
                          /\ \A i \in n+1..Len(AfterRollback) : ~AfterRollback[i].whole
    BY <1>4, <1>5, RepairFacts
  <1>7. Len(Repair(AfterRollback)) = n
    BY <1>4, <1>6, PrefixFacts
  <1> SUFFICES ASSUME NEW i \in 1..Len(stream), stream[i].id \in confirmed
               PROVE  i <= Len(stream')
    OBVIOUS
  <1>8. i <= m /\ stream[i].whole /\ i \in 1..m
    BY <1>1, <1>2
  <1>9. i <= n
    <2> SUFFICES ASSUME ~(i <= n) PROVE FALSE
      OBVIOUS
    <2>1. i \in n+1..Len(AfterRollback)
      BY <1>2, <1>4, <1>8
    <2>2. QED
      BY <1>4, <1>6, <1>8, <2>1
  <1>10. CASE stage = "ready"
    <2>1. stream' = Repair(AfterRollback)
      BY <1>10 DEF OpenStream
    <2>2. QED
      BY <1>7, <1>9, <2>1
  <1>11. CASE stage = "tail"
    <2>1. stream' = AfterRollback
      BY <1>11 DEF OpenStream
    <2>2. QED
      BY <1>4, <1>8, <2>1
  <1>12. CASE stage \notin {"tail", "ready"}
    <2>1. stream' = stream
      BY <1>12 DEF OpenStream
    <2>2. QED
      BY <1>1, <2>1
  <1>13. QED
    BY <1>10, <1>11, <1>12

\* open_stream(), wherever it stopped.
LEMMA KeptWhenOpened ==
  ASSUME WriterInv, KeptInv, NEW gone \in SUBSET Stamps, NEW stage \in Stages,
         OpenStream(gone, stage), confirmed' = confirmed
  PROVE  KeptInv'
  <1>1. /\ stream' \in Seq(Chunk) /\ Len(stream') \in 0..Len(stream)
        /\ \A i \in 1..Len(stream') : stream'[i] = stream[i]
        /\ Stamps' = Stamps \ gone /\ archives' = [s \in Stamps \ gone |-> archives[s]]
        /\ rollback' \in {rollback, None}
    BY OpenStreamFacts
  <1>2. Prunes(archives, gone)
    BY DEF OpenStream
  <1>3. \A i \in 1..Len(stream) : stream[i].id \in confirmed => i <= Len(stream')
    BY OpenStreamCutsNothingConfirmed
  <1>4. QED
    BY <1>1, <1>2, <1>3, KeptWhenFilesShrink

\* No unlink at all.
LEMMA PrunesNothing == ASSUME NEW A PROVE Prunes(A, {})
  BY DEF Prunes

\* A step that touches no file, confirms nothing and settles no append leaves no hole.
LEMMA KeptUnchanged ==
  ASSUME WriterInv, KeptInv, UNCHANGED <<stream, archives, confirmed>>,
         rollback' \in {rollback, None}
  PROVE  KeptInv'
  <1>1. Stamps' = Stamps /\ InFiles' = InFiles
    BY DEF Stamps, InFiles
  <1>2. QED
    BY <1>1 DEF KeptInv, NoHoleInTheJournal, ConfirmedStands

\* roll(): a rename loses nothing, and prune() then takes the oldest.
LEMMA KeptWhenRolled == ASSUME WriterInv, KeptInv, NEW now \in Clock, Roll(now) PROVE KeptInv'
  <1> DEFINE stamp   == Stamp(now)
             renamed == [s \in Stamps \cup {stamp} |-> IF s = stamp THEN stream ELSE archives[s]]
  <1>1. stamp \in Nat /\ \A s \in Stamps : s < stamp
    BY StampIsNewest
  <1> HIDE DEF stamp
  <1>2. PICK gone \in SUBSET (Stamps \cup {stamp}) :
          Prunes(renamed, gone) /\ archives' = Without(renamed, gone)
    BY DEF Roll, stamp
  <1>3. stream' = <<>> /\ Len(stream') = 0 /\ confirmed' = confirmed
    BY DEF Roll
  <1>4. Stamps \subseteq Nat /\ IsFiniteSet(Stamps)
    BY DEF WriterInv, TypeOK
  <1>5. /\ DOMAIN renamed = Stamps \cup {stamp} /\ DOMAIN renamed \subseteq Nat
        /\ IsFiniteSet(DOMAIN renamed) /\ \A t \in DOMAIN renamed : t <= stamp
    <2>1. DOMAIN renamed = Stamps \cup {stamp}
      OBVIOUS
    <2>2. IsFiniteSet(Stamps \cup {stamp})
      BY <1>4, FS_AddElement
    <2>3. \A t \in Stamps \cup {stamp} : t <= stamp
      BY <1>1, <1>4
    <2>4. QED
      BY <1>1, <1>4, <2>1, <2>2, <2>3
  <1>6. /\ renamed[stamp] = stream
        /\ \A s \in DOMAIN renamed : s # stamp => s \in Stamps /\ renamed[s] = archives[s]
        /\ \A s \in Stamps : s \in DOMAIN renamed /\ s # stamp
    BY <1>1, <1>4
  <1> HIDE DEF renamed
  <1>7. Stamps' = DOMAIN renamed \ gone /\ \A s \in Stamps' : archives'[s] = renamed[s]
    BY <1>2 DEF Without, Stamps
  <1>8. ConfirmedStands'
    BY <1>3 DEF ConfirmedStands
  <1>9. \A id : id \in InFiles <=>
          \E s \in DOMAIN renamed : \E i \in 1..Len(renamed[s]) : renamed[s][i].id = id
    BY <1>5, <1>6, InFilesFacts
  <1>10. \A id : id \in InFiles' <=>
           \E s \in Stamps' : \E i \in 1..Len(renamed[s]) : renamed[s][i].id = id
    BY <1>3, <1>7, InFilesFacts
  <1>11. ASSUME NEW id \in confirmed, NEW kept \in InFiles', kept <= id, id \notin InFiles'
         PROVE  FALSE
    <2>1. PICK t \in Stamps' : \E j \in 1..Len(renamed[t]) : renamed[t][j].id = kept
      BY <1>10
    <2>2. kept \in InFiles
      BY <1>7, <1>9, <2>1
    <2>3. id \in InFiles
      BY <1>11, <2>2 DEF KeptInv, NoHoleInTheJournal
    <2>4. PICK s \in DOMAIN renamed : \E i \in 1..Len(renamed[s]) : renamed[s][i].id = id
      BY <1>9, <2>3
    <2>5. s \in gone
      BY <1>7, <1>10, <1>11, <2>4
    <2>6. s < t
      BY <1>2, <1>5, <1>7, <2>5, PrunesOldest
    <2>7. s # stamp /\ s \in Stamps /\ renamed[s] = archives[s]
      BY <1>1, <1>5, <1>6, <1>7, <2>6
    <2>8. id < kept
      <3>1. CASE t = stamp
        BY <1>6, <2>1, <2>4, <2>7, <3>1 DEF WriterInv, JournalOrder
      <3>2. CASE t # stamp
        <4>1. t \in Stamps /\ renamed[t] = archives[t]
          BY <1>6, <1>7, <3>2
        <4>2. QED
          BY <2>1, <2>4, <2>6, <2>7, <4>1 DEF WriterInv, JournalOrder
      <3>3. QED
        BY <3>1, <3>2
    <2>9. id \in Nat /\ kept \in Nat
      BY <2>2, UsedFacts DEF WriterInv, Used, TypeOK
    <2>10. QED
      BY <1>11, <2>8, <2>9
  <1>12. NoHoleInTheJournal'
    BY <1>3, <1>11 DEF NoHoleInTheJournal
  <1>13. QED
    BY <1>8, <1>12 DEF KeptInv

\* write() starts: the new line is newer than every confirmed one.
LEMMA KeptWhenAppending ==
  ASSUME WriterInv, KeptInv, NEW whole \in BOOLEAN, AppendBytes(whole)
  PROVE  KeptInv'
  <1> DEFINE chunk == [id |-> inHand.id, len |-> IF whole THEN inHand.len ELSE 1, whole |-> whole]
  <1>1. /\ pc = "write" /\ rollback' = Len(stream) /\ stream' = Append(stream, chunk)
        /\ archives' = archives /\ confirmed' = confirmed
    BY DEF AppendBytes
  <1>2. inHand \in Record /\ inHand # None /\ stream \in Seq(Chunk) /\ Len(stream) \in Nat
    BY <1>1, WriterAssumption, LenProperties DEF WriterInv, TypeOK, Busy, Record
  <1>3. inHand.id \notin confirmed /\ inHand.id \in Nat /\ \A u \in Used : u <= inHand.id
    BY <1>2 DEF WriterInv, FreshIds, Record
  <1>4. chunk \in Chunk /\ chunk.id = inHand.id
    BY <1>2 DEF Chunk, Record
  <1> HIDE DEF chunk
  <1>5. /\ Len(stream') = Len(stream) + 1 /\ stream'[Len(stream) + 1] = chunk
        /\ \A i \in 1..Len(stream) : stream'[i] = stream[i]
    BY <1>1, <1>2, <1>4, AppendProperties
  <1>6. \A i \in 1..Len(stream') : i \in 1..Len(stream) \/ i = Len(stream) + 1
    BY <1>2, <1>5
  <1>7. ConfirmedStands'
    <2> SUFFICES ASSUME NEW i \in 1..Len(stream'), stream'[i].id \in confirmed
                 PROVE  stream'[i].whole /\ i <= Len(stream)
      BY <1>1 DEF ConfirmedStands
    <2>1. i \in 1..Len(stream) /\ stream'[i] = stream[i]
      BY <1>3, <1>4, <1>5, <1>6
    <2>2. QED
      BY <1>2, <2>1 DEF KeptInv, ConfirmedStands
  <1>8. Stamps' = Stamps
    BY <1>1 DEF Stamps
  <1>9. \A id : id \in InFiles' <=> id \in InFiles \/ id = inHand.id
    <2>1. \A i \in 1..Len(stream) : i \in 1..Len(stream')
      BY <1>2, <1>5
    <2>2. Len(stream) + 1 \in 1..Len(stream')
      BY <1>2, <1>5
    <2>3. QED
      BY <1>1, <1>4, <1>5, <1>6, <1>8, <2>1, <2>2, InFilesFacts
  <1>10. ASSUME NEW id \in confirmed, NEW kept \in InFiles', kept <= id
         PROVE  id \in InFiles'
    <2>1. id \in Nat /\ id <= inHand.id /\ id # inHand.id
      BY <1>3, UsedFacts DEF WriterInv
    <2>2. kept \in InFiles
      BY <1>3, <1>9, <1>10, <2>1
    <2>3. QED
      BY <1>9, <1>10, <2>2 DEF KeptInv, NoHoleInTheJournal
  <1>11. NoHoleInTheJournal'
    BY <1>1, <1>10 DEF NoHoleInTheJournal
  <1>12. QED
    BY <1>7, <1>11 DEF KeptInv

\* write() goes on: the last line is completed, and still not confirmed.
LEMMA KeptWhenCompleted == ASSUME WriterInv, KeptInv, AppendRest PROVE KeptInv'
  <1>1. /\ stream \in Seq(Chunk) /\ stream # <<>> /\ Len(stream) \in Nat
        /\ archives' = archives /\ confirmed' = confirmed /\ rollback' = rollback
    BY LenProperties DEF AppendRest, WriterInv, TypeOK, ControlInv, control, history
  <1>2. /\ Len(stream') = Len(stream)
        /\ \A i \in 1..Len(stream) : stream'[i].id = stream[i].id
                                     /\ (stream[i].whole => stream'[i].whole)
    <2> DEFINE last == [stream[Len(stream)] EXCEPT !.len = inHand.len, !.whole = TRUE]
    <2>1. stream' = [stream EXCEPT ![Len(stream)] = last]
      BY DEF AppendRest
    <2>2. Len(stream) \in 1..Len(stream)
      BY <1>1, EmptySeq, LenProperties
    <2>3. stream[Len(stream)] \in Chunk
      BY <1>1, <2>2, ElementOfSeq
    <2>4. last \in Chunk /\ last.id = stream[Len(stream)].id /\ last.whole
      <3>1. inHand \in Record
        BY DEF AppendRest, WriterInv, TypeOK, Busy
      <3>2. QED
        BY <2>3, <3>1 DEF Chunk, Record
    <2> HIDE DEF last
    <2>5. /\ Len(stream') = Len(stream)
          /\ \A i \in 1..Len(stream) : stream'[i] = IF i = Len(stream) THEN last ELSE stream[i]
      BY <1>1, <2>1, <2>2, <2>4, ExceptSeq
    <2>6. QED
      BY <2>4, <2>5
  <1>3. Stamps' = Stamps
    BY <1>1 DEF Stamps
  <1>4. \A id : id \in InFiles' <=> id \in InFiles
    BY <1>1, <1>2, <1>3, InFilesFacts
  <1>5. QED
    BY <1>1, <1>2, <1>4 DEF KeptInv, NoHoleInTheJournal, ConfirmedStands

\* write() returns: the line it confirms is in the file, complete.
LEMMA KeptWhenConfirmed == ASSUME WriterInv, KeptInv, AppendDone PROVE KeptInv'
  <1>1. /\ pc = "writing" /\ Last(stream).whole /\ rollback' = None
        /\ confirmed' = confirmed \cup {inHand.id} /\ UNCHANGED <<stream, archives>>
    BY DEF AppendDone, disk
  <1>2. /\ stream \in Seq(Chunk) /\ stream # <<>> /\ Len(stream) \in Nat
        /\ stream[Len(stream)].id = inHand.id /\ Ascending(stream)
        /\ \A i \in 1..Len(stream) : ~stream[i].whole => i = Len(stream)
    BY <1>1, LenProperties DEF WriterInv, TypeOK, ControlInv, JournalOrder, TornOnlyAtTheEnd
  <1>3. Len(stream) \in 1..Len(stream) /\ \A i \in 1..Len(stream) : stream[i].whole
    <2>1. Len(stream) \in 1..Len(stream)
      BY <1>2, EmptySeq, LenProperties
    <2>2. stream[Len(stream)].whole
      BY <1>1 DEF Last
    <2>3. QED
      BY <1>2, <2>1, <2>2
  <1>4. Stamps' = Stamps /\ InFiles' = InFiles
    BY <1>1 DEF Stamps, InFiles
  <1>5. inHand.id \in InFiles
    BY <1>2, <1>3, InFilesFacts
  <1>6. NoHoleInTheJournal'
    BY <1>1, <1>4, <1>5 DEF KeptInv, NoHoleInTheJournal
  <1>7. ConfirmedStands'
    BY <1>1, <1>3 DEF ConfirmedStands
  <1>8. QED
    BY <1>6, <1>7 DEF KeptInv

\* write() raises: only the line being appended is rolled back.
LEMMA KeptWhenAppendFails ==
  ASSUME WriterInv, KeptInv, NEW truncated \in BOOLEAN, AppendFails(truncated)
  PROVE  KeptInv'
  <1> DEFINE offset == IF pc = "write" THEN Len(stream) ELSE rollback
  <1>1. /\ pc \in {"write", "writing"} /\ archives' = archives /\ confirmed' = confirmed
        /\ \/ truncated /\ stream' = SubSeq(stream, 1, offset) /\ rollback' = None
           \/ ~truncated /\ rollback' = offset /\ stream' = stream
    BY DEF AppendFails
  <1>2. /\ stream \in Seq(Chunk) /\ Len(stream) \in Nat /\ Stamps' = Stamps
        /\ inHand \in Record /\ inHand # None /\ inHand.id \notin confirmed
    BY <1>1, WriterAssumption, LenProperties
       DEF WriterInv, TypeOK, FreshIds, Busy, Stamps, Record
  <1>3. /\ offset \in 0..Len(stream)
        /\ \A i \in 1..Len(stream) : stream[i].id \in confirmed => i <= offset
    <2>1. CASE pc = "write"
      BY <1>2, <2>1
    <2>2. CASE pc = "writing"
      <3>1. /\ stream # <<>> /\ offset = Len(stream) - 1 /\ stream[Len(stream)].id = inHand.id
        BY <2>2 DEF WriterInv, ControlInv
      <3>2. Len(stream) # 0
        BY <1>2, <3>1, EmptySeq
      <3> HIDE DEF offset
      <3>3. QED
        BY <1>2, <3>1, <3>2
    <2>3. QED
      BY <1>1, <2>1, <2>2
  <1> HIDE DEF offset
  <1>4. CASE stream' = SubSeq(stream, 1, offset) /\ rollback' = None
    <2>1. /\ stream' \in Seq(Chunk) /\ Len(stream') = offset
          /\ \A i \in 1..offset : stream'[i] = stream[i]
      BY <1>2, <1>3, <1>4, PrefixFacts
    <2>2. QED
      BY <1>1, <1>2, <1>3, <1>4, <2>1, PrunesNothing, KeptWhenFilesShrink
  <1>5. CASE rollback' = offset /\ stream' = stream
    <2>1. InFiles' = InFiles
      BY <1>1, <1>2, <1>5 DEF InFiles
    <2>2. QED
      BY <1>1, <1>3, <1>5, <2>1 DEF KeptInv, NoHoleInTheJournal, ConfirmedStands
  <1>6. QED
    BY <1>1, <1>4, <1>5

\* Recovery before the first record.
LEMMA KeptWhenRecovered == ASSUME WriterInv, KeptInv, Recover PROVE KeptInv'
  <1>1. confirmed' = confirmed
    BY DEF Recover
  <1>2. CASE \E gone \in SUBSET Stamps, stage \in Stages : OpenStream(gone, stage)
    BY <1>1, <1>2, KeptWhenOpened
  <1>3. CASE \E gone \in SUBSET Stamps :
               /\ Prunes(archives, gone) /\ archives' = Without(archives, gone)
               /\ UNCHANGED <<stream, rollback>>
    <2>1. PICK gone \in SUBSET Stamps :
               /\ Prunes(archives, gone) /\ archives' = Without(archives, gone)
               /\ UNCHANGED <<stream, rollback>>
      BY <1>3
    <2>2. Stamps' = Stamps \ gone /\ \A s \in Stamps' : archives'[s] = archives[s]
      BY <2>1 DEF Without, Stamps
    <2>3. stream \in Seq(Chunk) /\ Len(stream) \in Nat
      BY LenProperties DEF WriterInv, TypeOK
    <2>4. QED
      BY <1>1, <2>1, <2>2, <2>3, KeptWhenFilesShrink
  <1>4. QED
    BY <1>2, <1>3 DEF Recover

\* Every step leaves no hole.
LEMMA KeptStep == WriterInv /\ KeptInv /\ [Next]_vars => KeptInv'
  <1> SUFFICES ASSUME WriterInv, KeptInv, [Next]_vars PROVE KeptInv'
    OBVIOUS
  <1>1. ASSUME NEW shape \in Shapes, Submit(shape) PROVE KeptInv'
    BY <1>1, KeptUnchanged DEF Submit, disk, control
  <1>2. CASE Recover
    BY <1>2, KeptWhenRecovered
  <1>3. CASE Take \/ LeaveLoop \/ Refuse \/ UseHandle \/ KeepSegment \/ RenameFails \/ StopIntake
             \/ WorkerDiscards \/ WorkerEnds
    BY <1>3, KeptUnchanged DEF Take, LeaveLoop, Refuse, UseHandle, KeepSegment, RenameFails,
       StopIntake, WorkerDiscards, WorkerEnds, disk, control, history, intake
  <1>4. CASE OpenFirst \/ Reopen
    <2>1. PICK gone \in SUBSET Stamps, stage \in Stages : OpenStream(gone, stage)
      BY <1>4 DEF OpenFirst, Reopen, OpenFor
    <2>2. confirmed' = confirmed
      BY <1>4 DEF OpenFirst, Reopen, OpenFor
    <2>3. QED
      BY <2>1, <2>2, KeptWhenOpened
  <1>5. ASSUME NEW now \in Clock, Roll(now) PROVE KeptInv'
    BY <1>5, KeptWhenRolled
  <1>6. ASSUME NEW whole \in BOOLEAN, AppendBytes(whole) PROVE KeptInv'
    BY <1>6, KeptWhenAppending
  <1>7. CASE AppendRest
    BY <1>7, KeptWhenCompleted
  <1>8. CASE AppendDone
    BY <1>8, KeptWhenConfirmed
  <1>9. ASSUME NEW truncated \in BOOLEAN, AppendFails(truncated) PROVE KeptInv'
    BY <1>9, KeptWhenAppendFails
  <1>10. CASE CloseBegins \/ CloseJoins \/ CloseTimesOut \/ CloserDiscards \/ CloserReturns
    BY <1>10, KeptUnchanged DEF CloseBegins, CloseJoins, CloseTimesOut, CloserDiscards,
       CloserReturns, disk, control, history
  <1>11. CASE Restart
    BY <1>11, KeptUnchanged DEF Restart, disk
  <1>12. CASE UNCHANGED vars
    BY <1>12, KeptUnchanged DEF vars, disk, control, history
  <1>13. QED
    BY <1>1, <1>2, <1>3, <1>4, <1>5, <1>6, <1>7, <1>8, <1>9, <1>10, <1>11, <1>12
       DEF Next, Worker, Closer, Terminated

\* A Writer just constructed has confirmed nothing.
LEMMA KeptInit == Init => KeptInv
  <1> SUFFICES ASSUME Init PROVE KeptInv
    OBVIOUS
  <1>1. confirmed = {}
    BY DEF Init
  <1>2. QED
    BY <1>1 DEF KeptInv, NoHoleInTheJournal, ConfirmedStands

\* prune(), open_stream() and write(): a confirmed record is lost only to retention, and
\* everything confirmed behind a line that is left is in the files.
THEOREM NothingMissing == Spec => []NoHoleInTheJournal
  <1>1. KeptInv => NoHoleInTheJournal
    BY DEF KeptInv
  <1>2. QED
    BY <1>1, KeptInit, KeptStep, WriterInvariant, PTL DEF Spec

-----------------------------------------------------------------------------
(* Retention bounds the journal.                                             *)

\* A nonempty set of naturals has a smallest one.
LEMMA SmallestOf ==
  ASSUME NEW T \in SUBSET Nat, T # {}
  PROVE  \E m \in T : \A t \in T : m <= t
  <1> SUFFICES ASSUME \A m \in T : \E t \in T : t < m PROVE FALSE
    <2>1. \A m \in T, t \in T : ~(t < m) => m <= t
      OBVIOUS
    <2>2. QED
      BY <2>1
  <1> DEFINE S == {n \in Nat : \A t \in T : n < t}
  <1>1. \A t \in T : t \in Nat
    OBVIOUS
  <1>2. 0 \notin T
    <2>1. ASSUME 0 \in T PROVE FALSE
      <3>1. PICK t \in T : t < 0
        BY <2>1
      <3>2. QED
        BY <1>1, <3>1
    <2>2. QED
      BY <2>1
  <1>3. 0 \in S
    BY <1>1, <1>2
  <1>4. ASSUME NEW n \in S PROVE n + 1 \in S
    <2>1. n \in Nat /\ \A t \in T : n < t
      BY <1>4
    <2>2. ASSUME NEW t \in T PROVE n + 1 < t
      <3>1. n < t /\ t \in Nat
        BY <1>1, <2>1
      <3>2. PICK u \in T : u < t
        OBVIOUS
      <3>3. n < u /\ u \in Nat
        BY <1>1, <2>1
      <3>4. QED
        BY <2>1, <3>1, <3>2, <3>3
    <2>3. QED
      BY <2>1, <2>2
  <1> HIDE DEF S
  <1>5. S = Nat
    <2>1. S \in SUBSET Nat
      BY DEF S
    <2>2. QED
      BY <1>3, <1>4, <2>1, SetInduction
  <1>6. PICK t \in T : TRUE
    OBVIOUS
  <1>7. t \in Nat /\ t \in S
    BY <1>1, <1>5
  <1>8. QED
    BY <1>7 DEF S

\* prune() that unlinks every victim leaves at most KeepRolls archives.
LEMMA VictimsAreEnough ==
  ASSUME NEW A, DOMAIN A \subseteq Nat, IsFiniteSet(DOMAIN A)
  PROVE  Cardinality(DOMAIN A \ Victims(A)) <= KeepRolls
  <1> DEFINE left == DOMAIN A \ Victims(A)
  <1>1. left \in SUBSET Nat /\ IsFiniteSet(left)
    BY FS_Subset
  <1>2. KeepRolls \in Nat
    BY WriterAssumption
  <1>3. CASE left = {}
    BY <1>2, <1>3, FS_EmptySet
  <1>4. CASE left # {}
    <2>1. PICK m \in left : \A t \in left : m <= t
      BY <1>1, <1>4, SmallestOf
    <2> DEFINE after == {t \in DOMAIN A : t > m}
    <2>2. IsFiniteSet(after) /\ Cardinality(after) \in Nat
      BY FS_Subset, FS_CardinalityType
    <2>3. ~(Cardinality(after) >= KeepRolls)
      BY <2>1 DEF Victims
    <2>4. left \ {m} \subseteq after
      BY <1>1, <2>1
    <2> HIDE DEF after, left
    <2>5. Cardinality(left \ {m}) <= Cardinality(after) /\ Cardinality(left \ {m}) \in Nat
      BY <2>2, <2>4, FS_Subset, FS_CardinalityType
    <2>6. Cardinality(left \ {m}) = Cardinality(left) - 1 /\ Cardinality(left) \in Nat
      BY <1>1, <2>1, FS_RemoveElement, FS_CardinalityType
    <2>7. QED
      BY <1>2, <2>2, <2>3, <2>5, <2>6 DEF left
  <1>5. QED
    BY <1>3, <1>4

\* Files that shrink stay as small as they were.
LEMMA SizesWhenFilesShrink ==
  ASSUME TypeOK, SizeInv, Stamps' \subseteq Stamps, \A s \in Stamps' : archives'[s] = archives[s],
         stream' \in Seq(Chunk), Len(stream') \in 0..Len(stream),
         \A i \in 1..Len(stream') : stream'[i] = stream[i]
  PROVE  /\ FitsSegment(stream') /\ \A s \in Stamps' : FitsSegment(archives'[s])
         /\ \A i \in 1..Len(stream') : stream'[i].len > 0
         /\ Cardinality(Stamps') \in Nat /\ Cardinality(Stamps') <= Cardinality(Stamps)
         /\ Cardinality(Stamps) \in Nat
  <1>1. /\ stream \in Seq(Chunk) /\ Len(stream) \in Nat /\ IsFiniteSet(Stamps)
        /\ \A i \in 1..Len(stream') : i \in 1..Len(stream)
    BY LenProperties DEF TypeOK
  <1>2. FitsSegment(stream')
    <2>1. Bytes(stream') \in Nat /\ Bytes(stream') <= Bytes(stream) /\ Bytes(stream) \in Nat
      BY <1>1, BytesOfPrefix
    <2>2. QED
      BY <1>1, <2>1, WriterAssumption DEF SizeInv, FitsSegment
  <1>3. \A s \in Stamps' : FitsSegment(archives'[s])
    BY DEF SizeInv, FitsSegment
  <1>4. /\ Cardinality(Stamps') \in Nat /\ Cardinality(Stamps') <= Cardinality(Stamps)
        /\ Cardinality(Stamps) \in Nat
    BY <1>1, FS_Subset, FS_CardinalityType
  <1>5. QED
    BY <1>1, <1>2, <1>3, <1>4 DEF SizeInv

\* What is queued and in hand stays longer than a newline.
LEMMA SizesOfRecords ==
  ASSUME TypeOK, SizeInv, queue' = queue \/ (queue # <<>> /\ queue' = Tail(queue)) \/ queue' = <<>>,
         inHand' \in {inHand, None}
  PROVE  /\ \A i \in 1..Len(queue') : queue'[i].len > 1
         /\ inHand' # None => inHand'.len > 1
  <1>1. CASE queue # <<>> /\ queue' = Tail(queue)
    <2>1. queue \in Seq(Record)
      BY DEF TypeOK
    <2>2. /\ Len(queue) \in Nat /\ Len(queue') = Len(queue) - 1
          /\ \A i \in 1..Len(queue') : queue'[i] = queue[i + 1]
      BY <1>1, <2>1, HeadTailProperties, LenProperties
    <2>3. \A i \in 1..Len(queue') : i + 1 \in 1..Len(queue)
      BY <2>2
    <2>4. QED
      BY <2>2, <2>3 DEF SizeInv
  <1>2. CASE queue' = queue
    BY <1>2 DEF SizeInv
  <1>3. CASE queue' = <<>>
    BY <1>3 DEF SizeInv
  <1>4. QED
    BY <1>1, <1>2, <1>3

\* A step that touches no file and neither starts nor ends an append.
LEMMA SizesUnchanged ==
  ASSUME TypeOK, SizeInv, UNCHANGED disk,
         \A i \in 1..Len(queue') : queue'[i].len > 1, inHand' # None => inHand'.len > 1,
         pc' \notin {"write", "writing"} \/ UNCHANGED <<pc, inHand>>
  PROVE  SizeInv'
  <1>1. UNCHANGED <<stream, exists, archives>> /\ Stamps' = Stamps
    BY DEF disk, Stamps
  <1>2. FitsSegment(stream') /\ \A s \in Stamps' : FitsSegment(archives'[s])
    BY <1>1 DEF SizeInv
  <1>3. QED
    BY <1>1, <1>2 DEF SizeInv

\* open_stream(): it creates the file only after every victim is gone.
LEMMA SizesWhenOpened ==
  ASSUME WriterInv, SizeInv, NEW gone \in SUBSET Stamps, NEW stage \in Stages,
         OpenStream(gone, stage), queue' = queue, inHand' \in {inHand, None}, pc' # "writing",
         pc' = "write" => stream = <<>>
  PROVE  SizeInv'
  <1>1. /\ stream' \in Seq(Chunk) /\ Len(stream') \in 0..Len(stream)
        /\ \A i \in 1..Len(stream') : stream'[i] = stream[i]
        /\ Stamps' = Stamps \ gone /\ archives' = [s \in Stamps \ gone |-> archives[s]]
    BY OpenStreamFacts
  <1>2. /\ FitsSegment(stream') /\ \A s \in Stamps' : FitsSegment(archives'[s])
        /\ \A i \in 1..Len(stream') : stream'[i].len > 0
        /\ Cardinality(Stamps') \in Nat /\ Cardinality(Stamps') <= Cardinality(Stamps)
        /\ Cardinality(Stamps) \in Nat
    BY <1>1, SizesWhenFilesShrink DEF WriterInv
  <1>3. /\ \A i \in 1..Len(queue') : queue'[i].len > 1
        /\ inHand' # None => inHand'.len > 1
    BY SizesOfRecords DEF WriterInv
  <1>4. Cardinality(Stamps') + (IF exists' THEN 1 ELSE 0) <= KeepRolls + 1
    <2>1. CASE stage = "prune"
      <3>1. exists' = exists
        BY <2>1 DEF OpenStream, WriterInv, TypeOK
      <3>2. QED
        BY <1>2, <3>1, WriterAssumption DEF SizeInv
    <2>2. CASE stage # "prune"
      <3>1. gone = Victims(archives)
        BY <2>2 DEF OpenStream
      <3>2. Cardinality(Stamps') <= KeepRolls
        BY <1>1, <3>1, VictimsAreEnough DEF WriterInv, TypeOK, Stamps
      <3>3. QED
        BY <1>2, <3>2, WriterAssumption
    <2>3. QED
      BY <2>1, <2>2
  <1>5. pc' = "write" => stream' = <<>>
    <2> SUFFICES ASSUME pc' = "write" PROVE stream' = <<>>
      OBVIOUS
    <2>1. stream = <<>> /\ Len(stream) = 0
      OBVIOUS
    <2>2. Len(stream') = 0
      BY <1>1, <2>1
    <2>3. QED
      BY <1>1, <2>2, EmptySeq
  <1>6. QED
    BY <1>2, <1>3, <1>4, <1>5 DEF SizeInv

\* Recovery before the first record.
LEMMA SizesWhenRecovered == ASSUME WriterInv, SizeInv, Recover PROVE SizeInv'
  <1>1. queue' = queue /\ inHand' = inHand /\ pc' = "loop"
    BY DEF Recover, intake
  <1>2. CASE \E gone \in SUBSET Stamps, stage \in Stages : OpenStream(gone, stage)
    BY <1>1, <1>2, SizesWhenOpened
  <1>3. CASE \E gone \in SUBSET Stamps :
               archives' = Without(archives, gone) /\ UNCHANGED <<stream, exists>>
    <2>1. PICK gone \in SUBSET Stamps :
               archives' = Without(archives, gone) /\ UNCHANGED <<stream, exists>>
      BY <1>3
    <2>2. Stamps' = Stamps \ gone /\ \A s \in Stamps' : archives'[s] = archives[s]
      BY <2>1 DEF Without, Stamps
    <2>3. stream \in Seq(Chunk) /\ Len(stream) \in 0..Len(stream)
      <3>1. stream \in Seq(Chunk)
        BY DEF WriterInv, TypeOK
      <3>2. Len(stream) \in Nat
        BY <3>1, LenProperties
      <3>3. QED
        BY <3>1, <3>2
    <2>4. /\ FitsSegment(stream') /\ \A s \in Stamps' : FitsSegment(archives'[s])
          /\ \A i \in 1..Len(stream') : stream'[i].len > 0
          /\ Cardinality(Stamps') \in Nat /\ Cardinality(Stamps') <= Cardinality(Stamps)
          /\ Cardinality(Stamps) \in Nat
      BY <2>1, <2>2, <2>3, SizesWhenFilesShrink DEF WriterInv
    <2>5. Cardinality(Stamps') + (IF exists' THEN 1 ELSE 0) <= KeepRolls + 1
      BY <2>1, <2>4, WriterAssumption DEF SizeInv
    <2>6. QED
      BY <1>1, <2>4, <2>5 DEF SizeInv
  <1>4. QED
    BY <1>2, <1>3 DEF Recover

\* roll(): the open segment becomes an archive, so there is no file more than before.
LEMMA SizesWhenRolled == ASSUME WriterInv, SizeInv, NEW now \in Clock, Roll(now) PROVE SizeInv'
  <1> DEFINE stamp   == Stamp(now)
             renamed == [s \in Stamps \cup {stamp} |-> IF s = stamp THEN stream ELSE archives[s]]
  <1>1. stamp \in Nat /\ \A s \in Stamps : s < stamp
    BY StampIsNewest
  <1> HIDE DEF stamp
  <1>2. PICK gone \in SUBSET (Stamps \cup {stamp}) : archives' = Without(renamed, gone)
    BY DEF Roll, stamp
  <1>3. stream' = <<>> /\ Len(stream') = 0 /\ exists' = FALSE /\ queue' = queue
    BY DEF Roll, intake
  <1>4. inHand' \in {inHand, None} /\ pc' \in {"reopen", "loop"}
    BY DEF Roll, Finish
  <1>5. Stamps \subseteq Nat /\ IsFiniteSet(Stamps) /\ Cardinality(Stamps) \in Nat
    BY FS_CardinalityType DEF WriterInv, TypeOK
  <1>6. exists
    BY DEF Roll, WriterInv, ControlInv
  <1>7. /\ \A s \in DOMAIN renamed : renamed[s] = stream \/ (s \in Stamps /\ renamed[s] = archives[s])
        /\ DOMAIN renamed = Stamps \cup {stamp}
    OBVIOUS
  <1> HIDE DEF renamed
  <1>8. Stamps' \subseteq Stamps \cup {stamp} /\ \A s \in Stamps' : archives'[s] = renamed[s]
    BY <1>2, <1>7 DEF Without, Stamps
  <1>9. FitsSegment(stream') /\ \A s \in Stamps' : FitsSegment(archives'[s])
    <2>1. FitsSegment(stream')
      BY <1>3 DEF FitsSegment
    <2>2. ASSUME NEW s \in Stamps' PROVE FitsSegment(archives'[s])
      <3>1. archives'[s] = stream \/ (s \in Stamps /\ archives'[s] = archives[s])
        BY <1>7, <1>8
      <3>2. QED
        BY <3>1 DEF SizeInv
    <2>3. QED
      BY <2>1, <2>2
  <1>10. Cardinality(Stamps') <= KeepRolls + 1 /\ Cardinality(Stamps') \in Nat
    <2>1. Cardinality(Stamps) <= KeepRolls
      BY <1>5, <1>6, WriterAssumption DEF SizeInv
    <2>2. /\ IsFiniteSet(Stamps \cup {stamp}) /\ Cardinality(Stamps \cup {stamp}) \in Nat
          /\ Cardinality(Stamps \cup {stamp}) <= Cardinality(Stamps) + 1
      <3>1. stamp \notin Stamps
        BY <1>1
      <3>2. Cardinality(Stamps \cup {stamp}) = Cardinality(Stamps) + 1
        BY <1>5, <3>1, FS_AddElement
      <3>3. QED
        BY <1>5, <3>2, FS_AddElement
    <2>3. Cardinality(Stamps') \in Nat /\ Cardinality(Stamps') <= Cardinality(Stamps \cup {stamp})
      BY <1>8, <2>2, FS_Subset, FS_CardinalityType
    <2>4. QED
      BY <1>5, <2>1, <2>2, <2>3, WriterAssumption
  <1>11. /\ \A i \in 1..Len(queue') : queue'[i].len > 1
         /\ inHand' # None => inHand'.len > 1
    BY <1>3, <1>4, SizesOfRecords DEF WriterInv
  <1>12. QED
    BY <1>3, <1>4, <1>9, <1>10, <1>11, WriterAssumption DEF SizeInv

\* run(): a record goes to the open file only if it fits, or the file is empty.
LEMMA SizesWhenKept == ASSUME WriterInv, SizeInv, KeepSegment PROVE SizeInv'
  <1>1. /\ pc = "fit" /\ pc' = "write" /\ ~MustRoll /\ UNCHANGED <<stream, exists, archives>>
        /\ queue' = queue /\ inHand' = inHand
    BY DEF KeepSegment, disk
  <1>2. stream \in Seq(Chunk) /\ inHand \in Record
    BY <1>1 DEF WriterInv, TypeOK, Busy
  <1>3. stream = <<>> \/ Bytes(stream) + inHand.len <= SegmentBytes
    <2>1. CASE stream # <<>>
      <3>1. Bytes(stream) > 0
        BY <1>2, <2>1, BytesOfSome DEF SizeInv
      <3>2. Bytes(stream) \in Nat
        <4>1. Len(stream) \in Nat
          BY <1>2, LenProperties
        <4>2. QED
          BY <1>2, <4>1, BytesOfPrefix
      <3>3. QED
        BY <1>1, <1>2, <3>1, <3>2, WriterAssumption DEF MustRoll, Record
    <2>2. QED
      BY <2>1
  <1>4. Stamps' = Stamps
    BY <1>1 DEF Stamps
  <1>5. FitsSegment(stream') /\ \A s \in Stamps' : FitsSegment(archives'[s])
    BY <1>1, <1>4 DEF SizeInv
  <1>6. QED
    BY <1>1, <1>3, <1>4, <1>5 DEF SizeInv

\* A file with one more chunk at its end.
LEMMA FrontOfOneMore ==
  ASSUME NEW s \in Seq(Chunk), NEW t \in Seq(Chunk), Len(t) = Len(s) + 1,
         \A i \in 1..Len(s) : t[i] = s[i]
  PROVE  Front(t) = s
  <1>1. Len(s) \in Nat /\ Len(t) - 1 = Len(s) /\ Len(s) \in 0..Len(t)
    BY LenProperties
  <1>2. /\ Front(t) \in Seq(Chunk) /\ Len(Front(t)) = Len(s)
        /\ \A i \in 1..Len(s) : Front(t)[i] = t[i]
    BY <1>1, PrefixFacts DEF Front
  <1>3. QED
    BY <1>1, <1>2, SeqEqual

\* write(): the first bytes, then the rest, of a line that fits.
LEMMA SizesWhenAppending ==
  ASSUME WriterInv, SizeInv, NEW whole \in BOOLEAN, AppendBytes(whole)
  PROVE  SizeInv'
  <1> DEFINE chunk == [id |-> inHand.id, len |-> IF whole THEN inHand.len ELSE 1, whole |-> whole]
  <1>1. /\ pc = "write" /\ pc' = "writing" /\ stream' = Append(stream, chunk)
        /\ UNCHANGED <<archives, exists, queue, inHand>>
    BY DEF AppendBytes, intake
  <1>2. /\ inHand \in Record /\ inHand # None /\ stream \in Seq(Chunk) /\ Len(stream) \in Nat
        /\ inHand.len > 1 /\ inHand.len \in Nat
    BY <1>1, WriterAssumption, LenProperties DEF WriterInv, TypeOK, Busy, Record, SizeInv
  <1>3. chunk \in Chunk /\ chunk.len > 0 /\ chunk.len <= inHand.len /\ chunk.len \in Nat
    BY <1>2 DEF Chunk, Record
  <1> HIDE DEF chunk
  <1>4. /\ Len(stream') = Len(stream) + 1 /\ stream'[Len(stream) + 1] = chunk
        /\ \A i \in 1..Len(stream) : stream'[i] = stream[i]
        /\ stream' \in Seq(Chunk)
    BY <1>1, <1>2, <1>3, AppendProperties
  <1>5. \A i \in 1..Len(stream') : i \in 1..Len(stream) \/ i = Len(stream) + 1
    BY <1>2, <1>4
  <1>6. Bytes(stream') = Bytes(stream) + chunk.len /\ Bytes(stream) \in Nat
    <2>1. Bytes(stream') = Bytes(stream) + stream'[Len(stream')].len
      BY <1>2, <1>4, BytesOfOneMore
    <2>2. Bytes(stream) \in Nat
      BY <1>2, BytesOfPrefix
    <2>3. QED
      BY <1>4, <2>1, <2>2
  <1>7. Front(stream') = stream
    BY <1>2, <1>4, FrontOfOneMore
  <1>8. Len(stream') = 1 \/ Bytes(stream) + inHand.len <= SegmentBytes
    <2>1. CASE stream = <<>>
      BY <1>4, <2>1
    <2>2. QED
      BY <1>1, <2>1 DEF SizeInv
  <1>9. FitsSegment(stream')
    <2>1. CASE Len(stream') = 1
      BY <2>1 DEF FitsSegment
    <2>2. CASE Bytes(stream) + inHand.len <= SegmentBytes
      <3>1. Bytes(stream') <= SegmentBytes
        BY <1>2, <1>3, <1>6, <2>2, WriterAssumption
      <3>2. QED
        BY <3>1 DEF FitsSegment
    <2>3. QED
      BY <1>8, <2>1, <2>2
  <1>10. Stamps' = Stamps /\ \A s \in Stamps' : FitsSegment(archives'[s])
    BY <1>1 DEF Stamps, SizeInv
  <1>11. \A i \in 1..Len(stream') : stream'[i].len > 0
    BY <1>3, <1>4, <1>5 DEF SizeInv
  <1>12. pc' = "writing" => \/ Len(stream') = 1
                            \/ Bytes(Front(stream')) + inHand'.len <= SegmentBytes
    BY <1>1, <1>7, <1>8
  <1>13. QED
    BY <1>1, <1>9, <1>10, <1>11, <1>12 DEF SizeInv

LEMMA SizesWhenCompleted == ASSUME WriterInv, SizeInv, AppendRest PROVE SizeInv'
  <1>1. /\ pc = "writing" /\ stream \in Seq(Chunk) /\ stream # <<>> /\ Len(stream) \in Nat
        /\ UNCHANGED <<exists, archives, queue, inHand, pc>>
    BY LenProperties DEF AppendRest, WriterInv, TypeOK, ControlInv
  <1>2. inHand \in Record /\ inHand # None /\ inHand.len \in Nat /\ inHand.len > 1
    BY <1>1, WriterAssumption DEF WriterInv, TypeOK, Busy, Record, SizeInv
  <1> DEFINE last == [stream[Len(stream)] EXCEPT !.len = inHand.len, !.whole = TRUE]
  <1>3. Len(stream) \in 1..Len(stream)
    BY <1>1, EmptySeq, LenProperties
  <1>4. last \in Chunk /\ last.len = inHand.len
    <2>1. stream[Len(stream)] \in Chunk
      BY <1>1, <1>3, ElementOfSeq
    <2>2. QED
      BY <1>2, <2>1 DEF Chunk
  <1>5. stream' = [stream EXCEPT ![Len(stream)] = last]
    BY DEF AppendRest
  <1> HIDE DEF last
  <1>6. /\ Len(stream') = Len(stream) /\ stream' \in Seq(Chunk)
        /\ \A i \in 1..Len(stream) : stream'[i] = IF i = Len(stream) THEN last ELSE stream[i]
    BY <1>1, <1>3, <1>4, <1>5, ExceptSeq
  <1> DEFINE front == Front(stream)
  <1>7. /\ front \in Seq(Chunk) /\ Len(front) = Len(stream) - 1
        /\ \A i \in 1..Len(stream) - 1 : front[i] = stream[i]
    <2>1. Len(stream) - 1 \in 0..Len(stream)
      BY <1>1, <1>3
    <2>2. QED
      BY <1>1, <2>1, PrefixFacts DEF Front
  <1> HIDE DEF front
  <1>8. \A i \in 1..Len(stream) - 1 : front[i] = stream'[i]
    BY <1>1, <1>6, <1>7
  <1>9. Bytes(stream') = Bytes(front) + inHand.len
    <2>1. Len(stream') = Len(front) + 1
      BY <1>1, <1>6, <1>7
    <2>2. Bytes(stream') = Bytes(front) + stream'[Len(stream')].len
      BY <1>6, <1>7, <1>8, <2>1, BytesOfOneMore
    <2>3. QED
      BY <1>3, <1>4, <1>6, <2>2
  <1>10. Front(stream') = front
    <2>1. Len(stream') = Len(front) + 1
      BY <1>1, <1>6, <1>7
    <2>2. QED
      BY <1>6, <1>7, <1>8, <2>1, FrontOfOneMore
  <1>11. Len(stream) = 1 \/ Bytes(front) + inHand.len <= SegmentBytes
    BY <1>1 DEF SizeInv, front
  <1>12. FitsSegment(stream')
    BY <1>1, <1>6, <1>9, <1>11 DEF FitsSegment
  <1>13. Stamps' = Stamps /\ \A s \in Stamps' : FitsSegment(archives'[s])
    BY <1>1 DEF Stamps, SizeInv
  <1>14. \A i \in 1..Len(stream') : stream'[i].len > 0
    BY <1>2, <1>4, <1>6 DEF SizeInv
  <1>15. pc' = "writing" => \/ Len(stream') = 1
                            \/ Bytes(Front(stream')) + inHand'.len <= SegmentBytes
    BY <1>1, <1>6, <1>10, <1>11
  <1>16. QED
    BY <1>1, <1>12, <1>13, <1>14, <1>15 DEF SizeInv

\* write() raises: what it truncates makes the file smaller.
LEMMA SizesWhenAppendFails ==
  ASSUME WriterInv, SizeInv, NEW truncated \in BOOLEAN, AppendFails(truncated)
  PROVE  SizeInv'
  <1> DEFINE offset == IF pc = "write" THEN Len(stream) ELSE rollback
  <1>1. /\ pc \in {"write", "writing"} /\ UNCHANGED <<archives, exists, queue>>
        /\ pc' = "loop" /\ inHand' = None
        /\ \/ stream' = SubSeq(stream, 1, offset)
           \/ stream' = stream
    BY DEF AppendFails, Finish, intake
  <1>2. stream \in Seq(Chunk) /\ Len(stream) \in Nat /\ Stamps' = Stamps
    BY <1>1, LenProperties DEF WriterInv, TypeOK, Stamps
  <1>3. offset \in 0..Len(stream)
    <2>1. CASE pc = "write"
      BY <1>2, <2>1
    <2>2. CASE pc = "writing"
      <3>1. stream # <<>> /\ offset = Len(stream) - 1
        BY <2>2 DEF WriterInv, ControlInv
      <3>2. Len(stream) # 0
        BY <1>2, <3>1, EmptySeq
      <3> HIDE DEF offset
      <3>3. QED
        BY <1>2, <3>1, <3>2
    <2>3. QED
      BY <1>1, <2>1, <2>2
  <1> HIDE DEF offset
  <1>4. /\ stream' \in Seq(Chunk) /\ Len(stream') \in 0..Len(stream)
        /\ \A i \in 1..Len(stream') : stream'[i] = stream[i]
    <2>1. CASE stream' = SubSeq(stream, 1, offset)
      BY <1>2, <1>3, <2>1, PrefixFacts
    <2>2. CASE stream' = stream
      BY <1>2, <2>2
    <2>3. QED
      BY <1>1, <2>1, <2>2
  <1>5. /\ FitsSegment(stream') /\ \A s \in Stamps' : FitsSegment(archives'[s])
        /\ \A i \in 1..Len(stream') : stream'[i].len > 0
    BY <1>1, <1>2, <1>4, SizesWhenFilesShrink DEF WriterInv
  <1>6. QED
    BY <1>1, <1>2, <1>5 DEF SizeInv

\* submit(): a record on the queue is a line.
LEMMA SizesWhenSubmitted ==
  ASSUME WriterInv, SizeInv, NEW shape \in Shapes, Submit(shape)
  PROVE  SizeInv'
  <1> DEFINE r == [id |-> nextId, size |-> shape.size, len |-> shape.len]
  <1>1. r \in Record /\ r.len > 1
    BY WriterAssumption DEF WriterInv, TypeOK, Record
  <1>2. queue' = Append(queue, r) \/ queue' = queue
    BY DEF Submit
  <1> HIDE DEF r
  <1>3. UNCHANGED disk /\ UNCHANGED <<pc, inHand>> /\ queue \in Seq(Record) /\ Len(queue) \in Nat
    BY LenProperties DEF Submit, WriterInv, TypeOK
  <1>4. \A i \in 1..Len(queue') : queue'[i].len > 1
    <2>1. CASE queue' = Append(queue, r)
      <3>1. /\ Len(queue') = Len(queue) + 1 /\ queue'[Len(queue) + 1] = r
            /\ \A i \in 1..Len(queue) : queue'[i] = queue[i]
        BY <1>1, <1>3, <2>1, AppendProperties
      <3>2. \A i \in 1..Len(queue') : i \in 1..Len(queue) \/ i = Len(queue) + 1
        BY <1>3, <3>1
      <3>3. QED
        BY <1>1, <3>1, <3>2 DEF SizeInv
    <2>2. CASE queue' = queue
      BY <2>2 DEF SizeInv
    <2>3. QED
      BY <1>2, <2>1, <2>2
  <1>5. inHand' # None => inHand'.len > 1
    BY <1>3 DEF SizeInv
  <1>6. QED
    BY <1>3, <1>4, <1>5, SizesUnchanged DEF WriterInv

\* run(): the record taken is the head of the queue.
LEMMA SizesWhenTaken == ASSUME WriterInv, SizeInv, Take PROVE SizeInv'
  <1>1. /\ UNCHANGED disk /\ pc' = "taken" /\ queue # <<>> /\ queue \in Seq(Record)
        /\ inHand' = Head(queue) /\ queue' = Tail(queue)
    BY DEF Take, WriterInv, TypeOK
  <1>2. \A i \in 1..Len(queue') : queue'[i].len > 1
    <2>1. /\ Len(queue) \in Nat /\ Len(queue') = Len(queue) - 1
          /\ \A i \in 1..Len(queue') : queue'[i] = queue[i + 1]
      BY <1>1, HeadTailProperties, LenProperties
    <2>2. \A i \in 1..Len(queue') : i + 1 \in 1..Len(queue)
      BY <2>1
    <2>3. QED
      BY <2>1, <2>2 DEF SizeInv
  <1>3. inHand'.len > 1
    <2>1. Head(queue) = queue[1] /\ 1 \in 1..Len(queue)
      BY <1>1, HeadTailProperties, LenProperties, EmptySeq
    <2>2. QED
      BY <1>1, <2>1 DEF SizeInv
  <1>4. QED
    BY <1>1, <1>2, <1>3, SizesUnchanged DEF WriterInv

\* Every step keeps the journal within its bound.
LEMMA SizeStep == WriterInv /\ SizeInv /\ [Next]_vars => SizeInv'
  <1> SUFFICES ASSUME WriterInv, SizeInv, [Next]_vars PROVE SizeInv'
    OBVIOUS
  <1>1. ASSUME UNCHANGED disk, inHand' \in {inHand, None},
               queue' = queue \/ (queue # <<>> /\ queue' = Tail(queue)) \/ queue' = <<>>,
               pc' \notin {"write", "writing"} \/ UNCHANGED <<pc, inHand>>
        PROVE  SizeInv'
    BY <1>1, SizesOfRecords, SizesUnchanged DEF WriterInv
  <1>2. ASSUME NEW shape \in Shapes, Submit(shape) PROVE SizeInv'
    BY <1>2, SizesWhenSubmitted
  <1>3. CASE Recover
    BY <1>3, SizesWhenRecovered
  <1>4. CASE Take
    BY <1>4, SizesWhenTaken
  <1>5. CASE LeaveLoop \/ Refuse \/ UseHandle \/ RenameFails \/ StopIntake \/ WorkerEnds \/ AppendDone
    BY <1>1, <1>5 DEF LeaveLoop, Refuse, UseHandle, RenameFails, StopIntake, WorkerEnds, AppendDone,
       Finish, intake
  <1>6. CASE KeepSegment
    BY <1>6, SizesWhenKept
  <1>7. CASE OpenFirst \/ Reopen
    <2>1. PICK gone \in SUBSET Stamps, stage \in Stages :
            /\ OpenStream(gone, stage)
            /\ \/ pc = "taken" /\ pc' = "fit" /\ UNCHANGED inHand
               \/ pc = "reopen" /\ pc' = "write" /\ UNCHANGED inHand
               \/ pc' = "loop" /\ inHand' = None
      BY <1>7 DEF OpenFirst, Reopen, OpenFor, Finish
    <2>2. queue' = queue
      BY <1>7 DEF OpenFirst, Reopen, OpenFor, intake
    <2>3. pc' = "write" => stream = <<>>
      BY <2>1 DEF WriterInv, ControlInv
    <2>4. QED
      BY <2>1, <2>2, <2>3, SizesWhenOpened
  <1>8. ASSUME NEW now \in Clock, Roll(now) PROVE SizeInv'
    BY <1>8, SizesWhenRolled
  <1>9. ASSUME NEW whole \in BOOLEAN, AppendBytes(whole) PROVE SizeInv'
    BY <1>9, SizesWhenAppending
  <1>10. CASE AppendRest
    BY <1>10, SizesWhenCompleted
  <1>11. ASSUME NEW truncated \in BOOLEAN, AppendFails(truncated) PROVE SizeInv'
    BY <1>11, SizesWhenAppendFails
  <1>12. CASE WorkerDiscards \/ CloserDiscards
    BY <1>1, <1>12 DEF WorkerDiscards, CloserDiscards, DiscardHead
  <1>13. CASE CloseBegins \/ CloseJoins \/ CloseTimesOut \/ CloserReturns
    BY <1>1, <1>13 DEF CloseBegins, CloseJoins, CloseTimesOut, CloserReturns
  <1>14. CASE Restart
    BY <1>1, <1>14 DEF Restart
  <1>15. CASE UNCHANGED vars
    BY <1>1, <1>15 DEF vars
  <1>16. QED
    BY <1>2, <1>3, <1>4, <1>5, <1>6, <1>7, <1>8, <1>9, <1>10, <1>11, <1>12, <1>13, <1>14, <1>15
       DEF Next, Worker, Closer, Terminated

\* A Writer just constructed has no files.
LEMMA SizeInit == Init => SizeInv
  <1> SUFFICES ASSUME Init PROVE SizeInv
    OBVIOUS
  <1>1. /\ stream = <<>> /\ exists = FALSE /\ Stamps = {} /\ queue = <<>> /\ inHand = None
        /\ pc = "start" /\ Len(stream) = 0 /\ Len(queue) = 0
    BY DEF Init, Stamps
  <1>2. Cardinality({}) = 0
    BY FS_EmptySet
  <1>3. QED
    BY <1>1, <1>2, WriterAssumption DEF SizeInv, FitsSegment

\* roll(), prune() and open_stream(): however often they fail, the journal has at most
\* keep_rolls + 1 files, and only a file of a single line exceeds segment_bytes.
THEOREM RetentionIsBounded == Spec => []RetentionBound
  <1>1. SizeInv => RetentionBound
    BY DEF SizeInv, RetentionBound, Segments, FitsSegment
  <1>2. QED
    BY <1>1, SizeInit, SizeStep, WriterInvariant, PTL DEF Spec

-----------------------------------------------------------------------------
(* The hooks and the worker behind them, which are a part of MCJournal:    *)
(* what they lead to is acceptable for every body limit, record limit and  *)
(* set of lengths.                                                         *)

(* A body that is kept, whose text can be encoded.                         *)
Bodied == [bytes : Nat, room : Nat, utf8 : {TRUE}]

(* What the constants are.                                                 *)
Limits ==
    /\ MaxBody \in Nat /\ MaxRecord \in Nat /\ Hooks!CaptureLimits
    /\ Lengths \subseteq Nat
    /\ Escaped \in Nat
    /\ None \notin Nat /\ None \notin Bodied

Decisions == [keep : BOOLEAN, reason : Hooks!Reasons, force : BOOLEAN, size : Nat]
Flows == [at : {"headers", "body", "response", "submitted", "refused", "dropped", "written"},
          type : {"text", "other"}, declared : Lengths, stream : BOOLEAN, utf8 : BOOLEAN,
          raw : Lengths \cup {None}, prior : Decisions \cup {None}, binary : BOOLEAN]

Records == [size : Nat, kept : BOOLEAN, reason : Hooks!Reasons, body : Bodied \cup {None},
            base64 : BOOLEAN, streamed : BOOLEAN,
            reqKept : BOOLEAN, reqReason : Hooks!ReqReasons, reqBody : Bodied \cup {None}]

(* A record whose body is in base64 fits without its request body.         *)
Sound(r) ==
    /\ r \in Records
    /\ Hooks!ValidateRecord(r)
    /\ r.base64 => 1 + r.body.room <= MaxRecord

HooksInv ==
    /\ flow \in Flows
    /\ limits \in Hooks!Policies
    /\ flow.at \in {"submitted", "written"} => Sound(record)
    /\ flow.at = "dropped" => ~flow.utf8

-----------------------------------------------------------------------------
(* Base64 makes at most twice of a body and a byte of nothing.             *)
LEMMA Base64Room ==
  ASSUME Limits, NEW n \in Lengths, n <= MaxBody
  PROVE  /\ (4 * n + 2) \div 3 \in Nat
         /\ 1 + (4 * n + 2) \div 3 <= MaxRecord
  <1>1. n \in Nat /\ MaxBody \in Nat /\ MaxRecord \in Nat /\ 1 + 2 * MaxBody <= MaxRecord
    BY DEF Limits, Hooks!CaptureLimits
  <1>2. (4 * n + 2) \div 3 \in Nat /\ (4 * n + 2) \div 3 <= 2 * n
    BY <1>1
  <1>3. QED
    BY <1>1, <1>2

(* A text that can be encoded may be kept.                                 *)
LEMMA TextFacts ==
  ASSUME Limits, NEW t \in Hooks!Texts
  PROVE  /\ t.bytes \in Nat /\ t.utf8 \in BOOLEAN
         /\ t.utf8 => t \in Bodied
  <1>1. PICK n \in Lengths, k \in 1..Escaped, u \in BOOLEAN :
          t = [bytes |-> n, room |-> n * k, utf8 |-> u]
    BY DEF Hooks!Texts
  <1>2. n \in Nat /\ k \in Nat /\ n * k \in Nat
    BY DEF Limits
  <1>3. QED
    BY <1>1, <1>2 DEF Bodied

(* decide_body() gives a decision, and keeps only what is not streamed.    *)
LEMMA DecisionFacts ==
  ASSUME Limits, flow \in Flows
  PROVE  /\ Hooks!DecideBody \in Decisions
         /\ Hooks!DecideBody.reason \in {"media_type", "streamed", "oversize", "retained"}
         /\ Hooks!DecideBody.keep <=> Hooks!DecideBody.reason = "retained"
         /\ Hooks!DecideBody.reason = "streamed" => flow.stream
         /\ Hooks!DecideBody.keep => ~flow.stream
  <1>1. Hooks!SizeHint \in Nat /\ flow.declared \in Nat /\ flow.raw \in Nat \cup {None}
    BY DEF Hooks!SizeHint, Flows, Limits
  <1>2. flow.raw # None => flow.raw \in Nat
    BY <1>1
  <1>3. flow.stream \in BOOLEAN
    BY DEF Flows
  <1>4. \/ Hooks!DecideBody = Hooks!Decision(FALSE, "media_type", TRUE, Hooks!SizeHint)
        \/ Hooks!DecideBody = Hooks!Decision(FALSE, "streamed", FALSE, Hooks!SizeHint)
        \/ Hooks!DecideBody = Hooks!Decision(FALSE, "oversize", TRUE, flow.declared)
        \/ flow.raw # None /\ Hooks!DecideBody = Hooks!Decision(FALSE, "oversize", FALSE, flow.raw)
        \/ Hooks!DecideBody = Hooks!Decision(TRUE, "retained", FALSE, Hooks!SizeHint)
    BY DEF Hooks!DecideBody
  <1>5. Hooks!DecideBody \in Decisions
    <2>1. ASSUME NEW keep \in BOOLEAN, NEW reason \in Hooks!Reasons, NEW force \in BOOLEAN, NEW size \in Nat
          PROVE  Hooks!Decision(keep, reason, force, size) \in Decisions
      BY DEF Hooks!Decision, Decisions
    <2>2. {"media_type", "streamed", "oversize", "retained"} \subseteq Hooks!Reasons
      BY DEF Hooks!Reasons
    <2>3. QED
      BY <1>1, <1>2, <1>4, <2>1, <2>2
  <1>6. /\ Hooks!DecideBody.reason \in {"media_type", "streamed", "oversize", "retained"}
        /\ Hooks!DecideBody.keep <=> Hooks!DecideBody.reason = "retained"
    BY <1>4 DEF Hooks!Decision
  <1>7. /\ Hooks!DecideBody.reason = "streamed" => flow.stream
        /\ Hooks!DecideBody.keep => ~flow.stream
    BY <1>3 DEF Hooks!DecideBody, Hooks!Decision
  <1>8. QED
    BY <1>5, <1>6, <1>7

(* The response's part of what the response hook gives.                    *)
Answered(r) ==
    /\ r.keep \in BOOLEAN /\ r.base64 \in BOOLEAN /\ r.size \in Nat
    /\ r.reason \in Hooks!Reasons /\ r.body \in Bodied \cup {None}
    /\ Hooks!Disposed(r.keep, r.reason, r.body)
    /\ r.reason = "streamed" => flow.stream
    /\ flow.stream => r.reason # "unavailable" /\ ~r.keep
    /\ r.base64 => r.keep /\ 1 + r.body.room <= MaxRecord

(* An omitted body is answered for with any reason but two.                *)
LEMMA OmitFacts ==
  ASSUME Limits, NEW reason \in Hooks!Reasons \ {"retained"}, NEW size \in Nat,
         reason = "streamed" => flow.stream, flow.stream => reason # "unavailable"
  PROVE  Answered(Hooks!Omit(reason, size))
  BY DEF Answered, Hooks!Omit, Hooks!Keep, Hooks!Disposed, Limits

(* What the two hooks agree on.                                            *)
LEMMA ReconciledFacts ==
  ASSUME Limits, flow \in Flows
  PROVE  /\ Hooks!Reconciled.keep \in BOOLEAN
         /\ Hooks!Reconciled.size \in Nat
         /\ Hooks!Reconciled.keep => ~flow.stream
         /\ ~Hooks!Reconciled.keep => Answered(Hooks!Reconciled)
  <1>1. /\ Hooks!DecideBody \in Decisions
        /\ Hooks!DecideBody.reason \in {"media_type", "streamed", "oversize", "retained"}
        /\ Hooks!DecideBody.keep <=> Hooks!DecideBody.reason = "retained"
        /\ Hooks!DecideBody.reason = "streamed" => flow.stream
        /\ Hooks!DecideBody.keep => ~flow.stream
    BY DecisionFacts
  <1>2. flow.prior # None => flow.prior \in Decisions
    BY DEF Flows
  <1> DEFINE late == IF flow.prior # None /\ Hooks!DecideBody.size = 0 THEN flow.prior.size ELSE Hooks!DecideBody.size
  <1>3. late \in Nat
    BY <1>1, <1>2 DEF Decisions
  <1>4. CASE flow.prior # None /\ flow.prior.force /\ flow.prior.reason \in {"oversize", "media_type"}
    <2>1. Hooks!Reconciled = Hooks!Omit(flow.prior.reason, flow.prior.size)
      BY <1>4 DEF Hooks!Reconciled
    <2>2. Answered(Hooks!Omit(flow.prior.reason, flow.prior.size))
      BY <1>2, <1>4, OmitFacts DEF Decisions, Hooks!Reasons
    <2>3. Hooks!Reconciled.keep = FALSE /\ Hooks!Reconciled.size \in Nat
      BY <1>2, <1>4, <2>1 DEF Hooks!Omit, Hooks!Keep, Decisions
    <2>4. QED
      BY <2>1, <2>2, <2>3
  <1>5. CASE ~(flow.prior # None /\ flow.prior.force /\ flow.prior.reason \in {"oversize", "media_type"})
    <2>1. Hooks!Reconciled = IF flow.stream /\ Hooks!DecideBody.reason = "retained" THEN Hooks!Omit("streamed", late)
                       ELSE Hooks!Keep(Hooks!DecideBody.keep, Hooks!DecideBody.reason, late, None)
      BY <1>5 DEF Hooks!Reconciled
    <2> HIDE DEF late
    <2>2. ~(flow.stream /\ Hooks!DecideBody.reason = "retained")
      BY <1>1
    <2>3. Hooks!Reconciled = Hooks!Keep(Hooks!DecideBody.keep, Hooks!DecideBody.reason, late, None)
      BY <2>1, <2>2
    <2>4. Hooks!Reconciled.keep = Hooks!DecideBody.keep /\ Hooks!Reconciled.size = late
      BY <2>3 DEF Hooks!Keep
    <2>5. CASE ~Hooks!DecideBody.keep
      <3>1. Hooks!DecideBody.keep = FALSE
        BY <1>1, <2>5 DEF Decisions
      <3>2. Hooks!Reconciled = Hooks!Omit(Hooks!DecideBody.reason, late)
        BY <2>3, <3>1 DEF Hooks!Omit
      <3>3. Answered(Hooks!Omit(Hooks!DecideBody.reason, late))
        BY <1>1, <1>3, <2>5, OmitFacts DEF Hooks!Reasons
      <3>4. QED
        BY <1>1, <1>3, <2>4, <3>1, <3>2, <3>3
    <2>6. QED
      BY <1>1, <1>3, <2>4, <2>5 DEF Decisions
  <1>6. QED
    BY <1>4, <1>5

(* A listed binary body is kept in base64 if it is small enough.           *)
LEMMA BinaryFacts ==
  ASSUME Limits, NEW s, s.size \in Nat, ~flow.stream, NEW r \in Hooks!Binary(s)
  PROVE  Answered(r)
  <1>1. CASE flow.raw = None
    <2>1. r = Hooks!Omit("unavailable", s.size)
      BY <1>1 DEF Hooks!Binary
    <2>2. QED
      BY <2>1, OmitFacts DEF Hooks!Reasons
  <1>2. CASE flow.raw # None
    <2>1. PICK n \in Lengths :
            r = IF n > MaxBody THEN Hooks!Omit("oversize", n)
                ELSE [Hooks!Keep(TRUE, "retained", n, [bytes |-> n, room |-> (4 * n + 2) \div 3, utf8 |-> TRUE])
                        EXCEPT !.base64 = TRUE]
      BY <1>2 DEF Hooks!Binary
    <2>2. n \in Nat /\ MaxBody \in Nat
      BY DEF Limits
    <2>3. CASE n > MaxBody
      BY <2>1, <2>2, <2>3, OmitFacts DEF Hooks!Reasons
    <2>4. CASE n <= MaxBody
      <3> DEFINE room == (4 * n + 2) \div 3
      <3>1. room \in Nat /\ 1 + room <= MaxRecord
        BY <2>4, Base64Room
      <3>2. ~(n > MaxBody)
        BY <2>2, <2>4
      <3>3. r = [keep |-> TRUE, reason |-> "retained", size |-> n,
                 body |-> [bytes |-> n, room |-> room, utf8 |-> TRUE], base64 |-> TRUE]
        BY <2>1, <3>2 DEF Hooks!Keep
      <3> HIDE DEF room
      <3>4. /\ [bytes |-> n, room |-> room, utf8 |-> TRUE] \in Bodied
            /\ [bytes |-> n, room |-> room, utf8 |-> TRUE] # None
        <4>1. [bytes |-> n, room |-> room, utf8 |-> TRUE] \in Bodied
          BY <2>2, <3>1 DEF Bodied
        <4>2. None \notin Bodied
          BY DEF Limits
        <4>3. QED
          BY <4>1, <4>2
      <3>5. r.body.room = room
        BY <3>3
      <3>6. QED
        BY <2>2, <3>1, <3>3, <3>4, <3>5 DEF Answered, Hooks!Disposed, Hooks!Reasons
    <2>5. QED
      BY <2>2, <2>3, <2>4
  <1>3. QED
    BY <1>1, <1>2

(* A text body is kept if it can be decoded and is small enough.           *)
LEMMA TextBodyFacts ==
  ASSUME Limits, NEW s, s.size \in Nat, ~flow.stream, NEW r \in Hooks!Text(s)
  PROVE  Answered(r)
  <1>1. CASE flow.raw = None
    <2>1. r = Hooks!Omit("unavailable", s.size)
      BY <1>1 DEF Hooks!Text
    <2>2. QED
      BY <2>1, OmitFacts DEF Hooks!Reasons
  <1>2. CASE flow.raw # None
    <2>1. PICK t \in Hooks!Texts :
            r = IF ~t.utf8 THEN Hooks!Omit("undecodable", s.size)
                ELSE IF t.bytes > MaxBody THEN Hooks!Omit("oversize_decoded", t.bytes)
                ELSE Hooks!Keep(TRUE, "retained", IF s.size = 0 THEN t.bytes ELSE s.size, t)
      BY <1>2 DEF Hooks!Text
    <2>2. t.bytes \in Nat /\ t.utf8 \in BOOLEAN
      BY TextFacts
    <2>3. CASE ~t.utf8
      BY <2>1, <2>3, OmitFacts DEF Hooks!Reasons
    <2>4. CASE t.utf8 /\ t.bytes > MaxBody
      BY <2>1, <2>2, <2>4, OmitFacts DEF Hooks!Reasons
    <2>5. CASE t.utf8 /\ ~(t.bytes > MaxBody)
      <3> DEFINE size == IF s.size = 0 THEN t.bytes ELSE s.size
      <3>1. size \in Nat
        BY <2>2
      <3>2. r = Hooks!Keep(TRUE, "retained", size, t)
        BY <2>1, <2>5
      <3>3. t \in Bodied /\ t # None
        BY <2>5, TextFacts DEF Limits
      <3> HIDE DEF size
      <3>4. /\ r.keep = TRUE /\ r.reason = "retained" /\ r.size = size
            /\ r.body = t /\ r.base64 = FALSE
        BY <3>2 DEF Hooks!Keep
      <3>5. Hooks!Disposed(r.keep, r.reason, r.body)
        BY <3>3, <3>4 DEF Hooks!Disposed
      <3>6. r.size \in Nat /\ r.body \in Bodied \cup {None} /\ r.reason \in Hooks!Reasons
        BY <3>1, <3>3, <3>4 DEF Hooks!Reasons
      <3>7. QED
        BY <3>4, <3>5, <3>6 DEF Answered
    <2>6. QED
      BY <2>2, <2>3, <2>4, <2>5
  <1>3. QED
    BY <1>1, <1>2

(* What the response hook finds of a response's body.                      *)
LEMMA BodyFacts ==
  ASSUME Limits, flow \in Flows, NEW r \in Hooks!Bodies
  PROVE  Answered(r)
  <1>1. /\ Hooks!Reconciled.keep \in BOOLEAN
        /\ Hooks!Reconciled.size \in Nat
        /\ Hooks!Reconciled.keep => ~flow.stream
        /\ ~Hooks!Reconciled.keep => Answered(Hooks!Reconciled)
    BY ReconciledFacts
  <1>2. CASE flow.binary /\ ~flow.stream /\ Hooks!Reconciled.reason = "media_type"
    <2>1. r \in Hooks!Binary(Hooks!Reconciled)
      BY <1>2 DEF Hooks!Bodies
    <2>2. QED
      BY <1>1, <1>2, <2>1, BinaryFacts
  <1>3. CASE ~(flow.binary /\ ~flow.stream /\ Hooks!Reconciled.reason = "media_type") /\ Hooks!Reconciled.keep
    <2>1. r \in Hooks!Text(Hooks!Reconciled)
      BY <1>3 DEF Hooks!Bodies
    <2>2. QED
      BY <1>1, <1>3, <2>1, TextBodyFacts
  <1>4. CASE ~(flow.binary /\ ~flow.stream /\ Hooks!Reconciled.reason = "media_type") /\ ~Hooks!Reconciled.keep
    <2>1. r = Hooks!Reconciled
      BY <1>4 DEF Hooks!Bodies
    <2>2. QED
      BY <1>1, <1>4, <2>1
  <1>5. QED
    BY <1>2, <1>3, <1>4

(* What it finds of the request's.                                         *)
LEMMA RequestFacts ==
  ASSUME Limits, NEW r, r.keep \in BOOLEAN, NEW q \in Hooks!RequestBodies(r)
  PROVE  /\ q.keep \in BOOLEAN /\ q.reason \in Hooks!ReqReasons /\ q.body \in Bodied \cup {None}
         /\ Hooks!Disposed(q.keep, q.reason, q.body)
         /\ r.keep => q.reason # "response_not_retained"
  <1>1. CASE (r.keep /\ ~r.base64) \/ limits.request
    <2>1. CASE q \in {Hooks!Request(FALSE, why, None) : why \in {"streamed", "unavailable"}}
      <3>1. PICK why \in {"streamed", "unavailable"} : q = Hooks!Request(FALSE, why, None)
        BY <2>1
      <3>2. q.keep = FALSE /\ q.reason = why /\ q.body = None
        BY <3>1 DEF Hooks!Request
      <3>3. QED
        BY <3>2 DEF Hooks!ReqReasons, Hooks!Disposed
    <2>2. CASE q \notin {Hooks!Request(FALSE, why, None) : why \in {"streamed", "unavailable"}}
      <3>1. PICK t \in Hooks!Texts : q = IF ~t.utf8 THEN Hooks!Request(FALSE, "undecodable", None)
                                   ELSE IF t.bytes > MaxBody THEN Hooks!Request(FALSE, "oversize_decoded", None)
                                   ELSE Hooks!Request(TRUE, "retained", t)
        BY <1>1, <2>2 DEF Hooks!RequestBodies
      <3>2. t.utf8 \in BOOLEAN /\ (t.utf8 => t \in Bodied /\ t # None)
        BY TextFacts DEF Limits
      <3>3. QED
        BY <3>1, <3>2 DEF Hooks!Request, Hooks!ReqReasons, Hooks!Disposed
    <2>3. QED
      BY <2>1, <2>2
  <1>2. CASE ~((r.keep /\ ~r.base64) \/ limits.request)
    <2>1. q = Hooks!Request(FALSE, IF r.keep THEN "unavailable" ELSE "response_not_retained", None)
      BY <1>2 DEF Hooks!RequestBodies
    <2>2. /\ q.keep = FALSE /\ q.body = None
          /\ q.reason = IF r.keep THEN "unavailable" ELSE "response_not_retained"
      BY <2>1 DEF Hooks!Request
    <2>3. QED
      BY <2>2 DEF Hooks!ReqReasons, Hooks!Disposed
  <1>3. QED
    BY <1>1, <1>2

(* Together they are what validate_record() asks for.                      *)
LEMMA SubmittedFacts ==
  ASSUME Limits, flow \in Flows, Hooks!Response
  PROVE  Sound(record')
  <1>0. PICK r \in Hooks!Bodies : \E q \in Hooks!RequestBodies(r) :
          record' = [size |-> r.size, kept |-> r.keep, reason |-> r.reason, body |-> r.body,
                     base64 |-> r.base64, streamed |-> flow.stream,
                     reqKept |-> q.keep, reqReason |-> q.reason, reqBody |-> q.body]
    BY DEF Hooks!Response
  <1>1. PICK q \in Hooks!RequestBodies(r) :
          record' = [size |-> r.size, kept |-> r.keep, reason |-> r.reason, body |-> r.body,
                     base64 |-> r.base64, streamed |-> flow.stream,
                     reqKept |-> q.keep, reqReason |-> q.reason, reqBody |-> q.body]
    BY <1>0
  <1>2. Answered(r)
    BY BodyFacts
  <1>3. /\ q.keep \in BOOLEAN /\ q.reason \in Hooks!ReqReasons /\ q.body \in Bodied \cup {None}
        /\ Hooks!Disposed(q.keep, q.reason, q.body)
        /\ r.keep => q.reason # "response_not_retained"
    BY <1>2, RequestFacts DEF Answered
  <1>4. flow.stream \in BOOLEAN
    BY DEF Flows
  <1>5. record' \in Records
    BY <1>1, <1>2, <1>3, <1>4 DEF Answered, Records
  <1>6. Hooks!ValidateRecord(record')
    BY <1>1, <1>2, <1>3, <1>4 DEF Answered, Hooks!ValidateRecord
  <1>7. record'.base64 => 1 + record'.body.room <= MaxRecord
    BY <1>1, <1>2 DEF Answered
  <1>8. QED
    BY <1>5, <1>6, <1>7 DEF Sound

-----------------------------------------------------------------------------
(* fit_record() leaves a record that is sound, and the line fits.          *)
LEMMA FitFacts ==
  ASSUME Limits, NEW r, Sound(r)
  PROVE  Sound(Hooks!FitRecord(r)) /\ Hooks!Line(Hooks!FitRecord(r)) <= MaxRecord
  <1> DEFINE s == Hooks!WithoutRequest(r)
  <1>1. MaxRecord \in Nat /\ 1 <= MaxRecord
    BY DEF Limits, Hooks!CaptureLimits
  <1>2. Sound(s) /\ s.reqBody = None /\ s.body = r.body /\ s.base64 = r.base64
    <2>1. CASE r.reqKept
      <3>1. s = [r EXCEPT !.reqKept = FALSE, !.reqReason = "oversize_decoded", !.reqBody = None]
        BY <2>1 DEF Hooks!WithoutRequest
      <3>2. s \in Records
        BY <3>1 DEF Sound, Records, Hooks!ReqReasons
      <3>3. /\ s.size = r.size /\ s.kept = r.kept /\ s.reason = r.reason /\ s.body = r.body
            /\ s.base64 = r.base64 /\ s.streamed = r.streamed
            /\ s.reqKept = FALSE /\ s.reqReason = "oversize_decoded" /\ s.reqBody = None
        BY <3>1 DEF Sound, Records
      <3> HIDE DEF s
      <3>4. Hooks!ValidateRecord(s)
        BY <3>3 DEF Sound, Hooks!ValidateRecord, Hooks!Disposed, Hooks!ReqReasons
      <3>5. QED
        BY <3>2, <3>3, <3>4 DEF Sound
    <2>2. CASE ~r.reqKept
      BY <2>2 DEF Hooks!WithoutRequest, Sound, Hooks!ValidateRecord, Hooks!Disposed
    <2>3. QED
      BY <2>1, <2>2
  <1>3. CASE Hooks!Line(r) <= MaxRecord
    BY <1>3 DEF Hooks!FitRecord
  <1>4. CASE ~(Hooks!Line(r) <= MaxRecord) /\ r.reqKept /\ Hooks!Line(s) <= MaxRecord
    BY <1>2, <1>4 DEF Hooks!FitRecord
  <1>5. CASE ~(Hooks!Line(r) <= MaxRecord) /\ ~(r.reqKept /\ Hooks!Line(s) <= MaxRecord)
    <2>1. Hooks!FitRecord(r) = Hooks!WithoutBodies(s)
      BY <1>5 DEF Hooks!FitRecord
    <2>2. ~s.base64
      <3>1. SUFFICES ASSUME s.base64 PROVE FALSE
        OBVIOUS
      <3>2. s.body \in Bodied
        BY <1>2, <3>1 DEF Sound, Hooks!ValidateRecord, Hooks!Disposed, Records
      <3>3. Hooks!Line(s) = 1 + s.body.room
        <4>1. s.body # None /\ s.body.room \in Nat
          BY <3>2 DEF Limits, Bodied
        <4>2. Hooks!Room(s.body) = s.body.room /\ Hooks!Room(s.reqBody) = 0
          BY <1>2, <4>1 DEF Hooks!Room
        <4>3. QED
          BY <4>1, <4>2 DEF Hooks!Line
      <3>4. Hooks!Line(s) <= MaxRecord
        BY <1>2, <3>1, <3>3 DEF Sound
      <3>5. ~r.reqKept
        BY <1>5, <3>4
      <3>6. s = r
        BY <3>5 DEF Hooks!WithoutRequest
      <3>7. QED
        BY <1>5, <3>4, <3>6
    <2> HIDE DEF s
    <2> DEFINE f == Hooks!WithoutBodies(s)
    <2>3. CASE s.kept
      <3>1. f = [s EXCEPT !.kept = FALSE, !.reason = "oversize_decoded", !.body = None,
                   !.reqKept = FALSE, !.reqReason = "response_not_retained", !.reqBody = None]
        BY <2>3 DEF Hooks!WithoutBodies
      <3>2. f \in Records
        BY <1>2, <3>1 DEF Sound, Records, Hooks!Reasons, Hooks!ReqReasons
      <3>3. /\ f.kept = FALSE /\ f.reason = "oversize_decoded" /\ f.body = None
            /\ f.base64 = s.base64 /\ f.streamed = s.streamed
            /\ f.reqKept = FALSE /\ f.reqReason = "response_not_retained" /\ f.reqBody = None
        BY <1>2, <3>1 DEF Sound, Records
      <3> HIDE DEF f
      <3>4. Hooks!ValidateRecord(f)
        BY <2>2, <3>3 DEF Hooks!ValidateRecord, Hooks!Disposed, Hooks!Reasons, Hooks!ReqReasons
      <3>5. Sound(f)
        BY <2>2, <3>2, <3>3, <3>4 DEF Sound
      <3>6. Hooks!Line(f) = 1
        BY <3>3 DEF Hooks!Line, Hooks!Room
      <3>7. QED
        BY <1>1, <2>1, <3>5, <3>6 DEF f
    <2>4. CASE ~s.kept
      <3>1. f = s
        BY <2>4 DEF Hooks!WithoutBodies
      <3>2. s.body = None
        BY <1>2, <2>4 DEF Sound, Hooks!ValidateRecord, Hooks!Disposed
      <3>3. Hooks!Line(s) = 1
        BY <1>2, <3>2 DEF Hooks!Line, Hooks!Room
      <3>4. QED
        BY <1>1, <1>2, <2>1, <3>1, <3>3
    <2>5. QED
      BY <2>3, <2>4
  <1>6. QED
    BY <1>3, <1>4, <1>5

-----------------------------------------------------------------------------
LEMMA HooksInit == ASSUME Limits, Hooks!Init PROVE HooksInv
  <1>1. PICK type \in {"text", "other"}, declared \in Lengths, passes, utf8 \in BOOLEAN :
          flow = [at |-> "headers", type |-> type, declared |-> declared, stream |-> passes,
                  utf8 |-> utf8, raw |-> None, prior |-> None, binary |-> FALSE]
    BY DEF Hooks!Init
  <1>2. flow \in Flows /\ flow.at = "headers"
    BY <1>1 DEF Flows
  <1>3. QED
    BY <1>2 DEF Hooks!Init, HooksInv

LEMMA HooksStep == ASSUME Limits, HooksInv, [Hooks!Next]_(Hooks!vars) PROVE HooksInv'
  <1>1. flow \in Flows /\ limits \in Hooks!Policies
    BY DEF HooksInv
  <1>2. CASE Hooks!ResponseHeaders
    <2>1. Hooks!DecideBody \in Decisions
      BY <1>1, DecisionFacts
    <2> DEFINE d == Hooks!DecideBody
               binary == ~d.keep /\ d.reason = "media_type" /\ d.size <= MaxBody /\ limits.binary
               passes == flow.stream \/ (~d.keep /\ (d.force \/ d.reason = "media_type") /\ ~binary)
    <2>2. flow' = [flow EXCEPT !.at = "body", !.prior = d, !.binary = binary, !.stream = passes]
      BY <1>1, <1>2 DEF Hooks!ResponseHeaders, Flows
    <2>3. binary \in BOOLEAN /\ passes \in BOOLEAN
      BY <1>1 DEF Flows
    <2> HIDE DEF d, binary, passes
    <2>4. flow' \in Flows /\ flow'.at = "body"
      BY <1>1, <2>1, <2>2, <2>3 DEF Flows, d
    <2>5. QED
      BY <1>1, <1>2, <2>4 DEF Hooks!ResponseHeaders, HooksInv
  <1>3. CASE Hooks!Receive
    <2>1. flow' \in Flows /\ flow'.at = "response"
      <3>1. CASE flow' = [flow EXCEPT !.at = "response", !.stream = TRUE]
        BY <1>1, <3>1 DEF Flows
      <3>2. CASE \E n \in Lengths \cup {None} : flow' = [flow EXCEPT !.at = "response", !.raw = n]
        BY <1>1, <3>2 DEF Flows
      <3>3. QED
        BY <1>3, <3>1, <3>2 DEF Hooks!Receive
    <2>2. QED
      BY <1>1, <1>3, <2>1 DEF Hooks!Receive, HooksInv
  <1>4. CASE Hooks!Swap
    BY <1>1, <1>4 DEF Hooks!Swap, HooksInv
  <1>5. CASE Hooks!Response
    <2>1. Sound(record')
      BY <1>1, <1>5, SubmittedFacts
    <2>2. flow' \in Flows /\ flow'.at \in {"submitted", "refused"}
      BY <1>1, <1>5 DEF Hooks!Response, Flows
    <2>3. QED
      BY <1>1, <1>5, <2>1, <2>2 DEF Hooks!Response, HooksInv
  <1>6. CASE Hooks!Write
    <2>1. Sound(record)
      BY <1>6 DEF Hooks!Write, HooksInv
    <2>2. CASE Hooks!Encodes(record)
      <3>1. Sound(record') /\ Hooks!Line(record') <= MaxRecord
        BY <1>6, <2>1, <2>2, FitFacts DEF Hooks!Write
      <3>2. ~(Hooks!Line(record') > MaxRecord)
        <4>1. Hooks!Room(record'.body) \in Nat /\ Hooks!Room(record'.reqBody) \in Nat
          BY <3>1 DEF Sound, Records, Hooks!Room, Bodied
        <4>2. Hooks!Line(record') \in Nat
          BY <4>1 DEF Hooks!Line
        <4>3. QED
          BY <3>1, <4>2 DEF Limits
      <3>3. flow' \in Flows /\ flow'.at = "written"
        BY <1>1, <1>6, <2>2, <3>2 DEF Hooks!Write, Flows
      <3>4. QED
        BY <1>1, <1>6, <3>1, <3>3 DEF Hooks!Write, HooksInv
    <2>3. CASE ~Hooks!Encodes(record)
      <3>1. flow' = [flow EXCEPT !.at = "dropped"] /\ limits' = limits
        BY <1>6, <2>3 DEF Hooks!Write
      <3>2. flow' \in Flows /\ flow'.at = "dropped" /\ flow'.utf8 = flow.utf8
        BY <1>1, <3>1 DEF Flows
      <3>3. \A body \in {record.body, record.reqBody} \ {None} : body.utf8
        BY <2>1 DEF Sound, Records, Bodied
      <3>4. ~flow.utf8
        BY <2>3, <3>3 DEF Hooks!Encodes
      <3>5. QED
        BY <1>1, <3>1, <3>2, <3>4 DEF HooksInv
    <2>4. QED
      BY <2>2, <2>3
  <1>7. CASE UNCHANGED Hooks!vars
    <2>1. flow' = flow /\ limits' = limits /\ record' = record
      BY <1>7 DEF Hooks!vars
    <2>2. QED
      BY <2>1 DEF HooksInv
  <1>8. QED
    BY <1>2, <1>3, <1>4, <1>5, <1>6, <1>7 DEF Hooks!Next

(* What the hooks hand over, and the worker writes, is acceptable always.  *)
THEOREM HooksInvariant == ASSUME Limits PROVE Hooks!Spec => []HooksInv
  <1>1. Hooks!Init => HooksInv
    BY HooksInit
  <1>2. HooksInv /\ [Hooks!Next]_(Hooks!vars) => HooksInv'
    BY HooksStep
  <1>3. QED
    BY <1>1, <1>2, PTL DEF Hooks!Spec

(* responseheaders, response, decide_body and fit_record: validate_record  *)
(* accepts every line that is written, for every limit on bodies as long   *)
(* as a line has room for twice of it and one more.                        *)
THEOREM LinesAreReadable == ASSUME Limits PROVE Hooks!Spec => []Hooks!RecordsAreReadable
  <1>1. HooksInv => Hooks!RecordsAreReadable
    BY DEF HooksInv, Hooks!RecordsAreReadable, Sound
  <1>2. QED
    BY <1>1, HooksInvariant, PTL

(* utf8_len and fit_record: no body, of a response or of a request, loses  *)
(* its record, however long it is and whether or not it can be encoded.    *)
THEOREM BodiesGoFirst == ASSUME Limits PROVE Hooks!Spec => []Hooks!NoBodyCostsTheLine
  <1>1. HooksInv => Hooks!NoBodyCostsTheLine
    BY DEF HooksInv, Hooks!NoBodyCostsTheLine
  <1>2. QED
    BY <1>1, HooksInvariant, PTL

-----------------------------------------------------------------------------
(* The parts of MCJournal.                                                 *)

LEMMA HooksGoOn ==
  [JournalNext]_<<part, vars, scanVars, hookVars>> /\ part' = "hooks"
    => part = "hooks" /\ [Hooks!Next]_(Hooks!vars)
  BY DEF JournalNext, hookVars, Hooks!vars

(* What the hooks hand over is acceptable beside the other parts too.      *)
LEMMA HooksInvariantInJournal ==
  ASSUME Limits
  PROVE  JournalSpec => [](part = "hooks" => HooksInv)
  <1> DEFINE I == part = "hooks" => HooksInv
  <1>1. JournalInit => I
    BY HooksInit DEF JournalInit
  <1>2. I /\ [JournalNext]_<<part, vars, scanVars, hookVars>> => I'
    BY HooksGoOn, HooksStep
  <1>3. QED
    BY <1>1, <1>2, PTL DEF JournalSpec

\* Capture and the worker, composed with the other parts: every line a response leads to
\* is one that validate_record accepts, for every limit that capture_limits lets through.
THEOREM LinesAreReadableInJournal ==
  ASSUME Limits
  PROVE  JournalSpec => []RecordsAreReadable
  <1>1. (part = "hooks" => HooksInv) => RecordsAreReadable
    BY DEF RecordsAreReadable, HooksInv, Sound, Hooks!RecordsAreReadable
  <1>2. QED
    BY <1>1, HooksInvariantInJournal, PTL

\* And no body, too long or not to be encoded, loses the record it belongs to.
THEOREM BodiesGoFirstInJournal ==
  ASSUME Limits
  PROVE  JournalSpec => []NoBodyCostsTheLine
  <1>1. (part = "hooks" => HooksInv) => NoBodyCostsTheLine
    BY DEF NoBodyCostsTheLine, HooksInv, Hooks!NoBodyCostsTheLine
  <1>2. QED
    BY <1>1, HooksInvariantInJournal, PTL

\* Beside the other parts too, the writer keeps its files in order, without a hole and
\* within their bound.
THEOREM WriterInJournal == JournalSpec => [](WriterInv /\ KeptInv /\ SizeInv)
  <1> DEFINE I == WriterInv /\ KeptInv /\ SizeInv
  <1>1. JournalInit => I
    BY WriterInit, KeptInit, SizeInit DEF JournalInit
  <1>2. I /\ [JournalNext]_<<part, vars, scanVars, hookVars>> => I'
    <2>1. [JournalNext]_<<part, vars, scanVars, hookVars>> => [Next]_vars
      BY DEF JournalNext
    <2>2. QED
      BY <2>1, WriterStep, KeptStep, SizeStep
  <1>3. QED
    BY <1>1, <1>2, PTL DEF JournalSpec

-----------------------------------------------------------------------------
(* The scan, which is a part of MCJournal.  The module of its proofs is    *)
(* instantiated beside it; these lemmas say that the two instances are one *)
(* specification.                                                          *)

LEMMA SameNamesAndLines ==
  /\ \A d : Scan!Listed(d) = ScanP!Listed(d)
  /\ \A d, name : Scan!FileAt(d, name) = ScanP!FileAt(d, name)
  /\ \A d : Scan!Moves(d) <=> ScanP!Moves(d)
  /\ \A names : Scan!Paths(names) = ScanP!Paths(names)
  /\ Scan!Listings = ScanP!Listings
  /\ \A s : Scan!Step(s) <=> ScanP!Step(s)
  /\ \A o, p : Scan!LineOf(o, p) = ScanP!LineOf(o, p)
  <1>1. Scan!Stream = ScanP!Stream
    BY DEF Scan!Stream, ScanP!Stream
  <1>2. \A d : Scan!Listed(d) = ScanP!Listed(d)
    BY <1>1 DEF Scan!Listed, ScanP!Listed
  <1>3. \A d, name : Scan!FileAt(d, name) = ScanP!FileAt(d, name)
    BY <1>1 DEF Scan!FileAt, ScanP!FileAt
  <1>4. \A d : Scan!Moves(d) <=> ScanP!Moves(d)
    BY <1>2 DEF Scan!Moves, ScanP!Moves, Scan!Noticed, ScanP!Noticed, Scan!Over, ScanP!Over
  <1>5. \A names : Scan!Paths(names) = ScanP!Paths(names)
    BY DEF Scan!Paths, ScanP!Paths, Scan!Ascending, ScanP!Ascending, Scan!Cardinality, ScanP!Cardinality,
           Scan!IsFiniteSet, ScanP!IsFiniteSet
  <1>6. Scan!Listings = ScanP!Listings
    BY DEF Scan!Listings, ScanP!Listings
  <1>7. \A s : Scan!Step(s) <=> ScanP!Step(s)
    BY DEF Scan!Step, ScanP!Step
  <1>8. \A o, p : Scan!LineOf(o, p) = ScanP!LineOf(o, p)
    BY <1>1 DEF Scan!LineOf, ScanP!LineOf, Scan!Says, ScanP!Says
  <1>9. QED
    BY <1>2, <1>3, <1>4, <1>5, <1>6, <1>7, <1>8

LEMMA SameWrites == Scan!Write <=> ScanP!Write
  <1>1. Scan!Create <=> ScanP!Create
    BY SameNamesAndLines DEF Scan!Create, ScanP!Create
  <1>2. Scan!Roll <=> ScanP!Roll
    BY SameNamesAndLines DEF Scan!Roll, ScanP!Roll, Scan!Last, ScanP!Last
  <1>3. Scan!Unlink <=> ScanP!Unlink
    BY SameNamesAndLines DEF Scan!Unlink, ScanP!Unlink
  <1>4. Scan!WritePart <=> ScanP!WritePart
    BY SameNamesAndLines DEF Scan!WritePart, ScanP!WritePart, Scan!Writes, ScanP!Writes, Scan!Content, ScanP!Content
  <1>5. Scan!WriteRest <=> ScanP!WriteRest
    BY SameNamesAndLines DEF Scan!WriteRest, ScanP!WriteRest, Scan!Writes, ScanP!Writes, Scan!Content, ScanP!Content, Scan!Last, ScanP!Last
  <1>6. Scan!Confirm <=> ScanP!Confirm
    BY SameNamesAndLines DEF Scan!Confirm, ScanP!Confirm, Scan!Content, ScanP!Content, Scan!Last, ScanP!Last
  <1>7. Scan!TakeBack <=> ScanP!TakeBack
    BY SameNamesAndLines DEF Scan!TakeBack, ScanP!TakeBack, Scan!Front, ScanP!Front, Scan!Content, ScanP!Content, Scan!Last, ScanP!Last
  <1>8. QED
    BY <1>1, <1>2, <1>3, <1>4, <1>5, <1>6, <1>7 DEF Scan!Write, ScanP!Write

LEMMA SameScans == Scan!Scan <=> ScanP!Scan
  <1>1. Scan!Begin <=> ScanP!Begin
    BY SameNamesAndLines DEF Scan!Begin, ScanP!Begin
  <1>2. Scan!ListEnds <=> ScanP!ListEnds
    BY SameNamesAndLines DEF Scan!ListEnds, ScanP!ListEnds
  <1>3. Scan!Open <=> ScanP!Open
    BY SameNamesAndLines DEF Scan!Open, ScanP!Open, Scan!Ends, ScanP!Ends
  <1>4. Scan!ListAgain <=> ScanP!ListAgain
    BY SameNamesAndLines DEF Scan!ListAgain, ScanP!ListAgain, Scan!List, ScanP!List
  <1>5. Scan!SameNames <=> ScanP!SameNames
    BY SameNamesAndLines DEF Scan!SameNames, ScanP!SameNames, Scan!Ends, ScanP!Ends
  <1>6. Scan!Verify <=> ScanP!Verify
    BY SameNamesAndLines DEF Scan!Verify, ScanP!Verify, Scan!Ends, ScanP!Ends
  <1>7. Scan!Identify <=> ScanP!Identify
    BY SameNamesAndLines DEF Scan!Identify, ScanP!Identify, Scan!Ends, ScanP!Ends
  <1>8. Scan!Read <=> ScanP!Read
    BY SameNamesAndLines DEF Scan!Read, ScanP!Read, Scan!Ends, ScanP!Ends, Scan!NextFile, ScanP!NextFile
  <1>9. \A at, next : Scan!Turn(at, next) <=> ScanP!Turn(at, next)
    BY SameNamesAndLines DEF Scan!Turn, ScanP!Turn
  <1>10. QED
    BY <1>1, <1>2, <1>3, <1>4, <1>5, <1>6, <1>7, <1>8, <1>9 DEF Scan!Scan, ScanP!Scan

LEMMA SameScan ==
  /\ Scan!Init <=> ScanP!Init
  /\ Scan!Next <=> ScanP!Next
  /\ Scan!ScanLeavesNothingOut <=> ScanP!ScanLeavesNothingOut
  <1>1. Scan!Init <=> ScanP!Init
    BY DEF Scan!Init, ScanP!Init
  <1>2. Scan!Next <=> ScanP!Next
    BY SameWrites, SameScans DEF Scan!Next, ScanP!Next
  <1>3. Scan!Kept = ScanP!Kept
    BY SameNamesAndLines DEF Scan!Kept, ScanP!Kept, Scan!ToSet, ScanP!ToSet
  <1>4. \A s : Scan!Run(s) <=> ScanP!Run(s)
    BY DEF Scan!Run, ScanP!Run
  <1>5. Scan!ScanLeavesNothingOut <=> ScanP!ScanLeavesNothingOut
    BY <1>3, <1>4 DEF Scan!ScanLeavesNothingOut, ScanP!ScanLeavesNothingOut, Scan!ToSet, ScanP!ToSet,
       Scan!Last, ScanP!Last, Scan!Front, ScanP!Front
  <1>6. QED
    BY <1>1, <1>2, <1>5

LEMMA ScanGoesOn ==
  [JournalNext]_<<part, vars, scanVars, hookVars>> /\ part' = "scan"
    => part = "scan" /\ [ScanP!Next]_(ScanP!vars)
  BY SameScan DEF JournalNext, scanVars, ScanP!vars

\* A scan that comes to its end, composed with the other parts, gave out consecutive lines
\* and left none of those out that were confirmed before it began and are still there.
THEOREM ScanLeavesNothingOutInJournal ==
  ASSUME ScanP!Bounds
  PROVE  JournalSpec => []ScanLeavesNothingOut
  <1> DEFINE I == part = "scan" => ScanP!ScanJournalInv
  <1>1. JournalInit => I
    BY SameScan, ScanP!InitHolds DEF JournalInit
  <1>2. I /\ [JournalNext]_<<part, vars, scanVars, hookVars>> => I'
    BY ScanGoesOn, ScanP!NextHolds
  <1>3. I => ScanLeavesNothingOut
    BY SameScan, ScanP!DoneHolds DEF ScanLeavesNothingOut, ScanP!ScanJournalInv
  <1>4. QED
    BY <1>1, <1>2, <1>3, PTL DEF JournalSpec

-----------------------------------------------------------------------------
(* The journal that the files stand for: the ids of the complete lines, in *)
(* the order of the files, which is ascending.                             *)

Up(s)       == \A i, j \in 1..Len(s) : i < j => s[i] < s[j]
Elements(s) == {s[i] : i \in 1..Len(s)}

\* One ascending sequence after another.
LEMMA UpConcat ==
  ASSUME NEW s \in Seq(Nat), NEW t \in Seq(Nat), Up(s), Up(t),
         \A x \in Elements(s), y \in Elements(t) : x < y
  PROVE  s \o t \in Seq(Nat) /\ Up(s \o t) /\ Elements(s \o t) = Elements(s) \cup Elements(t)
  <1> DEFINE u == s \o t
  <1>1. /\ u \in Seq(Nat) /\ Len(s) \in Nat /\ Len(t) \in Nat /\ Len(u) = Len(s) + Len(t)
        /\ \A k \in 1..Len(s) : u[k] = s[k]
        /\ \A k \in Len(s) + 1..Len(s) + Len(t) : u[k] = t[k - Len(s)] /\ k - Len(s) \in 1..Len(t)
        /\ \A m \in 1..Len(t) : Len(s) + m \in 1..Len(u) /\ u[Len(s) + m] = t[m]
    OBVIOUS
  <1> HIDE DEF u
  <1>2. ASSUME NEW j \in 1..Len(u), NEW k \in 1..Len(u), j < k
        PROVE  u[j] < u[k]
    <2>1. CASE k \in 1..Len(s)
      <3>1. j \in 1..Len(s)
        BY <1>1, <1>2, <2>1
      <3>2. QED
        BY <1>1, <1>2, <2>1, <3>1 DEF Up
    <2>2. CASE j \in 1..Len(s) /\ k \notin 1..Len(s)
      <3>1. k \in Len(s) + 1..Len(s) + Len(t)
        BY <1>1, <2>2
      <3>2. u[j] \in Elements(s) /\ u[k] \in Elements(t)
        BY <1>1, <2>2, <3>1 DEF Elements
      <3>3. QED
        BY <3>2
    <2>3. CASE j \notin 1..Len(s)
      <3>1. /\ j \in Len(s) + 1..Len(s) + Len(t) /\ k \in Len(s) + 1..Len(s) + Len(t)
            /\ j - Len(s) < k - Len(s)
        BY <1>1, <1>2, <2>3
      <3>2. /\ u[j] = t[j - Len(s)] /\ u[k] = t[k - Len(s)]
            /\ j - Len(s) \in 1..Len(t) /\ k - Len(s) \in 1..Len(t)
        BY <1>1, <3>1
      <3>3. QED
        BY <3>1, <3>2 DEF Up
    <2>4. QED
      BY <1>1, <2>1, <2>2, <2>3
  <1>3. Elements(u) = Elements(s) \cup Elements(t)
    <2>1. \A k \in 1..Len(u) : k \in 1..Len(s) \/ k \in Len(s) + 1..Len(s) + Len(t)
      BY <1>1
    <2>2. \A k \in 1..Len(s) : k \in 1..Len(u)
      BY <1>1
    <2>3. ASSUME NEW x PROVE x \in Elements(u) <=> x \in Elements(s) \/ x \in Elements(t)
      <3>1. ASSUME NEW k \in 1..Len(u), u[k] = x PROVE x \in Elements(s) \/ x \in Elements(t)
        BY <1>1, <2>1, <3>1 DEF Elements
      <3>2. ASSUME NEW k \in 1..Len(s), s[k] = x PROVE x \in Elements(u)
        BY <1>1, <2>2, <3>2 DEF Elements
      <3>3. ASSUME NEW k \in 1..Len(t), t[k] = x PROVE x \in Elements(u)
        BY <1>1, <3>3 DEF Elements
      <3>4. QED
        BY <3>1, <3>2, <3>3 DEF Elements
    <2>4. QED
      BY <2>3
  <1>4. QED
    BY <1>1, <1>2, <1>3 DEF Up, u

Flattens(f, seqs, n) == f = [i \in 1..n |-> IF i = 1 THEN seqs[i] ELSE f[i-1] \o seqs[i]]

\* The recursive function that FlattenSeq chooses exists.
LEMMA FlattenExists ==
  ASSUME NEW n \in Nat, NEW seqs
  PROVE  \E f : Flattens(f, seqs, n)
  <1> DEFINE S == {k \in Nat : \E f : Flattens(f, seqs, k)}
  <1>1. 0 \in S
    <2> DEFINE f == [i \in 1..0 |-> <<>>]
    <2>1. f = [i \in 1..0 |-> IF i = 1 THEN seqs[i] ELSE f[i-1] \o seqs[i]]
      OBVIOUS
    <2>2. QED
      BY <2>1 DEF Flattens
  <1>2. ASSUME NEW k \in S PROVE k + 1 \in S
    <2>1. k \in Nat
      OBVIOUS
    <2>2. PICK f : f = [i \in 1..k |-> IF i = 1 THEN seqs[i] ELSE f[i-1] \o seqs[i]]
      BY DEF Flattens
    <2> DEFINE new == IF k + 1 = 1 THEN seqs[k + 1] ELSE f[k] \o seqs[k + 1]
               g == [i \in 1..k+1 |-> IF i = k + 1 THEN new ELSE f[i]]
    <2>3. ASSUME NEW i \in 1..k+1 PROVE g[i] = IF i = 1 THEN seqs[i] ELSE g[i-1] \o seqs[i]
      <3>1. CASE i = k + 1
        <4>1. g[i] = new
          BY <3>1
        <4>2. i # 1 => g[i - 1] = f[k]
          BY <2>1, <3>1
        <4> HIDE DEF g
        <4>3. QED
          BY <2>1, <3>1, <4>1, <4>2
      <3>2. CASE i # k + 1
        <4>1. i \in 1..k /\ g[i] = f[i] /\ (i # 1 => g[i - 1] = f[i - 1])
          BY <2>1, <3>2
        <4>2. f[i] = IF i = 1 THEN seqs[i] ELSE f[i-1] \o seqs[i]
          BY <2>2, <4>1
        <4> HIDE DEF g
        <4>3. QED
          BY <4>1, <4>2
      <3>3. QED
        BY <3>1, <3>2
    <2>4. g = [i \in 1..k+1 |-> g[i]]
      OBVIOUS
    <2> HIDE DEF g
    <2>5. g = [i \in 1..k+1 |-> IF i = 1 THEN seqs[i] ELSE g[i-1] \o seqs[i]]
      BY <2>3, <2>4
    <2>6. Flattens(g, seqs, k + 1)
      BY <2>5 DEF Flattens
    <2>7. k + 1 \in Nat
      BY <2>1
    <2>8. QED
      BY <2>6, <2>7
  <1>3. S = Nat
    <2>1. S \in SUBSET Nat
      OBVIOUS
    <2> HIDE DEF S
    <2>2. QED
      BY <1>1, <1>2, <2>1, SetInduction
  <1>4. QED
    BY <1>3

\* Sequences that ascend, one behind the other, are one sequence that ascends.
LEMMA UpFlatten ==
  ASSUME NEW seqs \in Seq(Seq(Nat)), \A k \in 1..Len(seqs) : Up(seqs[k]),
         \A j, k \in 1..Len(seqs) :
           j < k => \A x \in Elements(seqs[j]), y \in Elements(seqs[k]) : x < y
  PROVE  /\ FlattenSeq(seqs) \in Seq(Nat) /\ Up(FlattenSeq(seqs))
         /\ \A x : x \in Elements(FlattenSeq(seqs)) <=> \E k \in 1..Len(seqs) : x \in Elements(seqs[k])
  <1> DEFINE n == Len(seqs)
  <1>1. n \in Nat /\ \A k \in 1..n : seqs[k] \in Seq(Nat)
    BY LenProperties, ElementOfSeq
  <1>2. CASE n = 0
    <2>1. FlattenSeq(seqs) = <<>>
      BY <1>2, EmptySeq DEF FlattenSeq
    <2>2. <<>> \in Seq(Nat) /\ Len(<<>>) = 0
      OBVIOUS
    <2>3. QED
      BY <1>2, <2>1, <2>2 DEF Up, Elements
  <1>3. CASE n # 0
    <2> DEFINE f == CHOOSE g : Flattens(g, seqs, n)
    <2>1. FlattenSeq(seqs) = f[n]
      BY <1>3 DEF FlattenSeq, Flattens
    <2>2. Flattens(f, seqs, n)
      BY <1>1, FlattenExists
    <2> HIDE DEF f
    <2>3. \A i \in 1..n : f[i] = IF i = 1 THEN seqs[i] ELSE f[i-1] \o seqs[i]
      <3>1. f = [i \in 1..n |-> IF i = 1 THEN seqs[i] ELSE f[i-1] \o seqs[i]]
        BY <2>2 DEF Flattens
      <3>2. QED
        BY <3>1
    <2> HIDE DEF n
    <2> DEFINE P(k) == /\ f[k] \in Seq(Nat) /\ Up(f[k])
                       /\ \A x : x \in Elements(f[k]) <=> \E j \in 1..k : x \in Elements(seqs[j])
               S == {k \in Nat : k + 1 \in 1..n => P(k + 1)}
    <2>4. 0 \in S
      <3>1. 1 \in 1..n /\ f[1] = seqs[1]
        BY <1>1, <1>3, <2>3
      <3>2. P(1)
        BY <1>1, <3>1 DEF n
      <3>3. QED
        BY <3>2
    <2>5. ASSUME NEW k \in S PROVE k + 1 \in S
      <3>1. k \in Nat /\ (k + 1 \in 1..n => P(k + 1))
        OBVIOUS
      <3>2. SUFFICES ASSUME (k + 1) + 1 \in 1..n PROVE P((k + 1) + 1)
        BY <3>1
      <3>3. k + 1 \in 1..n /\ (k + 1) + 1 # 1 /\ ((k + 1) + 1) - 1 = k + 1
        BY <3>1, <3>2, <1>1
      <3>4. P(k + 1) /\ f[(k + 1) + 1] = f[k + 1] \o seqs[(k + 1) + 1]
        BY <3>1, <3>2, <3>3, <2>3
      <3> DEFINE m == (k + 1) + 1
      <3>5. seqs[m] \in Seq(Nat) /\ Up(seqs[m])
        BY <1>1, <3>2 DEF n
      <3>6. ASSUME NEW x \in Elements(f[k + 1]), NEW y \in Elements(seqs[m]) PROVE x < y
        <4>1. PICK j \in 1..k+1 : x \in Elements(seqs[j])
          BY <3>4
        <4>2. j \in 1..Len(seqs) /\ m \in 1..Len(seqs) /\ j < m
          BY <1>1, <3>1, <3>2, <3>3 DEF n
        <4>3. QED
          BY <4>1, <4>2
      <3>7. /\ f[m] \in Seq(Nat) /\ Up(f[m])
            /\ Elements(f[m]) = Elements(f[k + 1]) \cup Elements(seqs[m])
        <4> HIDE DEF P, m
        <4>1. f[k + 1] \in Seq(Nat) /\ Up(f[k + 1])
          BY <3>4 DEF P
        <4>2. f[m] = f[k + 1] \o seqs[m]
          BY <3>4 DEF m
        <4>3. QED
          BY <4>1, <4>2, <3>5, <3>6, UpConcat
      <3>8. \A j : j \in 1..m <=> j \in 1..k+1 \/ j = m
        BY <3>1
      <3> HIDE DEF m
      <3>9. \A x : x \in Elements(f[m]) <=> \E j \in 1..m : x \in Elements(seqs[j])
        BY <3>4, <3>7, <3>8
      <3>10. P(m)
        BY <3>7, <3>9
      <3>11. QED
        BY <3>10 DEF m
    <2>6. S = Nat
      <3>1. S \in SUBSET Nat
        OBVIOUS
      <3> HIDE DEF S
      <3>2. QED
        BY <2>4, <2>5, <3>1, SetInduction
    <2>7. P(n)
      <3>1. n - 1 \in Nat /\ (n - 1) + 1 = n /\ n \in 1..n
        BY <1>1, <1>3
      <3>2. QED
        BY <2>6, <3>1
    <2>8. QED
      BY <1>1, <2>1, <2>7 DEF n
  <1>4. QED
    BY <1>2, <1>3

\* The complete lines of a file ascend when its chunks do.
LEMMA UpLines ==
  ASSUME NEW s \in Seq(Chunk), Ascending(s)
  PROVE  /\ Lines(s) \in Seq(Nat) /\ Up(Lines(s))
         /\ \A x : x \in Elements(Lines(s)) <=> \E i \in 1..Len(s) : s[i].whole /\ s[i].id = x
  <1> DEFINE seqs == [i \in 1..Len(s) |-> Line(s[i])]
  <1>1. Len(s) \in Nat /\ \A i \in 1..Len(s) : s[i].id \in Nat /\ s[i].whole \in BOOLEAN
    <2>1. Len(s) \in Nat /\ \A i \in 1..Len(s) : s[i] \in Chunk
      BY LenProperties, ElementOfSeq
    <2>2. QED
      BY <2>1 DEF Chunk
  <1>2. ASSUME NEW c, c.id \in Nat
        PROVE  /\ Line(c) \in Seq(Nat) /\ Up(Line(c))
               /\ \A x : x \in Elements(Line(c)) <=> c.whole /\ x = c.id
    <2>1. CASE c.whole
      <3>1. Line(c) = <<c.id>>
        BY <2>1 DEF Line
      <3>2. <<c.id>> \in Seq(Nat) /\ Len(<<c.id>>) = 1 /\ <<c.id>>[1] = c.id
        BY <1>2
      <3>3. QED
        BY <2>1, <3>1, <3>2 DEF Up, Elements
    <2>2. CASE ~c.whole
      <3>1. Line(c) = <<>>
        BY <2>2 DEF Line
      <3>2. <<>> \in Seq(Nat) /\ Len(<<>>) = 0
        OBVIOUS
      <3>3. QED
        BY <2>2, <3>1, <3>2 DEF Up, Elements
    <2>3. QED
      BY <2>1, <2>2
  <1>3. \A i \in 1..Len(s) : seqs[i] = Line(s[i])
    OBVIOUS
  <1>4. seqs \in Seq(Seq(Nat)) /\ Len(seqs) = Len(s)
    <2>1. \A i \in 1..Len(s) : Line(s[i]) \in Seq(Nat)
      BY <1>1, <1>2
    <2>2. QED
      BY <1>1, <2>1
  <1>5. Lines(s) = FlattenSeq(seqs)
    BY DEF Lines
  <1> HIDE DEF seqs
  <1>6. \A k \in 1..Len(seqs) : Up(seqs[k]) /\ \A x : x \in Elements(seqs[k]) <=> s[k].whole /\ x = s[k].id
    BY <1>1, <1>2, <1>3, <1>4
  <1>7. ASSUME NEW j \in 1..Len(seqs), NEW k \in 1..Len(seqs), j < k,
               NEW x \in Elements(seqs[j]), NEW y \in Elements(seqs[k])
        PROVE  x < y
    <2>1. x = s[j].id /\ y = s[k].id /\ j \in 1..Len(s) /\ k \in 1..Len(s)
      BY <1>4, <1>6
    <2>2. QED
      BY <1>7, <2>1 DEF Ascending
  <1>8. /\ FlattenSeq(seqs) \in Seq(Nat) /\ Up(FlattenSeq(seqs))
        /\ \A x : x \in Elements(FlattenSeq(seqs)) <=> \E k \in 1..Len(seqs) : x \in Elements(seqs[k])
    BY <1>4, <1>6, <1>7, UpFlatten
  <1>9. QED
    BY <1>4, <1>5, <1>6, <1>8

\* The names enumerate the archives.
LEMMA NamesFacts ==
  ASSUME Stamps \subseteq Nat, IsFiniteSet(Stamps), NewestStamp, NEW c, c = Cardinality(Stamps)
  PROVE  /\ c \in Nat /\ Names \in [1..c -> Stamps]
         /\ \A i, j \in 1..c : i < j => Names[i] < Names[j]
         /\ \A s \in Stamps : \E i \in 1..c : Names[i] = s
  <1> DEFINE Fits(t) == \A i, j \in DOMAIN t : i < j => t[i] < t[j]
  <1>1. c \in Nat
    BY FS_CardinalityType
  <1>2. \E t \in [1..c -> Stamps] : Fits(t)
    <2>1. PICK n \in Nat : \A s \in Stamps : s <= n
      BY DEF NewestStamp
    <2>2. Stamps \in SUBSET (0..n)
      BY <2>1
    <2>3. \E t : ScanP!Enumerates(t, Stamps)
      BY <2>1, <2>2, ScanP!SomeEnumerates
    <2>4. ScanP!Cardinality(Stamps) = c
      BY DEF ScanP!Cardinality, ScanP!IsFiniteSet, Cardinality, IsFiniteSet
    <2>5. QED
      BY <2>3, <2>4 DEF ScanP!Enumerates, ScanP!Ascending
  <1>3. Names \in [1..c -> Stamps] /\ Fits(Names)
    BY <1>2 DEF Names
  <1>4. \A i, j \in 1..c : i < j => Names[i] < Names[j]
    BY <1>3
  <1> HIDE DEF Fits
  <1>5. \A i, j \in 1..c : Names[i] = Names[j] => i = j
    <2> SUFFICES ASSUME NEW i \in 1..c, NEW j \in 1..c, Names[i] = Names[j], i # j PROVE FALSE
      OBVIOUS
    <2>1. i < j \/ j < i
      BY <1>1
    <2>2. Names[i] \in Nat /\ Names[j] \in Nat
      BY <1>3
    <2>3. QED
      BY <1>4, <2>1, <2>2
  <1>6. IsFiniteSet(1..c) /\ Cardinality(1..c) = Cardinality(Stamps)
    BY <1>1, FS_Interval
  <1>7. Names \in Injection(1..c, Stamps)
    BY <1>3, <1>5 DEF Injection, IsInjective
  <1>8. Names \in Surjection(1..c, Stamps)
    BY <1>6, <1>7, FS_Injection
  <1>9. QED
    BY <1>1, <1>3, <1>4, <1>8 DEF Surjection

\* The ids of the complete lines.
WholeIds ==
  {id \in InFiles : \/ \E s \in Stamps : \E i \in 1..Len(archives[s]) : archives[s][i].id = id
                    \/ \E i \in 1..Len(stream) : stream[i].whole /\ stream[i].id = id}

\* An id of a complete line, by the place of that line.
LEMMA WholeIdsFacts ==
  ASSUME NEW id
  PROVE  id \in WholeIds <=>
           \/ \E s \in Stamps : \E i \in 1..Len(archives[s]) : archives[s][i].id = id
           \/ \E i \in 1..Len(stream) : stream[i].whole /\ stream[i].id = id
  BY InFilesFacts DEF WholeIds

\* The journal is those ids, in ascending order.
LEMMA JournalFacts ==
  WriterInv => Journal \in Seq(Nat) /\ Up(Journal) /\ Elements(Journal) = WholeIds
  <1> SUFFICES ASSUME WriterInv
               PROVE  Journal \in Seq(Nat) /\ Up(Journal) /\ Elements(Journal) = WholeIds
    OBVIOUS
  <1> DEFINE c == Cardinality(Stamps)
             seqs == [n \in 1..c |-> Lines(archives[Names[n]])]
  <1>1. /\ stream \in Seq(Chunk) /\ Stamps \subseteq Nat /\ IsFiniteSet(Stamps)
        /\ archives \in [Stamps -> Seq(Chunk)] /\ JournalOrder
        /\ \A s \in Stamps : \A i \in 1..Len(archives[s]) : archives[s][i].whole
        /\ NewestStamp
    BY DEF WriterInv, TypeOK, TornOnlyAtTheEnd
  <1>2. /\ c \in Nat /\ Names \in [1..c -> Stamps]
        /\ \A i, j \in 1..c : i < j => Names[i] < Names[j]
        /\ \A s \in Stamps : \E i \in 1..c : Names[i] = s
    BY <1>1, NamesFacts
  <1>3. ASSUME NEW s \in Stamps
        PROVE  /\ Lines(archives[s]) \in Seq(Nat) /\ Up(Lines(archives[s]))
               /\ \A x : x \in Elements(Lines(archives[s])) <=>
                           \E i \in 1..Len(archives[s]) : archives[s][i].id = x
    <2>1. archives[s] \in Seq(Chunk) /\ Ascending(archives[s])
      BY <1>1 DEF JournalOrder
    <2>2. QED
      BY <1>1, <2>1, UpLines
  <1>4. /\ Lines(stream) \in Seq(Nat) /\ Up(Lines(stream))
        /\ \A x : x \in Elements(Lines(stream)) <=> \E i \in 1..Len(stream) : stream[i].whole /\ stream[i].id = x
    BY <1>1, UpLines DEF JournalOrder
  <1>5. /\ seqs \in Seq(Seq(Nat)) /\ Len(seqs) = c
        /\ \A n \in 1..c : Names[n] \in Stamps /\ seqs[n] = Lines(archives[Names[n]])
    <2>1. \A n \in 1..c : Names[n] \in Stamps /\ Lines(archives[Names[n]]) \in Seq(Nat)
      BY <1>2, <1>3
    <2> HIDE DEF c
    <2>2. QED
      BY <1>2, <2>1
  <1>6. Journal = FlattenSeq(seqs) \o Lines(stream)
    BY DEF Journal
  <1> HIDE DEF seqs, c
  <1>7. \A n \in 1..Len(seqs) : Up(seqs[n])
    BY <1>3, <1>5
  <1>8. ASSUME NEW j \in 1..Len(seqs), NEW k \in 1..Len(seqs), j < k,
               NEW x \in Elements(seqs[j]), NEW y \in Elements(seqs[k])
        PROVE  x < y
    <2>1. Names[j] \in Stamps /\ Names[k] \in Stamps /\ Names[j] < Names[k]
      BY <1>2, <1>5, <1>8
    <2>2. /\ \E i \in 1..Len(archives[Names[j]]) : archives[Names[j]][i].id = x
          /\ \E i \in 1..Len(archives[Names[k]]) : archives[Names[k]][i].id = y
      BY <1>3, <1>5, <1>8, <2>1
    <2>3. QED
      BY <1>1, <2>1, <2>2 DEF JournalOrder
  <1>9. /\ FlattenSeq(seqs) \in Seq(Nat) /\ Up(FlattenSeq(seqs))
        /\ \A x : x \in Elements(FlattenSeq(seqs)) <=> \E k \in 1..Len(seqs) : x \in Elements(seqs[k])
    BY <1>5, <1>7, <1>8, UpFlatten
  <1>10. \A x : x \in Elements(FlattenSeq(seqs)) <=>
                  \E s \in Stamps : \E i \in 1..Len(archives[s]) : archives[s][i].id = x
    <2>1. ASSUME NEW k \in 1..c, NEW x PROVE x \in Elements(seqs[k]) <=>
                     \E i \in 1..Len(archives[Names[k]]) : archives[Names[k]][i].id = x
      BY <1>3, <1>5
    <2>2. ASSUME NEW k \in 1..c, NEW x \in Elements(seqs[k])
          PROVE  \E s \in Stamps : \E i \in 1..Len(archives[s]) : archives[s][i].id = x
      BY <1>5, <2>1
    <2>3. ASSUME NEW s \in Stamps, NEW i \in 1..Len(archives[s])
          PROVE  \E k \in 1..c : archives[s][i].id \in Elements(seqs[k])
      <3>1. PICK k \in 1..c : Names[k] = s
        BY <1>2
      <3>2. QED
        BY <2>1, <3>1
    <2>4. QED
      BY <1>5, <1>9, <2>2, <2>3
  <1>11. \A x \in Elements(FlattenSeq(seqs)), y \in Elements(Lines(stream)) : x < y
    BY <1>1, <1>4, <1>10 DEF JournalOrder
  <1>12. /\ Journal \in Seq(Nat) /\ Up(Journal)
         /\ Elements(Journal) = Elements(FlattenSeq(seqs)) \cup Elements(Lines(stream))
    BY <1>4, <1>6, <1>9, <1>11, UpConcat
  <1>13. \A x : x \in Elements(Journal) <=> x \in WholeIds
    BY <1>4, <1>10, <1>12, WholeIdsFacts
  <1>14. QED
    BY <1>12, <1>13

\* An ascending sequence is known by its elements.
LEMMA UpAgrees ==
  ASSUME NEW s \in Seq(Nat), NEW t \in Seq(Nat), Up(s), Up(t), Elements(s) = Elements(t)
  PROVE  Len(s) <= Len(t) /\ \A i \in 1..Len(s) : s[i] = t[i]
  <1> DEFINE S == {n \in Nat : n <= Len(s) => n <= Len(t) /\ \A i \in 1..n : s[i] = t[i]}
  <1>1. /\ \A i \in 1..Len(s) : \E j \in 1..Len(t) : t[j] = s[i]
        /\ \A i \in 1..Len(t) : \E j \in 1..Len(s) : s[j] = t[i]
    BY DEF Elements
  <1>2. Len(s) \in Nat /\ Len(t) \in Nat
    BY LenProperties
  <1>3. (\A i \in 1..Len(s) : s[i] \in Nat) /\ (\A i \in 1..Len(t) : t[i] \in Nat)
    BY ElementOfSeq
  <1>4. \A x, y \in Nat : (x < y => x # y) /\ (x <= y /\ y <= x => x = y) /\ (x = y => x <= y)
                           /\ (x < y => x <= y)
    OBVIOUS
  <1>5. 0 \in S
    BY <1>2
  <1>6. ASSUME NEW n \in S PROVE n + 1 \in S
    <2>1. n \in Nat
      OBVIOUS
    <2> SUFFICES ASSUME n + 1 <= Len(s)
                 PROVE  n + 1 <= Len(t) /\ \A i \in 1..n + 1 : s[i] = t[i]
      BY <2>1
    <2>2. n <= Len(t) /\ \A i \in 1..n : s[i] = t[i]
      BY <1>2, <2>1
    <2> HIDE DEF S
    <2>3. n + 1 \in 1..Len(s)
      BY <1>2, <2>1
    <2>4. PICK j \in 1..Len(t) : t[j] = s[n + 1]
      BY <1>1, <2>3
    <2>5. ~(j <= n)
      <3> SUFFICES ASSUME j <= n PROVE FALSE
        OBVIOUS
      <3>1. j \in 1..n /\ j \in 1..Len(s) /\ j < n + 1
        BY <1>2, <2>1, <2>3
      <3>2. s[j] = t[j] /\ s[j] < s[n + 1]
        BY <2>2, <2>3, <3>1 DEF Up
      <3>3. s[j] \in Nat /\ s[n + 1] \in Nat /\ s[j] = s[n + 1]
        BY <1>3, <2>3, <2>4, <3>1, <3>2
      <3>4. QED
        BY <1>4, <3>2, <3>3
    <2>6. n + 1 \in 1..Len(t)
      BY <1>2, <2>1, <2>5
    <2>7. PICK k \in 1..Len(s) : s[k] = t[n + 1]
      BY <1>1, <2>6
    <2>8. ~(k <= n)
      <3> SUFFICES ASSUME k <= n PROVE FALSE
        OBVIOUS
      <3>1. k \in 1..n /\ k \in 1..Len(t) /\ k < n + 1
        BY <1>2, <2>1, <2>6
      <3>2. s[k] = t[k] /\ t[k] < t[n + 1]
        BY <2>2, <2>6, <3>1 DEF Up
      <3>3. t[k] \in Nat /\ t[n + 1] \in Nat /\ t[k] = t[n + 1]
        BY <1>3, <2>6, <2>7, <3>1, <3>2
      <3>4. QED
        BY <1>4, <3>2, <3>3
    <2>9. s[n + 1] \in Nat /\ t[n + 1] \in Nat
      BY <1>3, <2>3, <2>6
    <2>10. s[n + 1] <= t[n + 1]
      <3>1. k = n + 1 \/ n + 1 < k
        BY <1>2, <2>1, <2>8
      <3>2. s[n + 1] = t[n + 1] \/ s[n + 1] < t[n + 1]
        BY <2>3, <2>7, <3>1 DEF Up
      <3>3. QED
        BY <1>4, <2>9, <3>2
    <2>11. t[n + 1] <= s[n + 1]
      <3>1. j = n + 1 \/ n + 1 < j
        BY <1>2, <2>1, <2>5
      <3>2. t[n + 1] = s[n + 1] \/ t[n + 1] < s[n + 1]
        BY <2>4, <2>6, <3>1 DEF Up
      <3>3. QED
        BY <1>4, <2>9, <3>2
    <2>12. s[n + 1] = t[n + 1]
      BY <1>4, <2>9, <2>10, <2>11
    <2>13. \A i \in 1..n + 1 : i = n + 1 \/ i \in 1..n
      BY <2>1
    <2>14. n + 1 <= Len(t)
      BY <2>6
    <2>15. \A i \in 1..n + 1 : s[i] = t[i]
      BY <2>2, <2>12, <2>13
    <2>16. QED
      BY <2>14, <2>15
  <1> HIDE DEF S
  <1>7. S = Nat
    <2>1. S \in SUBSET Nat
      BY DEF S
    <2>2. QED
      BY <1>5, <1>6, <2>1, SetInduction
  <1>8. Len(s) \in S /\ Len(s) <= Len(s)
    BY <1>2, <1>7
  <1>9. QED
    BY <1>8 DEF S

\* Two ascending sequences of the same elements are equal.
LEMMA UpIsUnique ==
  ASSUME NEW s \in Seq(Nat), NEW t \in Seq(Nat), Up(s), Up(t), Elements(s) = Elements(t)
  PROVE  s = t
  <1>1. Len(s) \in Nat /\ Len(t) \in Nat
    BY LenProperties
  <1>2. /\ Len(s) <= Len(t) /\ \A i \in 1..Len(s) : s[i] = t[i]
        /\ Len(t) <= Len(s)
    BY UpAgrees
  <1>3. Len(s) = Len(t)
    BY <1>1, <1>2
  <1>4. QED
    BY <1>2, <1>3, SeqEqual

\* What follows the n first elements, as far as the m-th.
Middle(s, n, m) == SubSeq(s, n + 1, m)
Above(T, s, n, m) == \A x : x \in T <=> \E i \in n + 1..m : s[i] = x

LEMMA UpMiddle ==
  ASSUME NEW s \in Seq(Nat), Up(s), NEW m \in 0..Len(s), NEW n \in 0..m
  PROVE  /\ Middle(s, n, m) \in Seq(Nat) /\ Up(Middle(s, n, m))
         /\ Above(Elements(Middle(s, n, m)), s, n, m)
  <1>1. Len(s) \in Nat /\ m \in Nat /\ n \in Nat /\ m - n \in Nat /\ n + 1 \in Nat
    BY LenProperties
  <1>2. \A i \in 1..m - n : n + i \in 1..Len(s) /\ n + i \in n + 1..m /\ s[n + i] \in Nat
    <2>1. \A i \in 1..m - n : n + i \in 1..Len(s) /\ n + i \in n + 1..m
      BY <1>1
    <2>2. QED
      BY <2>1, ElementOfSeq
  <1> DEFINE t == SubSeq(s, n + 1, m)
  <1>3. t = [i \in 1..m - n |-> s[n + i]]
    <2>1. t = [i \in 1..(m - (n + 1) + 1) |-> s[(n + 1) + i - 1]]
      OBVIOUS
    <2>2. m - (n + 1) + 1 = m - n /\ \A i \in 1..m - n : (n + 1) + i - 1 = n + i
      BY <1>1
    <2>3. QED
      BY <2>1, <2>2
  <1> HIDE DEF t
  <1>4. t \in Seq(Nat) /\ Len(t) = m - n /\ \A i \in 1..m - n : t[i] = s[n + i]
    <2>1. t \in [1..m - n -> Nat]
      BY <1>2, <1>3
    <2>2. QED
      BY <1>1, <1>3, <2>1
  <1>5. Up(t)
    <2>1. ASSUME NEW i \in 1..m - n, NEW j \in 1..m - n, i < j PROVE t[i] < t[j]
      <3>1. n + i < n + j
        BY <1>1, <2>1
      <3>2. QED
        BY <1>2, <1>4, <3>1 DEF Up
    <2>2. QED
      BY <1>4, <2>1 DEF Up
  <1>6. ASSUME NEW x PROVE x \in Elements(t) <=> \E i \in n + 1..m : s[i] = x
    <2>1. ASSUME NEW i \in 1..m - n, t[i] = x PROVE \E j \in n + 1..m : s[j] = x
      BY <1>2, <1>4, <2>1
    <2>2. ASSUME NEW j \in n + 1..m, s[j] = x PROVE \E i \in 1..m - n : t[i] = x
      <3>1. j - n \in 1..m - n /\ n + (j - n) = j
        BY <1>1
      <3>2. QED
        BY <1>4, <2>2, <3>1
    <2>3. QED
      BY <1>4, <2>1, <2>2 DEF Elements
  <1>7. QED
    BY <1>4, <1>5, <1>6 DEF t, Middle, Above

\* Elements that are all those above some place are the ones that follow it.
UpperOf(T, s, m) ==
  /\ \A x \in T : \E i \in 1..m : s[i] = x
  /\ \A i, j \in 1..m : i < j /\ s[i] \in T => s[j] \in T

LEMMA UpperPart ==
  ASSUME NEW s \in Seq(Nat), Up(s), NEW m \in 0..Len(s), NEW T, UpperOf(T, s, m)
  PROVE  \E n \in 0..m : Above(T, s, n, m)
  <1> USE DEF UpperOf, Above
  <1>1. Len(s) \in Nat /\ m \in Nat
    BY LenProperties
  <1>2. CASE T = {}
    <2>1. m \in 0..m /\ ~\E i \in m + 1..m : TRUE
      BY <1>1
    <2>2. QED
      BY <1>2, <2>1
  <1>3. CASE T # {}
    <2> DEFINE I == {i \in 1..m : s[i] \in T}
    <2>1. I \in SUBSET Nat /\ I # {}
      <3>1. \A i \in 1..m : i \in Nat
        BY <1>1
      <3>2. \E x \in T : \E i \in 1..m : s[i] = x
        BY <1>3
      <3>3. QED
        BY <3>1, <3>2
    <2>2. PICK i \in I : \A j \in I : i <= j
      BY <2>1, SmallestOf
    <2>3. i \in 1..m /\ s[i] \in T /\ \A j \in 1..m : s[j] \in T <=> i <= j
      <3>1. i \in 1..m /\ s[i] \in T
        OBVIOUS
      <3>2. ASSUME NEW j \in 1..m, i <= j PROVE s[j] \in T
        <4>1. i = j \/ i < j
          BY <1>1, <3>1, <3>2
        <4>2. QED
          BY <3>1, <4>1
      <3>3. QED
        BY <2>2, <3>1, <3>2
    <2> HIDE DEF I
    <2>4. i - 1 \in 0..m /\ \A j : j \in (i - 1) + 1..m <=> j \in 1..m /\ i <= j
      BY <1>1, <2>3
    <2>5. \A x : x \in T <=> \E j \in (i - 1) + 1..m : s[j] = x
      BY <2>3, <2>4
    <2>6. QED
      BY <2>4, <2>5
  <1>4. QED
    BY <1>2, <1>3

-----------------------------------------------------------------------------
(* The steps of RetainedJournal, by what becomes of those ids.             *)

\* What a reader finds before and after a step.
LEMMA BothJournals ==
  ASSUME WriterInv, WriterInv'
  PROVE  /\ Journal \in Seq(Nat) /\ Up(Journal) /\ Elements(Journal) = WholeIds
         /\ Journal' \in Seq(Nat) /\ Up(Journal') /\ Elements(Journal') = WholeIds'
         /\ AppendInDoubt \in BOOLEAN /\ AppendInDoubt' \in BOOLEAN
  <1>1. Journal \in Seq(Nat) /\ Up(Journal) /\ Elements(Journal) = WholeIds
    BY JournalFacts
  <1>2. (WriterInv => Journal \in Seq(Nat) /\ Up(Journal) /\ Elements(Journal) = WholeIds)'
    BY JournalFacts, PTL
  <1>3. Journal' \in Seq(Nat) /\ Up(Journal') /\ Elements(Journal') = WholeIds'
    BY <1>2 DEF Up, Elements
  <1>4. AppendInDoubt \in BOOLEAN /\ AppendInDoubt' \in BOOLEAN
    BY DEF AppendInDoubt
  <1>5. QED
    BY <1>1, <1>3, <1>4

\* The same lines: the same journal.
LEMMA StaysWhen ==
  ASSUME WriterInv, WriterInv', \A x : x \in WholeIds' <=> x \in WholeIds
  PROVE  Journal' = Journal
  <1>1. WholeIds' = WholeIds
    OBVIOUS
  <1>2. QED
    BY <1>1, BothJournals, UpIsUnique

\* An append in doubt is the last chunk of the open segment, and the newest line.
LEMMA InDoubtFacts ==
  ASSUME WriterInv, AppendInDoubt
  PROVE  /\ stream \in Seq(Chunk) /\ Len(stream) \in Nat /\ Len(stream) > 0
         /\ rollback = Len(stream) - 1 /\ stream[Len(stream)].whole
         /\ stream[Len(stream)].id \in WholeIds
         /\ \A x \in WholeIds : x = stream[Len(stream)].id \/ x < stream[Len(stream)].id
  <1>1. stream \in Seq(Chunk) /\ Len(stream) \in Nat /\ JournalOrder /\ ControlInv
    BY LenProperties DEF WriterInv, TypeOK
  <1>2. rollback # None /\ Len(stream) > rollback /\ Last(stream).whole
    BY DEF AppendInDoubt
  <1>3. rollback \in {Len(stream), Len(stream) - 1} /\ rollback \in Nat
    BY <1>2 DEF WriterInv, TypeOK, ControlInv
  <1>4. rollback = Len(stream) - 1 /\ Len(stream) > 0
    BY <1>1, <1>2, <1>3
  <1>5. stream[Len(stream)].whole /\ Len(stream) \in 1..Len(stream)
    BY <1>1, <1>2, <1>4 DEF Last
  <1>6. stream[Len(stream)].id \in WholeIds
    BY <1>5, WholeIdsFacts
  <1>7. ASSUME NEW x \in WholeIds PROVE x = stream[Len(stream)].id \/ x < stream[Len(stream)].id
    <2>1. CASE \E s \in Stamps : \E i \in 1..Len(archives[s]) : archives[s][i].id = x
      BY <1>1, <1>5, <2>1 DEF JournalOrder
    <2>2. CASE \E i \in 1..Len(stream) : stream[i].id = x
      <3>1. PICK i \in 1..Len(stream) : stream[i].id = x
        BY <2>2
      <3>2. i = Len(stream) \/ i < Len(stream)
        BY <1>1
      <3>3. QED
        BY <1>1, <1>5, <3>1, <3>2 DEF JournalOrder, Ascending
    <2>3. QED
      BY <2>1, <2>2, WholeIdsFacts
  <1>8. QED
    BY <1>1, <1>4, <1>5, <1>6, <1>7

\* The oldest lines are gone, and nothing else changed.
LEMMA ForgetsWhen ==
  ASSUME WriterInv, WriterInv', \A x \in WholeIds' : x \in WholeIds,
         \A x \in WholeIds', y \in WholeIds : x < y => y \in WholeIds',
         AppendInDoubt' <=> AppendInDoubt, AppendInDoubt => \E x : x \in WholeIds'
  PROVE  Promised!Next
  <1> SUFFICES ASSUME NEW s, s = Journal, NEW t, t = Journal', NEW T, T = WholeIds'
               PROVE  Promised!Next
    OBVIOUS
  <1>1. /\ s \in Seq(Nat) /\ Up(s) /\ Elements(s) = WholeIds /\ t \in Seq(Nat) /\ Up(t) /\ Elements(t) = T
        /\ Len(s) \in Nat /\ Len(s) \in 0..Len(s)
    BY BothJournals, LenProperties
  <1>2. \A x \in T : \E i \in 1..Len(s) : s[i] = x
    BY <1>1 DEF Elements
  <1>3. \A i, j \in 1..Len(s) : i < j /\ s[i] \in T => s[j] \in T
    <2>1. \A i \in 1..Len(s) : s[i] \in WholeIds
      BY <1>1 DEF Elements
    <2>2. QED
      BY <1>1, <2>1 DEF Up
  <1>4. PICK n \in 0..Len(s) : Above(T, s, n, Len(s))
    <2>1. s \in Seq(Nat) /\ Up(s) /\ Len(s) \in 0..Len(s)
      BY <1>1
    <2>2. UpperOf(T, s, Len(s))
      BY <1>2, <1>3 DEF UpperOf
    <2>3. QED
      BY <2>1, <2>2, UpperPart
  <1> DEFINE u == Middle(s, n, Len(s))
  <1>5. u \in Seq(Nat) /\ Up(u) /\ Above(Elements(u), s, n, Len(s))
    <2>1. s \in Seq(Nat) /\ Up(s) /\ Len(s) \in 0..Len(s)
      BY <1>1
    <2>2. QED
      BY <2>1, UpMiddle
  <1>6. Elements(u) = Elements(t)
    <2> HIDE DEF u
    <2>1. \A x : x \in Elements(u) <=> x \in Elements(t)
      BY <1>1, <1>4, <1>5 DEF Above
    <2>2. QED
      BY <2>1
  <1>7. t = u
    <2> HIDE DEF u
    <2>1. QED
      BY <1>1, <1>5, <1>6, UpIsUnique
  <1>8. AppendInDoubt => n \in 0..Len(s) - 1
    <2>1. SUFFICES ASSUME AppendInDoubt PROVE n # Len(s)
      BY <1>1
    <2>2. \E i \in n + 1..Len(s) : TRUE
      BY <1>4, <2>1 DEF Above
    <2>3. QED
      BY <1>1, <2>2
  <1>9. n \in 0..Promised!Confirmed
    BY <1>1, <1>8 DEF Promised!Confirmed
  <1>10. AppendInDoubt' = AppendInDoubt
    BY BothJournals
  <1>11. Promised!Forget(n)
    BY <1>7, <1>10 DEF Promised!Forget, Middle
  <1>12. QED
    BY <1>9, <1>11 DEF Promised!Next

\* The line in doubt is gone, and perhaps the oldest ones.
LEMMA RetractsWhen ==
  ASSUME WriterInv, WriterInv', AppendInDoubt, ~AppendInDoubt', NEW last, last = stream[Len(stream)].id,
         \A x \in WholeIds' : x \in WholeIds /\ x # last,
         \A x \in WholeIds', y \in WholeIds : x < y /\ y # last => y \in WholeIds'
  PROVE  Promised!Next
  <1> SUFFICES ASSUME NEW s, s = Journal, NEW t, t = Journal', NEW T, T = WholeIds', NEW m, m = Len(s) - 1
               PROVE  Promised!Next
    OBVIOUS
  <1>1. /\ s \in Seq(Nat) /\ Up(s) /\ Elements(s) = WholeIds /\ t \in Seq(Nat) /\ Up(t) /\ Elements(t) = T
        /\ Len(s) \in Nat /\ \A i \in 1..Len(s) : s[i] \in Nat /\ s[i] \in WholeIds
    <2>1. s \in Seq(Nat) /\ Up(s) /\ Elements(s) = WholeIds /\ t \in Seq(Nat) /\ Up(t) /\ Elements(t) = T
      BY BothJournals
    <2>2. QED
      BY <2>1, LenProperties, ElementOfSeq DEF Elements
  <1>2. last \in WholeIds /\ \A x \in WholeIds : x = last \/ x < last
    BY InDoubtFacts
  <1>3. Len(s) > 0 /\ s[Len(s)] = last
    <2>1. PICK k \in 1..Len(s) : s[k] = last
      BY <1>1, <1>2 DEF Elements
    <2>2. Len(s) \in 1..Len(s)
      BY <1>1
    <2>3. k = Len(s) \/ k < Len(s)
      BY <1>1
    <2>4. k < Len(s) => last < s[Len(s)]
      BY <1>1, <2>1, <2>2 DEF Up
    <2>5. s[Len(s)] \in Nat /\ last \in Nat /\ (s[Len(s)] = last \/ s[Len(s)] < last)
      BY <1>1, <1>2, <2>1, <2>2
    <2>6. \A x, y \in Nat : x < y => ~(y = x \/ y < x)
      OBVIOUS
    <2>7. QED
      BY <1>1, <2>1, <2>3, <2>4, <2>5, <2>6
  <1>4. m \in 0..Len(s) /\ m \in Nat /\ \A i \in 1..m : i \in 1..Len(s) /\ i < Len(s)
    BY <1>1, <1>3
  <1>5. \A i \in 1..m : s[i] # last
    <2>1. ASSUME NEW i \in 1..m PROVE s[i] < last
      <3>1. i \in 1..Len(s) /\ Len(s) \in 1..Len(s) /\ i < Len(s)
        BY <1>1, <1>3, <1>4
      <3>2. QED
        BY <1>1, <1>3, <3>1 DEF Up
    <2>2. \A x, y \in Nat : x < y => x # y
      OBVIOUS
    <2>3. last \in Nat /\ \A i \in 1..m : s[i] \in Nat
      BY <1>1, <1>3, <1>4
    <2>4. QED
      BY <2>1, <2>2, <2>3
  <1>6. \A x \in T : \E i \in 1..m : s[i] = x
    <2> SUFFICES ASSUME NEW x \in T PROVE \E i \in 1..m : s[i] = x
      OBVIOUS
    <2>1. PICK i \in 1..Len(s) : s[i] = x
      BY <1>1 DEF Elements
    <2>2. i # Len(s)
      BY <1>3, <2>1
    <2>3. QED
      BY <1>1, <2>1, <2>2
  <1>7. \A i, j \in 1..m : i < j /\ s[i] \in T => s[j] \in T
    BY <1>1, <1>4, <1>5 DEF Up
  <1>8. PICK n \in 0..m : Above(T, s, n, m)
    <2>1. s \in Seq(Nat) /\ Up(s) /\ m \in 0..Len(s)
      BY <1>1, <1>4
    <2>2. UpperOf(T, s, m)
      BY <1>6, <1>7 DEF UpperOf
    <2>3. QED
      BY <2>1, <2>2, UpperPart
  <1> DEFINE u == Middle(s, n, m)
  <1>9. u \in Seq(Nat) /\ Up(u) /\ Above(Elements(u), s, n, m)
    <2>1. s \in Seq(Nat) /\ Up(s) /\ m \in 0..Len(s)
      BY <1>1, <1>4
    <2>2. QED
      BY <2>1, UpMiddle
  <1>10. t = u
    <2> HIDE DEF u
    <2>1. \A x : x \in Elements(u) <=> x \in Elements(t)
      BY <1>1, <1>8, <1>9 DEF Above
    <2>2. Elements(u) = Elements(t)
      BY <2>1
    <2>3. QED
      BY <1>1, <1>9, <2>2, UpIsUnique
  <1>11. n \in 0..Promised!Confirmed
    BY DEF Promised!Confirmed
  <1>12. AppendInDoubt' = FALSE
    BY BothJournals
  <1>13. Promised!Retract(n)
    BY <1>10, <1>12 DEF Promised!Retract, Middle
  <1>14. QED
    BY <1>11, <1>13 DEF Promised!Next

\* One more line, in doubt, newer than all others.
LEMMA ExtendsWhen ==
  ASSUME WriterInv, WriterInv', ~AppendInDoubt, AppendInDoubt', NEW id \in Nat, id < MaxRecords,
         \A x : x \in WholeIds' <=> x \in WholeIds \/ x = id, \A x \in WholeIds : x < id
  PROVE  Promised!Next
  <1> SUFFICES ASSUME NEW s, s = Journal, NEW t, t = Journal'
               PROVE  Promised!Next
    OBVIOUS
  <1>1. /\ s \in Seq(Nat) /\ Up(s) /\ Elements(s) = WholeIds
        /\ t \in Seq(Nat) /\ Up(t) /\ Elements(t) = WholeIds'
    BY BothJournals
  <1>2. <<id>> \in Seq(Nat) /\ Up(<<id>>) /\ \A x : x \in Elements(<<id>>) <=> x = id
    <2>1. <<id>> \in Seq(Nat) /\ Len(<<id>>) = 1 /\ <<id>>[1] = id
      OBVIOUS
    <2>2. QED
      BY <2>1 DEF Up, Elements
  <1>3. \A x \in Elements(s), y \in Elements(<<id>>) : x < y
    BY <1>1, <1>2
  <1>4. /\ s \o <<id>> \in Seq(Nat) /\ Up(s \o <<id>>)
        /\ Elements(s \o <<id>>) = Elements(s) \cup Elements(<<id>>)
    BY <1>1, <1>2, <1>3, UpConcat
  <1>5. Elements(s \o <<id>>) = Elements(t)
    <2> DEFINE u == s \o <<id>>
    <2> HIDE DEF u
    <2>1. \A x : x \in Elements(u) <=> x \in Elements(t)
      BY <1>1, <1>2, <1>4 DEF u
    <2>2. Elements(u) = Elements(t)
      BY <2>1
    <2>3. QED
      BY <2>2 DEF u
  <1>6. t = s \o <<id>>
    BY <1>1, <1>4, <1>5, UpIsUnique
  <1>7. s \o <<id>> = Append(s, id)
    BY <1>1
  <1>8. \A i \in 1..Len(s) : s[i] < id
    BY <1>1 DEF Elements
  <1>9. AppendInDoubt' = TRUE
    BY BothJournals
  <1>10. Promised!Extend(id)
    BY <1>6, <1>7, <1>8, <1>9 DEF Promised!Extend
  <1>11. id \in 0..MaxRecords - 1
    BY WriterAssumption
  <1>12. QED
    BY <1>10, <1>11 DEF Promised!Next

\* The append is confirmed, or the process that would have to take it back has died.
LEMMA ConfirmsWhen ==
  ASSUME WriterInv, WriterInv', UNCHANGED <<stream, archives>>, ~AppendInDoubt'
  PROVE  Promised!Next \/ UNCHANGED <<Journal, AppendInDoubt>>
  <1>1. Journal' = Journal
    <2>1. \A x : x \in WholeIds' <=> x \in WholeIds
      BY WholeIdsFacts DEF WholeIds, InFiles, Stamps, IdsIn
    <2>2. QED
      BY <2>1, StaysWhen
  <1>2. CASE AppendInDoubt
    <2>1. AppendInDoubt' = FALSE
      BY BothJournals
    <2>2. Promised!Confirm
      BY <1>1, <1>2, <2>1 DEF Promised!Confirm
    <2>3. QED
      BY <2>2 DEF Promised!Next
  <1>3. CASE ~AppendInDoubt
    <2>1. AppendInDoubt' = AppendInDoubt
      BY <1>3, BothJournals
    <2>2. QED
      BY <1>1, <2>1
  <1>4. QED
    BY <1>2, <1>3

\* What reading the stream, and reading the archives, finds.
InStream(x)   == \E i \in 1..Len(stream) : stream[i].whole /\ stream[i].id = x
InArchives(x) == \E s \in Stamps : \E i \in 1..Len(archives[s]) : archives[s][i].id = x

\* A complete line is in an archive or in the stream, before and after a step.
LEMMA WhereItIs ==
  ASSUME NEW x
  PROVE  /\ x \in WholeIds <=> InArchives(x) \/ InStream(x)
         /\ x \in WholeIds' <=> InArchives(x)' \/ InStream(x)'
  <1>1. x \in InFiles <=>
              \/ \E s \in Stamps : \E i \in 1..Len(archives[s]) : archives[s][i].id = x
              \/ \E i \in 1..Len(stream) : stream[i].id = x
    BY InFilesFacts
  <1>2. x \in InFiles' <=>
              \/ \E s \in Stamps' : \E i \in 1..Len(archives'[s]) : archives'[s][i].id = x
              \/ \E i \in 1..Len(stream') : stream'[i].id = x
    BY InFilesFacts
  <1>3. QED
    BY <1>1, <1>2 DEF WholeIds, InArchives, InStream

LEMMA ChunkIds ==
  ASSUME NEW s \in Seq(Chunk)
  PROVE  \A i \in 1..Len(s) : s[i].id \in Nat
  <1>1. \A i \in 1..Len(s) : s[i] \in Chunk
    BY ElementOfSeq
  <1>2. QED
    BY <1>1 DEF Chunk

\* The archives hold older lines than the stream.
LEMMA ArchivesAreOlder ==
  ASSUME WriterInv, NEW x, NEW y, InArchives(x), InStream(y)
  PROVE  x < y /\ ~(y < x) /\ x # y /\ x \in Nat /\ y \in Nat
  <1>1. x < y
    BY DEF WriterInv, JournalOrder, InArchives, InStream
  <1>2. x \in Nat
    <2>1. PICK s \in Stamps : \E i \in 1..Len(archives[s]) : archives[s][i].id = x
      BY DEF InArchives
    <2>2. archives[s] \in Seq(Chunk)
      BY DEF WriterInv, TypeOK
    <2>3. QED
      BY <2>1, <2>2, ChunkIds
  <1>3. y \in Nat
    <2>1. \E i \in 1..Len(stream) : stream[i].id = y
      BY DEF InStream
    <2>2. stream \in Seq(Chunk)
      BY DEF WriterInv, TypeOK
    <2>3. QED
      BY <2>1, <2>2, ChunkIds
  <1>4. QED
    BY <1>1, <1>2, <1>3

\* Retention takes the oldest lines of the archives.
LEMMA OldestArePruned ==
  ASSUME WriterInv, NEW gone \in SUBSET Stamps, Prunes(archives, gone),
         Stamps' = Stamps \ gone, \A s \in Stamps' : archives'[s] = archives[s]
  PROVE  /\ \A x : InArchives(x)' => InArchives(x)
         /\ \A x, y : InArchives(x)' /\ InArchives(y) /\ x < y => InArchives(y)'
  <1>1. Stamps \subseteq Nat /\ IsFiniteSet(Stamps) /\ DOMAIN archives = Stamps
    BY DEF WriterInv, TypeOK, Stamps
  <1>2. \A x : InArchives(x)' <=>
          \E s \in Stamps \ gone : \E i \in 1..Len(archives[s]) : archives[s][i].id = x
    BY DEF InArchives
  <1>3. \A x : InArchives(x)' => InArchives(x)
    BY <1>2 DEF InArchives
  <1>4. ASSUME NEW x, NEW y, InArchives(x)', InArchives(y), x < y PROVE InArchives(y)'
    <2>1. PICK t \in Stamps \ gone : \E j \in 1..Len(archives[t]) : archives[t][j].id = x
      BY <1>2, <1>4
    <2>2. PICK s \in Stamps : \E i \in 1..Len(archives[s]) : archives[s][i].id = y
      BY <1>4 DEF InArchives
    <2>3. CASE s \in gone
      <3>1. s < t
        BY <1>1, <2>1, <2>3, PrunesOldest
      <3>2. y < x
        BY <2>1, <2>2, <3>1 DEF WriterInv, JournalOrder
      <3>3. x \in Nat /\ y \in Nat
        <4>1. archives[s] \in Seq(Chunk) /\ archives[t] \in Seq(Chunk)
          BY DEF WriterInv, TypeOK
        <4>2. QED
          BY <2>1, <2>2, <4>1, ChunkIds
      <3>4. QED
        BY <1>4, <3>2, <3>3
    <2>4. CASE s \notin gone
      BY <1>2, <2>2, <2>4
    <2>5. QED
      BY <2>3, <2>4
  <1>5. QED
    BY <1>3, <1>4

\* Retention alone forgets, ...
LEMMA ForgetsOldest ==
  ASSUME WriterInv, WriterInv', NEW gone \in SUBSET Stamps, Prunes(archives, gone),
         Stamps' = Stamps \ gone, \A s \in Stamps' : archives'[s] = archives[s],
         \A x : InStream(x)' <=> InStream(x), AppendInDoubt' <=> AppendInDoubt
  PROVE  Promised!Next
  <1>1. /\ \A x : InArchives(x)' => InArchives(x)
        /\ \A x, y : InArchives(x)' /\ InArchives(y) /\ x < y => InArchives(y)'
    BY OldestArePruned
  <1>2. \A x \in WholeIds' : x \in WholeIds
    BY <1>1, WhereItIs
  <1>3. ASSUME NEW x \in WholeIds', NEW y \in WholeIds, x < y PROVE y \in WholeIds'
    <2>1. CASE InStream(y)
      BY <2>1, WhereItIs
    <2>2. CASE InArchives(y) /\ InArchives(x)'
      BY <1>1, <1>3, <2>2, WhereItIs
    <2>3. CASE InArchives(y) /\ InStream(x)'
      BY <1>3, <2>3, ArchivesAreOlder
    <2>4. QED
      BY <2>1, <2>2, <2>3, WhereItIs
  <1>4. AppendInDoubt => \E x : x \in WholeIds'
    <2> SUFFICES ASSUME AppendInDoubt PROVE \E x : x \in WholeIds'
      OBVIOUS
    <2>1. stream[Len(stream)].whole /\ Len(stream) \in 1..Len(stream)
      BY InDoubtFacts
    <2>2. InStream(stream[Len(stream)].id)
      BY <2>1 DEF InStream
    <2>3. \E x : InStream(x)
      BY <2>2
    <2>4. QED
      BY <2>3, WhereItIs
  <1>5. QED
    BY <1>2, <1>3, <1>4, ForgetsWhen

\* ... and with a rollback it takes back the line in doubt.
LEMMA RetractsLast ==
  ASSUME WriterInv, WriterInv', NEW gone \in SUBSET Stamps, Prunes(archives, gone),
         Stamps' = Stamps \ gone, \A s \in Stamps' : archives'[s] = archives[s],
         AppendInDoubt, ~AppendInDoubt', NEW last, last = stream[Len(stream)].id,
         \A x : InStream(x)' <=> InStream(x) /\ x # last
  PROVE  Promised!Next
  <1>1. /\ \A x : InArchives(x)' => InArchives(x)
        /\ \A x, y : InArchives(x)' /\ InArchives(y) /\ x < y => InArchives(y)'
    BY OldestArePruned
  <1>2. InStream(last)
    <2>1. stream[Len(stream)].whole /\ Len(stream) \in 1..Len(stream)
      BY InDoubtFacts
    <2>2. QED
      BY <2>1 DEF InStream
  <1>3. \A x \in WholeIds' : x \in WholeIds /\ x # last
    <2>1. \A x : InArchives(x) => x # last
      BY <1>2, ArchivesAreOlder
    <2>2. QED
      BY <1>1, <2>1, WhereItIs
  <1>4. ASSUME NEW x \in WholeIds', NEW y \in WholeIds, x < y, y # last PROVE y \in WholeIds'
    <2>1. CASE InStream(y)
      BY <1>4, <2>1, WhereItIs
    <2>2. CASE InArchives(y) /\ InArchives(x)'
      BY <1>1, <1>4, <2>2, WhereItIs
    <2>3. CASE InArchives(y) /\ InStream(x)'
      BY <1>4, <2>3, ArchivesAreOlder
    <2>4. QED
      BY <2>1, <2>2, <2>3, WhereItIs
  <1>5. QED
    BY <1>3, <1>4, RetractsWhen

\* The files a step leaves alone.
LEMMA SameJournal ==
  ASSUME WriterInv, WriterInv', UNCHANGED <<stream, archives, rollback>>
  PROVE  UNCHANGED <<Journal, AppendInDoubt>>
  <1>1. \A x : x \in WholeIds' <=> x \in WholeIds
    BY WhereItIs DEF InArchives, InStream, Stamps
  <1>2. AppendInDoubt' = AppendInDoubt
    BY DEF AppendInDoubt
  <1>3. QED
    BY <1>1, <1>2, StaysWhen

\* open_stream() cuts what an append left, and only that.
LEMMA OpenCuts ==
  ASSUME WriterInv, NEW gone \in SUBSET Stamps, NEW stage \in Stages, OpenStream(gone, stage)
  PROVE  \A i \in 1..Len(stream) :
           i <= Len(stream') \/ ~stream[i].whole \/ (AppendInDoubt /\ i = Len(stream))
  <1>1. /\ stream \in Seq(Chunk) /\ Len(stream) \in Nat
        /\ rollback # None => rollback \in {Len(stream), Len(stream) - 1} /\ rollback \in Nat
        /\ \A i \in 1..Len(stream) : ~stream[i].whole => i = Len(stream)
    BY LenProperties DEF WriterInv, TypeOK, ControlInv, TornOnlyAtTheEnd
  <1> DEFINE m == IF rollback = None THEN Len(stream) ELSE rollback
  <1>2. m \in 0..Len(stream) /\ (m = Len(stream) \/ (m = Len(stream) - 1 /\ rollback = m /\ rollback # None))
    BY <1>1
  <1>3. AfterRollback = SubSeq(stream, 1, m)
    BY <1>1, SubSeqFull DEF AfterRollback
  <1> HIDE DEF m
  <1>4. /\ AfterRollback \in Seq(Chunk) /\ Len(AfterRollback) = m
        /\ \A i \in 1..m : AfterRollback[i] = stream[i]
    BY <1>1, <1>2, <1>3, PrefixFacts
  <1>5. \A i \in 1..Len(AfterRollback) : ~AfterRollback[i].whole => i = Len(AfterRollback)
    BY <1>1, <1>2, <1>4
  <1>6. PICK n \in 0..Len(AfterRollback) :
                          /\ Repair(AfterRollback) = SubSeq(AfterRollback, 1, n)
                          /\ \A i \in n+1..Len(AfterRollback) : ~AfterRollback[i].whole
    BY <1>4, <1>5, RepairFacts
  <1>7. Len(Repair(AfterRollback)) = n
    BY <1>4, <1>6, PrefixFacts
  <1> SUFFICES ASSUME NEW i \in 1..Len(stream), stream[i].whole, ~(AppendInDoubt /\ i = Len(stream))
               PROVE  i <= Len(stream')
    OBVIOUS
  <1>8. i <= m /\ i \in 1..m
    <2>1. CASE m = Len(stream)
      BY <1>1, <2>1
    <2>2. CASE m = Len(stream) - 1 /\ rollback = m /\ rollback # None
      <3>1. CASE i = Len(stream)
        <4>1. Len(stream) > rollback
          BY <1>1, <2>2
        <4>2. AppendInDoubt
          BY <2>2, <3>1, <4>1 DEF AppendInDoubt, Last
        <4>3. QED
          BY <3>1, <4>2
      <3>2. CASE i # Len(stream)
        BY <1>1, <2>2, <3>2
      <3>3. QED
        BY <3>1, <3>2
    <2>3. QED
      BY <1>2, <2>1, <2>2
  <1>9. i <= n
    <2> SUFFICES ASSUME ~(i <= n) PROVE FALSE
      OBVIOUS
    <2>1. i \in n+1..Len(AfterRollback)
      BY <1>2, <1>4, <1>8
    <2>2. QED
      BY <1>4, <1>6, <1>8, <2>1
  <1>10. CASE stage = "ready"
    <2>1. stream' = Repair(AfterRollback)
      BY <1>10 DEF OpenStream
    <2>2. QED
      BY <1>7, <1>9, <2>1
  <1>11. CASE stage = "tail"
    <2>1. stream' = AfterRollback
      BY <1>11 DEF OpenStream
    <2>2. QED
      BY <1>4, <1>8, <2>1
  <1>12. CASE stage \notin {"tail", "ready"}
    <2>1. stream' = stream
      BY <1>12 DEF OpenStream
    <2>2. QED
      BY <1>1, <2>1
  <1>13. QED
    BY <1>10, <1>11, <1>12

\* open_stream(), wherever it stopped.
LEMMA OpenKeepsPromise ==
  ASSUME WriterInv, WriterInv', NEW gone \in SUBSET Stamps, NEW stage \in Stages,
         OpenStream(gone, stage)
  PROVE  Promised!Next
  <1>1. /\ stream' \in Seq(Chunk) /\ Len(stream') \in 0..Len(stream)
        /\ \A i \in 1..Len(stream') : stream'[i] = stream[i]
        /\ rollback' # None => Len(stream') = Len(stream) /\ rollback' = rollback
        /\ rollback' = None /\ rollback # None => Len(stream') <= rollback
        /\ Stamps' = Stamps \ gone /\ archives' = [s \in Stamps \ gone |-> archives[s]]
    BY OpenStreamFacts
  <1>2. Prunes(archives, gone) /\ \A s \in Stamps' : archives'[s] = archives[s]
    BY <1>1 DEF OpenStream
  <1>3. \A i \in 1..Len(stream) :
          i <= Len(stream') \/ ~stream[i].whole \/ (AppendInDoubt /\ i = Len(stream))
    BY OpenCuts
  <1>4. stream \in Seq(Chunk) /\ Len(stream) \in Nat /\ Len(stream') \in Nat
    BY <1>1, LenProperties DEF WriterInv, TypeOK
  <1>5. \A x : InStream(x)' <=> \E i \in 1..Len(stream) : i <= Len(stream') /\ stream[i].whole /\ stream[i].id = x
    <2>1. \A i : i \in 1..Len(stream') <=> i \in 1..Len(stream) /\ i <= Len(stream')
      BY <1>1, <1>4
    <2>2. QED
      BY <1>1, <2>1 DEF InStream
  <1>6. CASE ~AppendInDoubt
    <2>1. \A x : InStream(x)' <=> InStream(x)
      BY <1>3, <1>5, <1>6 DEF InStream
    <2>2. ~AppendInDoubt'
      <3>0. AppendInDoubt' => rollback' # None /\ Len(stream') > rollback' /\ Last(stream').whole
        BY DEF AppendInDoubt
      <3> SUFFICES ASSUME AppendInDoubt' PROVE AppendInDoubt
        BY <1>6
      <3>1. Len(stream') = Len(stream) /\ rollback' = rollback
        BY <1>1, <3>0
      <3>2. rollback \in Nat
        BY <3>0, <3>1 DEF WriterInv, TypeOK
      <3>3. Len(stream) \in 1..Len(stream')
        BY <1>4, <3>0, <3>1, <3>2
      <3>4. Last(stream') = Last(stream)
        BY <1>1, <3>1, <3>3 DEF Last
      <3>5. QED
        BY <3>0, <3>1, <3>4 DEF AppendInDoubt
    <2>3. QED
      BY <1>1, <1>2, <1>6, <2>1, <2>2, ForgetsOldest
  <1>7. CASE AppendInDoubt /\ rollback' # None
    <2>1. Len(stream') = Len(stream) /\ rollback' = rollback
      BY <1>1, <1>7
    <2>2. \A x : InStream(x)' <=> InStream(x)
      <3>1. \A i \in 1..Len(stream) : i <= Len(stream')
        BY <1>4, <2>1
      <3>2. \A x : InStream(x)' <=> \E i \in 1..Len(stream) : stream[i].whole /\ stream[i].id = x
        BY <1>5, <3>1
      <3>3. QED
        BY <3>2 DEF InStream
    <2>3. Len(stream) \in 1..Len(stream')
      BY <1>4, <1>7, <2>1, InDoubtFacts
    <2>4. Last(stream') = Last(stream)
      BY <1>1, <2>1, <2>3 DEF Last
    <2>5. AppendInDoubt' <=> AppendInDoubt
      BY <2>1, <2>4 DEF AppendInDoubt
    <2>6. QED
      BY <1>1, <1>2, <2>2, <2>5, ForgetsOldest
  <1>8. CASE AppendInDoubt /\ rollback' = None
    <2> DEFINE last == stream[Len(stream)].id
    <2>1. ~AppendInDoubt'
      BY <1>8 DEF AppendInDoubt
    <2>2. /\ rollback = Len(stream) - 1 /\ Len(stream) > 0 /\ rollback # None
          /\ Len(stream) \in 1..Len(stream) /\ Ascending(stream)
      BY <1>4, <1>8, InDoubtFacts DEF WriterInv, JournalOrder, AppendInDoubt
    <2>3. Len(stream') < Len(stream)
      BY <1>1, <1>4, <1>8, <2>2
    <2>4. \A i \in 1..Len(stream) : i < Len(stream) => stream[i].id # last
      <3>1. \A i \in 1..Len(stream) : stream[i].id \in Nat
        BY <1>4, ChunkIds
      <3>2. \A i \in 1..Len(stream) : i < Len(stream) => stream[i].id < last
        BY <2>2 DEF Ascending
      <3>3. \A a, b \in Nat : a < b => a # b
        OBVIOUS
      <3>4. QED
        BY <2>2, <3>1, <3>2, <3>3
    <2>5. \A x : InStream(x)' <=> InStream(x) /\ x # last
      <3>1. \A i \in 1..Len(stream) : i <= Len(stream') => i < Len(stream)
        BY <1>4, <2>3
      <3>2. \A i \in 1..Len(stream) : stream[i].whole /\ stream[i].id # last => i <= Len(stream')
        BY <1>3
      <3> HIDE DEF last
      <3>3. \A i \in 1..Len(stream) :
              i <= Len(stream') /\ stream[i].whole <=> stream[i].whole /\ stream[i].id # last
        BY <2>4, <3>1, <3>2
      <3>4. \A x : InStream(x)' <=> \E i \in 1..Len(stream) : stream[i].whole /\ stream[i].id # last /\ stream[i].id = x
        BY <1>5, <3>3
      <3>5. QED
        BY <3>4 DEF InStream
    <2>6. QED
      BY <1>1, <1>2, <1>8, <2>1, <2>5, RetractsLast
  <1>9. QED
    BY <1>6, <1>7, <1>8

\* The worker starts: open_stream(), or prune() alone.
LEMMA RecoverKeepsPromise ==
  ASSUME WriterInv, WriterInv', Recover
  PROVE  Promised!Next
  <1>1. CASE \E gone \in SUBSET Stamps, stage \in Stages : OpenStream(gone, stage)
    BY <1>1, OpenKeepsPromise
  <1>2. CASE \E gone \in SUBSET Stamps :
               /\ Prunes(archives, gone) /\ archives' = Without(archives, gone)
               /\ UNCHANGED <<stream, rollback>>
    <2>1. PICK gone \in SUBSET Stamps :
               /\ Prunes(archives, gone) /\ archives' = Without(archives, gone)
               /\ UNCHANGED <<stream, rollback>>
      BY <1>2
    <2>2. Stamps' = Stamps \ gone /\ \A s \in Stamps' : archives'[s] = archives[s]
      BY <2>1 DEF Without, Stamps
    <2>3. \A x : InStream(x)' <=> InStream(x)
      BY <2>1 DEF InStream
    <2>4. AppendInDoubt' <=> AppendInDoubt
      BY <2>1 DEF AppendInDoubt
    <2>5. QED
      BY <2>1, <2>2, <2>3, <2>4, ForgetsOldest
  <1>3. QED
    BY <1>1, <1>2 DEF Recover

\* roll(): the stream becomes the newest archive, and the oldest ones are pruned.
LEMMA RollKeepsPromise ==
  ASSUME WriterInv, WriterInv', NEW now \in Clock, Roll(now)
  PROVE  Promised!Next
  <1> DEFINE stamp   == Stamp(now)
             renamed == [s \in Stamps \cup {stamp} |-> IF s = stamp THEN stream ELSE archives[s]]
  <1>1. stamp \in Nat /\ \A s \in Stamps : s < stamp
    BY StampIsNewest
  <1> HIDE DEF stamp
  <1>2. PICK gone \in SUBSET (Stamps \cup {stamp}) :
          Prunes(renamed, gone) /\ archives' = Without(renamed, gone)
    BY DEF Roll, stamp
  <1>3. stream' = <<>> /\ Len(stream') = 0 /\ rollback' = rollback /\ rollback = None
    BY DEF Roll, WriterInv, ControlInv
  <1>4. Stamps \subseteq Nat /\ IsFiniteSet(Stamps)
    BY DEF WriterInv, TypeOK
  <1>5. /\ DOMAIN renamed = Stamps \cup {stamp} /\ DOMAIN renamed \subseteq Nat
        /\ IsFiniteSet(DOMAIN renamed)
    <2>1. DOMAIN renamed = Stamps \cup {stamp}
      OBVIOUS
    <2>2. IsFiniteSet(Stamps \cup {stamp})
      BY <1>4, FS_AddElement
    <2>3. QED
      BY <1>1, <1>4, <2>1, <2>2
  <1>6. /\ renamed[stamp] = stream
        /\ \A s \in DOMAIN renamed : s # stamp => s \in Stamps /\ renamed[s] = archives[s]
        /\ \A s \in Stamps : s \in DOMAIN renamed /\ s # stamp /\ s < stamp
    BY <1>1, <1>4
  <1> HIDE DEF renamed
  <1>7. Stamps' = DOMAIN renamed \ gone /\ \A s \in Stamps' : archives'[s] = renamed[s]
    BY <1>2 DEF Without, Stamps
  <1>8. \A i \in 1..Len(stream) : stream[i].whole
    BY DEF Roll, WriterInv, ControlInv, TornInv
  <1>9. \A x : x \in WholeIds <=>
          \E s \in DOMAIN renamed : \E i \in 1..Len(renamed[s]) : renamed[s][i].id = x
    BY <1>5, <1>6, <1>8, WhereItIs DEF InArchives, InStream
  <1>10. \A x : x \in WholeIds' <=>
           \E s \in Stamps' : \E i \in 1..Len(renamed[s]) : renamed[s][i].id = x
    BY <1>3, <1>7, WhereItIs DEF InArchives, InStream
  <1>11. \A x \in WholeIds' : x \in WholeIds
    BY <1>7, <1>9, <1>10
  <1>12. ASSUME NEW x \in WholeIds', NEW y \in WholeIds, x < y, y \notin WholeIds' PROVE FALSE
    <2>1. PICK t \in Stamps' : \E j \in 1..Len(renamed[t]) : renamed[t][j].id = x
      BY <1>10
    <2>2. PICK s \in DOMAIN renamed : \E i \in 1..Len(renamed[s]) : renamed[s][i].id = y
      BY <1>9
    <2>3. s \in gone
      BY <1>7, <1>10, <1>12, <2>2
    <2>4. s < t /\ t \in DOMAIN renamed /\ t \notin gone
      BY <1>2, <1>5, <1>7, <2>3, PrunesOldest
    <2>5. s # stamp /\ s \in Stamps /\ renamed[s] = archives[s]
      <3>1. s = stamp => ~(s < t)
        BY <1>1, <1>5, <1>6, <2>4
      <3>2. QED
        BY <1>6, <2>4, <3>1
    <2>6. y < x
      <3>1. CASE t = stamp
        BY <1>6, <2>1, <2>2, <2>5, <3>1 DEF WriterInv, JournalOrder
      <3>2. CASE t # stamp
        <4>1. t \in Stamps /\ renamed[t] = archives[t]
          BY <1>6, <2>4, <3>2
        <4>2. QED
          BY <2>1, <2>2, <2>4, <2>5, <4>1 DEF WriterInv, JournalOrder
      <3>3. QED
        BY <3>1, <3>2
    <2>7. x \in Nat /\ y \in Nat
      <3>1. \A z \in WholeIds : z \in Nat
        <4>1. PICK held : held \in Seq(Nat) /\ Elements(held) = WholeIds
          BY BothJournals
        <4>2. \A i \in 1..Len(held) : held[i] \in Nat
          BY <4>1, ElementOfSeq
        <4>3. QED
          BY <4>1, <4>2 DEF Elements
      <3>2. QED
        BY <1>11, <3>1
    <2>8. QED
      BY <1>12, <2>6, <2>7
  <1>13. ~AppendInDoubt /\ ~AppendInDoubt'
    BY <1>3 DEF AppendInDoubt
  <1>14. QED
    BY <1>11, <1>12, <1>13, ForgetsWhen

\* The append of the record in hand, which is newer than every line there is.
LEMMA InHandIsNewest ==
  ASSUME WriterInv, nextId <= MaxRecords, pc \in {"write", "writing"}
  PROVE  /\ inHand.id \in Nat /\ inHand.id < MaxRecords
         /\ \A x \in WholeIds : x \in Nat /\ x <= inHand.id
         /\ pc = "write" => inHand.id \notin WholeIds
  <1>1. inHand \in Record /\ inHand # None
    BY InHandIsNotFiledYet, WriterAssumption DEF Record
  <1>2. inHand.id \in Nat /\ inHand.id < nextId /\ nextId \in Nat
    BY <1>1 DEF WriterInv, FreshIds, Record, TypeOK
  <1>3. \A x \in WholeIds : x \in Used
    BY DEF WholeIds, Used
  <1>4. Used \subseteq Nat
    BY UsedFacts DEF WriterInv
  <1>5. /\ \A u \in Used : u <= inHand.id
        /\ pc # "writing" => inHand.id \notin Used
    BY <1>1 DEF WriterInv, FreshIds
  <1>6. inHand.id < MaxRecords
    BY <1>2, WriterAssumption
  <1>7. QED
    BY <1>2, <1>3, <1>4, <1>5, <1>6

\* What is in the archives does not change with the stream.
LEMMA SameArchives ==
  ASSUME UNCHANGED archives
  PROVE  \A x : InArchives(x)' <=> InArchives(x)
  BY DEF InArchives, Stamps

\* write(): the bytes of a line, all of them or the first ones only.
LEMMA AppendBytesKeepsPromise ==
  ASSUME WriterInv, WriterInv', nextId <= MaxRecords, NEW whole \in BOOLEAN, AppendBytes(whole)
  PROVE  Promised!Next \/ UNCHANGED <<Journal, AppendInDoubt>>
  <1> DEFINE c == [id |-> inHand.id, len |-> IF whole THEN inHand.len ELSE 1, whole |-> whole]
  <1>1. /\ pc = "write" /\ rollback' = Len(stream) /\ stream' = Append(stream, c)
        /\ archives' = archives
    BY DEF AppendBytes
  <1>2. inHand \in Record /\ rollback = None /\ stream \in Seq(Chunk) /\ Len(stream) \in Nat
    BY <1>1, InHandIsNotFiledYet, LenProperties DEF WriterInv, TypeOK
  <1>3. c \in Chunk /\ c.id = inHand.id /\ c.whole = whole
    BY <1>2 DEF Record, Chunk
  <1> HIDE DEF c
  <1>4. /\ Len(stream') = Len(stream) + 1 /\ stream'[Len(stream) + 1] = c
        /\ \A i \in 1..Len(stream) : stream'[i] = stream[i]
    BY <1>1, <1>2, <1>3, AppendProperties
  <1>5. \A i : i \in 1..Len(stream') <=> i \in 1..Len(stream) \/ i = Len(stream) + 1
    BY <1>2, <1>4
  <1>6. \A x : InStream(x)' <=> InStream(x) \/ (whole /\ x = inHand.id)
    BY <1>3, <1>4, <1>5 DEF InStream
  <1>7. \A x : x \in WholeIds' <=> x \in WholeIds \/ (whole /\ x = inHand.id)
    BY <1>1, <1>6, SameArchives, WhereItIs
  <1>8. ~AppendInDoubt /\ (AppendInDoubt' <=> whole)
    <2>1. rollback' # None /\ Len(stream') > rollback'
      BY <1>1, <1>2, <1>4, WriterAssumption
    <2>2. Last(stream').whole = whole
      BY <1>3, <1>4 DEF Last
    <2>3. QED
      BY <1>2, <2>1, <2>2 DEF AppendInDoubt
  <1>9. /\ inHand.id \in Nat /\ inHand.id < MaxRecords /\ inHand.id \notin WholeIds
        /\ \A x \in WholeIds : x \in Nat /\ x <= inHand.id
    BY <1>1, InHandIsNewest
  <1>10. \A x \in WholeIds : x < inHand.id
    <2>1. \A a, b \in Nat : a <= b /\ a # b => a < b
      OBVIOUS
    <2>2. QED
      BY <1>9, <2>1
  <1>11. CASE whole
    BY <1>7, <1>8, <1>9, <1>10, <1>11, ExtendsWhen
  <1>12. CASE ~whole
    <2>1. AppendInDoubt' = AppendInDoubt
      BY <1>8, <1>12, BothJournals
    <2>2. QED
      BY <1>7, <1>12, <2>1, StaysWhen
  <1>13. QED
    BY <1>11, <1>12

\* The rest of the bytes: the torn chunk becomes a line.
LEMMA AppendRestKeepsPromise ==
  ASSUME WriterInv, WriterInv', nextId <= MaxRecords, AppendRest
  PROVE  Promised!Next
  <1> DEFINE c == [stream[Len(stream)] EXCEPT !.len = inHand.len, !.whole = TRUE]
  <1>1. /\ pc = "writing" /\ ~Last(stream).whole /\ rollback' = rollback /\ archives' = archives
        /\ stream' = [stream EXCEPT ![Len(stream)] = c]
    BY DEF AppendRest, control
  <1>2. /\ inHand \in Record /\ rollback = Len(stream) - 1
        /\ Len(stream) \in Nat \ {0} /\ Len(stream) \in 1..Len(stream)
        /\ stream[Len(stream)].id = inHand.id /\ rollback # None
    <2>1. inHand \in Record /\ rollback = Len(stream) - 1 /\ Len(stream) \in Nat \ {0}
      BY <1>1, InHandIsNotFiledYet
    <2>2. Len(stream) \in 1..Len(stream) /\ Len(stream) - 1 \in Nat
      BY <2>1
    <2>3. stream[Len(stream)].id = inHand.id
      BY <1>1 DEF WriterInv, ControlInv
    <2>4. QED
      BY <2>1, <2>2, <2>3, WriterAssumption
  <1>3. stream \in Seq(Chunk) /\ stream[Len(stream)] \in Chunk
    BY <1>2, ElementOfSeq DEF WriterInv, TypeOK
  <1>4. c \in Chunk /\ c.id = inHand.id /\ c.whole
    BY <1>2, <1>3 DEF Chunk, Record
  <1> HIDE DEF c
  <1>5. /\ Len(stream') = Len(stream)
        /\ \A i \in 1..Len(stream) : stream'[i] = IF i = Len(stream) THEN c ELSE stream[i]
    BY <1>1, <1>2, <1>3, <1>4, ExceptSeq
  <1>6. \A i \in 1..Len(stream) : stream[i].whole => i # Len(stream)
    BY <1>1 DEF Last
  <1>7. \A x : InStream(x)' <=> InStream(x) \/ x = inHand.id
    BY <1>2, <1>4, <1>5, <1>6 DEF InStream
  <1>8. \A x : x \in WholeIds' <=> x \in WholeIds \/ x = inHand.id
    BY <1>1, <1>7, SameArchives, WhereItIs
  <1>9. ~AppendInDoubt /\ AppendInDoubt'
    <2>1. rollback' # None /\ Len(stream') > rollback'
      BY <1>1, <1>2, <1>5
    <2>2. Last(stream').whole
      BY <1>2, <1>4, <1>5 DEF Last
    <2>3. QED
      BY <1>1, <2>1, <2>2 DEF AppendInDoubt
  <1>10. /\ inHand.id \in Nat /\ inHand.id < MaxRecords
         /\ \A x \in WholeIds : x \in Nat /\ x <= inHand.id
    BY <1>1, InHandIsNewest
  <1>11. inHand.id \notin WholeIds
    <2>1. ~InStream(inHand.id)
      <3>1. \A i \in 1..Len(stream) : stream[i].id = inHand.id => i = Len(stream)
        BY <1>1, InHandIsNotFiledYet
      <3>2. QED
        BY <1>6, <3>1 DEF InStream
    <2>2. ~InArchives(inHand.id)
      BY <1>1, InHandIsNotFiledYet DEF InArchives
    <2>3. QED
      BY <2>1, <2>2, WhereItIs
  <1>12. \A x \in WholeIds : x < inHand.id
    <2>1. \A a, b \in Nat : a <= b /\ a # b => a < b
      OBVIOUS
    <2>2. QED
      BY <1>10, <1>11, <2>1
  <1>13. QED
    BY <1>8, <1>9, <1>10, <1>12, ExtendsWhen

\* A call raised: the file is truncated at once, or a later open_stream() will do it.
LEMMA AppendFailsKeepsPromise ==
  ASSUME WriterInv, WriterInv', NEW truncated \in BOOLEAN, AppendFails(truncated)
  PROVE  Promised!Next \/ UNCHANGED <<Journal, AppendInDoubt>>
  <1> DEFINE offset == IF pc = "write" THEN Len(stream) ELSE rollback
  <1>1. /\ pc \in {"write", "writing"} /\ archives' = archives
        /\ \/ stream' = SubSeq(stream, 1, offset) /\ rollback' = None
           \/ rollback' = offset /\ stream' = stream
    BY DEF AppendFails
  <1>2. /\ stream \in Seq(Chunk) /\ Len(stream) \in Nat
        /\ pc = "write" => rollback = None
        /\ pc = "writing" => rollback = Len(stream) - 1 /\ Len(stream) \in Nat \ {0} /\ rollback # None
        /\ \A i \in 1..Len(stream) : ~stream[i].whole => i = Len(stream) /\ pc = "writing"
    <2>1. /\ pc = "write" => rollback = None
          /\ pc = "writing" => rollback = Len(stream) - 1 /\ Len(stream) \in Nat \ {0}
          /\ handle
      BY <1>1, InHandIsNotFiledYet
    <2>2. stream \in Seq(Chunk) /\ Len(stream) \in Nat
      BY LenProperties DEF WriterInv, TypeOK
    <2>3. \A i \in 1..Len(stream) : ~stream[i].whole => i = Len(stream) /\ pc = "writing"
      BY <2>1 DEF WriterInv, TornInv
    <2>4. pc = "writing" => rollback # None
      BY <2>1, WriterAssumption
    <2>5. QED
      BY <2>1, <2>2, <2>3, <2>4
  <1>3. CASE rollback' = offset /\ stream' = stream
    <2>1. \A x : x \in WholeIds' <=> x \in WholeIds
      BY <1>1, <1>3, SameArchives, WhereItIs DEF InStream
    <2>2. AppendInDoubt' <=> AppendInDoubt
      <3>1. CASE pc = "write"
        <4>1. ~AppendInDoubt
          BY <1>2, <3>1 DEF AppendInDoubt
        <4>2. ~(Len(stream') > rollback')
          BY <1>2, <1>3, <3>1
        <4>3. QED
          BY <4>1, <4>2 DEF AppendInDoubt
      <3>2. CASE pc = "writing"
        BY <1>3, <3>2 DEF AppendInDoubt
      <3>3. QED
        BY <1>1, <3>1, <3>2
    <2>3. AppendInDoubt' = AppendInDoubt
      BY <2>2, BothJournals
    <2>4. QED
      BY <2>1, <2>3, StaysWhen
  <1>4. CASE stream' = SubSeq(stream, 1, offset) /\ rollback' = None
    <2>1. ~AppendInDoubt'
      BY <1>4 DEF AppendInDoubt
    <2>2. CASE pc = "write"
      <3>1. stream' = stream
        BY <1>2, <1>4, <2>2, SubSeqFull
      <3>2. ~AppendInDoubt
        BY <1>2, <2>2 DEF AppendInDoubt
      <3>3. \A x : x \in WholeIds' <=> x \in WholeIds
        BY <1>1, <3>1, SameArchives, WhereItIs DEF InStream
      <3>4. AppendInDoubt' = AppendInDoubt
        BY <2>1, <3>2, BothJournals
      <3>5. QED
        BY <3>3, <3>4, StaysWhen
    <2>3. CASE pc = "writing"
      <3>1. offset \in 0..Len(stream) /\ offset = Len(stream) - 1
        BY <1>2, <2>3
      <3> HIDE DEF offset
      <3>2. Len(stream') = offset /\ \A i \in 1..offset : stream'[i] = stream[i]
        BY <1>2, <1>4, <3>1, PrefixFacts
      <3>3. \A i : i \in 1..Len(stream') <=> i \in 1..Len(stream) /\ i # Len(stream)
        BY <1>2, <3>1, <3>2
      <3>4. \A x : InStream(x)' <=> \E i \in 1..Len(stream) : i # Len(stream) /\ stream[i].whole /\ stream[i].id = x
        BY <3>2, <3>3 DEF InStream
      <3>5. Len(stream) \in 1..Len(stream)
        BY <1>2, <2>3
      <3>6. CASE Last(stream).whole
        <4>1. AppendInDoubt
          BY <1>2, <2>3, <3>6 DEF AppendInDoubt
        <4>2. stream[Len(stream)].id = inHand.id
          BY <2>3 DEF WriterInv, ControlInv
        <4>3. \A i \in 1..Len(stream) : stream[i].id = inHand.id => i = Len(stream)
          BY <1>1, InHandIsNotFiledYet
        <4>4. \A x : InStream(x)' <=> InStream(x) /\ x # inHand.id
          BY <3>4, <4>2, <4>3 DEF InStream
        <4>5. /\ {} \in SUBSET Stamps /\ Prunes(archives, {}) /\ Stamps' = Stamps \ {}
              /\ \A s \in Stamps' : archives'[s] = archives[s]
          BY <1>1, PrunesNothing DEF Stamps
        <4>6. Promised!Next
          BY <2>1, <4>1, <4>2, <4>4, <4>5, RetractsLast
        <4>7. QED
          BY <4>6
      <3>7. CASE ~Last(stream).whole
        <4>1. \A x : InStream(x)' <=> InStream(x)
          BY <3>4, <3>7 DEF InStream, Last
        <4>2. \A x : x \in WholeIds' <=> x \in WholeIds
          BY <1>1, <4>1, SameArchives, WhereItIs
        <4>3. ~AppendInDoubt
          BY <3>7 DEF AppendInDoubt
        <4>4. AppendInDoubt' = AppendInDoubt
          BY <2>1, <4>3, BothJournals
        <4>5. QED
          BY <4>2, <4>4, StaysWhen
      <3>8. QED
        BY <3>6, <3>7
    <2>4. QED
      BY <1>1, <2>2, <2>3
  <1>5. QED
    BY <1>1, <1>3, <1>4

\* submit() numbers no more records than the model's bound.
LEMMA FewRecords == WriterInv /\ nextId <= MaxRecords /\ [Next]_vars => nextId' <= MaxRecords
  <1> SUFFICES ASSUME WriterInv, nextId <= MaxRecords, [Next]_vars PROVE nextId' <= MaxRecords
    OBVIOUS
  <1>1. ASSUME NEW shape \in Shapes, Submit(shape) PROVE nextId' <= MaxRecords
    BY <1>1, WriterAssumption DEF Submit, WriterInv, TypeOK
  <1>2. CASE Recover \/ Take \/ LeaveLoop \/ Refuse \/ UseHandle \/ OpenFirst \/ Reopen \/ KeepSegment
    BY <1>2 DEF Recover, Take, LeaveLoop, Refuse, UseHandle, OpenFirst, Reopen, OpenFor, KeepSegment,
       intake, history
  <1>3. ASSUME NEW now \in Clock, Roll(now) PROVE nextId' <= MaxRecords
    BY <1>3 DEF Roll, intake
  <1>4. ASSUME NEW whole \in BOOLEAN, AppendBytes(whole) PROVE nextId' <= MaxRecords
    BY <1>4 DEF AppendBytes, intake
  <1>5. ASSUME NEW truncated \in BOOLEAN, AppendFails(truncated) PROVE nextId' <= MaxRecords
    BY <1>5 DEF AppendFails, intake
  <1>6. CASE RenameFails \/ AppendRest \/ AppendDone \/ StopIntake \/ WorkerDiscards \/ WorkerEnds
    BY <1>6 DEF RenameFails, AppendRest, AppendDone, StopIntake, WorkerDiscards, WorkerEnds, intake,
       history
  <1>7. CASE CloseBegins \/ Closer \/ Restart
    BY <1>7 DEF CloseBegins, Closer, CloseJoins, CloseTimesOut, CloserDiscards, CloserReturns, Restart,
       history
  <1>8. CASE UNCHANGED vars
    BY <1>8 DEF vars, history
  <1>9. QED
    BY <1>1, <1>2, <1>3, <1>4, <1>5, <1>6, <1>7, <1>8 DEF Next, Worker, Terminated

\* Every step of the writer is a step of the journal, or leaves it as it was.
LEMMA PromiseStep ==
  WriterInv /\ nextId <= MaxRecords /\ [Next]_vars =>
    Promised!Next \/ UNCHANGED <<Journal, AppendInDoubt>>
  <1> SUFFICES ASSUME WriterInv, nextId <= MaxRecords, [Next]_vars
               PROVE  Promised!Next \/ UNCHANGED <<Journal, AppendInDoubt>>
    OBVIOUS
  <1>0. WriterInv'
    BY WriterStep
  <1>1. CASE UNCHANGED <<stream, archives, rollback>>
    BY <1>0, <1>1, SameJournal
  <1>2. ASSUME NEW shape \in Shapes, Submit(shape) PROVE UNCHANGED <<stream, archives, rollback>>
    BY <1>2 DEF Submit, disk, control
  <1>3. CASE Recover
    BY <1>0, <1>3, RecoverKeepsPromise
  <1>4. ASSUME Take \/ LeaveLoop \/ Refuse \/ UseHandle \/ KeepSegment \/ RenameFails \/ StopIntake
             \/ WorkerDiscards \/ WorkerEnds
        PROVE  UNCHANGED <<stream, archives, rollback>>
    BY <1>4 DEF Take, LeaveLoop, Refuse, UseHandle, KeepSegment, RenameFails,
       StopIntake, WorkerDiscards, WorkerEnds, disk, control
  <1>5. CASE OpenFirst \/ Reopen
    <2>1. PICK gone \in SUBSET Stamps, stage \in Stages : OpenStream(gone, stage)
      BY <1>5 DEF OpenFirst, Reopen, OpenFor
    <2>2. QED
      BY <1>0, <2>1, OpenKeepsPromise
  <1>6. ASSUME NEW now \in Clock, Roll(now) PROVE Promised!Next
    BY <1>0, <1>6, RollKeepsPromise
  <1>7. ASSUME NEW whole \in BOOLEAN, AppendBytes(whole)
        PROVE  Promised!Next \/ UNCHANGED <<Journal, AppendInDoubt>>
    BY <1>0, <1>7, AppendBytesKeepsPromise
  <1>8. CASE AppendRest
    BY <1>0, <1>8, AppendRestKeepsPromise
  <1>9. CASE AppendDone \/ Restart
    <2>1. UNCHANGED <<stream, archives>> /\ rollback' = None
      BY <1>9 DEF AppendDone, Restart, disk
    <2>2. ~AppendInDoubt'
      BY <2>1 DEF AppendInDoubt
    <2>3. QED
      BY <1>0, <2>1, <2>2, ConfirmsWhen
  <1>10. ASSUME NEW truncated \in BOOLEAN, AppendFails(truncated)
         PROVE  Promised!Next \/ UNCHANGED <<Journal, AppendInDoubt>>
    BY <1>0, <1>10, AppendFailsKeepsPromise
  <1>11. ASSUME CloseBegins \/ CloseJoins \/ CloseTimesOut \/ CloserDiscards \/ CloserReturns
         PROVE  UNCHANGED <<stream, archives, rollback>>
    BY <1>11 DEF CloseBegins, CloseJoins, CloseTimesOut, CloserDiscards, CloserReturns, disk, control
  <1>12. ASSUME UNCHANGED vars PROVE UNCHANGED <<stream, archives, rollback>>
    BY <1>12 DEF vars, disk, control
  <1>13. QED
    BY <1>1, <1>2, <1>3, <1>4, <1>5, <1>6, <1>7, <1>8, <1>9, <1>10, <1>11, <1>12
       DEF Next, Worker, Closer, Terminated

\* A Writer just constructed has an empty journal and no append in doubt.
LEMMA PromiseInit == Init => nextId <= MaxRecords /\ Promised!Init
  <1> SUFFICES ASSUME Init PROVE nextId <= MaxRecords /\ Promised!Init
    OBVIOUS
  <1>1. nextId <= MaxRecords
    BY WriterAssumption DEF Init
  <1>2. WriterInv
    BY WriterInit
  <1>3. ~AppendInDoubt /\ AppendInDoubt \in BOOLEAN
    BY DEF Init, AppendInDoubt
  <1>4. \A x : x \notin WholeIds
    <2>1. Len(stream) = 0 /\ Stamps = {}
      BY DEF Init, Stamps
    <2>2. QED
      BY <2>1, WhereItIs DEF InArchives, InStream
  <1> SUFFICES ASSUME NEW s, s = Journal PROVE Promised!Init
    BY <1>1
  <1>5. s \in Seq(Nat) /\ Elements(s) = WholeIds
    BY <1>2, JournalFacts
  <1>6. s = <<>>
    <2>1. \A i \in 1..Len(s) : FALSE
      BY <1>4, <1>5 DEF Elements
    <2>2. Len(s) = 0
      <3>1. Len(s) \in Nat
        BY <1>5, LenProperties
      <3>2. QED
        BY <2>1, <3>1
    <2>3. QED
      BY <1>5, <2>2, EmptySeq
  <1>7. QED
    BY <1>3, <1>6 DEF Promised!Init

\* Whatever the disk, the clock and the crashes do, a reader of the files sees what
\* RetainedJournal promises.
THEOREM WriterKeepsTheJournal == Spec => KeepsTheJournal
  <1> DEFINE I == WriterInv /\ nextId <= MaxRecords
  <1>1. Init => I /\ Promised!Init
    BY WriterInit, PromiseInit
  <1>2. I /\ [Next]_vars => I' /\ [Promised!Next]_<<Journal, AppendInDoubt>>
    BY WriterStep, FewRecords, PromiseStep
  <1>3. QED
    BY <1>1, <1>2, PTL DEF Spec, KeepsTheJournal, Promised!Spec

\* The same of the behaviours of the journal's run.
THEOREM WriterKeepsTheJournalInJournal == JournalSpec => KeepsTheJournal
  <1> DEFINE I == WriterInv /\ nextId <= MaxRecords
  <1>1. JournalInit => I /\ Promised!Init
    BY WriterInit, PromiseInit DEF JournalInit
  <1>2. I /\ [JournalNext]_<<part, vars, scanVars, hookVars>> =>
          I' /\ [Promised!Next]_<<Journal, AppendInDoubt>>
    <2>1. [JournalNext]_<<part, vars, scanVars, hookVars>> => [Next]_vars
      BY DEF JournalNext
    <2>2. QED
      BY <2>1, WriterStep, FewRecords, PromiseStep
  <1>3. QED
    BY <1>1, <1>2, PTL DEF JournalSpec, KeepsTheJournal, Promised!Spec

=============================================================================
