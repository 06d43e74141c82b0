---------------------------- MODULE CaptureWriter ----------------------------
(***************************************************************************)
(* The capture writer of tap_core/capture.py (class Writer): mitmproxy     *)
(* hooks submit records to a bounded queue, one worker thread appends them *)
(* to data/stream.jsonl, rotates that file into numbered archives and      *)
(* prunes the oldest ones, and close() drains or abandons the queue.       *)
(*                                                                         *)
(* A file is a sequence of chunks, in file order.  A chunk is what one     *)
(* append put there: a complete line, or the torn beginning of one, which  *)
(* has no newline.  The process can die between any two steps; the files   *)
(* survive, the queue and the counters do not.                             *)
(***************************************************************************)
EXTENDS Integers, Sequences, FiniteSets, SequencesExt

CONSTANTS
  Shapes,        \* what a submitted record can look like: its estimated size and line length
  None,          \* no record in hand, no rollback pending
  QueueSlots,    \* capture.queue_slots
  QueueBytes,    \* capture.queue_bytes
  SegmentBytes,  \* capture.segment_bytes, the rotation threshold
  KeepRolls,     \* capture.keep_rolls, the archives retention keeps
  LineLimit,     \* MAX_RECORD_BYTES, the longest line a journal reader accepts
  Clock,         \* the values time.time_ns() can return, in any order
  MaxRecords,    \* bound: records submitted over all processes
  MaxRestarts    \* bound: times the process dies and is started again

\* capture_limits: positive limits, a nonnegative keep_rolls; a line is at least "{}\n".
ASSUME WriterAssumption ==
  /\ Shapes \subseteq [size : Nat \ {0}, len : Nat \ {0, 1}]
  /\ QueueSlots \in Nat \ {0} /\ QueueBytes \in Nat \ {0}
  /\ SegmentBytes \in Nat \ {0} /\ KeepRolls \in Nat /\ LineLimit \in Nat \ {0}
  /\ Clock \subseteq Nat
  /\ MaxRecords \in Nat /\ MaxRestarts \in Nat
  /\ None \notin Nat /\ None \notin [id : Nat, size : Nat, len : Nat]

VARIABLES
  stream,       \* the chunks of stream.jsonl, <<>> when it does not exist
  exists,       \* stream.jsonl exists
  archives,     \* stamp -> chunks, the files stream.jsonl.<stamp>
  queue,        \* self.queue
  queuedBytes,  \* self.queued_bytes
  inHand,       \* the record the worker took from the queue
  pc,           \* where the worker thread is
  handle,       \* the worker holds an open handle of stream.jsonl
  rollback,     \* self.rollback_offset, as a number of chunks
  stopping,     \* self.stopping
  abandon,      \* self.abandon
  closer,       \* where the thread that calls close() is
  written,      \* self.written
  dropped,      \* self.dropped
  offered,      \* history: submit() calls of this process
  repaired,     \* history: torn tails this process discarded
  confirmed,    \* history: ids whose append returned success, in any process
  failed,       \* history: ids whose append raised, in this process
  nextId,       \* history: ids are given in submission order
  restarts      \* history: processes that died

disk    == <<stream, exists, archives>>
control == <<handle, rollback, stopping, abandon>>
history == <<offered, repaired, confirmed, failed, nextId, restarts>>
vars    == <<disk, queue, queuedBytes, inHand, pc, control, closer, written, dropped, history>>

Record == [id : Nat, size : Nat, len : Nat]
Chunk  == [id : Nat, len : Nat, whole : BOOLEAN]
Stamps == DOMAIN archives

\* The worker has a record in hand from the get() to the finally of one turn of its loop.
Busy == {"taken", "fit", "reopen", "write", "writing"}
PCs  == Busy \cup {"start", "loop", "final", "drain", "done"}

TypeOK ==
  /\ stream \in Seq(Chunk) /\ exists \in BOOLEAN
  /\ Stamps \subseteq Nat /\ IsFiniteSet(Stamps) /\ archives \in [Stamps -> Seq(Chunk)]
  /\ queue \in Seq(Record) /\ queuedBytes \in Int
  /\ inHand \in IF pc \in Busy THEN Record ELSE {None}
  /\ pc \in PCs /\ handle \in BOOLEAN /\ rollback \in Nat \cup {None}
  /\ stopping \in BOOLEAN /\ abandon \in BOOLEAN
  /\ closer \in {"running", "joining", "discarding", "returned"}
  /\ written \in Nat /\ dropped \in Nat /\ offered \in Nat /\ repaired \in Nat
  /\ confirmed \subseteq Nat /\ failed \subseteq Nat /\ nextId \in Nat /\ restarts \in Nat

Init ==
  /\ stream = <<>> /\ exists = FALSE /\ archives = [s \in {} |-> <<>>]
  /\ queue = <<>> /\ queuedBytes = 0 /\ inHand = None
  /\ pc = "start" /\ handle = FALSE /\ rollback = None
  /\ stopping = FALSE /\ abandon = FALSE /\ closer = "running"
  /\ written = 0 /\ dropped = 0 /\ offered = 0 /\ repaired = 0
  /\ confirmed = {} /\ failed = {} /\ nextId = 0 /\ restarts = 0

-----------------------------------------------------------------------------
(* submit(), called by mitmproxy hooks, under self.lock.                     *)

\* Mutants: an intake that ignores shutdown; one that checks the budget before adding.
AcceptsLate(size)       == queuedBytes + size <= QueueBytes /\ Len(queue) < QueueSlots
Accepts(size) == ~stopping /\ queuedBytes + size <= QueueBytes /\ Len(queue) < QueueSlots

Submit(shape) ==
  LET r == [id |-> nextId, size |-> shape.size, len |-> shape.len] IN
  /\ nextId < MaxRecords
  /\ nextId' = nextId + 1 /\ offered' = offered + 1
  /\ \/ /\ Accepts(r.size)
        /\ queue' = Append(queue, r) /\ queuedBytes' = queuedBytes + r.size
        /\ UNCHANGED dropped
     \/ /\ ~Accepts(r.size)
        /\ dropped' = dropped + 1
        /\ UNCHANGED <<queue, queuedBytes>>
  /\ UNCHANGED <<disk, inHand, pc, control, closer, written, repaired, confirmed, failed, restarts>>

-----------------------------------------------------------------------------
(* The files: prune(), roll() and open_stream().                             *)

\* What prune() has to unlink: every archive but the KeepRolls newest; a mutant that
\* starts from the wrong end.
NewestToo(A) == {s \in DOMAIN A : Cardinality({t \in DOMAIN A : t < s}) >= KeepRolls}
Victims(A)   == {s \in DOMAIN A : Cardinality({t \in DOMAIN A : t > s}) >= KeepRolls}

\* prune() unlinks the victims oldest first and stops at the first unlink that fails.
Prunes(A, gone) ==
  gone \subseteq Victims(A) /\ \A s \in gone, t \in Victims(A) : t < s => t \in gone

Without(A, gone) == [s \in DOMAIN A \ gone |-> A[s]]

\* The name roll() gives the new archive: the clock, raised above every existing name;
\* a mutant that only avoids the names in use.
FreeStamp(now) ==
  CHOOSE s \in now..now + Cardinality(Stamps) : s \notin Stamps /\ \A t \in now..s-1 : t \in Stamps

Stamp(now) ==
  IF \A s \in Stamps : s < now THEN now
                               ELSE (CHOOSE s \in Stamps : \A t \in Stamps : t <= s) + 1

\* Where open_stream() raised, or "ready" when it returned a handle.
Stages == {"prune", "open", "rollback", "tail", "ready"}

\* The rollback an earlier append left; a mutant that cuts one line too many.
RollbackTooFar == IF rollback = None THEN stream ELSE SubSeq(stream, 1, rollback - 1)
AfterRollback  == IF rollback = None THEN stream ELSE SubSeq(stream, 1, rollback)

\* The file up to its last newline; a mutant that leaves the torn tail.
LastNewline(s) == CHOOSE n \in 0..Len(s) : /\ n > 0 => s[n].whole
                                           /\ \A i \in n+1..Len(s) : ~s[i].whole
NoRepair(s) == s
Repair(s)   == SubSeq(s, 1, LastNewline(s))

\* A discarded tail counts as one dropped record.
Discarded(stage) == IF stage = "ready" /\ Repair(AfterRollback) # AfterRollback THEN 1 ELSE 0

\* Mutants: open_stream() that goes on after a failed prune, and one that forgets the rollback.
OpenUnpruned(gone, stage) ==
  /\ Prunes(archives, gone) /\ stage \in Stages \ {"prune"}
  /\ archives' = Without(archives, gone)
  /\ exists' = (exists \/ stage # "open")
  /\ stream' = (CASE stage = "tail" -> AfterRollback
                  [] stage = "ready" -> Repair(AfterRollback)
                  [] OTHER -> stream)
  /\ rollback' = IF stage \in {"tail", "ready"} THEN None ELSE rollback
  /\ handle' = (stage = "ready")

OpenForgetful(gone, stage) ==
  /\ Prunes(archives, gone) /\ stage \in Stages
  /\ (stage = "prune") = (gone # Victims(archives))
  /\ archives' = Without(archives, gone)
  /\ exists' = (exists \/ stage \in {"rollback", "tail", "ready"})
  /\ stream' = IF stage = "ready" THEN Repair(stream) ELSE stream
  /\ rollback' = IF stage \in {"tail", "ready"} THEN None ELSE rollback
  /\ handle' = (stage = "ready")

\* open_stream(): retention first, then the rollback an append left, then the torn tail.
OpenStream(gone, stage) ==
  /\ Prunes(archives, gone) /\ stage \in Stages
  /\ (stage = "prune") = (gone # Victims(archives))
  /\ archives' = Without(archives, gone)
  /\ exists' = (exists \/ stage \in {"rollback", "tail", "ready"})
  /\ stream' = (CASE stage = "tail" -> AfterRollback
                  [] stage = "ready" -> Repair(AfterRollback)
                  [] OTHER -> stream)
  /\ rollback' = IF stage \in {"tail", "ready"} THEN None ELSE rollback
  /\ handle' = (stage = "ready")

\* The size of a file: where its last chunk ends.
Bytes(s) ==
  LET end[i \in 0..Len(s)] == IF i = 0 THEN 0 ELSE end[i - 1] + s[i].len IN end[Len(s)]

\* The threshold applies to what the file would hold, and never to an empty file.
MustRoll == Bytes(stream) > 0 /\ Bytes(stream) + inHand.len > SegmentBytes

-----------------------------------------------------------------------------
(* The worker thread, run().                                                 *)

\* The end of one turn of the loop: w records written, d dropped.
Finish(w, d) ==
  /\ inHand' = None /\ queuedBytes' = queuedBytes - inHand.size
  /\ written' = written + w /\ dropped' = dropped + d
  /\ pc' = "loop"

intake == <<queue, stopping, abandon, closer, offered, nextId, restarts>>

\* Before the first record: repair a tail that exists, or only retry retention.
Recover ==
  /\ pc = "start" /\ pc' = "loop"
  /\ \/ \E gone \in SUBSET Stamps, stage \in Stages :
          /\ exists
          /\ OpenStream(gone, stage)
          /\ dropped' = dropped + Discarded(stage) /\ repaired' = repaired + Discarded(stage)
     \/ \E gone \in SUBSET Stamps :
          /\ ~exists
          /\ Prunes(archives, gone) /\ archives' = Without(archives, gone)
          /\ UNCHANGED <<stream, exists, handle, rollback, dropped, repaired>>
  /\ UNCHANGED <<intake, queuedBytes, inHand, written, confirmed, failed>>

Take ==
  /\ pc = "loop" /\ ~abandon /\ queue # <<>>
  /\ inHand' = Head(queue) /\ queue' = Tail(queue)
  /\ pc' = "taken"
  /\ UNCHANGED <<disk, queuedBytes, control, closer, written, dropped, history>>

LeaveLoop ==
  /\ pc = "loop" /\ (abandon \/ (stopping /\ queue = <<>>))
  /\ pc' = "final"
  /\ UNCHANGED <<disk, queue, queuedBytes, inHand, control, closer, written, dropped, history>>

\* The record is abandoned, longer than a reader accepts, or cannot be encoded.
Refuse ==
  /\ pc = "taken"
  /\ \/ (abandon \/ inHand.len > LineLimit) /\ UNCHANGED handle
     \/ ~abandon /\ handle' = FALSE
  /\ Finish(0, 1)
  /\ UNCHANGED <<disk, intake, rollback, repaired, confirmed, failed>>

UseHandle ==
  /\ pc = "taken" /\ ~abandon /\ inHand.len <= LineLimit /\ handle
  /\ pc' = "fit"
  /\ UNCHANGED <<disk, queue, queuedBytes, inHand, control, closer, written, dropped, history>>

\* open_stream() with a record in hand: on failure that record is dropped.
OpenFor(next) ==
  /\ \E gone \in SUBSET Stamps, stage \in Stages :
       /\ OpenStream(gone, stage)
       /\ repaired' = repaired + Discarded(stage)
       /\ \/ /\ stage = "ready" /\ pc' = next
             /\ dropped' = dropped + Discarded(stage)
             /\ UNCHANGED <<inHand, queuedBytes, written>>
          \/ stage # "ready" /\ Finish(0, 1)
  /\ UNCHANGED <<intake, confirmed, failed>>

OpenFirst == pc = "taken" /\ ~abandon /\ inHand.len <= LineLimit /\ ~handle /\ OpenFor("fit")
Reopen    == pc = "reopen" /\ OpenFor("write")

KeepSegment ==
  /\ pc = "fit" /\ ~MustRoll
  /\ pc' = "write"
  /\ UNCHANGED <<disk, queue, queuedBytes, inHand, control, closer, written, dropped, history>>

\* roll(): rename, which may fail, then prune, which may fail too.
RenameFails ==
  /\ pc = "fit" /\ MustRoll
  /\ handle' = FALSE
  /\ Finish(0, 1)
  /\ UNCHANGED <<disk, intake, rollback, repaired, confirmed, failed>>

Roll(now) ==
  /\ pc = "fit" /\ MustRoll
  /\ LET stamp   == Stamp(now)
         renamed == [s \in Stamps \cup {stamp} |-> IF s = stamp THEN stream ELSE archives[s]] IN
     \E gone \in SUBSET (Stamps \cup {stamp}) :
       /\ Prunes(renamed, gone) /\ archives' = Without(renamed, gone)
       /\ \/ /\ gone = Victims(renamed) /\ pc' = "reopen"
             /\ UNCHANGED <<inHand, queuedBytes, written, dropped>>
          \/ gone # Victims(renamed) /\ Finish(0, 1)
  /\ stream' = <<>> /\ exists' = FALSE /\ handle' = FALSE
  /\ UNCHANGED <<intake, rollback, repaired, confirmed, failed>>

\* write(): bytes reach the file in one or several calls, ...
AppendBytes(whole) ==
  /\ pc = "write" /\ pc' = "writing"
  /\ rollback' = Len(stream)
  /\ stream' = Append(stream, [id |-> inHand.id, len |-> IF whole THEN inHand.len ELSE 1,
                               whole |-> whole])
  /\ UNCHANGED <<exists, archives, intake, queuedBytes, inHand, handle, written, dropped,
                 repaired, confirmed, failed>>

AppendRest ==
  /\ pc = "writing" /\ ~Last(stream).whole
  /\ stream' = [stream EXCEPT ![Len(stream)] = [@ EXCEPT !.len = inHand.len, !.whole = TRUE]]
  /\ UNCHANGED <<exists, archives, queue, queuedBytes, inHand, pc, control, closer, written,
                 dropped, history>>

\* ... every byte was accepted, ...
AppendDone ==
  /\ pc = "writing" /\ Last(stream).whole
  /\ rollback' = None
  /\ confirmed' = confirmed \cup {inHand.id}
  /\ Finish(1, 0)
  /\ UNCHANGED <<disk, intake, handle, repaired, failed>>

\* Mutant: a writer that keeps retrying the record it could not append.
AppendRetries(truncated) ==
  LET offset == IF pc = "write" THEN Len(stream) ELSE rollback IN
  /\ pc \in {"write", "writing"} /\ pc' = "reopen"
  /\ \/ truncated /\ stream' = SubSeq(stream, 1, offset) /\ rollback' = None
     \/ ~truncated /\ rollback' = offset /\ UNCHANGED stream
  /\ handle' = FALSE
  /\ UNCHANGED <<exists, archives, intake, queuedBytes, inHand, written, dropped, repaired,
                 confirmed, failed>>

\* ... or a call raised, even after the last byte reached the file.
AppendFails(truncated) ==
  LET offset == IF pc = "write" THEN Len(stream) ELSE rollback IN
  /\ pc \in {"write", "writing"}
  /\ \/ truncated /\ stream' = SubSeq(stream, 1, offset) /\ rollback' = None
     \/ ~truncated /\ rollback' = offset /\ UNCHANGED stream
  /\ handle' = FALSE
  /\ failed' = failed \cup {inHand.id}
  /\ Finish(0, 1)
  /\ UNCHANGED <<exists, archives, intake, repaired, confirmed>>

\* The thread's finally block: no intake, discard what is queued, close.
StopIntake ==
  /\ pc = "final" /\ pc' = "drain"
  /\ stopping' = TRUE
  /\ UNCHANGED <<disk, queue, queuedBytes, inHand, handle, rollback, abandon, closer, written,
                 dropped, history>>

\* Mutant: a discard that is not counted.
DiscardSilently ==
  /\ queue # <<>>
  /\ queue' = Tail(queue) /\ queuedBytes' = queuedBytes - Head(queue).size
  /\ UNCHANGED dropped

DiscardHead ==
  /\ queue # <<>>
  /\ queue' = Tail(queue) /\ queuedBytes' = queuedBytes - Head(queue).size
  /\ dropped' = dropped + 1

WorkerDiscards ==
  /\ pc = "drain" /\ DiscardHead
  /\ UNCHANGED <<disk, inHand, pc, control, closer, written, history>>

WorkerEnds ==
  /\ pc = "drain" /\ queue = <<>>
  /\ pc' = "done" /\ handle' = FALSE
  /\ UNCHANGED <<disk, queue, queuedBytes, inHand, rollback, stopping, abandon, closer, written,
                 dropped, history>>

-----------------------------------------------------------------------------
(* close(), on the shutdown thread.                                          *)

CloseBegins ==
  /\ closer = "running" /\ closer' = "joining"
  /\ stopping' = TRUE
  /\ UNCHANGED <<disk, queue, queuedBytes, inHand, pc, handle, rollback, abandon, written,
                 dropped, history>>

CloseJoins ==
  /\ closer = "joining" /\ pc = "done"
  /\ closer' = "returned"
  /\ UNCHANGED <<disk, queue, queuedBytes, inHand, pc, control, written, dropped, history>>

CloseTimesOut ==
  /\ closer = "joining" /\ pc # "done"
  /\ closer' = "discarding" /\ abandon' = TRUE
  /\ UNCHANGED <<disk, queue, queuedBytes, inHand, pc, handle, rollback, stopping, written,
                 dropped, history>>

CloserDiscards ==
  /\ closer = "discarding" /\ DiscardHead
  /\ UNCHANGED <<disk, inHand, pc, control, closer, written, history>>

CloserReturns ==
  /\ closer = "discarding" /\ queue = <<>>
  /\ closer' = "returned"
  /\ UNCHANGED <<disk, queue, queuedBytes, inHand, pc, control, written, dropped, history>>

-----------------------------------------------------------------------------
\* The process dies at any point; launchd starts another one on the same files.
Restart ==
  /\ restarts < MaxRestarts /\ restarts' = restarts + 1
  /\ queue' = <<>> /\ queuedBytes' = 0 /\ inHand' = None
  /\ pc' = "start" /\ handle' = FALSE /\ rollback' = None
  /\ stopping' = FALSE /\ abandon' = FALSE /\ closer' = "running"
  /\ written' = 0 /\ dropped' = 0 /\ offered' = 0 /\ repaired' = 0 /\ failed' = {}
  /\ UNCHANGED <<disk, confirmed, nextId>>

\* The only legitimate end: both threads are finished.
Terminated == closer = "returned" /\ pc = "done" /\ UNCHANGED vars

Worker ==
  \/ Recover \/ Take \/ LeaveLoop \/ Refuse \/ UseHandle \/ OpenFirst \/ Reopen
  \/ KeepSegment \/ RenameFails \/ (\E now \in Clock : Roll(now))
  \/ (\E whole \in BOOLEAN : AppendBytes(whole)) \/ AppendRest \/ AppendDone
  \/ (\E truncated \in BOOLEAN : AppendFails(truncated))
  \/ StopIntake \/ WorkerDiscards \/ WorkerEnds

Closer == CloseJoins \/ CloseTimesOut \/ CloserDiscards \/ CloserReturns

Next ==
  \/ \E shape \in Shapes : Submit(shape)
  \/ Worker
  \/ CloseBegins \/ Closer
  \/ Restart
  \/ Terminated

Spec == Init /\ [][Next]_vars

\* The closing thread runs; the worker may hang forever in a filesystem call.
FairSpec == Spec /\ WF_vars(Closer)

\* The worker thread keeps being scheduled and its filesystem calls return.
DiskAnswers == WF_vars(Worker)

-----------------------------------------------------------------------------
(* Properties.                                                               *)

Segments   == {archives[s] : s \in Stamps} \cup {stream}
IdsIn(seg) == {seg[i].id : i \in 1..Len(seg)}
InFiles    == (UNION {IdsIn(archives[s]) : s \in Stamps}) \cup IdsIn(stream)
Pending  == Len(queue) + (IF inHand = None THEN 0 ELSE 1)

\* submit(), run(), discard_pending(): every record this process was offered is
\* counted exactly once, as written, as dropped, or it is still pending, whatever
\* mix of failures, abandonment and concurrent discards settles it; dropped counts
\* nothing else but the torn tail a previous process left (open_stream, error(dropped=1)).
EachRecordCountedOnce == offered + repaired = written + dropped + Pending

\* write(), open_stream(), roll(): a torn line is never followed by another line, and
\* never frozen in an archive, so no reader sees two records glued together.
TornOnlyAtTheEnd ==
  /\ \A s \in Stamps : \A i \in 1..Len(archives[s]) : archives[s][i].whole
  /\ \A i \in 1..Len(stream) : ~stream[i].whole => i = Len(stream)

\* write(), open_stream(): "A failed append must be rolled back before another record
\* can follow it": what this process counted as dropped, even if all its bytes reached
\* the file, stays the last chunk of the open segment until a rollback removes it.
NothingFollowsAFailedAppend ==
  /\ \A s \in Stamps : \A i \in 1..Len(archives[s]) : archives[s][i].id \notin failed
  /\ \A i \in 1..Len(stream) :
       stream[i].id \in failed => i = Len(stream) /\ rollback = i - 1

Ascending(seg) == \A i, j \in 1..Len(seg) : i < j => seg[i].id < seg[j].id

\* roll(): the order of archive names, then of lines, is the order of submission, so a
\* clock that goes backwards reorders nothing and duplicates nothing.
JournalOrder ==
  /\ \A s \in Stamps, t \in Stamps : s < t =>
       \A i \in 1..Len(archives[s]), j \in 1..Len(archives[t]) :
         archives[s][i].id < archives[t][j].id
  /\ \A s \in Stamps : \A i \in 1..Len(archives[s]), j \in 1..Len(stream) :
       archives[s][i].id < stream[j].id
  /\ Ascending(stream) /\ \A s \in Stamps : Ascending(archives[s])

\* prune(), open_stream(), write(): a record counted as written is lost only to
\* retention, and retention is oldest first: nothing is missing behind a line that is left.
NoHoleInTheJournal ==
  \A id \in confirmed : (\E kept \in InFiles : kept <= id) => id \in InFiles

\* roll(), open_stream(): "One extra archive can remain after the rename that
\* encountered the error", and then there is no open segment until pruning succeeds:
\* repeated failures never grow the journal beyond KeepRolls + 1 files, of which only
\* one of a single line exceeds segment_bytes.
RetentionBound ==
  /\ Cardinality(Stamps) + (IF exists THEN 1 ELSE 0) <= KeepRolls + 1
  /\ \A seg \in Segments : Len(seg) > 1 => Bytes(seg) <= SegmentBytes

\* The worker's finally block: no record is ever left in the queue of a finished
\* worker, where nothing would count it.
NothingLeftBehind == pc = "done" => queue = <<>> /\ inHand = None

\* close(): it returns although the worker may hang in a filesystem call forever.
CloseReturns == closer = "joining" ~> closer \in {"returned", "running"}

\* run(): with a disk that answers, shutdown ends the worker whatever errors it meets.
WorkerStops == DiskAnswers => (stopping ~> (pc = "done" \/ ~stopping))

\* close() and run() together, the two ends of a shutdown.
ShutdownEnds == CloseReturns /\ WorkerStops

-----------------------------------------------------------------------------
(* The journal these files stand for: archives by name, then stream.jsonl.   *)

\* What a reader finds in a file: its complete lines, by their ids.
Line(chunk) == IF chunk.whole THEN <<chunk.id>> ELSE <<>>
Lines(seg)  == FlattenSeq([i \in 1..Len(seg) |-> Line(seg[i])])

\* The names of the archives, in order.
Names ==
  CHOOSE s \in [1..Cardinality(Stamps) -> Stamps] : \A i, j \in DOMAIN s : i < j => s[i] < s[j]

Journal ==
  FlattenSeq([n \in 1..Cardinality(Stamps) |-> Lines(archives[Names[n]])]) \o Lines(stream)

AppendInDoubt == rollback # None /\ Len(stream) > rollback /\ Last(stream).whole

Promised == INSTANCE RetainedJournal
              WITH Ids <- 0..MaxRecords - 1, journal <- Journal, inDoubt <- AppendInDoubt

\* The writer, through every failure, restart and rotation, behaves towards readers as
\* RetainedJournal: no reordering, no duplicate, no hole, and nothing confirmed is
\* ever taken back.
KeepsTheJournal == Promised!Spec

-----------------------------------------------------------------------------
(* What makes those invariants inductive.                                    *)

\* The handle, the rollback offset and the file agree.
ControlInv ==
  /\ ~exists => stream = <<>>
  /\ handle => exists
  /\ pc \in {"fit", "write", "writing"} => handle
  /\ pc = "reopen" => ~handle /\ ~exists
  /\ rollback # None => exists /\ rollback \in {Len(stream), Len(stream) - 1}
  /\ handle /\ pc # "writing" => rollback = None
  /\ pc = "writing" => /\ stream # <<>> /\ rollback = Len(stream) - 1
                       /\ stream[Len(stream)].id = inHand.id

\* A torn chunk is the one an append left, and an open handle has none behind it.
TornInv ==
  \A i \in 1..Len(stream) :
    ~stream[i].whole => /\ i = Len(stream)
                        /\ handle => pc = "writing"
                        /\ rollback # None => rollback = i - 1

\* The ids that left the queue: in a file, or settled by write().
Used == InFiles \cup failed \cup confirmed

\* Records are handled in submission order: what is pending is newer than what was.
FreshIds ==
  /\ \A u \in Used : u < nextId /\ \A i \in 1..Len(queue) : u < queue[i].id
  /\ \A i \in 1..Len(queue) : queue[i].id < nextId
  /\ \A i, j \in 1..Len(queue) : i < j => queue[i].id < queue[j].id
  /\ inHand # None => /\ inHand.id < nextId /\ inHand.id \notin failed \cup confirmed
                      /\ \A i \in 1..Len(queue) : inHand.id < queue[i].id
                      /\ \A u \in Used : u <= inHand.id
                      /\ pc # "writing" => inHand.id \notin Used

\* Pruning keeps the newest archive unless it removes them all.
NewestStamp == Stamps = {} \/ \E s \in Stamps : \A t \in Stamps : t <= s

\* A confirmed line is complete, and before any append still to be rolled back.
ConfirmedStands ==
  \A i \in 1..Len(stream) : stream[i].id \in confirmed =>
    stream[i].whole /\ (rollback # None => i <= rollback)

\* The rotation threshold, checked before an append, covers that append.
FitsSegment(seg) == Len(seg) > 1 => Bytes(seg) <= SegmentBytes

SizeInv ==
  /\ Cardinality(Stamps) + (IF exists THEN 1 ELSE 0) <= KeepRolls + 1
  /\ FitsSegment(stream) /\ \A s \in Stamps : FitsSegment(archives[s])
  /\ \A i \in 1..Len(stream) : stream[i].len > 0
  /\ \A i \in 1..Len(queue) : queue[i].len > 1
  /\ inHand # None => inHand.len > 1
  /\ pc = "write" => stream = <<>> \/ Bytes(stream) + inHand.len <= SegmentBytes
  /\ pc = "writing" => \/ Len(stream) = 1
                       \/ Bytes(Front(stream)) + inHand.len <= SegmentBytes

WriterInv ==
  /\ TypeOK /\ ControlInv /\ TornInv /\ TornOnlyAtTheEnd /\ NothingFollowsAFailedAppend
  /\ JournalOrder /\ FreshIds /\ NewestStamp

=============================================================================
