------------------------------- MODULE Readers -------------------------------
(***************************************************************************)
(* One managed reader of tap_core/readers.py in both of its lanes, driven  *)
(* by the fresh_reader_loop of tap_core/service.py over the journal the    *)
(* capture writer keeps (RetainedJournal, which CaptureWriter implements). *)
(*                                                                         *)
(* A line of the journal is its id, a cursor is the id of the line it      *)
(* anchors.  The reader's lock is held by the operation in progress and,   *)
(* because a child inherits the descriptor, by any child that outlives the *)
(* controller.  Memory is never ahead of the checkpoint file: store()      *)
(* updates it only after the save.                                         *)
(***************************************************************************)
EXTENDS Integers, Sequences, FiniteSets, SequencesExt

CONSTANTS
  None,             \* no checkpoint, no operation in progress
  Relevant,         \* the lines whose origin the reader may see
  RecordsPerTurn,   \* max_records of a fresh turn
  ChildrenPerTurn,  \* max_invocations of a fresh turn
  FailureLimit,     \* failures in a row that skip a fresh record, or park recovery
  MaxLines,         \* bound: lines ever appended to the journal
  MaxFailures,      \* bound: failed scans, children and saves
  MaxStops,         \* bound: the controller dies or detaches the reader
  MaxRequests       \* bound: what the operator asks for, live attachments and replays

Ids      == 1..MaxLines
Lanes    == {"replay", "fresh"}
NoCursor == 0

ASSUME ReaderAssumption ==
  /\ Relevant \subseteq Ids
  /\ {RecordsPerTurn, ChildrenPerTurn, FailureLimit} \subseteq Nat \ {0}
  /\ {MaxLines, MaxFailures, MaxStops, MaxRequests} \subseteq Nat

VARIABLES
  journal,      \* the lines a scan can find
  inDoubt,      \* the last one may still be rolled back
  retracted,    \* lines that were rolled back
  ckpt,         \* lane -> its checkpoint file
  up,           \* a controller runs this reader
  turn,         \* what its reader thread does next
  initialized,  \* follow_tail() succeeded in this thread
  fails,        \* lane -> the thread's failure counter, up to FailureLimit
  op,           \* the Reader.run() in progress
  children,     \* the invocations that run, of this controller or an earlier one
  base,         \* history: lane -> the tail it was attached at
  handled,      \* history: lane -> lines acknowledged or filtered in this generation
  tries,        \* history: failed deliveries of the line after the fresh cursor
  halfway,      \* history: recovery was attached at the tail, fresh delivery not yet
  spent         \* history: what the bounds count

journalVars == <<journal, inDoubt, retracted>>
thread      == <<up, turn, initialized, fails>>
history     == <<base, handled, tries, halfway>>
vars        == <<journalVars, ckpt, thread, op, children, history, spent>>

\* What load() accepts.
Checkpoint == [generation : Nat \ {0}, cursor : Nat, inflight : Nat,
               phase : {"ready", "running", "idle", "failed"}]
Run   == [lane : Lanes, stage : {"entries", "child", "ack", "gap", "finish"},
          left : Seq(Ids), done : Nat, invoked : Nat]
Child == [lane : Lanes, id : Ids, orphan : BOOLEAN]

ASSUME NoneAssumption == None \notin Checkpoint /\ None \notin Run

TypeOK ==
  /\ journal \in Seq(Ids) /\ inDoubt \in BOOLEAN /\ retracted \subseteq Ids
  /\ ckpt \in [Lanes -> Checkpoint \cup {None}]
  /\ up \in BOOLEAN /\ initialized \in BOOLEAN
  /\ turn \in {"attachReplay", "attachFresh", "init", "fresh", "skip", "replay"}
  /\ fails \in [Lanes -> 0..FailureLimit]
  /\ op \in Run \cup {None} /\ children \subseteq Child
  /\ base \in [Lanes -> Nat] /\ handled \in [Lanes -> SUBSET Ids]
  /\ tries \in 0..FailureLimit /\ halfway \in BOOLEAN
  /\ spent \in [lines : Nat, failures : Nat, stops : Nat, requests : Nat]

Init ==
  /\ journal = <<>> /\ inDoubt = FALSE /\ retracted = {}
  /\ ckpt = [l \in Lanes |-> None]
  /\ up = FALSE /\ turn = "init" /\ initialized = FALSE /\ fails = [l \in Lanes |-> 0]
  /\ op = None /\ children = {}
  /\ base = [l \in Lanes |-> 0] /\ handled = [l \in Lanes |-> {}]
  /\ tries = 0 /\ halfway = FALSE
  /\ spent = [lines |-> 0, failures |-> 0, stops |-> 0, requests |-> 0]

Spend(what) == spent' = [spent EXCEPT ![what] = @ + 1]

-----------------------------------------------------------------------------
(* The writer's side of the journal.                                         *)

Writer == INSTANCE RetainedJournal

Lines == ToSet(journal)

WriterStep ==
  /\ \/ /\ spent.lines < MaxLines /\ Writer!Extend(spent.lines + 1)
        /\ Spend("lines") /\ UNCHANGED retracted
     \/ Writer!Confirm /\ UNCHANGED <<retracted, spent>>
     \/ Writer!Confirmed > 0 /\ Writer!Forget(1) /\ UNCHANGED <<retracted, spent>>
     \/ Writer!Retract(0) /\ retracted' = retracted \cup {Last(journal)} /\ UNCHANGED spent
  /\ UNCHANGED <<ckpt, thread, op, children, history>>

-----------------------------------------------------------------------------
(* journal.py: positions and scans.                                          *)

\* Journal.tail(): the last complete line, in doubt or not.
JournalTail == IF journal = <<>> THEN NoCursor ELSE Last(journal)

\* Mutant: the line before the anchor is needed too.
AnchoredInside(cursor) == cursor = NoCursor \/ (cursor \in Lines /\ cursor # Head(journal))

\* The saved line can be found, with the same content; scan() raises JournalGap if not.
Anchored(cursor) == cursor = NoCursor \/ cursor \in Lines

Position(cursor) == CHOOSE i \in DOMAIN journal : journal[i] = cursor

\* What scan(after=cursor) yields from the files it pinned: all that follows its line.
After(cursor) ==
  IF cursor = NoCursor THEN journal ELSE SubSeq(journal, Position(cursor) + 1, Len(journal))

-----------------------------------------------------------------------------
(* Checkpoints.                                                              *)

Initial(generation, cursor) ==
  [generation |-> generation, cursor |-> cursor, inflight |-> 0, phase |-> "ready"]

NextGeneration(lane) == IF ckpt[lane] = None THEN 1 ELSE ckpt[lane].generation + 1

\* profile_lock() of the reader's state directory.  Mutant: children do not inherit it.
LockLeaks == op = None
LockFree  == op = None /\ children = {}

\* A lane starts over in a new generation, after cursor.
NewGeneration(lane, cursor) ==
  /\ ckpt' = [ckpt EXCEPT ![lane] = Initial(NextGeneration(lane), cursor)]
  /\ base' = [base EXCEPT ![lane] = cursor] /\ handled' = [handled EXCEPT ![lane] = {}]
  /\ tries' = IF lane = "fresh" THEN 0 ELSE tries
  /\ halfway' = (lane = "replay" /\ cursor # NoCursor)

\* The record is behind the lane: acknowledged by its child, or filtered.
Advance(lane, id) ==
  /\ ckpt' = [ckpt EXCEPT ![lane] = [@ EXCEPT !.cursor = id, !.inflight = 0, !.phase = "ready"]]
  /\ handled' = [handled EXCEPT ![lane] = @ \cup {id}]
  /\ tries' = IF lane = "fresh" THEN 0 ELSE tries
  /\ UNCHANGED <<base, halfway>>

-----------------------------------------------------------------------------
(* fresh_reader_loop(): the order of its turns.                              *)

NextRound == IF initialized THEN "fresh" ELSE "init"

OneMore(count) == IF count = FailureLimit THEN FailureLimit ELSE count + 1

Failed(lane) ==
  /\ fails' = [fails EXCEPT ![lane] = OneMore(@)]
  /\ turn' = IF lane = "replay" THEN NextRound
             ELSE IF OneMore(fails[lane]) = FailureLimit THEN "skip" ELSE "replay"
  /\ UNCHANGED <<up, initialized>>

\* Mutant: fresh delivery keeps its turn.
SucceededAgain(lane) ==
  /\ fails' = [fails EXCEPT ![lane] = 0]
  /\ turn' = NextRound
  /\ UNCHANGED <<up, initialized>>

Succeeded(lane) ==
  /\ fails' = [fails EXCEPT ![lane] = 0]
  /\ turn' = IF lane = "replay" THEN NextRound ELSE "replay"
  /\ UNCHANGED <<up, initialized>>

\* follow_tail(): the fresh lane's first position, or its saved one.
FollowTail ==
  /\ up /\ turn = "init"
  /\ \/ /\ LockFree
        /\ IF ckpt["fresh"] = None THEN NewGeneration("fresh", JournalTail)
                                   ELSE UNCHANGED <<ckpt, history>>
        /\ initialized' = TRUE /\ fails' = [fails EXCEPT !["fresh"] = 0] /\ turn' = "fresh"
        /\ UNCHANGED <<up, spent>>
     \/ /\ \/ ~LockFree /\ UNCHANGED spent
           \/ spent.failures < MaxFailures /\ Spend("failures")
        /\ fails' = [fails EXCEPT !["fresh"] = OneMore(@)] /\ turn' = "replay"
        /\ UNCHANGED <<up, initialized, ckpt, history>>
  /\ UNCHANGED <<journalVars, op, children>>

\* Recovery is parked after FailureLimit failures, until the controller starts again.
Parked ==
  /\ up /\ op = None /\ turn = "replay" /\ fails["replay"] = FailureLimit
  /\ turn' = NextRound
  /\ UNCHANGED <<journalVars, ckpt, up, initialized, fails, op, children, history, spent>>

-----------------------------------------------------------------------------
(* Reader.run().                                                             *)

MayRun(lane) == up /\ op = None /\ turn = lane /\ (lane = "replay" => fails["replay"] < FailureLimit)

AtStage(stage) == op # None /\ op.stage = stage

\* The checkpoint is created if need be, the position verified, the files pinned.
Begin(lane) ==
  LET cursor == IF ckpt[lane] # None THEN ckpt[lane].cursor
                ELSE IF lane = "fresh" THEN JournalTail ELSE NoCursor IN
  /\ MayRun(lane) /\ LockFree
  /\ IF ckpt[lane] = None THEN NewGeneration(lane, cursor) ELSE UNCHANGED <<ckpt, history>>
  /\ op' = [lane |-> lane, stage |-> IF Anchored(cursor) THEN "entries" ELSE "gap",
            left |-> IF Anchored(cursor) THEN After(cursor) ELSE <<>>, done |-> 0, invoked |-> 0]
  /\ UNCHANGED <<journalVars, thread, children, spent>>

\* Another process or an orphan holds the lock, or the checkpoint cannot be created.
Refused(lane) ==
  /\ MayRun(lane)
  /\ \/ ~LockFree /\ UNCHANGED spent
     \/ LockFree /\ spent.failures < MaxFailures /\ Spend("failures")
  /\ Failed(lane)
  /\ UNCHANGED <<journalVars, ckpt, op, children, history>>

\* Where a lane goes when its position is lost: recovery to the earliest retained
\* line, fresh delivery to the tail.
GapTarget(lane) == IF lane = "fresh" THEN JournalTail ELSE NoCursor

Gap ==
  /\ AtStage("gap")
  /\ ckpt' = [ckpt EXCEPT ![op.lane] = [@ EXCEPT !.cursor = GapTarget(op.lane), !.inflight = 0,
                                                 !.phase = "ready"]]
  /\ op' = IF op.lane = "fresh" THEN [op EXCEPT !.stage = "finish"]
           ELSE [op EXCEPT !.stage = "entries", !.left = After(GapTarget(op.lane))]
  /\ tries' = IF op.lane = "fresh" THEN 0 ELSE tries
  /\ UNCHANGED <<journalVars, thread, children, base, handled, halfway, spent>>

\* The run goes on behind a record that is settled, or stops at its limits.
Settled(invoked) ==
  LET done  == op.done + 1
      limit == IF op.lane = "fresh" THEN RecordsPerTurn ELSE 1 IN
  op' = [op EXCEPT !.left = Tail(@), !.done = done, !.invoked = invoked,
                   !.stage = IF done = limit \/ (op.lane = "fresh" /\ invoked = ChildrenPerTurn)
                             THEN "finish" ELSE "entries"]

Filter ==
  /\ AtStage("entries") /\ op.left # <<>> /\ Head(op.left) \notin Relevant
  /\ Advance(op.lane, Head(op.left)) /\ Settled(op.invoked)
  /\ UNCHANGED <<journalVars, thread, children, spent>>

\* Mutant: the record is acknowledged before its child has run.
DeliverAcknowledged ==
  /\ AtStage("entries") /\ op.left # <<>> /\ Head(op.left) \in Relevant
  /\ ckpt' = [ckpt EXCEPT ![op.lane] =
                [@ EXCEPT !.cursor = Head(op.left), !.inflight = Head(op.left), !.phase = "running"]]
  /\ children' = children \cup {[lane |-> op.lane, id |-> Head(op.left), orphan |-> FALSE]}
  /\ op' = [op EXCEPT !.stage = "child"]
  /\ UNCHANGED <<journalVars, thread, history, spent>>

\* The invocation is recorded in the checkpoint before its child starts.
Deliver ==
  /\ AtStage("entries") /\ op.left # <<>> /\ Head(op.left) \in Relevant
  /\ ckpt' = [ckpt EXCEPT ![op.lane] = [@ EXCEPT !.inflight = Head(op.left), !.phase = "running"]]
  /\ children' = children \cup {[lane |-> op.lane, id |-> Head(op.left), orphan |-> FALSE]}
  /\ op' = [op EXCEPT !.stage = "child"]
  /\ UNCHANGED <<journalVars, thread, history, spent>>

ChildSucceeds ==
  /\ AtStage("child")
  /\ children' = {c \in children : c.orphan}
  /\ op' = [op EXCEPT !.stage = "ack"]
  /\ UNCHANGED <<journalVars, ckpt, thread, history, spent>>

Acknowledge ==
  /\ AtStage("ack")
  /\ Advance(op.lane, Head(op.left)) /\ Settled(op.invoked + 1)
  /\ UNCHANGED <<journalVars, thread, children, spent>>

\* No entry is left, or the turn is over: phase idle.
Finish ==
  /\ AtStage("finish") \/ (AtStage("entries") /\ op.left = <<>>)
  /\ ckpt' = [ckpt EXCEPT ![op.lane] = [@ EXCEPT !.phase = "idle"]]
  /\ op' = None
  /\ Succeeded(op.lane)
  /\ UNCHANGED <<journalVars, children, history, spent>>

\* A scan meets a rotation or a truncation, a child fails, times out or is cancelled,
\* or a save fails: the error handler keeps the cursor, if it can save at all.
RunFails(saved) ==
  /\ op # None /\ spent.failures < MaxFailures /\ Spend("failures")
  /\ ckpt' = IF saved THEN [ckpt EXCEPT ![op.lane] = [@ EXCEPT !.phase = "failed"]] ELSE ckpt
  /\ children' = {c \in children : c.orphan}
  /\ tries' = IF op.lane = "fresh" /\ op.stage \in {"child", "ack"} THEN OneMore(tries) ELSE tries
  /\ op' = None
  /\ Failed(op.lane)
  /\ UNCHANGED <<journalVars, base, handled, halfway>>

-----------------------------------------------------------------------------
(* skip_failed_fresh(), replay() and begin_now().                            *)

CanSkip ==
  /\ LockFree /\ ckpt["fresh"] # None /\ ckpt["fresh"].phase = "failed"
  /\ Anchored(ckpt["fresh"].cursor) /\ After(ckpt["fresh"].cursor) # <<>>

\* The next entry after the fresh cursor gets a receipt, and fresh delivery moves
\* behind it.  Mutant: recovery moves along.
SkipsInAllLanes ==
  [l \in Lanes |-> IF ckpt[l] = None THEN None ELSE
     [ckpt[l] EXCEPT !.cursor = Head(After(ckpt["fresh"].cursor)), !.inflight = 0, !.phase = "ready"]]

SkipsNext ==
  [ckpt EXCEPT !["fresh"] =
     [@ EXCEPT !.cursor = Head(After(ckpt["fresh"].cursor)), !.inflight = 0, !.phase = "ready"]]

Skip ==
  /\ up /\ op = None /\ turn = "skip" /\ turn' = "replay"
  /\ \/ /\ CanSkip /\ ckpt' = SkipsNext /\ fails' = [fails EXCEPT !["fresh"] = 0]
        /\ tries' = 0 /\ UNCHANGED <<base, handled, halfway, spent>>
     \/ /\ \/ ~CanSkip /\ UNCHANGED spent
           \/ CanSkip /\ spent.failures < MaxFailures /\ Spend("failures")
        /\ UNCHANGED <<fails, ckpt, history>>
  /\ UNCHANGED <<journalVars, up, initialized, op, children>>

\* tap reader replay, from any process.
ReplayCommand ==
  /\ spent.requests < MaxRequests /\ Spend("requests")
  /\ LockFree
  /\ NewGeneration("replay", NoCursor)
  /\ UNCHANGED <<journalVars, thread, op, children>>

\* tap reader rebind, with the profile off: another definition takes over the progress.
Rebind(lane) ==
  /\ spent.requests < MaxRequests /\ Spend("requests")
  /\ ~up /\ LockFree /\ ckpt[lane] # None
  /\ ckpt' = [ckpt EXCEPT ![lane] = [@ EXCEPT !.generation = NextGeneration(lane), !.inflight = 0,
                                             !.phase = "ready"]]
  /\ UNCHANGED <<journalVars, thread, op, children, history>>

\* sync_readers(live_attach=True): both lanes begin at the tail, recovery first; an
\* error leaves the attachment pending, to be tried again from the start.
Attach ==
  /\ up /\ turn \in {"attachReplay", "attachFresh"}
  /\ \/ /\ LockFree
        /\ NewGeneration(IF turn = "attachReplay" THEN "replay" ELSE "fresh", JournalTail)
        /\ turn' = IF turn = "attachReplay" THEN "attachFresh" ELSE "init"
        /\ UNCHANGED spent
     \/ /\ spent.failures < MaxFailures /\ Spend("failures")
        /\ turn' = "attachReplay"
        /\ UNCHANGED <<ckpt, history>>
  /\ UNCHANGED <<journalVars, up, initialized, fails, op, children>>

-----------------------------------------------------------------------------
(* The controller.                                                           *)

\* The reader thread starts: with the controller, or attached to a running one.
Start(live) ==
  /\ ~up /\ up' = TRUE
  /\ initialized' = FALSE /\ fails' = [l \in Lanes |-> 0]
  /\ \/ ~live /\ turn' = "init" /\ UNCHANGED spent
     \/ live /\ spent.requests < MaxRequests /\ Spend("requests") /\ turn' = "attachReplay"
  /\ UNCHANGED <<journalVars, ckpt, op, children, history>>

\* The controller dies; the guardian has not killed its child yet.
Crash ==
  /\ up /\ spent.stops < MaxStops /\ Spend("stops")
  /\ up' = FALSE /\ turn' = "init" /\ op' = None
  /\ children' = {[c EXCEPT !.orphan = TRUE] : c \in children}
  /\ UNCHANGED <<journalVars, ckpt, initialized, fails, history>>

\* The reader is detached, or the profile is turned off, between two turns.
Detach ==
  /\ up /\ op = None /\ turn \notin {"attachReplay", "attachFresh"}
  /\ spent.stops < MaxStops /\ Spend("stops")
  /\ up' = FALSE /\ turn' = "init"
  /\ UNCHANGED <<journalVars, ckpt, initialized, fails, op, children, history>>

OrphanEnds ==
  /\ \E c \in children : c.orphan /\ children' = children \ {c}
  /\ UNCHANGED <<journalVars, ckpt, thread, op, history, spent>>

ReaderThread ==
  \/ FollowTail \/ Parked \/ Skip \/ Attach
  \/ \E lane \in Lanes : Begin(lane) \/ Refused(lane)
  \/ Gap \/ Filter \/ Deliver \/ ChildSucceeds \/ Acknowledge \/ Finish
  \/ \E saved \in BOOLEAN : RunFails(saved)

Next ==
  \/ WriterStep
  \/ ReaderThread
  \/ ReplayCommand \/ \E lane \in Lanes : Rebind(lane)
  \/ (\E live \in BOOLEAN : Start(live)) \/ Crash \/ Detach \/ OrphanEnds

Spec == Init /\ [][Next]_vars

\* A reader thread that runs is scheduled, its child ends by itself or by its timeout,
\* and the guardian ends an orphan.  Nothing makes anybody start the reader.
FairSpec == Spec /\ WF_vars(ReaderThread) /\ WF_vars(OrphanEnds)

-----------------------------------------------------------------------------
(* Properties.                                                               *)

\* Everything a lane's cursor has left behind since it was attached.
Behind(lane) ==
  IF ckpt[lane] = None THEN {}
  ELSE {id \in Lines : base[lane] < id /\ id <= ckpt[lane].cursor}

\* What recovery still delivers, or has delivered in this generation.
Owned == handled["replay"] \cup
         {id \in Lines : ckpt["replay"] = None \/ id > ckpt["replay"].cursor}

\* Reader.run(), in the replay lane: "No cursor moves past the failed record": through
\* failures, gaps, crashes and rolled-back lines, every line still retained that the
\* cursor has passed was acknowledged by a child or filtered in this generation.
ReplaySkipsNothing == Behind("replay") \subseteq handled["replay"]

\* run() at a gap, skip_failed_fresh(): "replay still owns it": whatever fresh delivery
\* passed over without success, recovery has delivered or still has in front of it,
\* unless the last live attachment has only moved recovery so far.
ReplayOwnsWhatFreshSkipped ==
  ~halfway => Behind("fresh") \ handled["fresh"] \subseteq Owned

\* execute() and the inherited lock: two invocations of one reader never overlap, even
\* when a controller died and another one, or an operator, took over; and "The runner
\* persists an in-flight invocation ID before invoking the child": whatever runs, orphans
\* included, is what its lane's checkpoint names.
OneChildAtATime ==
  /\ Cardinality(children) <= 1
  /\ \A c \in children : ckpt[c.lane].phase = "running" /\ ckpt[c.lane].inflight = c.id

\* A position moves backwards within a generation only when its line is lost, so what
\* was acknowledged is not delivered again without a gap receipt.
ProgressIsNeverUndone ==
  [][\A l \in Lanes :
       ckpt[l] # None /\ ckpt'[l].generation = ckpt[l].generation
         /\ ckpt'[l].cursor < ckpt[l].cursor => ckpt[l].cursor \notin Lines]_vars

\* fresh_reader_loop(): while the reader runs, every relevant line is delivered by one of
\* the lanes, unless the journal loses it, it was there before a live attachment, or
\* recovery is parked.
EveryLineIsDelivered ==
  \A id \in Relevant :
    id \in Lines ~> \/ id \in handled["replay"] \cup handled["fresh"]
                    \/ id \notin Lines \/ id <= base["replay"] \/ ~up
                    \/ fails["replay"] = FailureLimit

\* docs/managed-components.md: "A failed fresh record is retried three times, then the
\* Core writes a fresh-failure receipt".
SkippedAfterEnoughFailures ==
  [][turn = "skip" /\ ckpt'["fresh"] # ckpt["fresh"] /\ tries > 0 => tries = FailureLimit]_vars

\* skip_failed_fresh(): "replay still owns it", and the receipt says so: when fresh
\* delivery gives a record up, recovery has it in front of it, or has delivered it.
SkippedIsOwned ==
  [][turn = "skip" /\ ckpt'["fresh"] # ckpt["fresh"] => ckpt'["fresh"].cursor \in Owned]_vars
=============================================================================
