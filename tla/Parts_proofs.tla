---------------------------- MODULE Parts_proofs ----------------------------
(***************************************************************************)
(* The parts of MCParts: what is proved of a part on its own holds of it   *)
(* in every behaviour of the composition, whatever its constants.  The     *)
(* module of the proofs is instantiated beside the one of the part; the    *)
(* lemmas called Same say that the two instances are one specification.    *)
(***************************************************************************)
EXTENDS MCParts, FiniteSetTheorems, TLAPS

FreshnessP == INSTANCE Freshness_proofs
                WITH account <- a, world <- b, run <- c, asked <- d, clock <- e

InstallerP == INSTANCE Installer_proofs
                WITH disk <- a, proc <- b, running <- c, setup <- d, used <- e

\* A behaviour of the composition is one of its part.
LEMMA PartStays == [Next]_vars => part' = part
  BY DEF Next, Is, vars

-----------------------------------------------------------------------------
(* The controller.                                                         *)

registry == a
main     == b
jobs     == c
workers  == d

USE DEF registry, main, jobs, workers

ReaderJobs(r) == [spec : Definitions[r], stop : BOOLEAN]

\* No job is taken for no job at all.
NoneIsNoJob == \A r \in Controller!Readers : None \notin ReaderJobs(r)

SavedInv == \A r \in Controller!Readers : registry.saved[r] \in Definitions[r] \cup {None}

\* The definitions that the controller works with were saved once.
ViewInv ==
  main.pc = "syncing" => \A r \in Controller!Readers : main.view[r] \in Definitions[r] \cup {None}

JobsInv ==
  /\ jobs = [r \in Controller!Readers |-> jobs[r]]
  /\ \A r \in Controller!Readers : jobs[r] \in ReaderJobs(r) \cup {None}

\* A thread is on the list, with what it runs and with what it was told: nothing else may
\* start another one for its reader.
WorkersInv ==
  \A w \in workers :
    w.reader \in Controller!Readers /\ jobs[w.reader] # None /\ w = Controller!Worker(w.reader)

Shapes ==
  /\ registry = [saved |-> registry.saved, owed |-> registry.owed]
  /\ DOMAIN registry.saved = Controller!Readers
  /\ main = [pc |-> main.pc, requested |-> main.requested, waiting |-> main.waiting,
             failed |-> main.failed, live |-> main.live, on |-> main.on, view |-> main.view,
             identity |-> main.identity]

ControllerInv == Shapes /\ SavedInv /\ ViewInv /\ JobsInv /\ WorkersInv

LEMMA ControllerInit == Controller!Init => ControllerInv
  BY DEF Controller!Init, ControllerInv, Shapes, SavedInv, ViewInv, JobsInv, WorkersInv,
     Controller!Down

LEMMA MainKeepsInv ==
  ASSUME ControllerInv, UNCHANGED <<registry, jobs, workers>>,
         main' = [pc |-> main'.pc, requested |-> main'.requested, waiting |-> main'.waiting,
                  failed |-> main'.failed, live |-> main'.live, on |-> main'.on, view |-> main'.view,
                  identity |-> main'.identity],
         main'.pc = "syncing" => main'.view = registry.saved \/ (main.pc = "syncing" /\ main'.view = main.view)
  PROVE  ControllerInv'
  BY DEF ControllerInv, Shapes, SavedInv, ViewInv, JobsInv, WorkersInv, Controller!Worker

LEMMA RegistryKeepsInv ==
  ASSUME ControllerInv, Controller!Save \/ Controller!Signal
  PROVE  ControllerInv'
  <1>1. CASE Controller!Save
    <2>1. PICK r \in Controller!Readers : \E spec \in (Definitions[r] \cup {None}) :
            registry' = [saved |-> [registry.saved EXCEPT ![r] = spec], owed |-> TRUE]
      BY <1>1 DEF Controller!Save
    <2>2. UNCHANGED <<main, jobs, workers>>
      BY <1>1 DEF Controller!Save
    <2>3. Shapes' /\ SavedInv'
      BY <2>1, <2>2 DEF ControllerInv, Shapes, SavedInv
    <2>4. ViewInv' /\ JobsInv' /\ WorkersInv'
      BY <2>2 DEF ControllerInv, ViewInv, JobsInv, WorkersInv, Controller!Worker
    <2>5. QED
      BY <2>3, <2>4 DEF ControllerInv
  <1>2. CASE Controller!Signal
    <2>1. /\ UNCHANGED <<jobs, workers>> /\ registry' = [registry EXCEPT !.owed = FALSE]
          /\ main' = main \/ main' = [main EXCEPT !.requested = TRUE]
      BY <1>2 DEF Controller!Signal
    <2>2. /\ registry'.saved = registry.saved /\ registry' = [saved |-> registry'.saved, owed |-> registry'.owed]
          /\ main'.pc = main.pc /\ main'.view = main.view
          /\ main' = [pc |-> main'.pc, requested |-> main'.requested, waiting |-> main'.waiting,
                      failed |-> main'.failed, live |-> main'.live, on |-> main'.on, view |-> main'.view,
                      identity |-> main'.identity]
      BY <2>1 DEF ControllerInv, Shapes
    <2>3. Shapes' /\ SavedInv' /\ ViewInv'
      BY <2>2 DEF ControllerInv, Shapes, SavedInv, ViewInv
    <2>4. JobsInv' /\ WorkersInv'
      BY <2>1 DEF ControllerInv, JobsInv, WorkersInv, Controller!Worker
    <2>5. QED
      BY <2>3, <2>4 DEF ControllerInv
  <1>3. QED
    BY <1>1, <1>2

\* Steps of the main thread that leave the workers alone.
LEMMA LoopKeepsInv ==
  ASSUME ControllerInv,
         \/ Controller!Start \/ Controller!ReadComponents \/ Controller!Refresh \/ Controller!BackoffEnds
         \/ Controller!Settle \/ \E r \in Controller!Readers : Controller!StaysAlive(r)
  PROVE  ControllerInv'
  <1>1. /\ UNCHANGED <<registry, jobs, workers>>
        /\ main = [pc |-> main.pc, requested |-> main.requested, waiting |-> main.waiting,
                   failed |-> main.failed, live |-> main.live, on |-> main.on, view |-> main.view,
                   identity |-> main.identity]
    BY DEF ControllerInv, Shapes, Controller!Start, Controller!ReadComponents, Controller!Refresh,
       Controller!BackoffEnds, Controller!Settle, Controller!StaysAlive
  <1>2. CASE Controller!Start
    BY <1>1, <1>2, MainKeepsInv DEF Controller!Start, Controller!Down
  <1>3. CASE Controller!ReadComponents
    BY <1>1, <1>3, MainKeepsInv DEF Controller!ReadComponents
  <1>4. CASE Controller!Refresh
    BY <1>1, <1>4, MainKeepsInv DEF Controller!Refresh
  <1>5. CASE Controller!BackoffEnds
    BY <1>1, <1>5, MainKeepsInv DEF Controller!BackoffEnds
  <1>6. CASE Controller!Settle
    BY <1>1, <1>6, MainKeepsInv DEF Controller!Settle
  <1>7. CASE \E r \in Controller!Readers : Controller!StaysAlive(r)
    BY <1>1, <1>7, MainKeepsInv DEF Controller!StaysAlive, Controller!Failing
  <1>8. QED
    BY <1>2, <1>3, <1>4, <1>5, <1>6, <1>7

\* The end of the controller takes its threads along.
LEMMA EndKeepsInv ==
  ASSUME ControllerInv, Controller!Dies \/ Controller!SyncFails
  PROVE  ControllerInv'
  <1>1. CASE main' = Controller!Down /\ jobs' = [r \in Controller!Readers |-> None] /\ workers' = {} /\ registry' = registry
    BY <1>1 DEF ControllerInv, Shapes, SavedInv, ViewInv, JobsInv, WorkersInv, Controller!Down
  <1>2. CASE main' = Controller!Failing /\ UNCHANGED <<jobs, workers, registry>>
    <2>1. main = [pc |-> main.pc, requested |-> main.requested, waiting |-> main.waiting,
                  failed |-> main.failed, live |-> main.live, on |-> main.on, view |-> main.view,
                  identity |-> main.identity]
      BY DEF ControllerInv, Shapes
    <2>2. QED
      BY <1>2, <2>1, MainKeepsInv DEF Controller!Failing
  <1>3. QED
    BY <1>1, <1>2 DEF Controller!Dies, Controller!SyncFails

\* What a worker was told it knows, and so does the list.
LEMMA TellKeepsInv ==
  ASSUME ControllerInv, NoneIsNoJob, NEW r \in Controller!Readers, Controller!TellToStop(r)
  PROVE  ControllerInv'
  <1>1. /\ UNCHANGED registry /\ jobs[r] # None
        /\ main' = [main EXCEPT !.on = r] /\ jobs' = [jobs EXCEPT ![r].stop = TRUE]
        /\ workers' = {IF w = Controller!Worker(r) THEN [w EXCEPT !.stop = TRUE] ELSE w : w \in workers}
    BY DEF Controller!TellToStop, Controller!Changed
  <1>2. /\ jobs[r] \in ReaderJobs(r) /\ DOMAIN jobs = Controller!Readers
        /\ \A q \in Controller!Readers : jobs[q] \in ReaderJobs(q) \cup {None}
        /\ jobs = [q \in Controller!Readers |-> jobs[q]]
    BY <1>1 DEF ControllerInv, JobsInv
  <1>3. /\ jobs'[r] = [spec |-> jobs[r].spec, stop |-> TRUE] /\ \A q \in Controller!Readers : q # r => jobs'[q] = jobs[q]
        /\ jobs' = [q \in Controller!Readers |-> jobs'[q]]
    BY <1>1, <1>2 DEF ReaderJobs
  <1>4. jobs'[r] \in ReaderJobs(r) /\ jobs'[r] # None
    <2>1. jobs'[r] \in ReaderJobs(r)
      BY <1>2, <1>3 DEF ReaderJobs
    <2>2. QED
      BY <2>1 DEF NoneIsNoJob
  <1>5. Shapes' /\ SavedInv' /\ ViewInv'
    BY <1>1 DEF ControllerInv, Shapes, SavedInv, ViewInv
  <1>6. JobsInv'
    BY <1>2, <1>3, <1>4 DEF JobsInv
  <1>7. ASSUME NEW w \in workers'
        PROVE  w.reader \in Controller!Readers /\ jobs'[w.reader] # None
               /\ w = [reader |-> w.reader, spec |-> jobs'[w.reader].spec, stop |-> jobs'[w.reader].stop]
    <2>1. PICK v \in workers : w = IF v = Controller!Worker(r) THEN [v EXCEPT !.stop = TRUE] ELSE v
      BY <1>1
    <2>2. v.reader \in Controller!Readers /\ jobs[v.reader] # None
          /\ v = [reader |-> v.reader, spec |-> jobs[v.reader].spec, stop |-> jobs[v.reader].stop]
      BY DEF ControllerInv, WorkersInv, Controller!Worker
    <2>3. CASE v.reader = r
      <3>1. v = Controller!Worker(r)
        BY <2>2, <2>3 DEF Controller!Worker
      <3>2. w = [reader |-> r, spec |-> jobs[r].spec, stop |-> TRUE]
        <4>1. v = [reader |-> r, spec |-> jobs[r].spec, stop |-> jobs[r].stop]
          BY <2>2, <2>3
        <4>2. w = [v EXCEPT !.stop = TRUE]
          BY <2>1, <3>1
        <4>3. QED
          BY <4>1, <4>2
      <3>3. w.reader = r /\ jobs'[r].spec = jobs[r].spec /\ jobs'[r].stop = TRUE
        BY <1>3, <3>2
      <3>4. QED
        BY <1>4, <3>2, <3>3
    <2>4. CASE v.reader # r
      <3>1. w = v
        BY <2>1, <2>4 DEF Controller!Worker
      <3>2. QED
        BY <1>3, <2>2, <2>4, <3>1
    <2>5. QED
      BY <2>3, <2>4
  <1>8. WorkersInv'
    BY <1>7 DEF WorkersInv, Controller!Worker
  <1>9. QED
    BY <1>5, <1>6, <1>8 DEF ControllerInv

\* A reader is taken off the list when its thread is gone.
LEMMA DetachKeepsInv ==
  ASSUME ControllerInv, NEW r \in Controller!Readers, Controller!Detach(r)
  PROVE  ControllerInv'
  <1>1. /\ UNCHANGED <<registry, workers>> /\ Controller!Worker(r) \notin workers
        /\ main' = [main EXCEPT !.on = None] /\ jobs' = [jobs EXCEPT ![r] = None]
    BY DEF Controller!Detach
  <1>2. Shapes' /\ SavedInv' /\ ViewInv'
    BY <1>1 DEF ControllerInv, Shapes, SavedInv, ViewInv
  <1>3. JobsInv'
    BY <1>1 DEF ControllerInv, JobsInv
  <1>4. \A w \in workers : w.reader # r
    BY <1>1 DEF ControllerInv, WorkersInv
  <1>5. WorkersInv'
    BY <1>1, <1>4 DEF ControllerInv, WorkersInv, JobsInv, Controller!Worker
  <1>6. QED
    BY <1>2, <1>3, <1>5 DEF ControllerInv

\* A reader that is not on the list has no thread.
LEMMA AttachKeepsInv ==
  ASSUME ControllerInv, NoneIsNoJob, NEW r \in Controller!Readers, Controller!Attach(r)
  PROVE  ControllerInv'
  <1>1. /\ UNCHANGED <<registry, main>> /\ jobs[r] = None /\ main.view[r] # None /\ main.pc = "syncing"
        /\ jobs' = [jobs EXCEPT ![r] = [spec |-> main.view[r], stop |-> FALSE]]
        /\ workers' = workers \cup {[reader |-> r, spec |-> main.view[r], stop |-> FALSE]}
    BY DEF Controller!Attach
  <1>2. main.view[r] \in Definitions[r]
    BY <1>1 DEF ControllerInv, ViewInv
  <1>3. /\ jobs'[r] = [spec |-> main.view[r], stop |-> FALSE]
        /\ jobs' = [q \in Controller!Readers |-> jobs'[q]]
        /\ \A q \in Controller!Readers : q # r => jobs'[q] = jobs[q]
    BY <1>1 DEF ControllerInv, JobsInv
  <1>4. jobs'[r] \in ReaderJobs(r) /\ jobs'[r] # None
    <2>1. jobs'[r] \in ReaderJobs(r)
      BY <1>2, <1>3 DEF ReaderJobs
    <2>2. QED
      BY <2>1 DEF NoneIsNoJob
  <1>5. Shapes' /\ SavedInv' /\ ViewInv'
    BY <1>1 DEF ControllerInv, Shapes, SavedInv, ViewInv
  <1>6. JobsInv'
    BY <1>3, <1>4 DEF ControllerInv, JobsInv
  <1>7. \A w \in workers : w.reader # r
    BY <1>1 DEF ControllerInv, WorkersInv
  <1>8. WorkersInv'
    <2>1. ASSUME NEW w \in workers, w.reader # r
          PROVE  jobs'[w.reader] = jobs[w.reader] /\ w.reader \in Controller!Readers /\ jobs[w.reader] # None
                 /\ w = [reader |-> w.reader, spec |-> jobs[w.reader].spec, stop |-> jobs[w.reader].stop]
      BY <1>3, <2>1 DEF ControllerInv, WorkersInv, Controller!Worker
    <2> DEFINE started == [reader |-> r, spec |-> main.view[r], stop |-> FALSE]
    <2>2. /\ started.reader = r /\ jobs'[r].spec = started.spec /\ jobs'[r].stop = started.stop
          /\ started = [reader |-> r, spec |-> jobs'[r].spec, stop |-> jobs'[r].stop]
      BY <1>3
    <2>3. \A w \in workers' : w \in workers \/ w = started
      BY <1>1
    <2> HIDE DEF started
    <2>4. ASSUME NEW w \in workers'
          PROVE  w.reader \in Controller!Readers /\ jobs'[w.reader] # None
                 /\ w = [reader |-> w.reader, spec |-> jobs'[w.reader].spec, stop |-> jobs'[w.reader].stop]
      <3>1. CASE w \in workers
        BY <1>7, <2>1, <3>1
      <3>2. CASE w = started
        BY <1>4, <2>2, <3>2
      <3>3. QED
        BY <2>3, <3>1, <3>2
    <2>5. QED
      BY <2>4 DEF WorkersInv, Controller!Worker
  <1>9. QED
    BY <1>5, <1>6, <1>8 DEF ControllerInv

LEMMA WorkerEndsKeepsInv ==
  ASSUME ControllerInv, Controller!WorkerStops \/ Controller!WorkerParks
  PROVE  ControllerInv'
  <1>1. UNCHANGED <<registry, main, jobs>> /\ workers' \subseteq workers
    BY DEF Controller!WorkerStops, Controller!WorkerParks
  <1>2. QED
    BY <1>1 DEF ControllerInv, Shapes, SavedInv, ViewInv, JobsInv, WorkersInv, Controller!Worker

LEMMA ControllerStep ==
  ASSUME NoneIsNoJob, ControllerInv, [Controller!Next]_(Controller!vars)
  PROVE  ControllerInv'
  <1>1. CASE UNCHANGED Controller!vars
    BY <1>1 DEF Controller!vars, ControllerInv, Shapes, SavedInv, ViewInv, JobsInv, WorkersInv,
       Controller!Worker
  <1>2. CASE Controller!Next
    BY <1>2, RegistryKeepsInv, LoopKeepsInv, EndKeepsInv, TellKeepsInv, DetachKeepsInv, AttachKeepsInv,
       WorkerEndsKeepsInv DEF Controller!Next, Controller!MainStep
  <1>3. QED
    BY <1>1, <1>2

LEMMA OnTheListOnce == ControllerInv => Controller!OneWorkerPerReader
  BY DEF ControllerInv, WorkersInv, Controller!OneWorkerPerReader

LEMMA ControllerGoesOn ==
  [Next]_vars /\ part = "controller" => [Controller!Next]_(Controller!vars)
  BY DEF Next, Is, vars, Controller!vars

\* In every behaviour of the composition a reader has never two workers.
THEOREM OneWorkerInParts ==
  ASSUME NoneIsNoJob
  PROVE  Spec => []OneWorkerPerReader
  <1> DEFINE I == part = "controller" => ControllerInv
  <1>1. Init => I
    BY ControllerInit DEF Init
  <1>2. I /\ [Next]_vars => I'
    BY PartStays, ControllerGoesOn, ControllerStep
  <1>3. I => OneWorkerPerReader
    BY OnTheListOnce DEF OneWorkerPerReader
  <1>4. QED
    BY <1>1, <1>2, <1>3, PTL DEF Spec

-----------------------------------------------------------------------------
(* The freshness policy.                                                   *)

LEMMA SameFreshnessSteps ==
  /\ Freshness!Wake <=> FreshnessP!Wake
  /\ Freshness!NotRun <=> FreshnessP!NotRun
  /\ Freshness!StartRun <=> FreshnessP!StartRun
  /\ Freshness!EndRun <=> FreshnessP!EndRun
  /\ Freshness!Crash <=> FreshnessP!Crash
  /\ Freshness!Tick <=> FreshnessP!Tick
  /\ \A t \in FreshnessP!Targets : Freshness!Quota(t) <=> FreshnessP!Quota(t)
  /\ \A t \in FreshnessP!Targets : Freshness!Activity(t) <=> FreshnessP!Activity(t)
  <1>1. Freshness!Wake <=> FreshnessP!Wake
    <2>1. Freshness!Targets = FreshnessP!Targets
      BY DEF Freshness!Targets, FreshnessP!Targets, Freshness!ToSet, FreshnessP!ToSet
    <2>2. \A s : Freshness!Settled(s) = FreshnessP!Settled(s)
      BY DEF Freshness!Settled, FreshnessP!Settled, Freshness!Failed, FreshnessP!Failed,
             Freshness!Delay, FreshnessP!Delay, Freshness!Min, FreshnessP!Min, Freshness!now,
             FreshnessP!now
    <2>3. \A s, t : Freshness!Observed(s, t) = FreshnessP!Observed(s, t)
      BY DEF Freshness!Observed, FreshnessP!Observed, Freshness!Newer, FreshnessP!Newer
    <2>4. \A ss, night : Freshness!Approved(ss, night) = FreshnessP!Approved(ss, night)
      BY DEF Freshness!Approved, FreshnessP!Approved, Freshness!Due, FreshnessP!Due,
             Freshness!Attempts, FreshnessP!Attempts, Freshness!Cardinality, FreshnessP!Cardinality,
             Freshness!IsFiniteSet, FreshnessP!IsFiniteSet, Freshness!Before, FreshnessP!Before,
             Freshness!Rank, FreshnessP!Rank, Freshness!Tier, FreshnessP!Tier, Freshness!Targets,
             FreshnessP!Targets, Freshness!ToSet, FreshnessP!ToSet, Freshness!now, FreshnessP!now
    <2>5. [t \in Freshness!Targets |-> Freshness!Settled(Freshness!Observed(a.targets[t], t))]
            = [t \in FreshnessP!Targets |-> FreshnessP!Settled(FreshnessP!Observed(a.targets[t], t))]
      BY <2>1, <2>2, <2>3
    <2>6. QED
      BY <2>4, <2>5 DEF Freshness!Wake, FreshnessP!Wake, Freshness!NoRun, FreshnessP!NoRun,
                        Freshness!now, FreshnessP!now
  <1>2. Freshness!NotRun <=> FreshnessP!NotRun
    BY DEF Freshness!NotRun, FreshnessP!NotRun, Freshness!NoRun, FreshnessP!NoRun
  <1>3. Freshness!StartRun <=> FreshnessP!StartRun
    BY DEF Freshness!StartRun, FreshnessP!StartRun, Freshness!Started, FreshnessP!Started,
           Freshness!Attempts, FreshnessP!Attempts, Freshness!Targets, FreshnessP!Targets,
           Freshness!ToSet, FreshnessP!ToSet, Freshness!now, FreshnessP!now
  <1>4. Freshness!EndRun <=> FreshnessP!EndRun
    BY DEF Freshness!EndRun, FreshnessP!EndRun, Freshness!Moved, FreshnessP!Moved, Freshness!Looked,
           FreshnessP!Looked, Freshness!Failed, FreshnessP!Failed, Freshness!Delay,
           FreshnessP!Delay, Freshness!Min, FreshnessP!Min, Freshness!Max, FreshnessP!Max,
           Freshness!NoRun, FreshnessP!NoRun, Freshness!Targets, FreshnessP!Targets,
           Freshness!ToSet, FreshnessP!ToSet, Freshness!now, FreshnessP!now
  <1>5. Freshness!Crash <=> FreshnessP!Crash
    BY DEF Freshness!Crash, FreshnessP!Crash, Freshness!NoRun, FreshnessP!NoRun
  <1>6. Freshness!Tick <=> FreshnessP!Tick
    BY DEF Freshness!Tick, FreshnessP!Tick, Freshness!now, FreshnessP!now
  <1>7. \A t \in FreshnessP!Targets : Freshness!Quota(t) <=> FreshnessP!Quota(t)
    BY DEF Freshness!Quota, FreshnessP!Quota, Freshness!now, FreshnessP!now
  <1>8. \A t \in FreshnessP!Targets : Freshness!Activity(t) <=> FreshnessP!Activity(t)
    BY DEF Freshness!Activity, FreshnessP!Activity, Freshness!now, FreshnessP!now
  <1>9. QED
    BY <1>1, <1>2, <1>3, <1>4, <1>5, <1>6, <1>7, <1>8

LEMMA SameFreshness ==
  /\ Freshness!Init <=> FreshnessP!Init
  /\ Freshness!Next <=> FreshnessP!Next
  /\ Freshness!LooksAreRationed <=> FreshnessP!LooksAreRationed
  <1>1. Freshness!Init <=> FreshnessP!Init
    BY DEF Freshness!Init, FreshnessP!Init, Freshness!Targets, FreshnessP!Targets, Freshness!ToSet,
           FreshnessP!ToSet, Freshness!Fresh, FreshnessP!Fresh, Freshness!NoRun, FreshnessP!NoRun
  <1>2. Freshness!Next <=> FreshnessP!Next
    BY SameFreshnessSteps DEF Freshness!Next, FreshnessP!Next, Freshness!Targets,
           FreshnessP!Targets, Freshness!ToSet, FreshnessP!ToSet
  <1>3. Freshness!WithinBudget <=> FreshnessP!WithinBudget
    BY DEF Freshness!WithinBudget, FreshnessP!WithinBudget, Freshness!Targets, FreshnessP!Targets,
           Freshness!ToSet, FreshnessP!ToSet, Freshness!Cardinality, FreshnessP!Cardinality,
           Freshness!IsFiniteSet, FreshnessP!IsFiniteSet
  <1>4. Freshness!FailuresBackOff <=> FreshnessP!FailuresBackOff
    BY DEF Freshness!FailuresBackOff, FreshnessP!FailuresBackOff, Freshness!Streak,
           FreshnessP!Streak, Freshness!Delay, FreshnessP!Delay, Freshness!Min, FreshnessP!Min,
           Freshness!Max, FreshnessP!Max, Freshness!Targets, FreshnessP!Targets, Freshness!ToSet,
           FreshnessP!ToSet
  <1>5. QED
    BY <1>1, <1>2, <1>3, <1>4 DEF Freshness!LooksAreRationed, FreshnessP!LooksAreRationed

LEMMA FreshnessGoesOn ==
  [Next]_vars /\ part = "freshness" => [FreshnessP!Next]_(FreshnessP!vars)
  BY SameFreshness DEF Next, Is, vars, FreshnessP!vars

\* In every behaviour of the composition the looks keep to their budget and their back-off.
THEOREM LooksAreRationedInParts ==
  ASSUME FreshnessP!Times
  PROVE  Spec => []LooksAreRationed
  <1> DEFINE I == part = "freshness" => FreshnessP!FreshnessInv
  <1>1. Init => I
    BY SameFreshness, FreshnessP!FreshnessInit DEF Init
  <1>2. I /\ [Next]_vars => I'
    BY PartStays, FreshnessGoesOn, FreshnessP!FreshnessStep
  <1>3. I => LooksAreRationed
    BY SameFreshness, FreshnessP!AllRationed DEF LooksAreRationed
  <1>4. QED
    BY <1>1, <1>2, <1>3, PTL DEF Spec

-----------------------------------------------------------------------------
(* The session observation.                                                *)

inbox  == b
worker == c
files  == d
used   == e

USE DEF inbox, worker, files, used

\* No observation is taken for none.
NoneIsNoNumber == None \notin Nat

Headers == Session!ToSet(HeaderOrder)
Working == {"observation", "verified", "locked"}

SessionShape ==
  /\ inbox = [latest |-> inbox.latest, pending |-> inbox.pending]
  /\ inbox.latest \in [Packs -> Nat \cup {None}] /\ inbox.pending \in Seq(Packs)
  /\ worker = [pc |-> worker.pc, key |-> worker.key, item |-> worker.item, version |-> worker.version,
               left |-> worker.left]
  /\ worker.pc \in {"idle", "key"} \cup Working
  /\ worker.pc # "idle" => worker.key \in Packs
  /\ worker.pc \in Working => worker.item \in Nat
  /\ files \in [Packs -> [Headers -> Nat]]
  /\ used = [routes |-> used.routes, seen |-> used.seen, regrants |-> used.regrants, drops |-> used.drops]
  /\ used.seen \in Nat

Queued(p) == \E i \in 1..Len(inbox.pending) : inbox.pending[i] = p
InHand(p) == worker.pc = "key" /\ worker.key = p

\* A key is in the queue or in the worker's hand, never both nor twice, and exactly
\* when an observation is kept for it.
QueueInv ==
  /\ \A i, j \in 1..Len(inbox.pending) : inbox.pending[i] = inbox.pending[j] => i = j
  /\ \A p \in Packs : /\ inbox.latest[p] # None <=> Queued(p) \/ InHand(p)
                      /\ ~(Queued(p) /\ InHand(p))

\* The lock holds what it was taken for.
GrantInv ==
  worker.pc = "locked" =>
    Session!Observes(registry[worker.key]) /\ registry[worker.key].version = worker.version

\* What is published is older than what is in hand, and that than what is kept.
AgeInv ==
  /\ \A p \in Packs : inbox.latest[p] # None => inbox.latest[p] <= used.seen
  /\ \A p \in Packs, h \in Headers :
       /\ files[p][h] <= used.seen
       /\ inbox.latest[p] # None => files[p][h] <= inbox.latest[p]
  /\ worker.pc \in Working =>
       /\ worker.item <= used.seen
       /\ inbox.latest[worker.key] # None => worker.item <= inbox.latest[worker.key]
       /\ \A h \in Headers : files[worker.key][h] <= worker.item

SessionInv == SessionShape /\ QueueInv /\ GrantInv /\ AgeInv

LEMMA SessionInit == Session!Init => SessionInv
  <1> SUFFICES ASSUME Session!Init
               PROVE  SessionInv
    OBVIOUS
  <1>1. /\ inbox = [latest |-> [p \in Packs |-> None], pending |-> <<>>] /\ worker = Session!Idle
        /\ files = [p \in Packs |-> [h \in Headers |-> 0]]
        /\ used = [routes |-> {}, seen |-> 0, regrants |-> 0, drops |-> 0]
    BY DEF Session!Init, Session!NoLatest, Headers
  <1>2. worker.pc = "idle"
    BY <1>1 DEF Session!Idle
  <1>3. SessionShape
    BY <1>1, <1>2 DEF SessionShape, Session!Idle, Working
  <1>4. QueueInv
    BY <1>1, <1>2 DEF QueueInv, Queued, InHand
  <1>5. GrantInv /\ AgeInv
    BY <1>1, <1>2 DEF GrantInv, AgeInv, Working
  <1>6. QED
    BY <1>3, <1>4, <1>5 DEF SessionInv

-----------------------------------------------------------------------------
(* Steps.                                                                  *)

\* A key goes to the end of the queue with its first observation only.
LEMMA RequestKeepsInv ==
  ASSUME SessionInv, NoneIsNoNumber, NEW p \in Packs, Session!Request(p)
  PROVE  SessionInv'
  <1> DEFINE n == used.seen + 1
             queue == inbox.pending
  <1>1. /\ used' = [used EXCEPT !.seen = n] /\ inbox' = Session!Accepted(p, n)
        /\ UNCHANGED <<registry, worker, files>>
    BY DEF Session!Request
  <1>2. SessionShape /\ QueueInv /\ GrantInv /\ AgeInv
    BY DEF SessionInv
  <1>3. /\ used'.seen = n /\ n \in Nat /\ used.seen \in Nat /\ used.seen <= n /\ n # None
        /\ used' = [routes |-> used'.routes, seen |-> used'.seen, regrants |-> used'.regrants,
                    drops |-> used'.drops]
    <2>1. /\ used.seen \in Nat
          /\ used = [routes |-> used.routes, seen |-> used.seen, regrants |-> used.regrants, drops |-> used.drops]
      BY <1>2 DEF SessionShape
    <2>2. n \in Nat /\ used.seen <= n
      BY <2>1
    <2>3. n # None
      BY <2>2 DEF NoneIsNoNumber
    <2> HIDE DEF n
    <2>4. QED
      BY <1>1, <2>1, <2>2, <2>3
  <1> HIDE DEF n
  <1>4. CASE inbox' = inbox
    <2>1. SessionShape' /\ QueueInv' /\ GrantInv'
      BY <1>1, <1>2, <1>3, <1>4 DEF SessionShape, QueueInv, Queued, InHand, GrantInv, Session!Observes
    <2>2. AgeInv'
      BY <1>1, <1>2, <1>3, <1>4 DEF SessionShape, AgeInv
    <2>3. QED
      BY <2>1, <2>2 DEF SessionInv
  <1>5. ASSUME inbox'.latest = [inbox.latest EXCEPT ![p] = n]
        PROVE  AgeInv'
    <2>1. inbox'.latest[p] = n /\ \A q \in Packs : q # p => inbox'.latest[q] = inbox.latest[q]
      BY <1>2, <1>5 DEF SessionShape
    <2> DEFINE seen   == used.seen
               latest == inbox.latest
    <2> /\ seen \in Nat /\ n \in Nat /\ seen <= n /\ used'.seen = n
        /\ \A q \in Packs : latest[q] # None => latest[q] \in Nat /\ latest[q] <= seen
        /\ \A q \in Packs, h \in Headers :
             files[q][h] \in Nat /\ files[q][h] <= seen /\ (latest[q] # None => files[q][h] <= latest[q])
      BY <1>2, <1>3 DEF AgeInv, SessionShape
    <2>2. \A q \in Packs : inbox'.latest[q] # None => inbox'.latest[q] <= used'.seen
      <3>1. ASSUME NEW q \in Packs, inbox'.latest[q] # None
            PROVE  inbox'.latest[q] <= n
        <4> HIDE DEF seen, latest
        <4>1. CASE q = p
          BY <2>1, <4>1
        <4>2. CASE q # p
          <5>1. inbox'.latest[q] = latest[q] /\ latest[q] # None
            BY <2>1, <3>1, <4>2 DEF latest
          <5>2. QED
            BY <5>1
        <4>3. QED
          BY <4>1, <4>2
      <3>2. QED
        BY <3>1
    <2>3. \A q \in Packs, h \in Headers :
            files[q][h] <= used'.seen /\ (inbox'.latest[q] # None => files[q][h] <= inbox'.latest[q])
      <3>1. ASSUME NEW q \in Packs, NEW h \in Headers
            PROVE  files[q][h] <= n /\ (inbox'.latest[q] # None => files[q][h] <= inbox'.latest[q])
        <4>1. files[q][h] <= n
          <5> HIDE DEF seen, latest
          <5>1. QED
            OBVIOUS
        <4>2. CASE q = p
          BY <2>1, <4>1, <4>2
        <4>3. CASE q # p
          BY <2>1, <4>1, <4>3
        <4>4. QED
          BY <4>2, <4>3
      <3>2. QED
        BY <3>1
    <2>4. ASSUME worker.pc \in Working
          PROVE  /\ worker.item <= used'.seen
                 /\ inbox'.latest[worker.key] # None => worker.item <= inbox'.latest[worker.key]
                 /\ \A h \in Headers : files[worker.key][h] <= worker.item
      <3>1. /\ worker.key \in Packs /\ worker.item \in Nat /\ worker.item <= seen
            /\ latest[worker.key] # None => worker.item <= latest[worker.key]
            /\ \A h \in Headers : files[worker.key][h] <= worker.item
        BY <1>2, <2>4 DEF AgeInv, SessionShape, Working
      <3>2. worker.item <= n
        <4> HIDE DEF seen, latest
        <4>1. QED
          BY <3>1
      <3>3. QED
        BY <2>1, <3>1, <3>2
    <2>5. QED
      BY <1>1, <2>2, <2>3, <2>4 DEF AgeInv
  <1>6. CASE inbox.latest[p] # None /\ inbox' = [inbox EXCEPT !.latest[p] = n]
    <2>1. /\ inbox'.latest = [inbox.latest EXCEPT ![p] = n] /\ inbox'.pending = queue
          /\ inbox' = [latest |-> inbox'.latest, pending |-> inbox'.pending]
      BY <1>2, <1>6 DEF SessionShape
    <2>2. SessionShape' /\ GrantInv'
      BY <1>1, <1>2, <1>3, <2>1 DEF SessionShape, GrantInv, Session!Observes
    <2>3. QueueInv'
      BY <1>1, <1>2, <1>3, <1>6, <2>1 DEF SessionShape, QueueInv, Queued, InHand
    <2>4. QED
      BY <1>5, <2>1, <2>2, <2>3 DEF SessionInv
  <1>7. CASE /\ inbox.latest[p] = None
             /\ inbox' = [latest |-> [inbox.latest EXCEPT ![p] = n], pending |-> Append(queue, p)]
    <2>1. /\ inbox'.latest = [inbox.latest EXCEPT ![p] = n] /\ inbox'.pending = Append(queue, p)
          /\ inbox' = [latest |-> inbox'.latest, pending |-> inbox'.pending]
          /\ queue \in Seq(Packs)
      BY <1>2, <1>7 DEF SessionShape
    <2>2. /\ Len(inbox'.pending) = Len(queue) + 1 /\ inbox'.pending[Len(queue) + 1] = p
          /\ \A i \in 1..Len(queue) : inbox'.pending[i] = queue[i]
          /\ inbox'.pending \in Seq(Packs) /\ Len(queue) \in Nat
      BY <2>1
    <2>3. SessionShape' /\ GrantInv'
      BY <1>1, <1>2, <1>3, <2>1, <2>2 DEF SessionShape, GrantInv, Session!Observes
    <2>4. ~Queued(p) /\ ~InHand(p)
      BY <1>2, <1>7 DEF QueueInv
    <2>5. \A i \in 1..Len(queue) : queue[i] # p
      BY <2>4 DEF Queued
    <2>6. \A i, j \in 1..Len(inbox'.pending) : inbox'.pending[i] = inbox'.pending[j] => i = j
      <3>1. ASSUME NEW i \in 1..Len(inbox'.pending), NEW j \in 1..Len(inbox'.pending),
                   inbox'.pending[i] = inbox'.pending[j]
            PROVE  i = j
        <4>1. CASE i \in 1..Len(queue) /\ j \in 1..Len(queue)
          BY <1>2, <2>2, <3>1, <4>1 DEF QueueInv
        <4>2. CASE i = Len(queue) + 1
          <5>1. inbox'.pending[j] = p
            BY <2>2, <3>1, <4>2
          <5>2. j \notin 1..Len(queue)
            BY <2>2, <2>5, <5>1
          <5>3. QED
            BY <2>2, <3>1, <4>2, <5>2
        <4>3. CASE j = Len(queue) + 1
          <5>1. inbox'.pending[i] = p
            BY <2>2, <3>1, <4>3
          <5>2. i \notin 1..Len(queue)
            BY <2>2, <2>5, <5>1
          <5>3. QED
            BY <2>2, <3>1, <4>3, <5>2
        <4>4. QED
          BY <2>2, <4>1, <4>2, <4>3
      <3>2. QED
        BY <3>1
    <2>7. \A q \in Packs : Queued(q)' <=> Queued(q) \/ q = p
      <3>1. ASSUME NEW q \in Packs
            PROVE  Queued(q)' <=> Queued(q) \/ q = p
        <4>1. ASSUME NEW i \in 1..Len(inbox'.pending), inbox'.pending[i] = q
              PROVE  Queued(q) \/ q = p
          BY <2>2, <4>1 DEF Queued
        <4>2. ASSUME NEW i \in 1..Len(queue), queue[i] = q
              PROVE  i \in 1..Len(inbox'.pending) /\ inbox'.pending[i] = q
          BY <2>2, <4>2
        <4>3. Len(queue) + 1 \in 1..Len(inbox'.pending)
          BY <2>2
        <4>4. QED
          BY <2>2, <4>1, <4>2, <4>3 DEF Queued
      <3>2. QED
        BY <3>1
    <2>8. \A q \in Packs : InHand(q)' <=> InHand(q)
      BY <1>1 DEF InHand
    <2>9. /\ inbox'.latest[p] # None
          /\ \A q \in Packs : q # p => inbox'.latest[q] = inbox.latest[q]
      BY <1>2, <1>3, <2>1 DEF SessionShape
    <2>10. \A q \in Packs : /\ inbox'.latest[q] # None <=> Queued(q)' \/ InHand(q)'
                            /\ ~(Queued(q)' /\ InHand(q)')
      BY <1>2, <2>4, <2>7, <2>8, <2>9 DEF QueueInv
    <2>11. QueueInv'
      BY <2>6, <2>10 DEF QueueInv
    <2>12. QED
      BY <1>5, <2>1, <2>3, <2>11 DEF SessionInv
  <1>8. QED
    BY <1>1, <1>4, <1>6, <1>7 DEF Session!Accepted

\* The head of the queue comes into the worker's hand.
LEMMA TakeKeyKeepsInv ==
  ASSUME SessionInv, Session!TakeKey
  PROVE  SessionInv'
  <1> DEFINE queue == inbox.pending
             key   == Head(queue)
  <1>1. /\ worker.pc = "idle" /\ queue # <<>> /\ worker' = [Session!Idle EXCEPT !.pc = "key", !.key = key]
        /\ inbox' = [inbox EXCEPT !.pending = Tail(queue)] /\ UNCHANGED <<registry, files, used>>
    BY DEF Session!TakeKey
  <1>2. SessionShape /\ QueueInv /\ GrantInv /\ AgeInv /\ queue \in Seq(Packs)
    BY DEF SessionInv, SessionShape
  <1>3. /\ Len(queue) \in Nat /\ Len(queue) >= 1 /\ key = queue[1] /\ key \in Packs
        /\ Len(Tail(queue)) = Len(queue) - 1 /\ Tail(queue) \in Seq(Packs)
        /\ \A i \in 1..Len(Tail(queue)) : Tail(queue)[i] = queue[i + 1]
    BY <1>1, <1>2
  <1>4. /\ inbox'.latest = inbox.latest /\ inbox'.pending = Tail(queue)
        /\ inbox' = [latest |-> inbox'.latest, pending |-> inbox'.pending]
        /\ worker'.pc = "key" /\ worker'.key = key
        /\ worker' = [pc |-> worker'.pc, key |-> worker'.key, item |-> worker'.item,
                      version |-> worker'.version, left |-> worker'.left]
    BY <1>1, <1>2 DEF SessionShape, Session!Idle
  <1> HIDE DEF key, queue
  <1>5. SessionShape'
    BY <1>1, <1>2, <1>3, <1>4 DEF SessionShape, Working
  <1>6. GrantInv' /\ AgeInv'
    BY <1>1, <1>2, <1>4 DEF GrantInv, AgeInv, Working
  <1>7. \A i, j \in 1..Len(inbox'.pending) : inbox'.pending[i] = inbox'.pending[j] => i = j
    <2>1. ASSUME NEW i \in 1..Len(Tail(queue)), NEW j \in 1..Len(Tail(queue)), Tail(queue)[i] = Tail(queue)[j]
          PROVE  i = j
      <3>1. i + 1 \in 1..Len(queue) /\ j + 1 \in 1..Len(queue) /\ queue[i + 1] = queue[j + 1]
        BY <1>3, <2>1
      <3>2. i + 1 = j + 1
        BY <1>2, <3>1 DEF QueueInv, queue
      <3>3. QED
        BY <1>3, <3>2
    <2>2. QED
      BY <1>4, <2>1
  <1>8. \A q \in Packs : Queued(q)' <=> Queued(q) /\ q # key
    <2>1. ASSUME NEW q \in Packs
          PROVE  Queued(q)' <=> Queued(q) /\ q # key
      <3>1. ASSUME NEW i \in 1..Len(Tail(queue)), Tail(queue)[i] = q
            PROVE  Queued(q) /\ q # key
        <4>1. i + 1 \in 1..Len(queue) /\ queue[i + 1] = q /\ 1 \in 1..Len(queue)
          BY <1>3, <3>1
        <4>2. i + 1 # 1
          BY <1>3
        <4>3. q # queue[1]
          BY <1>2, <4>1, <4>2 DEF QueueInv, queue
        <4>4. QED
          BY <1>3, <4>1, <4>3 DEF Queued, queue
      <3>2. ASSUME NEW i \in 1..Len(queue), queue[i] = q, q # key
            PROVE  i - 1 \in 1..Len(Tail(queue)) /\ Tail(queue)[i - 1] = q
        <4>1. i # 1
          BY <1>3, <3>2
        <4>2. i - 1 \in 1..Len(Tail(queue)) /\ (i - 1) + 1 = i
          BY <1>3, <4>1
        <4>3. QED
          BY <1>3, <3>2, <4>2
      <3>3. QED
        BY <1>4, <3>1, <3>2 DEF Queued, queue
    <2>2. QED
      BY <2>1
  <1>9. Queued(key)
    BY <1>3 DEF Queued, queue
  <1>10. \A q \in Packs : (InHand(q)' <=> q = key) /\ ~InHand(q)
    BY <1>1, <1>4 DEF InHand
  <1>11. \A q \in Packs : /\ inbox'.latest[q] # None <=> Queued(q)' \/ InHand(q)'
                          /\ ~(Queued(q)' /\ InHand(q)')
    BY <1>2, <1>3, <1>4, <1>8, <1>9, <1>10 DEF QueueInv
  <1>12. QueueInv'
    BY <1>7, <1>11 DEF QueueInv
  <1>13. QED
    BY <1>5, <1>6, <1>12 DEF SessionInv

\* The observation leaves the inbox with its key.
LEMMA TakeObservationKeepsInv ==
  ASSUME SessionInv, Session!TakeObservation
  PROVE  SessionInv'
  <1> DEFINE key  == worker.key
             item == inbox.latest[key]
  <1>1. /\ worker.pc = "key" /\ UNCHANGED <<registry, files, used>>
        /\ worker' = IF item = None THEN Session!Idle ELSE [worker EXCEPT !.pc = "observation", !.item = item]
        /\ inbox' = [inbox EXCEPT !.latest[key] = None]
    BY DEF Session!TakeObservation
  <1>2. SessionShape /\ QueueInv /\ GrantInv /\ AgeInv /\ key \in Packs /\ InHand(key)
    BY <1>1 DEF SessionInv, SessionShape, InHand
  <1>3. item # None /\ item \in Nat /\ ~Queued(key)
    BY <1>2 DEF QueueInv, SessionShape
  <1>4. /\ worker'.pc = "observation" /\ worker'.item = item /\ worker'.key = key
        /\ worker' = [pc |-> worker'.pc, key |-> worker'.key, item |-> worker'.item,
                      version |-> worker'.version, left |-> worker'.left]
        /\ inbox'.latest = [inbox.latest EXCEPT ![key] = None] /\ inbox'.pending = inbox.pending
        /\ inbox' = [latest |-> inbox'.latest, pending |-> inbox'.pending]
    BY <1>1, <1>2, <1>3 DEF SessionShape
  <1>5. inbox'.latest[key] = None /\ \A q \in Packs : q # key => inbox'.latest[q] = inbox.latest[q]
    BY <1>2, <1>4 DEF SessionShape
  <1>6. SessionShape'
    BY <1>1, <1>2, <1>3, <1>4 DEF SessionShape, Working
  <1>7. QueueInv'
    <2>1. \A q \in Packs : (Queued(q)' <=> Queued(q)) /\ ~InHand(q)' /\ (InHand(q) <=> q = key)
      BY <1>1, <1>4 DEF Queued, InHand
    <2>2. \A q \in Packs : /\ inbox'.latest[q] # None <=> Queued(q)' \/ InHand(q)'
                           /\ ~(Queued(q)' /\ InHand(q)')
      BY <1>2, <1>3, <1>5, <2>1 DEF QueueInv
    <2>3. \A i, j \in 1..Len(inbox'.pending) : inbox'.pending[i] = inbox'.pending[j] => i = j
      BY <1>2, <1>4 DEF QueueInv
    <2>4. QED
      BY <2>2, <2>3 DEF QueueInv
  <1>8. GrantInv'
    BY <1>4 DEF GrantInv
  <1>9. AgeInv'
    <2>1. /\ \A q \in Packs : inbox'.latest[q] # None => inbox'.latest[q] <= used.seen
          /\ \A q \in Packs, h \in Headers :
               files[q][h] <= used.seen /\ (inbox'.latest[q] # None => files[q][h] <= inbox'.latest[q])
      BY <1>2, <1>5 DEF AgeInv
    <2>2. /\ item <= used.seen /\ inbox'.latest[key] = None
          /\ \A h \in Headers : files[key][h] <= item
      BY <1>2, <1>3, <1>5 DEF AgeInv
    <2>3. QED
      BY <1>1, <1>4, <2>1, <2>2 DEF AgeInv
  <1>10. QED
    BY <1>6, <1>7, <1>8, <1>9 DEF SessionInv

\* Steps of the worker behind its observation: it keeps it, or drops it.
LEMMA WorkerKeepsInv ==
  ASSUME SessionInv, UNCHANGED <<registry, inbox, files>>, used'.seen = used.seen,
         used' = [routes |-> used'.routes, seen |-> used'.seen, regrants |-> used'.regrants, drops |-> used'.drops],
         worker.pc # "key",
         worker' = [pc |-> worker'.pc, key |-> worker'.key, item |-> worker'.item,
                    version |-> worker'.version, left |-> worker'.left],
         \/ worker'.pc = "idle"
         \/ /\ worker.pc \in Working /\ worker'.pc \in Working
            /\ worker'.key = worker.key /\ worker'.item = worker.item,
         worker'.pc = "locked" =>
           Session!Observes(registry[worker'.key]) /\ registry[worker'.key].version = worker'.version
  PROVE  SessionInv'
  <1>1. SessionShape /\ QueueInv /\ GrantInv /\ AgeInv
    BY DEF SessionInv
  <1>2. SessionShape'
    BY <1>1 DEF SessionShape, Working
  <1>3. QueueInv'
    BY <1>1 DEF QueueInv, Queued, InHand, Working
  <1>4. GrantInv'
    BY DEF GrantInv, Session!Observes
  <1>5. AgeInv'
    BY <1>1 DEF AgeInv, Working
  <1>6. QED
    BY <1>2, <1>3, <1>4, <1>5 DEF SessionInv

LEMMA ChecksKeepInv ==
  ASSUME SessionInv, Session!LookAtRoutes \/ Session!Verify \/ Session!Lock \/ Session!Drop
  PROVE  SessionInv'
  <1>1. /\ worker = [pc |-> worker.pc, key |-> worker.key, item |-> worker.item,
                     version |-> worker.version, left |-> worker.left]
        /\ used = [routes |-> used.routes, seen |-> used.seen, regrants |-> used.regrants, drops |-> used.drops]
        /\ Session!Idle.pc = "idle"
        /\ Session!Idle = [pc |-> Session!Idle.pc, key |-> Session!Idle.key, item |-> Session!Idle.item,
                           version |-> Session!Idle.version, left |-> Session!Idle.left]
    BY DEF SessionInv, SessionShape, Session!Idle
  <1>2. CASE Session!LookAtRoutes
    BY <1>1, <1>2, WorkerKeepsInv DEF Session!LookAtRoutes, Working
  <1>3. CASE Session!Verify
    BY <1>1, <1>3, WorkerKeepsInv DEF Session!Verify, Working
  <1>4. CASE Session!Lock
    BY <1>1, <1>4, WorkerKeepsInv DEF Session!Lock, Session!StillStands, Working
  <1>5. CASE Session!Drop
    BY <1>1, <1>5, WorkerKeepsInv DEF Session!Drop, Working
  <1>6. QED
    BY <1>2, <1>3, <1>4, <1>5

\* One file takes the observation in hand.
LEMMA Published ==
  ASSUME SessionInv, Session!Publish
  PROVE  /\ worker.pc = "locked" /\ worker.key \in Packs /\ files' \in [Packs -> [Headers -> Nat]]
         /\ \A p \in Packs, h \in Headers :
              files'[p][h] = files[p][h] \/ (p = worker.key /\ files'[p][h] = worker.item)
         /\ \A p \in Packs : p # worker.key => files'[p] = files[p]
  <1>1. worker.pc = "locked" /\ files' = [files EXCEPT ![worker.key][Head(worker.left)] = worker.item]
    BY DEF Session!Publish
  <1>2. files \in [Packs -> [Headers -> Nat]] /\ worker.key \in Packs /\ worker.item \in Nat
    BY <1>1 DEF SessionInv, SessionShape, Working
  <1> DEFINE header == Head(worker.left)
             row    == [files[worker.key] EXCEPT ![header] = worker.item]
  <1>3. files' = [files EXCEPT ![worker.key] = row]
    BY <1>1
  <1>4. /\ row \in [Headers -> Nat]
        /\ \A h \in Headers : row[h] = files[worker.key][h] \/ row[h] = worker.item
    <2> HIDE DEF header
    <2>1. QED
      BY <1>2
  <1> HIDE DEF row, header
  <1>5. QED
    BY <1>1, <1>2, <1>3, <1>4

LEMMA PublishKeepsInv ==
  ASSUME SessionInv, Session!Publish
  PROVE  SessionInv'
  <1>1. /\ UNCHANGED <<registry, inbox, used>> /\ worker.pc = "locked"
        /\ worker' = Session!Idle \/ worker' = [worker EXCEPT !.left = Tail(@)]
        /\ SessionShape /\ QueueInv /\ GrantInv /\ AgeInv
    BY DEF Session!Publish, SessionInv
  <1>2. /\ worker' = [pc |-> worker'.pc, key |-> worker'.key, item |-> worker'.item,
                      version |-> worker'.version, left |-> worker'.left]
        /\ \/ worker'.pc = "idle"
           \/ /\ worker'.pc = "locked" /\ worker'.key = worker.key /\ worker'.item = worker.item
              /\ worker'.version = worker.version
    BY <1>1 DEF SessionShape, Session!Idle
  <1>3. SessionShape'
    BY <1>1, <1>2, Published DEF SessionShape, Working
  <1>4. QueueInv' /\ GrantInv'
    BY <1>1, <1>2 DEF QueueInv, Queued, InHand, GrantInv, Session!Observes
  <1>5. AgeInv'
    <2>1. /\ worker.item \in Nat /\ worker.item <= used.seen /\ used.seen \in Nat
          /\ inbox.latest[worker.key] # None => worker.item <= inbox.latest[worker.key]
      BY <1>1 DEF AgeInv, SessionShape, Working
    <2>2. \A q \in Packs, h \in Headers :
            files'[q][h] <= used.seen /\ (inbox.latest[q] # None => files'[q][h] <= inbox.latest[q])
      BY <1>1, <2>1, Published DEF AgeInv
    <2>3. \A h \in Headers : files'[worker.key][h] <= worker.item
      <3>1. ASSUME NEW h \in Headers
            PROVE  files'[worker.key][h] <= worker.item
        <4>1. files[worker.key][h] <= worker.item
          BY <1>1 DEF AgeInv, Working
        <4>2. files'[worker.key][h] = files[worker.key][h] \/ files'[worker.key][h] = worker.item
          BY Published
        <4>3. QED
          BY <2>1, <4>1, <4>2
      <3>2. QED
        BY <3>1
    <2>4. QED
      BY <1>1, <1>2, <2>1, <2>2, <2>3 DEF AgeInv, Working
  <1>6. QED
    BY <1>3, <1>4, <1>5 DEF SessionInv

\* No pack command has the lock while the worker does.
LEMMA RegrantKeepsInv ==
  ASSUME SessionInv, NEW p \in Packs, Session!Regrant(p)
  PROVE  SessionInv'
  <1>1. /\ UNCHANGED <<inbox, worker, files>> /\ worker.pc # "locked"
        /\ used' = [used EXCEPT !.regrants = @ + 1]
        /\ SessionShape /\ QueueInv /\ GrantInv /\ AgeInv
    BY DEF Session!Regrant, SessionInv
  <1>2. /\ used'.seen = used.seen
        /\ used' = [routes |-> used'.routes, seen |-> used'.seen, regrants |-> used'.regrants,
                    drops |-> used'.drops]
    BY <1>1 DEF SessionShape
  <1>3. QED
    BY <1>1, <1>2 DEF SessionInv, SessionShape, QueueInv, Queued, InHand, GrantInv, AgeInv

LEMMA ProxyRestartKeepsInv ==
  ASSUME SessionInv, Session!Restart
  PROVE  SessionInv'
  <1>1. /\ UNCHANGED <<registry, files>> /\ worker' = Session!Idle
        /\ inbox' = [latest |-> [p \in Packs |-> None], pending |-> <<>>]
        /\ used' = [used EXCEPT !.routes = {}, !.drops = @ + 1]
        /\ SessionShape /\ AgeInv
    BY DEF Session!Restart, SessionInv, Session!NoLatest
  <1>2. /\ used'.seen = used.seen
        /\ used' = [routes |-> used'.routes, seen |-> used'.seen, regrants |-> used'.regrants,
                    drops |-> used'.drops]
    BY <1>1 DEF SessionShape
  <1>3. /\ worker'.pc = "idle"
        /\ worker' = [pc |-> worker'.pc, key |-> worker'.key, item |-> worker'.item,
                      version |-> worker'.version, left |-> worker'.left]
    BY <1>1 DEF Session!Idle
  <1>4. SessionShape'
    BY <1>1, <1>2, <1>3 DEF SessionShape, Working
  <1>5. QueueInv'
    BY <1>1, <1>3 DEF QueueInv, Queued, InHand
  <1>6. GrantInv' /\ AgeInv'
    BY <1>1, <1>2, <1>3 DEF GrantInv, AgeInv, Working
  <1>7. QED
    BY <1>4, <1>5, <1>6 DEF SessionInv

LEMMA SessionStep ==
  ASSUME NoneIsNoNumber, SessionInv, [Session!Next]_(Session!vars)
  PROVE  SessionInv'
  <1>1. CASE UNCHANGED Session!vars
    BY <1>1 DEF Session!vars, SessionInv, SessionShape, QueueInv, Queued, InHand, GrantInv, AgeInv,
       Session!Observes
  <1>2. CASE Session!Next
    BY <1>2, RequestKeepsInv, TakeKeyKeepsInv, TakeObservationKeepsInv, ChecksKeepInv, PublishKeepsInv,
       RegrantKeepsInv, ProxyRestartKeepsInv DEF Session!Next
  <1>3. QED
    BY <1>1, <1>2

-----------------------------------------------------------------------------
(* What follows.                                                           *)

LEMMA SameCardinality == \A set : Session!Cardinality(set) = Cardinality(set)
  BY DEF Session!Cardinality, Session!IsFiniteSet, Cardinality, IsFiniteSet

LEMMA QueuedOnce == SessionInv => Session!KeptIsQueued
  <1> SUFFICES ASSUME SessionInv, NEW p \in Packs, inbox.latest[p] # None, ~InHand(p)
               PROVE  Cardinality({k \in DOMAIN inbox.pending : inbox.pending[k] = p}) = 1
    BY SameCardinality DEF Session!KeptIsQueued, InHand
  <1>1. PICK i \in 1..Len(inbox.pending) : inbox.pending[i] = p
    BY DEF SessionInv, QueueInv, Queued
  <1>2. DOMAIN inbox.pending = 1..Len(inbox.pending)
    BY DEF SessionInv, SessionShape
  <1>3. {k \in DOMAIN inbox.pending : inbox.pending[k] = p} = {i}
    BY <1>1, <1>2 DEF SessionInv, QueueInv
  <1>4. QED
    BY <1>3, FS_Singleton

LEMMA GrantedAndNewer ==
  ASSUME SessionInv, [Session!Next]_(Session!vars)
  PROVE  Session!PublishedUnderGrant
  <1> SUFFICES ASSUME NEW p \in Packs, files'[p] # files[p]
               PROVE  /\ Session!Observes(registry[p]) /\ registry[p].version = worker.version
                      /\ \A h \in Session!ToSet(HeaderOrder) : files'[p][h] >= files[p][h]
    BY DEF Session!PublishedUnderGrant
  <1>1. Session!Publish
    BY DEF Session!vars, Session!Next, Session!LookAtRoutes, Session!TakeKey, Session!TakeObservation,
       Session!Verify, Session!Lock, Session!Drop, Session!Restart, Session!Request, Session!Regrant
  <1>2. worker.pc = "locked" /\ p = worker.key
    BY <1>1, Published
  <1>3. Session!Observes(registry[p]) /\ registry[p].version = worker.version
    BY <1>2 DEF SessionInv, GrantInv
  <1>4. ASSUME NEW h \in Headers
        PROVE  files'[p][h] >= files[p][h]
    <2>1. files[p][h] <= worker.item /\ files[p][h] \in Nat /\ worker.item \in Nat
      BY <1>2 DEF SessionInv, AgeInv, SessionShape, Working
    <2>2. files'[p][h] = files[p][h] \/ files'[p][h] = worker.item
      BY <1>1, Published
    <2>3. QED
      BY <2>1, <2>2
  <1>5. QED
    BY <1>3, <1>4 DEF Headers

LEMMA SessionGoesOn == [Next]_vars /\ part = "session" => [Session!Next]_(Session!vars)
  BY DEF Next, Is, vars, Session!vars

SessionI == part = "session" => SessionInv

LEMMA SessionInduction ==
  ASSUME NoneIsNoNumber
  PROVE  Spec => []SessionI
  <1>1. Init => SessionI
    BY SessionInit DEF Init, SessionI
  <1>2. SessionI /\ [Next]_vars => SessionI'
    BY PartStays, SessionGoesOn, SessionStep DEF SessionI
  <1>3. QED
    BY <1>1, <1>2, PTL DEF Spec

\* In every behaviour of the composition a kept observation is one that the worker comes to.
THEOREM KeptIsQueuedInParts ==
  ASSUME NoneIsNoNumber
  PROVE  Spec => []KeptIsQueued
  <1>1. SessionI => KeptIsQueued
    BY QueuedOnce DEF SessionI, KeptIsQueued
  <1>2. QED
    BY <1>1, SessionInduction, PTL

\* In every behaviour of the composition credentials are published under a grant that stands,
\* the newest last.
THEOREM PublishedUnderGrantInParts ==
  ASSUME NoneIsNoNumber
  PROVE  Spec => PublishedUnderGrant
  <1>1. SessionI /\ [Next]_vars => [part = "session" => Session!PublishedUnderGrant]_vars
    BY SessionGoesOn, GrantedAndNewer DEF SessionI
  <1>2. QED
    BY <1>1, SessionInduction, PTL DEF Spec, PublishedUnderGrant

-----------------------------------------------------------------------------
(* The page and the Hub: whoever waits is known where the answer would     *)
(* come, and what was answered once is not answered again.                 *)

\* Commands and requests have names of their own (randomUUID, hub.mjs and page-runtime.js).
CommandsAreNoRequests == Commands \cap Requests = {}

Calls == Commands \cup Requests

PagesShape ==
  /\ DOMAIN a = {"sock", "session", "due", "tries", "gaveUp", "paused", "hidden", "inbound", "pending"}
  /\ DOMAIN c = {"up", "registered", "commands", "posted", "active", "running"}
  /\ DOMAIN d = Calls

\* Nothing has come over a socket that the Hub never had.
Conns(cs) ==
  /\ DOMAIN cs = Pages!Sockets
  /\ \A s \in Pages!Sockets : /\ DOMAIN cs[s] = {"up", "down", "hub", "named", "pending"}
                              /\ cs[s].hub = "none" => cs[s].down = <<>>

\* The page asks in a session only, over a socket that the Hub had.
AskingInv ==
  /\ a.sock = 0 => a.session = 0
  /\ a.pending # {} => Pages!Ready
  /\ Pages!Ready => a.sock \in Pages!Sockets /\ b[a.sock].hub # "none"

\* A call waits exactly where its answer would look for it: no place in the page or the Hub
\* is taken by one that has ended, and none that waits is without its place.
WaitsAreKnown ==
  /\ \A x \in Commands : /\ d[x] # "waiting"
                         /\ d[x] = "posted" <=> x \in DOMAIN c.posted
                         /\ d[x] = "sent" <=> x \in DOMAIN c.commands
  /\ \A x \in Requests : d[x] # "posted" /\ (d[x] = "sent" <=> x \in a.pending)
  /\ DOMAIN c.posted \subseteq Commands /\ DOMAIN c.commands \subseteq Commands
  /\ a.pending \subseteq Requests
  /\ ~c.up => DOMAIN c.commands = {} /\ DOMAIN c.posted = {}

AnswersAreFinal == \A x \in Calls : d[x] \in Pages!Answers => d'[x] = d[x]

PagesInv == PagesShape /\ Conns(b) /\ AskingInv /\ WaitsAreKnown

LEMMA PagesInit == Pages!Init => PagesInv
  <1> SUFFICES ASSUME Pages!Init PROVE PagesInv
    OBVIOUS
  <1>1. PICK run \in Runs : d = [x \in Calls |-> IF x \in run.calls THEN "new" ELSE "unused"]
    BY DEF Pages!Init, Calls
  <1>2. PagesShape
    BY <1>1 DEF Pages!Init, Pages!Empty, PagesShape
  <1>3. Conns(b) /\ AskingInv
    BY DEF Pages!Init, Pages!Unused, Conns, AskingInv, Pages!Ready
  <1>4. c.up /\ c.posted = <<>> /\ c.commands = <<>> /\ a.pending = {} /\ DOMAIN <<>> = {}
    BY DEF Pages!Init, Pages!Empty
  <1>5. WaitsAreKnown
    BY <1>1, <1>4 DEF WaitsAreKnown, Calls
  <1>6. QED
    BY <1>2, <1>3, <1>5 DEF PagesInv

-----------------------------------------------------------------------------
(* The sockets: what sending and closing do to them.                       *)

\* The Hub forgets that it had no socket but the ones that are over.
Had(cs, ds) == \A s \in Pages!Sockets : ds[s].hub = "none" => cs[s].hub = "none"

LEMMA Sends ==
  ASSUME NEW cs, Conns(cs), NEW s, NEW m
  PROVE  Conns(Pages!Up(cs, s, m)) /\ Had(cs, Pages!Up(cs, s, m))
  BY DEF Conns, Had, Pages!Up

LEMMA Replies ==
  ASSUME NEW cs, Conns(cs), NEW s, NEW m
  PROVE  Conns(Pages!Down(cs, s, m)) /\ Had(cs, Pages!Down(cs, s, m))
  BY DEF Conns, Had, Pages!Down

LEMMA Shuts ==
  ASSUME NEW cs, Conns(cs), NEW s
  PROVE  Conns(Pages!Shut(cs, s)) /\ Had(cs, Pages!Shut(cs, s))
  <1> DEFINE ds == Pages!Down(cs, s, Pages!Close)
  <1>1. Conns(ds) /\ Had(cs, ds)
    BY Replies
  <1> HIDE DEF ds
  <1>2. Conns([ds EXCEPT ![s].hub = "closing"]) /\ Had(cs, [ds EXCEPT ![s].hub = "closing"])
    BY <1>1 DEF Conns, Had
  <1>3. Pages!Shut(cs, s) = [ds EXCEPT ![s].hub = "closing"] \/ Pages!Shut(cs, s) = cs
    BY DEF Pages!Shut, ds
  <1>4. QED
    BY <1>1, <1>2, <1>3 DEF Had

LEMMA Ends ==
  ASSUME NEW cs, Conns(cs), NEW s
  PROVE  /\ Conns(Pages!Over(cs, s))
         /\ \A t \in Pages!Sockets : t # s => Pages!Over(cs, s)[t] = cs[t]
  BY DEF Conns, Pages!Over, Pages!Unused

LEMMA Abandons ==
  ASSUME NEW cs, Conns(cs)
  PROVE  Conns(Pages!Abandoned(cs))
  <1> DEFINE s  == a.sock
             ds == Pages!Up(cs, s, Pages!Close)
  <1>1. Conns(ds)
    BY Sends
  <1> HIDE DEF ds
  <1>2. Conns([ds EXCEPT ![s].down = <<>>])
    BY <1>1 DEF Conns
  <1>3. \/ Pages!Abandoned(cs) = cs
        \/ Pages!Abandoned(cs) = Pages!Over(cs, s)
        \/ Pages!Abandoned(cs) = [ds EXCEPT ![s].down = <<>>]
    BY DEF Pages!Abandoned, ds
  <1>4. QED
    BY <1>2, <1>3, Ends

LEMMA HadTwice ==
  ASSUME NEW cs, NEW ds, NEW es, Had(cs, ds), Had(ds, es)
  PROVE  Had(cs, es)
  BY DEF Had

\* A step that leaves the page its socket, and the Hub its memory of it.
LEMMA AskingStays ==
  ASSUME AskingInv, a' = a, Had(b, b')
  PROVE  AskingInv'
  BY DEF AskingInv, Had, Pages!Ready

LEMMA WaitsStay ==
  ASSUME WaitsAreKnown, a'.pending = a.pending, c'.up = c.up, c'.posted = c.posted,
         c'.commands = c.commands, d' = d
  PROVE  WaitsAreKnown' /\ AnswersAreFinal
  BY DEF WaitsAreKnown, AnswersAreFinal

-----------------------------------------------------------------------------
(* The steps of the page.                                                  *)

PagesGood == PagesInv' /\ AnswersAreFinal

LEMMA ConnectKeeps ==
  ASSUME PagesInv, Pages!Connect
  PROVE  PagesGood
  <1> DEFINE n == Pages!Min(Pages!Free)
  <1>1. a' = [a EXCEPT !.sock = n, !.due = FALSE] /\ a.sock = 0 /\ b' = b /\ c' = c /\ d' = d
    BY DEF Pages!Connect
  <1> HIDE DEF n
  <1>2. PagesShape' /\ Conns(b)' /\ a'.pending = a.pending
    BY <1>1 DEF PagesInv, PagesShape, Conns
  <1>3. a'.sock = n /\ a'.session = 0 /\ a.pending = {}
    BY <1>1 DEF PagesInv, PagesShape, AskingInv, Pages!Ready
  <1>4. AskingInv'
    BY <1>2, <1>3 DEF AskingInv, Pages!Ready
  <1>5. QED
    BY <1>1, <1>2, <1>4, WaitsStay DEF PagesGood, PagesInv

LEMMA WelcomeKeeps ==
  ASSUME PagesInv, NEW s \in Pages!Sockets, Pages!Welcome(s)
  PROVE  PagesGood
  <1>1. /\ a' = [a EXCEPT !.session = s, !.tries = 0, !.gaveUp = FALSE]
        /\ b' = [b EXCEPT ![s].down = Tail(@)] /\ c' = c /\ d' = d
        /\ a.sock = s /\ b[s].down # <<>>
    BY DEF Pages!Welcome, Pages!Took, Pages!Received
  <1>2. b[s].hub # "none" /\ s # 0
    BY <1>1 DEF PagesInv, Conns, Pages!Sockets
  <1>3. PagesShape' /\ Conns(b)' /\ a'.pending = a.pending /\ b'[s].hub # "none"
    BY <1>1, <1>2 DEF PagesInv, PagesShape, Conns
  <1>4. a'.sock = s /\ a'.session = s
    BY <1>1 DEF PagesInv, PagesShape
  <1>5. AskingInv'
    BY <1>2, <1>3, <1>4 DEF AskingInv, Pages!Ready
  <1>6. QED
    BY <1>1, <1>3, <1>5, WaitsStay DEF PagesGood, PagesInv

LEMMA RunCommandKeeps ==
  ASSUME PagesInv, NEW s \in Pages!Sockets, Pages!RunCommand(s)
  PROVE  PagesGood
  <1> DEFINE k    == Head(b[s].down).item
             rest == [b EXCEPT ![s].down = Tail(@)]
  <1>1. /\ \/ b' = Pages!Up(rest, s, Pages!Msg("failed", k, s)) /\ a' = a
           \/ b' = rest /\ a' = [a EXCEPT !.inbound = @ \cup {k}]
        /\ c' = c /\ d' = d /\ b[s].down # <<>>
    BY DEF Pages!RunCommand, Pages!Received
  <1>2. Conns(rest) /\ Had(b, rest)
    BY <1>1 DEF PagesInv, Conns, Had
  <1> HIDE DEF rest, k
  <1>3. Conns(b') /\ Had(b, b')
    BY <1>1, <1>2, Sends, HadTwice
  <1>4. PagesShape' /\ a'.pending = a.pending /\ a'.sock = a.sock /\ a'.session = a.session
    BY <1>1 DEF PagesInv, PagesShape
  <1>5. AskingInv'
    BY <1>3, <1>4 DEF PagesInv, AskingInv, Had, Pages!Ready
  <1>6. QED
    BY <1>1, <1>3, <1>4, <1>5, WaitsStay DEF PagesGood, PagesInv

LEMMA CommandEndsKeeps ==
  ASSUME PagesInv, NEW x, Pages!CommandEnds(x)
  PROVE  PagesGood
  <1>1. /\ a' = [a EXCEPT !.inbound = @ \ {x}] /\ c' = c /\ d' = d
        /\ \/ b' = b
           \/ \E how : b' = Pages!Up(b, a.sock, Pages!Msg(how, x, a.session))
    BY DEF Pages!CommandEnds
  <1>2. Conns(b') /\ Had(b, b')
    BY <1>1, Sends DEF PagesInv, Had
  <1>3. PagesShape' /\ a'.pending = a.pending /\ a'.sock = a.sock /\ a'.session = a.session
    BY <1>1 DEF PagesInv, PagesShape
  <1>4. AskingInv'
    BY <1>2, <1>3 DEF PagesInv, AskingInv, Had, Pages!Ready
  <1>5. QED
    BY <1>1, <1>2, <1>3, <1>4, WaitsStay DEF PagesGood, PagesInv

\* What the page had asked and what it does without its socket are over together.
LEMMA Disconnects ==
  ASSUME CommandsAreNoRequests, PagesInv, a'.pending = {}, c'.up = c.up, c'.posted = c.posted,
         c'.commands = c.commands, d' = Pages!Disconnected(d)
  PROVE  WaitsAreKnown' /\ AnswersAreFinal /\ DOMAIN d' = Calls
  <1>1. d' = [x \in Calls |-> IF x \in a.pending THEN "disconnected" ELSE d[x]]
    BY DEF PagesInv, PagesShape, Pages!Disconnected
  <1>2. \A x \in Commands : x \in Calls /\ x \notin a.pending /\ d'[x] = d[x]
    BY <1>1 DEF PagesInv, WaitsAreKnown, CommandsAreNoRequests, Calls
  <1>3. \A x \in Requests : d'[x] = IF x \in a.pending THEN "disconnected" ELSE d[x]
    BY <1>1 DEF Calls
  <1>4. WaitsAreKnown'
    BY <1>2, <1>3 DEF PagesInv, WaitsAreKnown
  <1>5. AnswersAreFinal
    BY <1>1, <1>2 DEF PagesInv, WaitsAreKnown, AnswersAreFinal, Calls, Pages!Answers
  <1>6. QED
    BY <1>1, <1>4, <1>5

\* stop() leaves no socket, no session and nothing asked.
LEMMA Stops ==
  ASSUME PagesShape
  PROVE  LET p == Pages!Stopped(a)
         IN  /\ DOMAIN p = DOMAIN a
             /\ p.sock = 0 /\ p.session = 0 /\ p.pending = {}
  BY DEF PagesShape, Pages!Stopped

LEMMA Losing ==
  ASSUME PagesShape
  PROVE  /\ DOMAIN Pages!Lost = DOMAIN a
         /\ Pages!Lost.sock = 0 /\ Pages!Lost.session = 0 /\ Pages!Lost.pending = {}
  <1> DEFINE p == Pages!Stopped(a)
  <1>1. DOMAIN p = DOMAIN a /\ p.sock = 0 /\ p.session = 0 /\ p.pending = {}
    BY Stops
  <1>2. \/ Pages!Lost = [p EXCEPT !.tries = @ + 1, !.due = TRUE]
        \/ Pages!Lost = [p EXCEPT !.gaveUp = TRUE]
    BY DEF Pages!Lost
  <1> HIDE DEF p
  <1>3. QED
    BY <1>1, <1>2 DEF PagesShape

LEMMA NothingAsked ==
  ASSUME a'.sock = 0, a'.session = 0, a'.pending = {}
  PROVE  AskingInv'
  BY DEF AskingInv, Pages!Ready

LEMMA UpgradeFailsKeeps ==
  ASSUME PagesInv, NEW s \in Pages!Sockets, Pages!UpgradeFails(s) \/ Pages!UpgradeRefused(s)
  PROVE  PagesGood
  <1>1. /\ a' = Pages!Lost /\ b' = b /\ c' = c /\ d' = d
        /\ a.sock = s /\ b[s].hub = "none"
    BY DEF Pages!UpgradeFails, Pages!UpgradeRefused
  <1>2. a.pending = {}
    BY <1>1 DEF PagesInv, AskingInv
  <1>3. DOMAIN a' = DOMAIN a /\ a'.sock = 0 /\ a'.session = 0 /\ a'.pending = {}
    BY <1>1, Losing DEF PagesInv
  <1>4. PagesShape' /\ Conns(b)' /\ AskingInv'
    BY <1>1, <1>3, NothingAsked DEF PagesInv, PagesShape, Conns
  <1>5. QED
    BY <1>1, <1>2, <1>3, <1>4, WaitsStay DEF PagesGood, PagesInv

LEMMA PageLosesSocketKeeps ==
  ASSUME CommandsAreNoRequests, PagesInv, NEW s \in Pages!Sockets, Pages!PageLosesSocket(s)
  PROVE  PagesGood
  <1>1. /\ a' = Pages!Lost /\ c' = c /\ d' = Pages!Disconnected(d)
        /\ b' = Pages!Over(b, s) \/ b' = [b EXCEPT ![s].down = <<>>]
    BY DEF Pages!PageLosesSocket
  <1>2. DOMAIN a' = DOMAIN a /\ a'.sock = 0 /\ a'.session = 0 /\ a'.pending = {}
    BY <1>1, Losing DEF PagesInv
  <1>3. Conns([b EXCEPT ![s].down = <<>>])
    BY DEF PagesInv, Conns
  <1>4. Conns(b')
    BY <1>1, <1>3, Ends DEF PagesInv
  <1>5. WaitsAreKnown' /\ AnswersAreFinal /\ DOMAIN d' = Calls
    BY <1>1, <1>2, Disconnects
  <1>6. PagesShape'
    BY <1>1, <1>2, <1>5 DEF PagesInv, PagesShape
  <1>7. QED
    BY <1>2, <1>4, <1>5, <1>6, NothingAsked DEF PagesGood, PagesInv

LEMMA ReceiveResultKeeps ==
  ASSUME CommandsAreNoRequests, PagesInv, NEW s \in Pages!Sockets, Pages!ReceiveResult(s)
  PROVE  PagesGood
  <1> DEFINE r == Head(b[s].down).item
  <1>1. /\ a' = [a EXCEPT !.pending = @ \ {r}]
        /\ b' = [b EXCEPT ![s].down = Tail(@)] /\ c' = c
        /\ d' = IF r \in a.pending THEN [d EXCEPT ![r] = "ok"] ELSE d
        /\ b[s].down # <<>>
    BY DEF Pages!ReceiveResult, Pages!Took, Pages!Received
  <1> HIDE DEF r
  <1>2. /\ a'.pending = a.pending \ {r} /\ a'.sock = a.sock /\ a'.session = a.session
        /\ DOMAIN a' = DOMAIN a /\ DOMAIN d' = Calls
    BY <1>1 DEF PagesInv, PagesShape
  <1>3. Conns(b)' /\ Had(b, b')
    BY <1>1 DEF PagesInv, Conns, Had
  <1>4. AskingInv'
    BY <1>2, <1>3 DEF PagesInv, AskingInv, Had, Pages!Ready
  <1>5. PagesShape'
    BY <1>1, <1>2 DEF PagesInv, PagesShape
  <1>6. \A x \in Calls : d'[x] = IF x = r /\ r \in a.pending THEN "ok" ELSE d[x]
    BY <1>1 DEF PagesInv, PagesShape
  <1>7. WaitsAreKnown'
    BY <1>1, <1>2, <1>6 DEF PagesInv, WaitsAreKnown, CommandsAreNoRequests, Calls
  <1>8. AnswersAreFinal
    BY <1>6 DEF PagesInv, WaitsAreKnown, AnswersAreFinal, Pages!Answers
  <1>9. QED
    BY <1>3, <1>4, <1>5, <1>7, <1>8 DEF PagesGood, PagesInv

\* A call that is not over takes a next state.
LEMMA OneCall ==
  ASSUME PagesInv, NEW x \in Calls, NEW v, d' = [d EXCEPT ![x] = v], d[x] \notin Pages!Answers
  PROVE  /\ AnswersAreFinal /\ DOMAIN d' = Calls
         /\ \A y \in Calls : d'[y] = IF y = x THEN v ELSE d[y]
  BY DEF PagesInv, PagesShape, AnswersAreFinal

LEMMA AskKeeps ==
  ASSUME CommandsAreNoRequests, PagesInv, NEW r \in Requests, Pages!Ask(r)
  PROVE  PagesGood
  <1> DEFINE p == Pages!Stopped(a)
  <1>1. d[r] = "new" /\ d' = [d EXCEPT ![r] = "waiting"] /\ b' = b /\ c' = c
    BY DEF Pages!Ask
  <1>0. \/ a' = a
        \/ ~Pages!Ready /\ a' = [p EXCEPT !.tries = 0, !.gaveUp = FALSE, !.due = TRUE]
    BY Zenon DEF Pages!Ask
  <1>2. DOMAIN p = DOMAIN a /\ p.sock = 0 /\ p.session = 0 /\ p.pending = {}
    BY Stops DEF PagesInv
  <1> HIDE DEF p
  <1>3. /\ AnswersAreFinal /\ DOMAIN d' = Calls
        /\ \A y \in Calls : d'[y] = IF y = r THEN "waiting" ELSE d[y]
    BY <1>1, OneCall DEF Calls, Pages!Answers
  <1>4. DOMAIN a' = DOMAIN a /\ a'.pending = a.pending
    BY <1>0, <1>2 DEF PagesInv, PagesShape, AskingInv
  <1>5. AskingInv'
    BY <1>0, <1>1, <1>2 DEF PagesInv, PagesShape, AskingInv, Pages!Ready
  <1>6. PagesShape' /\ Conns(b)'
    BY <1>1, <1>3, <1>4 DEF PagesInv, PagesShape, Conns
  <1>7. WaitsAreKnown'
    BY <1>1, <1>3, <1>4 DEF PagesInv, WaitsAreKnown, Calls, CommandsAreNoRequests
  <1>8. QED
    BY <1>3, <1>5, <1>6, <1>7 DEF PagesGood, PagesInv

LEMMA SendKeeps ==
  ASSUME CommandsAreNoRequests, PagesInv, NEW r \in Requests, Pages!Send(r)
  PROVE  PagesGood
  <1>1. d[r] = "waiting" /\ Pages!Ready /\ c' = c
    BY DEF Pages!Send
  <1>2. \/ d' = [d EXCEPT ![r] = "busy"] /\ a' = a /\ b' = b
        \/ /\ d' = [d EXCEPT ![r] = "sent"] /\ a' = [a EXCEPT !.pending = @ \cup {r}]
           /\ b' = Pages!Up(b, a.sock, Pages!Msg("request", r, a.session))
    BY DEF Pages!Send
  <1>3. /\ AnswersAreFinal /\ DOMAIN d' = Calls
        /\ \A y \in Calls : d'[y] = IF y = r THEN d'[r] ELSE d[y]
    <2>1. d' = [d EXCEPT ![r] = "busy"] \/ d' = [d EXCEPT ![r] = "sent"]
      BY <1>2
    <2>2. QED
      BY <1>1, <2>1, OneCall DEF PagesInv, PagesShape, Calls, Pages!Answers
  <1>10. \/ d'[r] = "busy" /\ a'.pending = a.pending
         \/ d'[r] = "sent" /\ a'.pending = a.pending \cup {r}
    BY <1>2 DEF PagesInv, PagesShape, Calls
  <1>4. Conns(b') /\ Had(b, b')
    BY <1>2, Sends DEF PagesInv, Had
  <1>5. DOMAIN a' = DOMAIN a /\ a'.sock = a.sock /\ a'.session = a.session
    BY <1>2 DEF PagesInv, PagesShape
  <1>6. AskingInv'
    BY <1>1, <1>4, <1>5 DEF PagesInv, AskingInv, Had, Pages!Ready
  <1>7. PagesShape'
    BY <1>1, <1>3, <1>5 DEF PagesInv, PagesShape
  <1>8. WaitsAreKnown'
    BY <1>1, <1>3, <1>10 DEF PagesInv, WaitsAreKnown, Calls, CommandsAreNoRequests
  <1>9. QED
    BY <1>3, <1>4, <1>6, <1>7, <1>8 DEF PagesGood, PagesInv

LEMMA RequestTimeoutKeeps ==
  ASSUME CommandsAreNoRequests, PagesInv, NEW r \in Requests, Pages!RequestTimeout(r)
  PROVE  PagesGood
  <1>1. /\ d[r] \in {"waiting", "sent"} /\ b' = b /\ c' = c
        /\ a' = [a EXCEPT !.pending = @ \ {r}]
        /\ \E v \in {"not_connected", "timeout"} : d' = [d EXCEPT ![r] = v]
    BY DEF Pages!RequestTimeout
  <1>2. PICK v \in {"not_connected", "timeout"} : d' = [d EXCEPT ![r] = v]
    BY <1>1
  <1>3. /\ AnswersAreFinal /\ DOMAIN d' = Calls
        /\ \A y \in Calls : d'[y] = IF y = r THEN v ELSE d[y]
    BY <1>1, <1>2, OneCall DEF Calls, Pages!Answers
  <1>4. DOMAIN a' = DOMAIN a /\ a'.sock = a.sock /\ a'.session = a.session /\ a'.pending = a.pending \ {r}
    BY <1>1 DEF PagesInv, PagesShape
  <1>5. AskingInv' /\ Conns(b)'
    BY <1>1, <1>4 DEF PagesInv, AskingInv, Pages!Ready, Conns
  <1>6. PagesShape'
    BY <1>1, <1>3, <1>4 DEF PagesInv, PagesShape
  <1>7. WaitsAreKnown'
    BY <1>1, <1>3, <1>4 DEF PagesInv, WaitsAreKnown, Calls, CommandsAreNoRequests
  <1>8. QED
    BY <1>3, <1>5, <1>6, <1>7 DEF PagesGood, PagesInv

LEMMA UsesKeep ==
  ASSUME CommandsAreNoRequests, PagesInv, Pages!Uses
  PROVE  PagesGood
  <1> DEFINE p == Pages!Stopped(a)
  <1>1. DOMAIN p = DOMAIN a /\ p.sock = 0 /\ p.session = 0 /\ p.pending = {}
    BY Stops DEF PagesInv
  <1>2. \/ \E h : a' = [p EXCEPT !.paused = h] /\ b' = Pages!Abandoned(b) /\ d' = Pages!Disconnected(d)
        \/ \E h : a' = [p EXCEPT !.hidden = h] /\ b' = Pages!Abandoned(b) /\ d' = Pages!Disconnected(d)
        \/ a' = Pages!Retrying([p EXCEPT !.paused = FALSE]) /\ b' = Pages!Abandoned(b) /\ d' = Pages!Disconnected(d)
        \/ a' = Pages!Retrying([a EXCEPT !.paused = FALSE]) /\ b' = b /\ d' = d
        \/ a' = Pages!Retrying([a EXCEPT !.hidden = FALSE]) /\ b' = b /\ d' = d
    BY DEF Pages!Uses, Pages!Use
  <1>3. c' = c
    BY DEF Pages!Uses, Pages!Use
  <1> HIDE DEF p
  <1>4. \/ /\ DOMAIN a' = DOMAIN a /\ a'.sock = 0 /\ a'.session = 0 /\ a'.pending = {}
           /\ b' = Pages!Abandoned(b) /\ d' = Pages!Disconnected(d)
        \/ /\ DOMAIN a' = DOMAIN a /\ a'.sock = a.sock /\ a'.session = a.session /\ a'.pending = a.pending
           /\ b' = b /\ d' = d
    BY <1>1, <1>2 DEF PagesInv, PagesShape, Pages!Retrying
  <1>5. ASSUME DOMAIN a' = DOMAIN a, a'.sock = 0, a'.session = 0, a'.pending = {},
               b' = Pages!Abandoned(b), d' = Pages!Disconnected(d)
        PROVE  PagesGood
    <2>1. WaitsAreKnown' /\ AnswersAreFinal /\ DOMAIN d' = Calls
      BY <1>3, <1>5, Disconnects
    <2>2. Conns(b')
      BY <1>5, Abandons DEF PagesInv
    <2>3. PagesShape'
      BY <1>3, <1>5, <2>1 DEF PagesInv, PagesShape
    <2>4. QED
      BY <1>5, <2>1, <2>2, <2>3, NothingAsked DEF PagesGood, PagesInv
  <1>6. ASSUME DOMAIN a' = DOMAIN a, a'.sock = a.sock, a'.session = a.session, a'.pending = a.pending,
               b' = b, d' = d
        PROVE  PagesGood
    <2>1. PagesShape' /\ Conns(b)' /\ AskingInv'
      BY <1>3, <1>6 DEF PagesInv, PagesShape, Conns, AskingInv, Pages!Ready
    <2>2. QED
      BY <1>3, <1>6, <2>1, WaitsStay DEF PagesGood, PagesInv
  <1>7. QED
    BY <1>4, <1>5, <1>6
-----------------------------------------------------------------------------
(* The steps of the Hub.                                                   *)

LEMMA UpgradeKeeps ==
  ASSUME PagesInv, NEW s \in Pages!Sockets, Pages!Upgrade(s)
  PROVE  PagesGood
  <1>1. /\ b' = [b EXCEPT ![s].hub = "open", ![s].up = <<Pages!Hello>>]
        /\ a' = a /\ c' = c /\ d' = d
    BY DEF Pages!Upgrade
  <1>2. Conns(b)' /\ Had(b, b')
    BY <1>1 DEF PagesInv, Conns, Had
  <1>3. PagesShape' /\ AskingInv'
    BY <1>1, <1>2, AskingStays DEF PagesInv, PagesShape
  <1>4. QED
    BY <1>1, <1>2, <1>3, WaitsStay DEF PagesGood, PagesInv

LEMMA Rests ==
  ASSUME Conns(b), NEW s
  PROVE  Conns(Pages!Rest(s)) /\ Had(b, Pages!Rest(s))
  BY DEF Conns, Had, Pages!Rest

LEMMA HearHelloKeeps ==
  ASSUME PagesInv, NEW s \in Pages!Sockets, Pages!HearHello(s)
  PROVE  PagesGood
  <1> DEFINE cs == [Pages!Rest(s) EXCEPT ![s].named = TRUE]
             ds == Pages!Shut(cs, c.registered)
  <1>1. /\ b' = Pages!Down(ds, s, Pages!Msg("welcome", None, s))
        /\ c' = [c EXCEPT !.registered = s] /\ a' = a /\ d' = d
    BY DEF Pages!HearHello
  <1>2. Conns(cs) /\ Had(b, cs)
    BY DEF PagesInv, Pages!Rest, Conns, Had
  <1> HIDE DEF cs
  <1>3. Conns(ds) /\ Had(b, ds)
    BY <1>2, Shuts, HadTwice
  <1> HIDE DEF ds
  <1>4. Conns(b') /\ Had(b, b')
    BY <1>1, <1>3, Replies, HadTwice
  <1>5. PagesShape' /\ AskingInv' /\ c'.up = c.up /\ c'.posted = c.posted /\ c'.commands = c.commands
    BY <1>1, <1>4, AskingStays DEF PagesInv, PagesShape
  <1>6. QED
    BY <1>1, <1>4, <1>5, WaitsStay DEF PagesGood, PagesInv

LEMMA HelloTimeoutKeeps ==
  ASSUME PagesInv, NEW s \in Pages!Sockets, Pages!HelloTimeout(s)
  PROVE  PagesGood
  <1>1. b' = Pages!Shut(b, s) /\ a' = a /\ c' = c /\ d' = d
    BY DEF Pages!HelloTimeout
  <1>2. Conns(b') /\ Had(b, b')
    BY <1>1, Shuts DEF PagesInv
  <1>3. PagesShape' /\ AskingInv'
    BY <1>1, <1>2, AskingStays DEF PagesInv, PagesShape
  <1>4. QED
    BY <1>1, <1>2, <1>3, WaitsStay DEF PagesGood, PagesInv

\* The commands of some set are over, and the Hub has forgotten them.
Forgets(mine, cs) ==
  /\ DOMAIN cs = DOMAIN c.commands \ mine
  /\ mine \subseteq DOMAIN c.commands
  /\ DOMAIN d' = Calls
  /\ \A x \in Calls : x \notin mine => d'[x] = d[x]
  /\ \A x \in mine : d'[x] \in Pages!Answers

LEMMA Forgetting ==
  ASSUME CommandsAreNoRequests, PagesInv, NEW mine, Forgets(mine, c'.commands),
         a'.pending = a.pending, c'.up = c.up, c'.posted = c.posted
  PROVE  WaitsAreKnown' /\ AnswersAreFinal
  <1>1. \A x \in mine : x \in Commands /\ x \notin Requests /\ d[x] = "sent"
    BY DEF Forgets, PagesInv, WaitsAreKnown, CommandsAreNoRequests
  <1>2. \A x \in Commands : x \in Calls /\ (x \notin mine => d'[x] = d[x])
    BY DEF Forgets, Calls
  <1>3. \A x \in Requests : d'[x] = d[x]
    BY <1>1 DEF Forgets, Calls
  <1>4. \A x \in Commands : /\ d'[x] # "waiting"
                            /\ d'[x] = "posted" <=> x \in DOMAIN c.posted
                            /\ d'[x] = "sent" <=> x \in DOMAIN c'.commands
    <2> TAKE x \in Commands
    <2>1. CASE x \in mine
      <3>1. d'[x] # "waiting" /\ d'[x] # "posted" /\ d'[x] # "sent"
        BY <2>1 DEF Forgets, Pages!Answers
      <3>2. x \notin DOMAIN c'.commands
        BY <2>1 DEF Forgets
      <3>3. x \notin DOMAIN c.posted
        BY <1>1, <2>1 DEF PagesInv, WaitsAreKnown
      <3>4. QED
        BY <3>1, <3>2, <3>3
    <2>2. CASE x \notin mine
      <3>1. x \in DOMAIN c'.commands <=> x \in DOMAIN c.commands
        BY <2>2 DEF Forgets
      <3>2. QED
        BY <1>2, <2>2, <3>1 DEF PagesInv, WaitsAreKnown
    <2>3. QED
      BY <2>1, <2>2
  <1>5. WaitsAreKnown'
    BY <1>3, <1>4 DEF PagesInv, WaitsAreKnown, Forgets
  <1>6. AnswersAreFinal
    BY <1>1 DEF Forgets, AnswersAreFinal, Pages!Answers
  <1>7. QED
    BY <1>5, <1>6

LEMMA HearResultKeeps ==
  ASSUME CommandsAreNoRequests, PagesInv, NEW s \in Pages!Sockets, Pages!HearResult(s)
  PROVE  PagesGood
  <1> DEFINE m     == Head(b[s].up)
             known == m.item \in DOMAIN c.commands
             x     == m.item
  <1>1. /\ a' = a /\ m.kind \in {"ok", "failed"}
        /\ \/ b' = Pages!Shut(Pages!Rest(s), s) /\ c' = c /\ d' = d
           \/ /\ b' = Pages!Rest(s)
              /\ c' = [c EXCEPT !.commands = [y \in DOMAIN @ \ {m.item} |-> @[y]]]
              /\ d' = IF known THEN [d EXCEPT ![m.item] = m.kind] ELSE d
    BY DEF Pages!HearResult, Pages!Heard
  <1>2. Conns(Pages!Rest(s)) /\ Had(b, Pages!Rest(s))
    BY Rests DEF PagesInv
  <1>3. Conns(b') /\ Had(b, b')
    BY <1>1, <1>2, Shuts, HadTwice
  <1>4. AskingInv'
    BY <1>1, <1>3, AskingStays DEF PagesInv
  <1>5. CASE c' = c /\ d' = d
    BY <1>1, <1>3, <1>4, <1>5, WaitsStay DEF PagesGood, PagesInv, PagesShape
  <1>6. ASSUME c' = [c EXCEPT !.commands = [y \in DOMAIN @ \ {m.item} |-> @[y]]],
               d' = IF known THEN [d EXCEPT ![m.item] = m.kind] ELSE d
        PROVE  PagesGood
    <2> DEFINE mine == {m.item} \cap DOMAIN c.commands
    <2>1. /\ DOMAIN c' = DOMAIN c /\ c'.up = c.up /\ c'.posted = c.posted
          /\ DOMAIN c'.commands = DOMAIN c.commands \ {m.item}
      BY <1>6 DEF PagesInv, PagesShape
    <2>2. DOMAIN d = Calls /\ DOMAIN d' = Calls
      BY <1>6 DEF PagesInv, PagesShape
    <2>3. known => m.item \in Calls
      BY DEF PagesInv, WaitsAreKnown, Calls
    <2>4. Forgets(mine, c'.commands)
      BY <1>1, <1>6, <2>1, <2>2, <2>3 DEF Forgets, Pages!Answers
    <2>5. WaitsAreKnown' /\ AnswersAreFinal
      BY <1>1, <2>1, <2>4, Forgetting
    <2>6. PagesShape'
      BY <1>1, <2>1, <2>2 DEF PagesInv, PagesShape
    <2>7. QED
      BY <1>3, <1>4, <2>5, <2>6 DEF PagesGood, PagesInv
  <1>7. QED
    BY <1>1, <1>5, <1>6

LEMMA HearRequestKeeps ==
  ASSUME PagesInv, NEW s \in Pages!Sockets, Pages!HearRequest(s)
  PROVE  PagesGood
  <1> DEFINE r  == Head(b[s].up).item
             cs == Pages!Rest(s)
  <1>1. /\ a' = a /\ d' = d
        /\ \/ b' = Pages!Down(cs, s, Pages!Msg("result", r, s)) /\ c' = c
           \/ /\ b' = [cs EXCEPT ![s].pending = @ + 1]
              /\ c' = [c EXCEPT !.active = @ + 1, !.running = @ \cup {<<r, s>>}]
    BY DEF Pages!HearRequest
  <1>2. Conns(cs) /\ Had(b, cs)
    BY Rests DEF PagesInv
  <1> HIDE DEF cs, r
  <1>3. Conns([cs EXCEPT ![s].pending = @ + 1]) /\ Had(cs, [cs EXCEPT ![s].pending = @ + 1])
    BY <1>2 DEF Conns, Had
  <1>4. Conns(b') /\ Had(b, b')
    BY <1>1, <1>2, <1>3, Replies, HadTwice
  <1>5. DOMAIN c' = DOMAIN c /\ c'.up = c.up /\ c'.posted = c.posted /\ c'.commands = c.commands
    BY <1>1 DEF PagesInv, PagesShape
  <1>6. PagesShape' /\ AskingInv'
    BY <1>1, <1>4, <1>5, AskingStays DEF PagesInv, PagesShape
  <1>7. QED
    BY <1>1, <1>4, <1>5, <1>6, WaitsStay DEF PagesGood, PagesInv

LEMMA HandlerEndsKeeps ==
  ASSUME PagesInv, NEW r, NEW s \in Pages!Sockets, Pages!HandlerEnds(r, s)
  PROVE  PagesGood
  <1> DEFINE cs == [b EXCEPT ![s].pending = @ - 1]
  <1>1. /\ a' = a /\ d' = d
        /\ c' = [c EXCEPT !.active = @ - 1, !.running = @ \ {<<r, s>>}]
        /\ b' = Pages!Down(cs, s, Pages!Msg("result", r, s))
    BY DEF Pages!HandlerEnds
  <1>2. Conns(cs) /\ Had(b, cs)
    BY DEF PagesInv, Conns, Had
  <1> HIDE DEF cs
  <1>3. Conns(b') /\ Had(b, b')
    BY <1>1, <1>2, Replies, HadTwice
  <1>4. DOMAIN c' = DOMAIN c /\ c'.up = c.up /\ c'.posted = c.posted /\ c'.commands = c.commands
    BY <1>1 DEF PagesInv, PagesShape
  <1>5. PagesShape' /\ AskingInv'
    BY <1>1, <1>3, <1>4, AskingStays DEF PagesInv, PagesShape
  <1>6. QED
    BY <1>1, <1>3, <1>4, <1>5, WaitsStay DEF PagesGood, PagesInv

LEMMA ClosedKeeps ==
  ASSUME CommandsAreNoRequests, PagesInv, NEW s \in Pages!Sockets, Pages!Closed(s)
  PROVE  PagesGood
  <1> DEFINE mine == {x \in DOMAIN c.commands : c.commands[x] = s}
  <1>1. /\ a' = a
        /\ b' = IF a.sock = s THEN [b EXCEPT ![s].hub = "closed", ![s].up = <<>>] ELSE Pages!Over(b, s)
    BY DEF Pages!Closed
  <1>2. /\ c' = [c EXCEPT !.registered = IF @ = s THEN 0 ELSE @,
                          !.commands = [x \in DOMAIN @ \ mine |-> @[x]]]
        /\ d' = [x \in DOMAIN d |-> IF x \in mine THEN "disconnected" ELSE d[x]]
    BY DEF Pages!Closed
  <1>3. mine \subseteq DOMAIN c.commands
    OBVIOUS
  <1> HIDE DEF mine
  <1>4. /\ DOMAIN c' = DOMAIN c /\ c'.up = c.up /\ c'.posted = c.posted
        /\ DOMAIN c'.commands = DOMAIN c.commands \ mine
    BY <1>2 DEF PagesInv, PagesShape
  <1>5. Forgets(mine, c'.commands)
    BY <1>2, <1>3, <1>4 DEF Forgets, PagesInv, PagesShape, WaitsAreKnown, Calls, Pages!Answers
  <1>6. WaitsAreKnown' /\ AnswersAreFinal
    BY <1>1, <1>4, <1>5, Forgetting
  <1>7. CASE a.sock = s
    <2>1. b' = [b EXCEPT ![s].hub = "closed", ![s].up = <<>>]
      BY <1>1, <1>7
    <2>2. Conns(b)' /\ Had(b, b')
      BY <2>1 DEF PagesInv, Conns, Had
    <2>3. AskingInv'
      BY <1>1, <2>2, AskingStays DEF PagesInv
    <2>4. QED
      BY <1>1, <1>4, <1>5, <1>6, <2>2, <2>3 DEF PagesGood, PagesInv, PagesShape, Forgets
  <1>8. CASE a.sock # s
    <2>1. Conns(b') /\ \A t \in Pages!Sockets : t # s => b'[t] = b[t]
      BY <1>1, <1>8, Ends DEF PagesInv
    <2>2. AskingInv'
      BY <1>1, <1>8, <2>1 DEF PagesInv, AskingInv, Pages!Ready
    <2>3. QED
      BY <1>1, <1>4, <1>5, <1>6, <2>1, <2>2 DEF PagesGood, PagesInv, PagesShape, Forgets
  <1>9. QED
    BY <1>7, <1>8

-----------------------------------------------------------------------------
(* Commands, and what happens to the Hub.                                  *)

LEMMA PostKeeps ==
  ASSUME CommandsAreNoRequests, PagesInv, NEW x \in Commands, Pages!Post(x)
  PROVE  PagesGood
  <1> DEFINE put == [c EXCEPT !.posted = [y \in DOMAIN @ \cup {x} |-> IF y = x THEN c.registered ELSE @[y]]]
  <1>1. d[x] = "new" /\ a' = a /\ b' = b /\ c.up
    BY DEF Pages!Post
  <1>2. \/ c' = c /\ d' = [d EXCEPT ![x] = "not_found"]
        \/ c' = c /\ d' = [d EXCEPT ![x] = "busy"]
        \/ c' = put /\ d' = [d EXCEPT ![x] = "posted"]
    BY DEF Pages!Post
  <1>3. /\ DOMAIN put = DOMAIN c /\ put.commands = c.commands /\ put.up = c.up
        /\ DOMAIN put.posted = DOMAIN c.posted \cup {x}
    BY DEF PagesInv, PagesShape
  <1> HIDE DEF put
  <1>4. PICK v \in {"not_found", "busy", "posted"} :
          /\ d' = [d EXCEPT ![x] = v] /\ DOMAIN c' = DOMAIN c /\ c'.commands = c.commands /\ c'.up = c.up
          /\ DOMAIN c'.posted = IF v = "posted" THEN DOMAIN c.posted \cup {x} ELSE DOMAIN c.posted
    BY <1>2, <1>3
  <1>5. /\ AnswersAreFinal /\ DOMAIN d' = Calls
        /\ \A y \in Calls : d'[y] = IF y = x THEN v ELSE d[y]
    BY <1>1, <1>4, OneCall DEF Calls, Pages!Answers
  <1>6. x \notin Requests /\ x \notin DOMAIN c.commands /\ x \notin DOMAIN c.posted
    BY <1>1 DEF PagesInv, WaitsAreKnown, CommandsAreNoRequests
  <1>7. PagesShape' /\ Conns(b)' /\ AskingInv'
    BY <1>1, <1>4, <1>5 DEF PagesInv, PagesShape, Conns, AskingInv, Pages!Ready
  <1>8. WaitsAreKnown'
    BY <1>1, <1>4, <1>5, <1>6 DEF PagesInv, WaitsAreKnown, Calls
  <1>9. QED
    BY <1>5, <1>7, <1>8 DEF PagesGood, PagesInv

LEMMA SendCommandKeeps ==
  ASSUME CommandsAreNoRequests, PagesInv, NEW x \in Commands, Pages!SendCommand(x)
  PROVE  PagesGood
  <1> DEFINE s == c.posted[x]
  <1>1. /\ d[x] = "posted" /\ a' = a /\ d' = [d EXCEPT ![x] = "sent"]
        /\ b' = Pages!Down(b, s, Pages!Msg("command", x, s))
        /\ c' = [c EXCEPT !.posted = [y \in DOMAIN @ \ {x} |-> @[y]],
                          !.commands = [y \in DOMAIN @ \cup {x} |-> IF y = x THEN s ELSE @[y]]]
    BY DEF Pages!SendCommand
  <1> HIDE DEF s
  <1>2. Conns(b') /\ Had(b, b')
    BY <1>1, Replies DEF PagesInv
  <1>3. /\ AnswersAreFinal /\ DOMAIN d' = Calls
        /\ \A y \in Calls : d'[y] = IF y = x THEN "sent" ELSE d[y]
    BY <1>1, OneCall DEF Calls, Pages!Answers
  <1>4. /\ DOMAIN c' = DOMAIN c /\ c'.up = c.up /\ DOMAIN c'.commands = DOMAIN c.commands \cup {x}
        /\ DOMAIN c'.posted = DOMAIN c.posted \ {x}
    BY <1>1 DEF PagesInv, PagesShape
  <1>5. x \notin Requests
    BY DEF CommandsAreNoRequests
  <1>6. PagesShape' /\ AskingInv'
    BY <1>1, <1>2, <1>3, <1>4, AskingStays DEF PagesInv, PagesShape
  <1>7. WaitsAreKnown'
    BY <1>1, <1>3, <1>4, <1>5 DEF PagesInv, WaitsAreKnown, Calls
  <1>8. QED
    BY <1>2, <1>3, <1>6, <1>7 DEF PagesGood, PagesInv

LEMMA RefuseCommandKeeps ==
  ASSUME CommandsAreNoRequests, PagesInv, NEW x \in Commands, Pages!RefuseCommand(x)
  PROVE  PagesGood
  <1>1. /\ d[x] = "posted" /\ a' = a /\ b' = b /\ d' = [d EXCEPT ![x] = "failed"]
        /\ c' = [c EXCEPT !.posted = [y \in DOMAIN @ \ {x} |-> @[y]]]
    BY DEF Pages!RefuseCommand
  <1>2. /\ AnswersAreFinal /\ DOMAIN d' = Calls
        /\ \A y \in Calls : d'[y] = IF y = x THEN "failed" ELSE d[y]
    BY <1>1, OneCall DEF Calls, Pages!Answers
  <1>3. /\ DOMAIN c' = DOMAIN c /\ c'.up = c.up /\ c'.commands = c.commands
        /\ DOMAIN c'.posted = DOMAIN c.posted \ {x}
    BY <1>1 DEF PagesInv, PagesShape
  <1>4. x \notin Requests
    BY DEF CommandsAreNoRequests
  <1>5. PagesShape' /\ Conns(b)' /\ AskingInv'
    BY <1>1, <1>2, <1>3, <1>4 DEF PagesInv, PagesShape, Conns, AskingInv, Pages!Ready
  <1>6. WaitsAreKnown'
    BY <1>1, <1>2, <1>3, <1>4 DEF PagesInv, WaitsAreKnown, Calls
  <1>7. QED
    BY <1>2, <1>5, <1>6 DEF PagesGood, PagesInv

LEMMA CommandTimeoutKeeps ==
  ASSUME CommandsAreNoRequests, PagesInv, NEW x \in Commands, Pages!CommandTimeout(x)
  PROVE  PagesGood
  <1>1. /\ d[x] = "sent" /\ a' = a /\ b' = b /\ d' = [d EXCEPT ![x] = "timeout"]
        /\ c' = [c EXCEPT !.commands = [y \in DOMAIN @ \ {x} |-> @[y]]]
    BY DEF Pages!CommandTimeout
  <1>2. /\ DOMAIN c' = DOMAIN c /\ c'.up = c.up /\ c'.posted = c.posted
        /\ DOMAIN c'.commands = DOMAIN c.commands \ {x}
    BY <1>1 DEF PagesInv, PagesShape
  <1>3. Forgets({x}, c'.commands)
    BY <1>1, <1>2 DEF Forgets, PagesInv, PagesShape, WaitsAreKnown, Calls, Pages!Answers
  <1>4. WaitsAreKnown' /\ AnswersAreFinal
    BY <1>1, <1>2, <1>3, Forgetting
  <1>5. PagesShape' /\ Conns(b)' /\ AskingInv'
    BY <1>1, <1>2, <1>3 DEF PagesInv, PagesShape, Conns, AskingInv, Pages!Ready, Forgets
  <1>6. QED
    BY <1>4, <1>5 DEF PagesGood, PagesInv

LEMMA DropKeeps ==
  ASSUME PagesInv, NEW s \in Pages!Sockets, Pages!Drop(s)
  PROVE  PagesGood
  <1>1. /\ a' = a /\ c' = c /\ d' = d
        /\ \E down : b' = [b EXCEPT ![s].hub = "closing", ![s].up = <<>>, ![s].down = down]
    BY DEF Pages!Drop
  <1>2. Conns(b)' /\ Had(b, b')
    BY <1>1 DEF PagesInv, Conns, Had
  <1>3. PagesShape' /\ AskingInv'
    BY <1>1, <1>2, AskingStays DEF PagesInv, PagesShape
  <1>4. QED
    BY <1>1, <1>2, <1>3, WaitsStay DEF PagesGood, PagesInv

LEMMA HubStopsKeeps ==
  ASSUME CommandsAreNoRequests, PagesInv, Pages!HubStops
  PROVE  PagesGood
  <1> DEFINE mine == DOMAIN c.commands \cup DOMAIN c.posted
  <1>1. a' = a /\ c' = [Pages!Empty EXCEPT !.up = FALSE]
    BY DEF Pages!HubStops
  <1>2. b' = [s \in Pages!Sockets |->
                IF b[s].hub \in {"open", "closing"}
                  THEN IF a.sock = s THEN [Pages!Unused EXCEPT !.hub = "closed", !.down = <<Pages!Close>>]
                       ELSE Pages!Unused
                  ELSE [b[s] EXCEPT !.pending = 0]]
    BY DEF Pages!HubStops
  <1>3. d' = [x \in DOMAIN d |-> IF x \in mine THEN "disconnected" ELSE d[x]]
    BY DEF Pages!HubStops
  <1>4. /\ DOMAIN c' = DOMAIN c /\ c'.commands = <<>> /\ c'.posted = <<>> /\ DOMAIN <<>> = {}
    BY <1>1 DEF PagesInv, PagesShape, Pages!Empty
  <1>5. Conns(b)' /\ (a.sock \in Pages!Sockets /\ b[a.sock].hub # "none" => b'[a.sock].hub # "none")
    BY <1>2 DEF PagesInv, Conns, Pages!Unused
  <1>6. AskingInv'
    BY <1>1, <1>5 DEF PagesInv, AskingInv, Pages!Ready
  <1>7. DOMAIN d = Calls /\ mine \subseteq Commands
    BY DEF PagesInv, PagesShape, WaitsAreKnown
  <1>8. PagesShape'
    BY <1>1, <1>3, <1>4, <1>7 DEF PagesInv, PagesShape
  <1> HIDE DEF mine
  <1>9. \A x \in Calls : d'[x] = IF x \in mine THEN "disconnected" ELSE d[x]
    BY <1>3, <1>7
  <1>10. \A x \in Commands : x \in mine <=> d[x] \in {"posted", "sent"}
    BY DEF PagesInv, WaitsAreKnown, mine
  <1>11. \A x \in Requests : x \notin mine
    BY <1>7 DEF CommandsAreNoRequests
  <1>12. WaitsAreKnown'
    BY <1>1, <1>4, <1>9, <1>10, <1>11 DEF PagesInv, WaitsAreKnown, Calls
  <1>13. AnswersAreFinal
    BY <1>7, <1>9, <1>10 DEF AnswersAreFinal, Pages!Answers
  <1>14. QED
    BY <1>5, <1>6, <1>8, <1>12, <1>13 DEF PagesGood, PagesInv

LEMMA HubStartsKeeps ==
  ASSUME PagesInv, Pages!HubStarts
  PROVE  PagesGood
  <1>1. a' = a /\ b' = b /\ d' = d /\ c' = Pages!Empty /\ ~c.up
    BY DEF Pages!HubStarts
  <1>2. DOMAIN c' = DOMAIN c /\ DOMAIN c'.commands = {} /\ DOMAIN c'.posted = {}
    BY <1>1 DEF PagesInv, PagesShape, Pages!Empty
  <1>3. DOMAIN c.commands = {} /\ DOMAIN c.posted = {}
    BY <1>1 DEF PagesInv, WaitsAreKnown
  <1>4. PagesShape' /\ Conns(b)' /\ AskingInv'
    BY <1>1, <1>2 DEF PagesInv, PagesShape, Conns, AskingInv, Pages!Ready
  <1>5. WaitsAreKnown' /\ AnswersAreFinal
    BY <1>1, <1>2, <1>3 DEF PagesInv, WaitsAreKnown, AnswersAreFinal
  <1>6. QED
    BY <1>4, <1>5 DEF PagesGood, PagesInv

LEMMA PagesStep ==
  ASSUME CommandsAreNoRequests, PagesInv, [Pages!Next]_(Pages!vars)
  PROVE  PagesGood
  <1>1. CASE UNCHANGED Pages!vars
    <2>1. a' = a /\ b' = b /\ c' = c /\ d' = d
      BY <1>1 DEF Pages!vars
    <2>2. QED
      BY <2>1, WaitsStay DEF PagesGood, PagesInv, PagesShape, Conns, AskingInv, Pages!Ready
  <1>2. CASE Pages!PageStep
    BY <1>2, ConnectKeeps, UpgradeFailsKeeps, PageLosesSocketKeeps, WelcomeKeeps, RunCommandKeeps,
       ReceiveResultKeeps, SendKeeps DEF Pages!PageStep
  <1>3. CASE Pages!HubStep
    BY <1>3, UpgradeKeeps, HearHelloKeeps, HearResultKeeps, HearRequestKeeps, ClosedKeeps,
       HandlerEndsKeeps, SendCommandKeeps, RefuseCommandKeeps DEF Pages!HubStep
  <1>4. CASE Pages!Timers
    BY <1>4, CommandTimeoutKeeps, RequestTimeoutKeeps DEF Pages!Timers
  <1>5. CASE Pages!Environment
    BY <1>5, UpgradeFailsKeeps, UsesKeep, HubStopsKeeps, AskKeeps, PostKeeps, CommandEndsKeeps, HelloTimeoutKeeps,
       DropKeeps DEF Pages!Environment
  <1>6. QED
    BY <1>1, <1>2, <1>3, <1>4, <1>5, HubStartsKeeps DEF Pages!Next

LEMMA PagesGoesOn == [Next]_vars /\ part = "pages" => [Pages!Next]_(Pages!vars)
  BY DEF Next, Is, vars, Pages!vars

PagesI == part = "pages" => PagesInv

LEMMA PagesInduction ==
  ASSUME CommandsAreNoRequests
  PROVE  Spec => []PagesI
  <1>1. Init => PagesI
    BY PagesInit DEF Init, PagesI
  <1>2. PagesI /\ [Next]_vars => PagesI'
    BY PartStays, PagesGoesOn, PagesStep DEF PagesI, PagesGood
  <1>3. QED
    BY <1>1, <1>2, PTL DEF Spec

\* In every behaviour of the composition a call waits for an answer exactly where the page or
\* the Hub would look for it (HubState.pending, page.pending).
THEOREM WaitsAreKnownInParts ==
  ASSUME CommandsAreNoRequests
  PROVE  Spec => [](part = "pages" => WaitsAreKnown)
  <1>1. PagesI => (part = "pages" => WaitsAreKnown)
    BY DEF PagesI, PagesInv
  <1>2. QED
    BY <1>1, PagesInduction, PTL

\* In every behaviour of the composition the first answer of a call is its last: a result, a
\* time limit and the end of a socket, in whatever order they come.
THEOREM AnswersAreFinalInParts ==
  ASSUME CommandsAreNoRequests
  PROVE  Spec => [][part = "pages" => AnswersAreFinal]_vars
  <1>1. PagesI /\ [Next]_vars => [part = "pages" => AnswersAreFinal]_vars
    BY PagesGoesOn, PagesStep DEF PagesI, PagesGood
  <1>2. QED
    BY <1>1, PagesInduction, PTL DEF Spec

-----------------------------------------------------------------------------
(* The installer.                                                          *)

LEMMA SamePlans ==
  /\ Installer!ApplySteps = InstallerP!ApplySteps
  /\ Installer!Unwinding = InstallerP!Unwinding
  /\ \A phase : Installer!RollbackSteps(phase) = InstallerP!RollbackSteps(phase)
  /\ Installer!FinalizeSteps = InstallerP!FinalizeSteps
  <1>1. Installer!Runtimes = InstallerP!Runtimes
    BY DEF Installer!Runtimes, InstallerP!Runtimes, Installer!ToSet, InstallerP!ToSet
  <1>2. \A s : Installer!FlattenSeq(s) = InstallerP!FlattenSeq(s)
    BY DEF Installer!FlattenSeq, InstallerP!FlattenSeq
  <1>3. \A s : Installer!ForEach(s) = InstallerP!ForEach(s)
    BY <1>2 DEF Installer!ForEach, InstallerP!ForEach
  <1>4. \A what, set : Installer!Each(what, set) = InstallerP!Each(what, set)
    BY <1>1, <1>3 DEF Installer!Each, InstallerP!Each
  <1>5. \A v : Installer!Remark(v) = InstallerP!Remark(v)
    BY DEF Installer!Remark, InstallerP!Remark
  <1>6. Installer!Restoration = InstallerP!Restoration
    BY <1>1, <1>3, <1>4 DEF Installer!Restoration, InstallerP!Restoration
  <1>7. Installer!ApplySteps = InstallerP!ApplySteps
    BY <1>1, <1>3, <1>5 DEF Installer!ApplySteps, InstallerP!ApplySteps
  <1>8. Installer!Unwinding = InstallerP!Unwinding
    BY <1>5, <1>6 DEF Installer!Unwinding, InstallerP!Unwinding
  <1>9. \A phase : Installer!RollbackSteps(phase) = InstallerP!RollbackSteps(phase)
    BY <1>5, <1>6 DEF Installer!RollbackSteps, InstallerP!RollbackSteps
  <1>10. Installer!FinalizeSteps = InstallerP!FinalizeSteps
    BY <1>1, <1>4 DEF Installer!FinalizeSteps, InstallerP!FinalizeSteps
  <1>11. QED
    BY <1>7, <1>8, <1>9, <1>10

LEMMA SameInstallerSteps ==
  /\ Installer!Update <=> InstallerP!Update
  /\ Installer!RollBack <=> InstallerP!RollBack
  /\ Installer!Finalize <=> InstallerP!Finalize
  /\ Installer!Start <=> InstallerP!Start
  /\ Installer!Step <=> InstallerP!Step
  /\ Installer!Fail <=> InstallerP!Fail
  /\ Installer!Cut <=> InstallerP!Cut
  <1>1. Installer!Update <=> InstallerP!Update
    BY SamePlans DEF Installer!Update, InstallerP!Update, Installer!Spends, InstallerP!Spends,
       Installer!Owned, InstallerP!Owned, Installer!Begins, InstallerP!Begins, Installer!Ended,
       InstallerP!Ended
  <1>2. Installer!RollBack <=> InstallerP!RollBack
    BY SamePlans DEF Installer!RollBack, InstallerP!RollBack, Installer!MayDecide,
       InstallerP!MayDecide, Installer!Begins, InstallerP!Begins, Installer!Ended, InstallerP!Ended
  <1>3. Installer!Finalize <=> InstallerP!Finalize
    BY SamePlans DEF Installer!Finalize, InstallerP!Finalize, Installer!MayDecide,
       InstallerP!MayDecide, Installer!Begins, InstallerP!Begins, Installer!Ended, InstallerP!Ended
  <1>4. Installer!Start <=> InstallerP!Start
    BY DEF Installer!Start, InstallerP!Start, Installer!Ended, InstallerP!Ended
  <1>5. /\ \A what : Installer!Doing(what) <=> InstallerP!Doing(what)
        /\ \A what : Installer!Does(what) <=> InstallerP!Does(what)
        /\ Installer!It = InstallerP!It
        /\ \A i : Installer!Kept(i) <=> InstallerP!Kept(i)
        /\ Installer!Owned <=> InstallerP!Owned
    BY DEF Installer!Doing, InstallerP!Doing, Installer!Does, InstallerP!Does, Installer!Done,
       InstallerP!Done, Installer!It, InstallerP!It, Installer!Kept, InstallerP!Kept,
       Installer!Owned, InstallerP!Owned
  <1>6. Installer!AfterFailure = InstallerP!AfterFailure
    BY <1>5, SamePlans DEF Installer!AfterFailure, InstallerP!AfterFailure, Installer!Swallowed,
       InstallerP!Swallowed, Installer!Ended, InstallerP!Ended
  <1>7. Installer!Half <=> InstallerP!Half
    BY <1>5 DEF Installer!Half, InstallerP!Half, Installer!Unrefreshed, InstallerP!Unrefreshed
  <1>8. Installer!Fail <=> InstallerP!Fail
    BY <1>6, <1>7 DEF Installer!Fail, InstallerP!Fail, Installer!Spends, InstallerP!Spends
  <1>9. Installer!Cut <=> InstallerP!Cut
    BY <1>7 DEF Installer!Cut, InstallerP!Cut, Installer!Spends, InstallerP!Spends, Installer!Ended,
       InstallerP!Ended
  <1>10. Installer!Refuse <=> InstallerP!Refuse
    BY <1>5, <1>6 DEF Installer!Refuse, InstallerP!Refuse
  <1>11. Installer!StopProfile <=> InstallerP!StopProfile
    BY <1>5 DEF Installer!StopProfile, InstallerP!StopProfile
  <1>12. Installer!PrepareRecovery <=> InstallerP!PrepareRecovery
    BY <1>5 DEF Installer!PrepareRecovery, InstallerP!PrepareRecovery
  <1>13. Installer!KeepOld <=> InstallerP!KeepOld
    BY <1>5 DEF Installer!KeepOld, InstallerP!KeepOld
  <1>14. Installer!PlaceNew <=> InstallerP!PlaceNew
    BY <1>5 DEF Installer!PlaceNew, InstallerP!PlaceNew
  <1>15. Installer!Bind <=> InstallerP!Bind
    BY <1>5 DEF Installer!Bind, InstallerP!Bind
  <1>16. Installer!WriteProfile <=> InstallerP!WriteProfile
    BY <1>5 DEF Installer!WriteProfile, InstallerP!WriteProfile
  <1>17. Installer!WriteWrapper <=> InstallerP!WriteWrapper
    BY <1>5 DEF Installer!WriteWrapper, InstallerP!WriteWrapper
  <1>18. Installer!WriteMark <=> InstallerP!WriteMark
    BY <1>5 DEF Installer!WriteMark, InstallerP!WriteMark
  <1>19. Installer!WriteInterpreter <=> InstallerP!WriteInterpreter
    BY <1>5 DEF Installer!WriteInterpreter, InstallerP!WriteInterpreter
  <1>20. Installer!CopyProfile <=> InstallerP!CopyProfile
    BY <1>5 DEF Installer!CopyProfile, InstallerP!CopyProfile
  <1>21. Installer!SavePending <=> InstallerP!SavePending
    BY <1>5 DEF Installer!SavePending, InstallerP!SavePending
  <1>22. Installer!DropNew <=> InstallerP!DropNew
    BY <1>5 DEF Installer!DropNew, InstallerP!DropNew
  <1>23. Installer!BringBack <=> InstallerP!BringBack
    BY <1>5 DEF Installer!BringBack, InstallerP!BringBack
  <1>24. Installer!Unmake <=> InstallerP!Unmake
    BY <1>5 DEF Installer!Unmake, InstallerP!Unmake
  <1>25. Installer!Discard <=> InstallerP!Discard
    BY <1>5 DEF Installer!Discard, InstallerP!Discard
  <1>26. Installer!ClearPending <=> InstallerP!ClearPending
    BY <1>5 DEF Installer!ClearPending, InstallerP!ClearPending
  <1>27. Installer!ForgetRecovery <=> InstallerP!ForgetRecovery
    BY <1>5 DEF Installer!ForgetRecovery, InstallerP!ForgetRecovery
  <1>28. Installer!Step <=> InstallerP!Step
    BY <1>10, <1>11, <1>12, <1>13, <1>14, <1>15, <1>16, <1>17, <1>18, <1>19, <1>20, <1>21, <1>22,
       <1>23, <1>24, <1>25, <1>26, <1>27 DEF Installer!Step, InstallerP!Step, Installer!End,
       InstallerP!End, Installer!Ended, InstallerP!Ended
  <1>29. QED
    BY <1>1, <1>2, <1>3, <1>4, <1>8, <1>9, <1>28

LEMMA SameInstaller ==
  /\ Installer!Init <=> InstallerP!Init
  /\ Installer!Next <=> InstallerP!Next
  /\ Installer!UpdateIsRecoverable <=> InstallerP!UpdateIsRecoverable
  <1>1. Installer!Init <=> InstallerP!Init
    BY DEF Installer!Init, InstallerP!Init, Installer!Items, InstallerP!Items, Installer!Runtimes,
       InstallerP!Runtimes, Installer!ToSet, InstallerP!ToSet, Installer!Ended, InstallerP!Ended
  <1>2. Installer!Next <=> InstallerP!Next
    BY SameInstallerSteps DEF Installer!Next, InstallerP!Next
  <1>3. Installer!UpdateIsRecoverable <=> InstallerP!UpdateIsRecoverable
    BY DEF Installer!UpdateIsRecoverable, InstallerP!UpdateIsRecoverable, Installer!OldIsThere,
       InstallerP!OldIsThere, Installer!NeverMixedInSilence, InstallerP!NeverMixedInSilence,
       Installer!RunsItsOwnCode, InstallerP!RunsItsOwnCode, Installer!WhollyA, InstallerP!WhollyA,
       Installer!WhollyB, InstallerP!WhollyB, Installer!Wholly, InstallerP!Wholly, Installer!Ended,
       InstallerP!Ended
  <1>4. QED
    BY <1>1, <1>2, <1>3

LEMMA InstallerGoesOn ==
  [Next]_vars /\ part = "installer" => [InstallerP!Next]_(InstallerP!vars)
  BY SameInstaller DEF Next, Is, vars, InstallerP!vars

\* In every behaviour of the composition, until it is decided to keep the new version every
\* item of the old one exists, an installation that announces no update is wholly one version,
\* and no checkout is moved from under a running profile.
THEOREM UpdateIsRecoverableInParts ==
  ASSUME InstallerP!NoneIsNothing, InstallerP!RuntimesAreNamed, InstallerP!SetupsAreUpdates
  PROVE  Spec => []UpdateIsRecoverable
  <1> DEFINE I == part = "installer" => InstallerP!InstallerInv
  <1>1. Init => I
    BY SameInstaller, InstallerP!InstallerInit DEF Init
  <1>2. I /\ [Next]_vars => I'
    BY PartStays, InstallerGoesOn, InstallerP!InstallerStep
  <1>3. I => UpdateIsRecoverable
    BY SameInstaller, InstallerP!AllRecoverable DEF UpdateIsRecoverable
  <1>4. QED
    BY <1>1, <1>2, <1>3, PTL DEF Spec

-----------------------------------------------------------------------------
(* The bridge.                                                             *)

disk  == a
proxy == b
page  == d

USE DEF disk, proxy, page

\* What is said of the disk says what the scripts of it are: a sequence.
ScriptsAreListed ==
  \A w \in Worlds : w.config # None =>
    Len(w.config.scripts) \in Nat /\ DOMAIN w.config.scripts = 1..Len(w.config.scripts)

\* The digests of the scripts that an origin may have.
OpenTo(config, origin) ==
  {config.scripts[k].digest :
     k \in {j \in 1..Len(config.scripts) : Bridge!OriginAllowed(origin, config.scripts[j].origins)}}

Picked(f, config, origin, k) ==
  IF k = 0 THEN <<>>
  ELSE IF /\ Bridge!OriginAllowed(origin, config.scripts[k].origins)
          /\ ~Bridge!Contains(f[k - 1], config.scripts[k].digest)
         THEN Append(f[k - 1], config.scripts[k].digest) ELSE f[k - 1]

Picks(f, config, origin, n) == f = [k \in 0..n |-> Picked(f, config, origin, k)]

LEMMA PicksExist ==
  ASSUME NEW n \in Nat, NEW config, NEW origin
  PROVE  \E f : Picks(f, config, origin, n)
  <1> DEFINE P(k) == \E f : f = [i \in 0..k |-> Picked(f, config, origin, i)]
             S == {k \in Nat : P(k)}
  <1>1. 0 \in S
    <2> DEFINE f == [i \in 0..0 |-> <<>>]
    <2>1. \A i \in 0..0 : f[i] = Picked(f, config, origin, i)
      BY DEF Picked
    <2>2. f = [i \in 0..0 |-> Picked(f, config, origin, i)]
      BY <2>1
    <2>3. QED
      BY <2>2
  <1>2. ASSUME NEW k \in S PROVE k + 1 \in S
    <2>1. k \in Nat
      OBVIOUS
    <2>2. PICK f : f = [i \in 0..k |-> Picked(f, config, origin, i)]
      OBVIOUS
    <2> DEFINE g == [i \in 0..k+1 |-> IF i = k + 1 THEN Picked(f, config, origin, i) ELSE f[i]]
    <2>3. ASSUME NEW i \in 0..k+1 PROVE g[i] = Picked(g, config, origin, i)
      <3>1. g[i] = Picked(f, config, origin, i)
        <4>1. CASE i = k + 1
          BY <4>1
        <4>2. CASE i # k + 1
          <5>1. i \in 0..k
            BY <2>1, <4>2
          <5>2. f[i] = Picked(f, config, origin, i)
            BY <2>2, <5>1
          <5>3. QED
            BY <4>2, <5>2
        <4>3. QED
          BY <4>1, <4>2
      <3>2. i > 0 => g[i - 1] = f[i - 1]
        BY <2>1
      <3> HIDE DEF g
      <3>3. QED
        BY <2>1, <3>1, <3>2 DEF Picked
    <2>4. g = [i \in 0..k+1 |-> g[i]]
      OBVIOUS
    <2> HIDE DEF g
    <2>5. g = [i \in 0..k+1 |-> Picked(g, config, origin, i)]
      BY <2>3, <2>4
    <2>6. QED
      BY <2>1, <2>5
  <1>3. S = Nat
    <2>1. S \in SUBSET Nat
      OBVIOUS
    <2> HIDE DEF S
    <2>2. QED
      BY <1>1, <1>2, <2>1, FreshnessP!SetInduction
  <1>4. QED
    BY <1>3 DEF Picks

\* A plan names no script that its origin may not have.
LEMMA DigestsAreOpen ==
  ASSUME NEW config, NEW origin, Len(config.scripts) \in Nat
  PROVE  Bridge!OriginDigests(config, origin) \in Seq(OpenTo(config, origin))
  <1> DEFINE E(f) == Picks(f, config, origin, Len(config.scripts))
             upto == CHOOSE f : E(f)
             X == OpenTo(config, origin)
  <1>1. Bridge!OriginDigests(config, origin) = upto[Len(config.scripts)]
    BY DEF Bridge!OriginDigests, Picks, Picked
  <1>2. E(upto)
    <2>1. \E f : E(f)
      BY PicksExist
    <2> HIDE DEF E
    <2>2. QED
      BY <2>1
  <1> HIDE DEF upto
  <1> DEFINE S == {n \in Nat : n <= Len(config.scripts) => upto[n] \in Seq(X)}
  <1>3. 0 \in S
    <2>1. upto[0] = <<>>
      BY <1>2 DEF Picks, Picked
    <2>2. <<>> \in Seq(X)
      <3> HIDE DEF X
      <3>1. QED
        OBVIOUS
    <2>3. QED
      BY <2>1, <2>2
  <1>4. ASSUME NEW n \in S PROVE n + 1 \in S
    <2>1. n \in Nat
      OBVIOUS
    <2> SUFFICES ASSUME n + 1 <= Len(config.scripts) PROVE upto[n + 1] \in Seq(X)
      BY <2>1
    <2>2. /\ upto[n] \in Seq(X) /\ n + 1 \in 1..Len(config.scripts) /\ n + 1 \in 0..Len(config.scripts)
      BY <2>1
    <2>3. upto[n + 1] = Picked(upto, config, origin, n + 1)
      BY <1>2, <2>2 DEF Picks
    <2>4. CASE /\ Bridge!OriginAllowed(origin, config.scripts[n + 1].origins)
               /\ upto[n + 1] = Append(upto[n], config.scripts[n + 1].digest)
      <3>1. config.scripts[n + 1].digest \in X
        BY <2>2, <2>4 DEF OpenTo
      <3> HIDE DEF X
      <3>2. QED
        BY <2>2, <2>4, <3>1
    <2>5. CASE upto[n + 1] = upto[n]
      BY <2>2, <2>5
    <2>6. QED
      BY <2>1, <2>3, <2>4, <2>5 DEF Picked
  <1>5. S = Nat
    <2>1. S \in SUBSET Nat
      OBVIOUS
    <2> HIDE DEF S
    <2>2. QED
      BY <1>3, <1>4, <2>1, FreshnessP!SetInduction
  <1>6. QED
    BY <1>1, <1>5

-----------------------------------------------------------------------------
\* A proxy has a configuration that was on the disk, and its scripts are published under
\* their origins.
Sound(p) ==
  /\ p = [config |-> p.config, dev |-> p.dev, bootstrap |-> p.bootstrap,
          due |-> p.due, assets |-> p.assets, run |-> p.run]
  /\ \E w \in Worlds : w.config # None /\ p.config = w.config
  /\ DOMAIN p.assets = Bridge!Digests
  /\ p.config.enabled =>
       \A k \in 1..Len(p.config.scripts) :
         /\ p.config.scripts[k].digest \in Bridge!Digests
         /\ p.config.scripts[k].origins \subseteq p.assets[p.config.scripts[k].digest]

\* The same proxy, later: no grant is taken back.
Later(p, q) ==
  q.run = p.run /\ \A dg \in Bridge!Digests : p.assets[dg] \subseteq q.assets[dg]

PageInv ==
  /\ page = [phase |-> page.phase, plan |-> page.plan, born |-> page.born,
             answer |-> page.answer, due |-> page.due, state |-> page.state]
  /\ proxy.run \in Nat /\ page.born \in Nat /\ (page.plan # None => page.born <= proxy.run)

\* The scripts of a document of this proxy are published for its origin, whatever
\* configuration is in force now.
PublishedInv ==
  page.plan # None /\ page.born = proxy.run =>
    \A dg \in Bridge!ToSet(page.plan.scripts) :
      dg \in Bridge!Digests /\ Bridge!OriginAllowed(Here, proxy.assets[dg])

BridgeInv == disk \in Worlds /\ Sound(proxy) /\ PageInv /\ PublishedInv

LEMMA AppliedFacts ==
  ASSUME ScriptsAreListed, NEW p, NEW w \in Worlds, w.config # None,
         p = [config |-> p.config, dev |-> p.dev, bootstrap |-> p.bootstrap,
              due |-> p.due, assets |-> p.assets, run |-> p.run],
         DOMAIN p.assets = Bridge!Digests
  PROVE  Sound(Bridge!Applied(p, w.config)) /\ Later(p, Bridge!Applied(p, w.config))
  <1> DEFINE q == Bridge!Applied(p, w.config)
  <1>1. q = [config |-> w.config, dev |-> p.dev,
             bootstrap |-> p.bootstrap \cup Bridge!Bootstraps(w.config), due |-> p.due,
             assets |-> Bridge!Published(p.assets, w.config), run |-> p.run]
    <2>1. PICK dev, bootstrap, due, assets, run, config :
            p = [config |-> config, dev |-> dev, bootstrap |-> bootstrap, due |-> due,
                 assets |-> assets, run |-> run]
      OBVIOUS
    <2>2. /\ p.dev = dev /\ p.bootstrap = bootstrap /\ p.due = due /\ p.assets = assets
          /\ p.run = run
      BY <2>1
    <2>3. q = [p EXCEPT !.config = w.config, !.assets = Bridge!Published(assets, w.config),
                        !.bootstrap = bootstrap \cup Bridge!Bootstraps(w.config)]
      BY <2>2 DEF Bridge!Applied
    <2> HIDE DEF q
    <2>4. q = [config |-> w.config, dev |-> dev,
               bootstrap |-> bootstrap \cup Bridge!Bootstraps(w.config), due |-> due,
               assets |-> Bridge!Published(assets, w.config), run |-> run]
      BY <2>1, <2>3
    <2>5. QED
      BY <2>2, <2>4
  <1>2. /\ q = [config |-> q.config, dev |-> q.dev, bootstrap |-> q.bootstrap,
                due |-> q.due, assets |-> q.assets, run |-> q.run]
        /\ q.config = w.config /\ q.run = p.run /\ q.assets = Bridge!Published(p.assets, w.config)
    BY <1>1
  <1> HIDE DEF q
  <1>3. /\ DOMAIN q.assets = Bridge!Digests
        /\ \A dg \in Bridge!Digests : p.assets[dg] \subseteq q.assets[dg]
        /\ w.config.enabled => \A dg \in Bridge!Digests : Bridge!Grants(w.config, dg) \subseteq q.assets[dg]
    BY <1>2 DEF Bridge!Published
  <1>4. DOMAIN w.config.scripts = 1..Len(w.config.scripts)
    BY DEF ScriptsAreListed
  <1>5. ASSUME NEW k \in 1..Len(w.config.scripts)
        PROVE  /\ w.config.scripts[k].digest \in Bridge!Digests
               /\ w.config.scripts[k].origins
                    \subseteq Bridge!Grants(w.config, w.config.scripts[k].digest)
    <2>1. w.config.scripts[k].digest \in Bridge!Digests
      BY <1>4 DEF Bridge!Digests, Bridge!ToSet
    <2>2. w.config.scripts[k].origins \subseteq Bridge!Grants(w.config, w.config.scripts[k].digest)
      BY <1>4 DEF Bridge!Grants
    <2>3. QED
      BY <2>1, <2>2
  <1>6. Sound(q)
    BY <1>2, <1>3, <1>5 DEF Sound
  <1>7. QED
    BY <1>2, <1>3, <1>6 DEF Later, q

LEMMA LoadedFacts ==
  ASSUME ScriptsAreListed, NEW n, disk \in Worlds, Bridge!Readable(disk)
  PROVE  Sound(Bridge!Loaded(n)) /\ Bridge!Loaded(n).run = n
  <1> DEFINE p == [config |-> None, dev |-> disk.dev.origins, bootstrap |-> {}, due |-> FALSE,
                   assets |-> [dg \in Bridge!Digests |-> {}], run |-> n]
  <1>1. /\ p = [config |-> p.config, dev |-> p.dev, bootstrap |-> p.bootstrap,
                due |-> p.due, assets |-> p.assets, run |-> p.run]
        /\ DOMAIN p.assets = Bridge!Digests /\ p.run = n
    OBVIOUS
  <1>2. Bridge!Loaded(n) = Bridge!Applied(p, disk.config)
    BY DEF Bridge!Loaded
  <1> HIDE DEF p
  <1>3. disk.config # None
    BY DEF Bridge!Readable
  <1>4. QED
    BY <1>1, <1>2, <1>3, AppliedFacts DEF Later

LEMMA ReadFacts ==
  ASSUME NEW p, NEW q, NEW origins,
         p = [config |-> p.config, dev |-> p.dev, bootstrap |-> p.bootstrap,
              due |-> p.due, assets |-> p.assets, run |-> p.run],
         q = [p EXCEPT !.due = FALSE, !.dev = origins]
  PROVE  q = [config |-> p.config, dev |-> origins, bootstrap |-> p.bootstrap,
              due |-> FALSE, assets |-> p.assets, run |-> p.run]
  <1>1. PICK config, dev, bootstrap, due, assets, run :
          p = [config |-> config, dev |-> dev, bootstrap |-> bootstrap, due |-> due,
               assets |-> assets, run |-> run]
    OBVIOUS
  <1>2. q = [config |-> config, dev |-> origins, bootstrap |-> bootstrap,
             due |-> FALSE, assets |-> assets, run |-> run]
    BY <1>1
  <1>3. QED
    BY <1>1, <1>2

LEMMA RefreshedFacts ==
  ASSUME ScriptsAreListed, disk \in Worlds, Sound(proxy)
  PROVE  Sound(Bridge!Refreshed) /\ Later(proxy, Bridge!Refreshed)
  <1> DEFINE read == [proxy EXCEPT !.due = FALSE, !.dev = disk.dev.origins]
  <1>1. read = [config |-> proxy.config, dev |-> disk.dev.origins, bootstrap |-> proxy.bootstrap,
                due |-> FALSE, assets |-> proxy.assets, run |-> proxy.run]
    <2>1. proxy = [config |-> proxy.config, dev |-> proxy.dev, bootstrap |-> proxy.bootstrap,
                   due |-> proxy.due, assets |-> proxy.assets, run |-> proxy.run]
      BY DEF Sound
    <2>2. read = [proxy EXCEPT !.due = FALSE, !.dev = disk.dev.origins]
      OBVIOUS
    <2> HIDE DEF read
    <2>3. QED
      BY <2>1, <2>2, ReadFacts
  <1>2. /\ read = [config |-> read.config, dev |-> read.dev, bootstrap |-> read.bootstrap,
                   due |-> read.due, assets |-> read.assets, run |-> read.run]
        /\ read.config = proxy.config /\ read.assets = proxy.assets /\ read.run = proxy.run
    BY <1>1
  <1>3. \/ Bridge!Refreshed = proxy
        \/ Bridge!Readable(disk) /\ Bridge!Refreshed = Bridge!Applied(read, disk.config)
        \/ Bridge!Refreshed = read
    BY DEF Bridge!Refreshed
  <1> HIDE DEF read
  <1>4. Sound(read) /\ Later(proxy, read)
    BY <1>2 DEF Sound, Later
  <1>5. CASE Bridge!Readable(disk) /\ Bridge!Refreshed = Bridge!Applied(read, disk.config)
    <2>1. disk.config # None
      BY <1>5 DEF Bridge!Readable
    <2>2. DOMAIN read.assets = Bridge!Digests
      BY <1>4 DEF Sound
    <2>3. Sound(Bridge!Refreshed) /\ Later(read, Bridge!Refreshed)
      BY <1>2, <1>5, <2>1, <2>2, AppliedFacts
    <2>4. QED
      BY <1>2, <2>3 DEF Later
  <1>6. QED
    BY <1>3, <1>4, <1>5 DEF Later

\* A document that is there already keeps what it has.
LEMMA LaterKeepsInv ==
  ASSUME disk' \in Worlds, BridgeInv, Sound(proxy'), Later(proxy, proxy'),
         page' = [phase |-> page'.phase, plan |-> page'.plan, born |-> page'.born,
                  answer |-> page'.answer, due |-> page'.due, state |-> page'.state],
         page'.born \in Nat,
         page'.plan # None => page'.plan = page.plan /\ page'.born = page.born
  PROVE  BridgeInv'
  <1>1. PageInv'
    BY DEF BridgeInv, PageInv, Later
  <1>2. PublishedInv'
    BY DEF BridgeInv, PublishedInv, Later, Bridge!OriginAllowed
  <1>3. QED
    BY <1>1, <1>2 DEF BridgeInv, Sound

LEMMA BridgeInit == ScriptsAreListed /\ Bridge!Init => BridgeInv
  <1> SUFFICES ASSUME ScriptsAreListed, Bridge!Init PROVE BridgeInv
    OBVIOUS
  <1>1. disk \in Worlds /\ Bridge!Readable(disk) /\ proxy = Bridge!Loaded(1)
    BY DEF Bridge!Init
  <1>2. Sound(proxy) /\ proxy.run = 1
    BY <1>1, LoadedFacts
  <1>3. page = [phase |-> "loading", plan |-> None, born |-> 0, answer |-> None, due |-> FALSE,
                state |-> None]
    BY DEF Bridge!Init, Bridge!Bare
  <1>4. PageInv /\ PublishedInv
    BY <1>2, <1>3 DEF PageInv, PublishedInv
  <1>5. QED
    BY <1>1, <1>2, <1>4 DEF BridgeInv

\* A new document has the scripts of the configuration in force, which are published.
LEMMA InjectKeepsInv ==
  ASSUME ScriptsAreListed, BridgeInv, Bridge!Inject
  PROVE  BridgeInv'
  <1>1. disk' = disk /\ proxy' = Bridge!Refreshed
    BY DEF Bridge!Inject
  <1>2. Sound(proxy') /\ Later(proxy, proxy')
    BY <1>1, RefreshedFacts DEF BridgeInv
  <1>3. CASE page' = Bridge!Bare
    <2>1. /\ page'.plan = None /\ page'.born \in Nat
          /\ page' = [phase |-> page'.phase, plan |-> page'.plan, born |-> page'.born,
                      answer |-> page'.answer, due |-> page'.due, state |-> page'.state]
      BY <1>3 DEF Bridge!Bare
    <2>2. QED
      BY <1>1, <1>2, <2>1, LaterKeepsInv DEF BridgeInv
  <1>4. CASE /\ Bridge!Allowed(proxy'.config, Here)
             /\ page' = [phase |-> "open", plan |-> Bridge!Plan', born |-> proxy.run,
                         answer |-> None, due |-> TRUE, state |-> None]
    <2>1. PICK w \in Worlds : w.config # None /\ proxy'.config = w.config
      BY <1>2 DEF Sound
    <2>2. /\ proxy'.config.enabled /\ Len(proxy'.config.scripts) \in Nat
          /\ \A k \in 1..Len(proxy'.config.scripts) :
               /\ proxy'.config.scripts[k].digest \in Bridge!Digests
               /\ proxy'.config.scripts[k].origins
                    \subseteq proxy'.assets[proxy'.config.scripts[k].digest]
      BY <1>2, <1>4, <2>1 DEF Sound, ScriptsAreListed, Bridge!Allowed
    <2>3. page'.plan.scripts = Bridge!OriginDigests(proxy'.config, Here)
      BY <1>4 DEF Bridge!Plan, Bridge!PagePlan
    <2>4. page'.plan.scripts \in Seq(OpenTo(proxy'.config, Here))
      BY <2>2, <2>3, DigestsAreOpen
    <2>5. \A dg \in Bridge!ToSet(page'.plan.scripts) : dg \in OpenTo(proxy'.config, Here)
      BY <2>4 DEF Bridge!ToSet
    <2>6. ASSUME NEW dg \in OpenTo(proxy'.config, Here)
          PROVE  dg \in Bridge!Digests /\ Bridge!OriginAllowed(Here, proxy'.assets[dg])
      BY <2>2 DEF OpenTo, Bridge!OriginAllowed
    <2>7. PublishedInv'
      BY <2>5, <2>6 DEF PublishedInv
    <2>8. PageInv'
      BY <1>2, <1>4 DEF BridgeInv, PageInv, Later
    <2>9. QED
      BY <1>1, <1>2, <2>7, <2>8 DEF BridgeInv, Sound
  <1>5. QED
    BY <1>3, <1>4 DEF Bridge!Inject, Bridge!Bare

LEMMA RestartKeepsInv ==
  ASSUME ScriptsAreListed, BridgeInv, Bridge!Restart
  PROVE  BridgeInv'
  <1>1. /\ disk' = disk /\ page' = page /\ Bridge!Readable(disk)
        /\ proxy' = Bridge!Loaded(proxy.run + 1)
    BY DEF Bridge!Restart
  <1>2. Sound(proxy') /\ proxy'.run = proxy.run + 1
    BY <1>1, LoadedFacts DEF BridgeInv
  <1>3. PageInv' /\ PublishedInv'
    BY <1>1, <1>2 DEF BridgeInv, PageInv, PublishedInv
  <1>4. QED
    BY <1>1, <1>2, <1>3 DEF BridgeInv, Sound

LEMMA BridgeStep ==
  ASSUME ScriptsAreListed, BridgeInv, [Bridge!Next]_(Bridge!vars)
  PROVE  BridgeInv'
  <1>1. PICK phase, plan, born, answer, due, state :
          page = [phase |-> phase, plan |-> plan, born |-> born, answer |-> answer, due |-> due,
                  state |-> state]
    BY DEF BridgeInv, PageInv
  <1>2. page.plan = plan /\ page.born = born /\ born \in Nat
    BY <1>1 DEF BridgeInv, PageInv
  \* What most steps have in common.
  <1>3. ASSUME proxy' = proxy \/ (Sound(proxy') /\ Later(proxy, proxy')), disk' \in Worlds,
               \E phase2, answer2, due2, state2 : \E plan2 \in {plan, None} : \E born2 \in {born, 0} :
                 /\ page' = [phase |-> phase2, plan |-> plan2, born |-> born2, answer |-> answer2,
                             due |-> due2, state |-> state2]
                 /\ plan2 # None => plan2 = plan /\ born2 = born
        PROVE  BridgeInv'
    <2>1. /\ page' = [phase |-> page'.phase, plan |-> page'.plan, born |-> page'.born,
                      answer |-> page'.answer, due |-> page'.due, state |-> page'.state]
          /\ page'.born \in Nat
          /\ page'.plan # None => page'.plan = page.plan /\ page'.born = page.born
      BY <1>2, <1>3
    <2>2. Sound(proxy') /\ Later(proxy, proxy')
      BY <1>3 DEF BridgeInv, Sound, Later
    <2>3. QED
      BY <1>3, <2>1, <2>2, LaterKeepsInv
  <1>4. CASE UNCHANGED Bridge!vars
    BY <1>1, <1>2, <1>3, <1>4 DEF Bridge!vars, BridgeInv
  <1>5. CASE Bridge!TTLPasses
    <2>1. proxy' = [proxy EXCEPT !.due = TRUE] /\ disk' = disk /\ page' = page
      BY <1>5 DEF Bridge!TTLPasses
    <2>2. PICK config, dev, bootstrap, assets, run, d1 :
            proxy = [config |-> config, dev |-> dev, bootstrap |-> bootstrap, due |-> d1,
                     assets |-> assets, run |-> run]
      BY DEF BridgeInv, Sound
    <2>3. proxy' = [config |-> config, dev |-> dev, bootstrap |-> bootstrap, due |-> TRUE,
                    assets |-> assets, run |-> run]
      BY <2>1, <2>2
    <2>4. Sound(proxy') /\ Later(proxy, proxy')
      BY <2>2, <2>3 DEF BridgeInv, Sound, Later
    <2>5. QED
      BY <1>1, <1>3, <2>1, <2>4 DEF BridgeInv
  <1>6. CASE Bridge!Restart
    BY <1>6, RestartKeepsInv
  <1>7. CASE Bridge!Change
    BY <1>1, <1>3, <1>7 DEF Bridge!Change
  <1>8. CASE Bridge!Visit
    BY <1>3, <1>8 DEF Bridge!Visit, Bridge!Bare, BridgeInv
  <1>9. CASE Bridge!PlanChanged
    <2>1. page' = page \/ page' = [page EXCEPT !.due = TRUE]
      BY <1>9 DEF Bridge!PlanChanged
    <2>2. QED
      BY <1>1, <1>3, <1>9, <2>1 DEF Bridge!PlanChanged, BridgeInv
  <1>10. CASE Bridge!Inject
    BY <1>10, InjectKeepsInv
  <1>11. CASE Bridge!Check
    <2>1. Sound(proxy') /\ Later(proxy, proxy')
      BY <1>11, RefreshedFacts DEF BridgeInv, Bridge!Check
    <2>2. PICK answer2 : page' = [page EXCEPT !.phase = "answer", !.due = FALSE, !.answer = answer2]
      BY <1>11 DEF Bridge!Check
    <2>3. page' = [phase |-> "answer", plan |-> plan, born |-> born, answer |-> answer2,
                   due |-> FALSE, state |-> state]
      BY <1>1, <2>2
    <2>4. disk' \in Worlds
      BY <1>11 DEF Bridge!Check, BridgeInv
    <2>5. QED
      BY <1>3, <2>1, <2>3, <2>4
  <1>12. CASE Bridge!CheckFails \/ Bridge!SamePlan
    <2>1. PICK state2 : page' = [page EXCEPT !.phase = "open", !.state = state2]
      BY <1>12 DEF Bridge!CheckFails, Bridge!SamePlan
    <2>2. page' = [phase |-> "open", plan |-> plan, born |-> born, answer |-> answer, due |-> due,
                   state |-> state2]
      BY <1>1, <2>1
    <2>3. QED
      BY <1>3, <1>12, <2>2 DEF Bridge!CheckFails, Bridge!SamePlan, BridgeInv
  <1>13. CASE Bridge!Reload
    BY <1>3, <1>13 DEF Bridge!Reload, Bridge!Bare, BridgeInv
  <1>14. CASE Bridge!CheckDue
    <2>1. page' = [phase |-> phase, plan |-> plan, born |-> born, answer |-> answer, due |-> TRUE,
                   state |-> state]
      BY <1>1, <1>14 DEF Bridge!CheckDue
    <2>2. QED
      BY <1>3, <1>14, <2>1 DEF Bridge!CheckDue, BridgeInv
  <1>15. QED
    BY <1>4, <1>5, <1>6, <1>7, <1>8, <1>9, <1>10, <1>11, <1>12, <1>13, <1>14
    DEF Bridge!Next, Bridge!Runtime

LEMMA PublishedKeeps == BridgeInv => Bridge!DocumentsKeepTheirScripts
  BY DEF BridgeInv, PublishedInv, Bridge!DocumentsKeepTheirScripts, Bridge!ServesAsset

LEMMA BridgeGoesOn == [Next]_vars /\ part = "bridge" => [Bridge!Next]_(Bridge!vars)
  BY DEF Next, Is, vars, Bridge!vars

\* In every behaviour of the composition, an open document of this proxy can fetch its scripts
\* while its origin is allowed, whatever plans came after the one it was loaded with.
THEOREM DocumentsKeepTheirScriptsInParts ==
  ASSUME ScriptsAreListed
  PROVE  Spec => []DocumentsKeepTheirScripts
  <1> DEFINE I == part = "bridge" => BridgeInv
  <1>1. Init => I
    BY BridgeInit DEF Init
  <1>2. I /\ [Next]_vars => I'
    BY PartStays, BridgeGoesOn, BridgeStep
  <1>3. I => DocumentsKeepTheirScripts
    BY PublishedKeeps DEF DocumentsKeepTheirScripts
  <1>4. QED
    BY <1>1, <1>2, <1>3, PTL DEF Spec

=============================================================================
