----------------------------- MODULE Controller -----------------------------
(***************************************************************************)
(* The component controller and its reader workers (service.py): what a    *)
(* pack command saves in the registry, the signal that follows it, and the *)
(* main loop that stops and starts workers until they are what the         *)
(* registry says, without stopping anything else.                          *)
(*                                                                         *)
(* What a reader is (its command, revision, configuration, origins, lanes) *)
(* is one of the Definitions of its name; None is no such reader.          *)
(***************************************************************************)
EXTENDS Naturals, FiniteSets

CONSTANTS None, Definitions, MaxChanges, MaxFaults, MaxDeaths, MaxParked

(* registry and owed: what is saved, and that its command has yet to       *)
(* signal.  main: the controller; jobs: its reader_jobs, a reader's        *)
(* definition and whether it was told to stop; workers: the threads.       *)
VARIABLES registry, main, jobs, workers, used

vars == <<registry, main, jobs, workers, used>>

Readers == DOMAIN Definitions
Identity == registry.saved      \* of what is to run
Spends(what, bound) == used[what] < bound /\ used' = [used EXCEPT ![what] = @ + 1]

-----------------------------------------------------------------------------
(* A pack command: it changes one reader, saves, and signals the           *)
(* controller it finds.  The profile lease lets one do so at a time.       *)

Save ==
    /\ ~registry.owed /\ Spends("changes", MaxChanges)
    /\ \E r \in Readers : \E spec \in (Definitions[r] \cup {None}) \ {registry.saved[r]} :
         registry' = [saved |-> [registry.saved EXCEPT ![r] = spec], owed |-> TRUE]
    /\ UNCHANGED <<main, jobs, workers>>

Signal ==
    /\ registry.owed
    /\ registry' = [registry EXCEPT !.owed = FALSE]
    /\ main' = IF main.pc = "down" THEN main ELSE [main EXCEPT !.requested = TRUE]
    /\ UNCHANGED <<jobs, workers, used>>

-----------------------------------------------------------------------------
(* The start: the identity is read first and what to run afterwards.       *)

Down == [pc |-> "down", requested |-> FALSE, waiting |-> FALSE, failed |-> FALSE, live |-> FALSE,
         on |-> None, view |-> [r \in Readers |-> None], identity |-> [r \in Readers |-> None]]

Start ==
    /\ main.pc = "down"
    /\ main' = [Down EXCEPT !.pc = "starting", !.identity = Identity]
    /\ UNCHANGED <<registry, jobs, workers, used>>

ReadComponents ==
    /\ main.pc = "starting"
    /\ main' = [main EXCEPT !.pc = "syncing", !.view = registry.saved]
    /\ UNCHANGED <<registry, jobs, workers, used>>

(* Killed; its threads and their children go with it.                      *)
Dies ==
    /\ main.pc # "down" /\ Spends("deaths", MaxDeaths)
    /\ main' = Down
    /\ jobs' = [r \in Readers |-> None] /\ workers' = {}
    /\ UNCHANGED registry

-----------------------------------------------------------------------------
(* A refresh takes the request first: one that comes while it is at work   *)
(* makes another.                                                          *)
Refresh ==
    /\ main.pc = "loop" /\ main.requested /\ ~main.waiting
    /\ main' = [main EXCEPT !.pc = "syncing", !.requested = FALSE, !.live = TRUE,
                            !.view = registry.saved]
    /\ UNCHANGED <<registry, jobs, workers, used>>

(* It failed: the request stands, and waits for its back-off.              *)
Failing == [main EXCEPT !.pc = "loop", !.requested = TRUE, !.waiting = TRUE, !.failed = TRUE,
                        !.on = None]

BackoffEnds ==
    /\ main.pc = "loop" /\ main.waiting
    /\ main' = [main EXCEPT !.waiting = FALSE]
    /\ UNCHANGED <<registry, jobs, workers, used>>

(* The lock of a reader is busy, a file cannot be written, a projection is *)
(* refused.  While starting, that ends the controller.                     *)
SyncFails ==
    /\ main.pc = "syncing" /\ Spends("faults", MaxFaults)
    /\ IF main.live THEN main' = Failing /\ UNCHANGED <<jobs, workers>>
       ELSE main' = Down /\ jobs' = [r \in Readers |-> None] /\ workers' = {}
    /\ UNCHANGED registry

(* sync_readers.  Workers that are not as desired any more are told to     *)
(* stop and waited for, each for four seconds, one after the other.        *)
Changed(r) == jobs[r] # None /\ jobs[r].spec # main.view[r]
Worker(r)  == [reader |-> r, spec |-> jobs[r].spec, stop |-> jobs[r].stop]

TellToStop(r) ==
    /\ main.pc = "syncing" /\ main.on = None /\ Changed(r)
    /\ main' = [main EXCEPT !.on = r]
    /\ jobs' = [jobs EXCEPT ![r].stop = TRUE]
    /\ workers' = {IF w = Worker(r) THEN [w EXCEPT !.stop = TRUE] ELSE w : w \in workers}
    /\ UNCHANGED <<registry, used>>

(* Mutant: a thread that did not stop is taken off the list all the same.  *)
DetachAnyhow(r) ==
    /\ main.on = r
    /\ main' = [main EXCEPT !.on = None]
    /\ jobs' = [jobs EXCEPT ![r] = None]
    /\ UNCHANGED <<registry, workers, used>>

Detach(r) ==
    /\ main.on = r /\ Worker(r) \notin workers
    /\ main' = [main EXCEPT !.on = None]
    /\ jobs' = [jobs EXCEPT ![r] = None]
    /\ UNCHANGED <<registry, workers, used>>

StaysAlive(r) ==
    /\ main.on = r /\ Worker(r) \in workers
    /\ Spends("faults", MaxFaults)
    /\ main' = Failing
    /\ UNCHANGED <<registry, jobs, workers>>

(* Then those that are missing are started.                                *)
Attach(r) ==
    /\ main.pc = "syncing" /\ \A q \in Readers : ~Changed(q)
    /\ jobs[r] = None /\ main.view[r] # None
    /\ jobs' = [jobs EXCEPT ![r] = [spec |-> main.view[r], stop |-> FALSE]]
    /\ workers' = workers \cup {[reader |-> r, spec |-> main.view[r], stop |-> FALSE]}
    /\ UNCHANGED <<registry, main, used>>

Synced == /\ main.pc = "syncing"
          /\ \A r \in Readers : ~Changed(r) /\ (jobs[r] = None => main.view[r] = None)

(* Mutant: the request is taken when the refresh has been made.            *)
SettleAndClear ==
    /\ Synced
    /\ main' = [main EXCEPT !.pc = "loop", !.failed = FALSE, !.requested = FALSE,
                            !.identity = IF main.live THEN Identity ELSE @]
    /\ UNCHANGED <<registry, jobs, workers, used>>

(* prepare() and identity() read the registry once more.                   *)
Settle ==
    /\ Synced
    /\ main' = [main EXCEPT !.pc = "loop", !.failed = FALSE,
                            !.identity = IF main.live THEN Identity ELSE @]
    /\ UNCHANGED <<registry, jobs, workers, used>>

-----------------------------------------------------------------------------
(* reader_loop: a worker that was told to stop ends when its run does; one *)
(* that failed three times ends by itself and says so in its row.          *)
WorkerStops ==
    \E w \in workers :
      /\ w.stop /\ workers' = workers \ {w}
      /\ UNCHANGED <<registry, main, jobs, used>>

WorkerParks ==
    \E w \in workers :
      /\ ~w.stop /\ used.parked < MaxParked
      /\ workers' = workers \ {w}
      /\ used' = [used EXCEPT !.parked = @ + 1]
      /\ UNCHANGED <<registry, main, jobs>>

-----------------------------------------------------------------------------
Init ==
    /\ \E saved \in [Readers -> UNION {Definitions[r] : r \in Readers} \cup {None}] :
         /\ \A r \in Readers : saved[r] \in Definitions[r] \cup {None}
         /\ registry = [saved |-> saved, owed |-> FALSE]
    /\ main = Down
    /\ jobs = [r \in Readers |-> None]
    /\ workers = {}
    /\ used = [changes |-> 0, faults |-> 0, deaths |-> 0, parked |-> 0]

MainStep ==
    \/ Start \/ ReadComponents \/ Refresh \/ BackoffEnds \/ Settle
    \/ \E r \in Readers : TellToStop(r) \/ Detach(r) \/ Attach(r)

Next == Save \/ Signal \/ Dies \/ SyncFails \/ (\E r \in Readers : StaysAlive(r))
          \/ MainStep \/ WorkerStops \/ WorkerParks

Spec == Init /\ [][Next]_vars

(* The profile stays on: what ended is started again, by launchd or by     *)
(* tap on.  The loop goes round, and a run ends in its time.               *)
Fairness == WF_vars(MainStep) /\ WF_vars(Signal) /\ WF_vars(WorkerStops)

-----------------------------------------------------------------------------
(* "Stop changed workers before starting replacements: no duplicate        *)
(* writes" (service.py): a reader has never two workers, whatever was      *)
(* saved while one of them took its time.                                  *)
OneWorkerPerReader == \A v, w \in workers : v.reader = w.reader => v = w

(* When the changes have ended, the controller ends up with what is saved, *)
(* as its view and as the identity it reports: no request was lost to a    *)
(* refresh that was at work, and no failure was the last word.             *)
Reconciled ==
    /\ main.pc = "loop" /\ ~main.failed
    /\ main.view = registry.saved /\ main.identity = Identity

RefreshIsNotLost == <>[]Reconciled

=============================================================================
