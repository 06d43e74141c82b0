------------------------------ MODULE Background ------------------------------
(***************************************************************************)
(* The background scheduler (background.py): one launchd job that wakes    *)
(* every ten seconds, takes stock of the scheduled packs, and runs those   *)
(* that are due under their own execution leases, while operators install, *)
(* change and run packs (PackCommands).                                    *)
(*                                                                         *)
(* A pack has at most one scheduled command here.                          *)
(***************************************************************************)
EXTENDS PackCommands

CONSTANT Threshold     \* VERIFY_QUARANTINE_THRESHOLD

VARIABLES sched,       \* the scheduler process
          jobs,        \* background.json: [pack -> its row]
          failures     \* background.json: [pack -> its verify failures]

backgroundVars == <<sched, jobs, failures>>
vars == <<commandVars, backgroundVars>>

Asleep     == [at |-> "idle", due |-> <<>>]
NoJob      == [version |-> None, phase |-> "none", later |-> FALSE]
NoFailures == [version |-> None, count |-> 0, quarantined |-> FALSE]

Quarantined(p) == failures[p].quarantined /\ failures[p].version = registry[p].selected

(* tasks() of a reader of the account, and of the scheduler's own wake.    *)
Tasks == {p \in Scheduled : ~Quarantined(p)}

(* tasks(account): a wake counts the failures of every enabled pack; a     *)
(* pack that verifies, is disabled or is gone has none.                    *)
Accounted(p) ==
    LET r    == registry[p]
        f    == failures[p]
        more == IF f.version = r.selected THEN f.count + 1 ELSE 1
    IN  CASE ~r.enabled -> NoFailures
          [] r.enabled /\ Quarantined(p) -> f
          [] r.enabled /\ ~Quarantined(p) /\ Verifies(registry, p, r.selected) -> NoFailures
          [] OTHER -> [version |-> r.selected, count |-> more, quarantined |-> more >= Threshold]

Due(p) == ~(jobs[p].version = registry[p].selected /\ jobs[p].later)

(* The wake: rows of packs that are no longer scheduled are dropped, and   *)
(* the due ones are listed with the version they had.                      *)
Wake ==
    /\ registered /\ sched.at = "idle" /\ profile = None
    /\ failures' = [p \in Packs |-> Accounted(p)]
    /\ jobs' = [p \in Packs |-> IF p \in Tasks THEN jobs[p] ELSE NoJob]
    /\ LET due == Among(PackOrder, {p \in Tasks : Due(p)})
       IN  sched' = [at |-> "jobs",
                     due |-> [i \in DOMAIN due |-> <<due[i], registry[due[i]].selected>>]]
    /\ UNCHANGED commandVars

(* The next due job: under its lease and the profile's, the pack is looked *)
(* up again, and its row says it runs before its provider is started.      *)
Current(job) ==
    /\ job[1] \in Tasks
    /\ registry[job[1]].selected = job[2]
    /\ Due(job[1])

Head1 == sched.due[1]

JobStarts ==
    /\ sched.at = "jobs" /\ sched.due # <<>>
    /\ lease[Head1[1]] = None /\ profile = None
    /\ Current(Head1)
    /\ lease' = [lease EXCEPT ![Head1[1]] = Scheduler]
    /\ jobs' = [jobs EXCEPT ![Head1[1]] =
                  [version |-> Head1[2], phase |-> "running", later |-> TRUE]]
    /\ sched' = [sched EXCEPT !.at = "starting"]
    /\ UNCHANGED <<storeVars, proc, profile, child, worldVars, count, failures>>

JobChanged ==
    /\ sched.at = "jobs" /\ sched.due # <<>>
    /\ lease[Head1[1]] = None /\ profile = None
    /\ ~Current(Head1)
    /\ sched' = [sched EXCEPT !.due = Tail(@)]
    /\ UNCHANGED <<commandVars, jobs, failures>>

(* A lease that is held ends the wake: a later one tries again.            *)
Busy ==
    /\ \/ sched.at = "jobs" /\ sched.due # <<>> /\ lease[Head1[1]] # None
       \/ sched.at = "jobs" /\ profile # None
    /\ sched' = Asleep
    /\ UNCHANGED <<commandVars, jobs, failures>>

ProviderStarts ==
    /\ sched.at = "starting"
    /\ \/ /\ child' = [child EXCEPT ![Head1[1]] = Head1[2]]
          /\ sched' = [sched EXCEPT !.at = "running"]
       \/ /\ sched' = [sched EXCEPT !.at = "settling"]
          /\ UNCHANGED child
    /\ UNCHANGED <<storeVars, proc, profile, lease, worldVars, count, jobs, failures>>

(* It exits, or its time is over and its process group is killed; ok,      *)
(* failed and unknown are one outcome here.                                *)
ProviderEnds ==
    /\ sched.at = "running"
    /\ child' = [child EXCEPT ![Head1[1]] = None]
    /\ sched' = [sched EXCEPT !.at = "settling"]
    /\ UNCHANGED <<storeVars, proc, profile, lease, worldVars, count, jobs, failures>>

(* Mutant: the lease stays taken when the outcome cannot be recorded.      *)
SettleLeaks ==
    /\ sched.at = "settling"
    /\ IF profile = None
         THEN /\ jobs' = [jobs EXCEPT ![Head1[1]].phase = "ended", ![Head1[1]].later = TRUE]
              /\ lease' = [lease EXCEPT ![Head1[1]] = None]
              /\ sched' = [at |-> "jobs", due |-> Tail(sched.due)]
         ELSE sched' = Asleep /\ UNCHANGED <<jobs, lease>>
    /\ UNCHANGED <<storeVars, proc, profile, child, worldVars, count, failures>>

(* The outcome is recorded under the profile lease; when that is busy the  *)
(* wake ends and the row still says the job runs.                          *)
Settle ==
    /\ sched.at = "settling"
    /\ lease' = [lease EXCEPT ![Head1[1]] = None]
    /\ IF profile = None
         THEN /\ jobs' = [jobs EXCEPT ![Head1[1]].phase = "ended", ![Head1[1]].later = TRUE]
              /\ sched' = [at |-> "jobs", due |-> Tail(sched.due)]
         ELSE sched' = Asleep /\ UNCHANGED jobs
    /\ UNCHANGED <<storeVars, proc, profile, child, worldVars, count, failures>>

Finish ==
    /\ sched.at = "jobs" /\ sched.due = <<>> /\ profile = None
    /\ sched' = Asleep
    /\ UNCHANGED <<commandVars, jobs, failures>>

(* An interval passes.                                                     *)
IntervalPasses(p) ==
    /\ jobs[p].later
    /\ jobs' = [jobs EXCEPT ![p].later = FALSE]
    /\ UNCHANGED <<commandVars, sched, failures>>

(* launchd stops the job (SIGTERM): the provider's group is killed and the *)
(* run is settled as unknown.                                              *)
Terminated ==
    /\ sched.at = "running" /\ ~registered
    /\ child' = [child EXCEPT ![Head1[1]] = None]
    /\ sched' = [sched EXCEPT !.at = "settling"]
    /\ UNCHANGED <<storeVars, proc, profile, lease, worldVars, count, jobs, failures>>

(* It is killed outright: its provider runs on and keeps the lease.        *)
SchedulerKilled ==
    /\ sched.at # "idle" /\ Spends("cuts")
    /\ sched' = Asleep
    /\ lease' = [x \in DOMAIN lease |->
                   IF lease[x] # Scheduler THEN lease[x]
                   ELSE IF sched.at = "running" THEN Orphan ELSE None]
    /\ UNCHANGED <<storeVars, proc, profile, child, worldVars, jobs, failures>>

-----------------------------------------------------------------------------
Init ==
    /\ CommandInit
    /\ sched = Asleep
    /\ jobs = [p \in Packs |-> NoJob]
    /\ failures = [p \in Packs |-> NoFailures]

CommandStep(c) == (Continues(c) \/ Reconcile(c, Tasks)) /\ UNCHANGED backgroundVars

SchedulerStep ==
    Wake \/ JobStarts \/ JobChanged \/ Busy \/ ProviderStarts \/ ProviderEnds \/ Settle \/ Finish

Next ==
    \/ \E c \in Cli : CommandStep(c)
    \/ \E c \in Cli : Starts(c) /\ UNCHANGED backgroundVars
    \/ \E p \in Packs : OrphanEnds(p) /\ UNCHANGED backgroundVars
    \/ (Surroundings \/ TurnOn(Tasks)) /\ UNCHANGED backgroundVars
    \/ SchedulerStep
    \/ \E p \in Packs : IntervalPasses(p)
    \/ Terminated \/ SchedulerKilled

Spec == Init /\ [][Next]_vars

(* Processes go on, commands end, launchd wakes the job it has loaded and  *)
(* clocks move; nobody is obliged to start a command.                      *)
Fairness ==
    /\ \A c \in Cli : WF_vars(CommandStep(c))
    /\ \A p \in Packs : WF_vars(OrphanEnds(p) /\ UNCHANGED backgroundVars)
    /\ \A p \in Packs : WF_vars(IntervalPasses(p))
    /\ WF_vars(SchedulerStep)

FairSpec == Spec /\ Fairness
-----------------------------------------------------------------------------
(* Whatever commands did, in whatever order and however they were cut      *)
(* short, the saved registry can be loaded again and its enabled packs fit *)
(* together; unless files were changed behind the program's back, their    *)
(* code is whole and their resources are in place too.  Nothing else       *)
(* stands between a bad activation and every later command failing.        *)
RegistryStaysUsable ==
    /\ Loads(registry) /\ Selection(registry) \in Composes
    /\ tampered = {} => Projects(registry)

(* The code of a running provider is neither removed nor replaced: not by  *)
(* a command on its pack, not after its dispatcher or the scheduler died.  *)
RunningCodeStays ==
    \A p \in Packs :
      child[p] # None =>
        /\ child[p] \in registry[p].versions
        /\ <<p, child[p]>> \in tampered \/ code[p][child[p]] = "whole"

Authority(p) == [enabled  |-> registry[p].enabled,
                 selected |-> registry[p].selected,
                 grants   |-> registry[p].grants]
UnderWay(p) == child[p] # None \/ (sched.at = "starting" /\ Head1[1] = p)

(* From the moment its job is looked up under the leases until its child   *)
(* has ended, a pack keeps its selection and its grants, save for what     *)
(* `pack add' does, which waits for no provider (cli.py): "A running       *)
(* command's immutable snapshot must not be mutated or re-authoritied      *)
(* mid-run".                                                               *)
OnlyAddReauthorizes ==
    [][\A p \in Packs :
         UnderWay(p) /\ UnderWay(p)' /\ Authority(p)' # Authority(p)
           => \E c \in Cli : proc[c].op = "add" /\ proc[c].at = "changing" /\ proc[c].pack = p
      ]_vars

(* A running profile keeps the handlers and the request bodies it was      *)
(* started with, through every change of the registry.                     *)
LiveBindingsStand == live => Bindings(registry) = bound

(* When nothing is in flight, nothing was cut short and no code changed,   *)
(* the LaunchAgent is loaded exactly when there is something to schedule.  *)
LoadedWhenWanted ==
    (count.cuts = 0 /\ tampered = {} /\ \A c \in Cli : proc[c] = Idle)
      => registered = (Tasks # {})

(* A pack that stays scheduled while the job is loaded is run in the end,  *)
(* whatever its neighbours do: a busy lease, a changed pack, a killed      *)
(* scheduler or a broken neighbour delays it and no more.                  *)
EveryJobRuns ==
    \A p \in Packs :
      (registered /\ p \in Tasks /\ Due(p))
        ~> (jobs[p].phase = "running" \/ ~registered \/ p \notin Tasks)

-----------------------------------------------------------------------------
(* What makes those invariants inductive.                                  *)
Published == {"staging", "recording", "changing", "removing", "reconciling"}
Underway  == {"starting", "running", "settling"}

Processes ==
    [op : Stages \cup Keyed \cup {"run", None}, pack : Packs \cup {None},
     at : Published \cup {"idle", "locking", "leasing", "checking", "running"},
     version : Versions \cup {None}, grants : SUBSET Capabilities,
     left : SUBSET Versions, gone : SUBSET Versions]

TypeOK ==
    /\ registry \in Registries
    /\ code \in [Packs -> [Versions -> {"whole", "torn", "absent"}]]
    /\ shared \in [Resources -> {"whole", "torn", "absent"}]
    /\ proc \in [Cli -> Processes] /\ profile \in Cli \cup {None}
    /\ lease \in [Packs \cup {Global} -> Cli \cup {None, Scheduler, Orphan}]
    /\ child \in [Packs -> Versions \cup {None}]
    /\ live \in BOOLEAN /\ registered \in BOOLEAN
    /\ tampered \subseteq Artifacts /\ scenario \in Scenarios
    /\ count \in [{"commands", "cuts", "switches"} -> Nat]
    /\ sched \in [at : {"idle", "jobs"} \cup Underway, due : Seq(Packs \X (Versions \cup {None}))]
    /\ jobs \in [Packs -> [version : Versions \cup {None}, phase : {"none", "running", "ended"},
                           later : BOOLEAN]]
    /\ failures \in [Packs -> [version : Versions \cup {None}, count : Nat, quarantined : BOOLEAN]]

(* Who has which lease, at which step, for which pack.                     *)
Holds(c) ==
    LET p == proc[c]
    IN  /\ p.at # "idle" => p.pack \in Packs
        /\ p.at \in Published => profile = c
        /\ p.at \in Published \cup {"locking"} => p.op \in Stages \cup Keyed
        /\ p.at \in {"leasing", "checking", "running"} => p.op = "run"
        /\ p.op \in Keyed => lease[p.pack] = c /\ p.at # "idle"
        /\ p.at \in {"checking", "running"} => lease[p.pack] = c
        /\ p.at \in {"staging", "recording"} => p.op \in Stages
        /\ p.at = "changing" => p.op # "install"
        /\ p.op \in Stages \cup {"enable"} => p.version # None
        /\ p.at = "removing" => p.op = "uninstall" /\ ~registry[p.pack].enabled

LeaseInv ==
    /\ \A c \in Cli : Holds(c)
    /\ sched.at \in Underway => sched.due # <<>> /\ lease[Head1[1]] = Scheduler

(* A provider that runs has the lease of its pack, through the process     *)
(* that waits for it or on its own.                                        *)
Minded(p) ==
    \/ lease[p] = Orphan
    \/ \E c \in Cli : lease[p] = c /\ proc[c].at = "running" /\ proc[c].pack = p
    \/ lease[p] = Scheduler /\ sched.at = "running" /\ Head1[1] = p

ChildInv ==
    /\ \A p \in Packs : child[p] # None => Minded(p)
    /\ sched.at = "starting" =>
         /\ Head1[2] \in registry[Head1[1]].versions
         /\ <<Head1[1], Head1[2]>> \in tampered \/ code[Head1[1]][Head1[2]] = "whole"

(* While no code was changed nothing is ever quarantined.                  *)
NoQuarantine == tampered = {} => \A p \in Packs : ~failures[p].quarantined

(* The packs with something to schedule, while their code is in place.     *)
Wanted == {p \in Packs : /\ registry[p].enabled
                         /\ Declares(p, registry[p].selected).commands # {}
                         /\ Declares(p, registry[p].selected).scheduled}

(* Only a command that goes on to reconcile changes what is wanted.        *)
LoadedInv ==
    (count.cuts = 0 /\ tampered = {} /\ \A c \in Cli : proc[c].at # "reconciling")
      => registered = (Wanted # {})

BackgroundInv ==
    /\ TypeOK /\ LeaseInv
    /\ ChildInv /\ RunningCodeStays
    /\ RegistryStaysUsable /\ NoQuarantine
    /\ LiveBindingsStand /\ LoadedInv
=============================================================================
