----------------------------- MODULE PackCommands -----------------------------
(***************************************************************************)
(* The pack subcommands (cli.py) and the dispatch of installed commands    *)
(* (commands.py): who holds which lease while the registry and the code    *)
(* change, and what a process that dies half way leaves behind.            *)
(*                                                                         *)
(* The profile lease and the execution leases are file locks that fail at  *)
(* once when they are taken; the kernel gives them back when the last      *)
(* process that has the file open ends, and a provider's child has its     *)
(* execution lease open.                                                   *)
(***************************************************************************)
EXTENDS PackRegistry

CONSTANTS Scenarios,   \* where the system starts and how much happens to it, as records:
                       \* registry, live, and the bounds of what follows:
                       \*   cli        the processes an operator has for commands
                       \*   commands   how many are started, and which (ops) on
                       \*   artifacts  which artifacts, with which grants
                       \*   cuts       how many processes die or fail half way
                       \*   switches   how often the profile is turned on or off
                       \*   fragile    the artifacts whose code someone may change
          Cli,         \* the processes an operator starts
          Global,      \* the execution lease without a key
          Scheduler, Orphan

VARIABLES proc,        \* [Cli -> what the process is doing]
          profile,     \* who holds the profile lease
          lease,       \* [Packs \cup {Global} -> who holds the execution lease]
          child,       \* [Packs -> version of the provider that runs]
          live,        \* the capture service is loaded
          bound,       \* handlers and bodies it was started with
          registered,  \* the background LaunchAgent is loaded
          tampered,    \* artifacts whose code was changed
          scenario,    \* the one of Scenarios this behaviour is of
          count        \* what of its bounds is used up

worldVars == <<live, bound, registered, tampered, scenario>>
cliVars == <<proc, profile, lease, child, live, bound, scenario, count>>
commandVars == <<storeVars, cliVars, registered, tampered>>

(* Mutant: rollback is left out of the commands with a pack's own lease.   *)
KeyedButRollback == {"update", "enable", "disable", "uninstall"}

Keyed  == {"update", "enable", "rollback", "disable", "uninstall"}
Stages == {"install", "update", "add"}

(* What a pack can be granted: what one asks for, and what operators give. *)
Capabilities ==
    UNION ({Declares(a[1], a[2]).needs : a \in Artifacts} \cup UNION {s.grants : s \in Scenarios}
             \cup UNION {{s.registry[p].grants : p \in Packs} : s \in Scenarios})

Registries ==
    [Packs -> [versions : SUBSET Versions, selected : Versions \cup {None}, enabled : BOOLEAN,
               history : Seq(Versions), grants : SUBSET Capabilities]]

(* The processes are told apart, what a manifest lists is finite, no pack  *)
(* has the name of the lease without a key, and a behaviour starts on a    *)
(* registry that earlier commands left: it can be loaded, and what it      *)
(* enables fits together and was granted what it needs.                    *)
ASSUME CommandsAssumption ==
    /\ Cli \cap {None, Scheduler, Orphan} = {} /\ Scheduler # Orphan /\ None \notin {Scheduler, Orphan}
    /\ None \notin Packs \cup Versions \cup Stages \cup Keyed \cup {"run"} /\ Global \notin Packs
    /\ PackOrder \in Seq(Packs) /\ None \notin Seq({r.id : r \in Resources})
    /\ IsFiniteSet(Profile.bodies) /\ BodyLimit \in Nat
    /\ \A a \in Artifacts : /\ Declares(a[1], a[2]).uses \in Seq(Resources)
                            /\ IsFiniteSet(Declares(a[1], a[2]).bodies)
    /\ \A s \in Scenarios :
         /\ s.live \in BOOLEAN /\ s.artifacts \subseteq Artifacts
         /\ s.registry \in Registries
         /\ Loads(s.registry)
         /\ Selection(s.registry) \in Composes
         /\ \A p \in Packs : s.registry[p].enabled =>
              MayActivate(p, s.registry[p].selected, s.registry[p].grants)

Idle == [op |-> None, at |-> "idle", pack |-> None, version |-> None,
         grants |-> {}, left |-> {}, gone |-> {}]

Spends(what) ==
    /\ count[what] < scenario[what]
    /\ count' = [count EXCEPT ![what] = @ + 1]

Goto(c, at) == proc' = [proc EXCEPT ![c].at = at]

(* The process ends: its leases are free unless a child keeps one open.    *)
Leaves(c) ==
    /\ proc' = [proc EXCEPT ![c] = Idle]
    /\ profile' = IF profile = c THEN None ELSE profile
    /\ lease' = [x \in DOMAIN lease |-> IF lease[x] = c THEN None ELSE lease[x]]

-----------------------------------------------------------------------------
(* Discovery: the enabled packs that verify and have a command.  Where two *)
(* commands were in each other's way it would drop one, which no saved     *)
(* registry needs (RegistryStaysUsable of Background).                     *)
Providers ==
    {p \in Packs :
       LET r == registry[p]
       IN  /\ r.enabled
           /\ Verifies(registry, p, r.selected)
           /\ MayActivate(p, r.selected, r.grants)
           /\ Declares(p, r.selected).commands # {}}

(* Those a schedule was declared for.                                      *)
Scheduled == {p \in Providers : Declares(p, registry[p].selected).scheduled}

-----------------------------------------------------------------------------
(* A pack subcommand: the execution lease of its pack, or for add the one  *)
(* no pack uses; install takes none.                                       *)
Begin(c, op, p, v, g) ==
    /\ proc[c] = Idle /\ c \in scenario.cli
    /\ op \in scenario.ops /\ Spends("commands")
    /\ op \in Keyed => lease[p] = None
    /\ op = "add"   => lease[Global] = None
    /\ proc' = [proc EXCEPT ![c] = [Idle EXCEPT !.op = op, !.at = "locking", !.pack = p,
                                       !.version = v, !.grants = g]]
    /\ lease' = CASE op = "install" -> lease
                  [] op = "add"     -> [lease EXCEPT ![Global] = c]
                  [] OTHER          -> [lease EXCEPT ![p] = c]
    /\ UNCHANGED <<storeVars, profile, child, worldVars>>

BeginStaging(c)   == \E op \in Stages, a \in scenario.artifacts : Begin(c, op, a[1], a[2], {})
BeginEnable(c)    == \E a \in scenario.artifacts, g \in scenario.grants : Begin(c, "enable", a[1], a[2], g)
BeginChange(c)    == \E op \in {"rollback", "disable"}, p \in Packs : Begin(c, op, p, None, {})
BeginUninstall(c) ==
    \E p \in Packs, v \in Versions \cup {None} : Begin(c, "uninstall", p, v, {})

LiveReadersProject ==
    live /\ Profile.components =>
      EnabledPacksVerify(registry) /\ ComponentsCompose(Selection(registry))

(* The short profile lease; with components configured a running profile's *)
(* readers are projected before anything changes.                          *)
TakeProfile(c) ==
    /\ proc[c].at = "locking" /\ profile = None
    /\ LiveReadersProject
    /\ profile' = c
    /\ Goto(c, IF proc[c].op \in Stages THEN "staging" ELSE "changing")
    /\ UNCHANGED <<storeVars, lease, child, worldVars, count>>

(* install(): code and shared resources are moved into place.              *)
Stage(c) ==
    LET p == proc[c].pack
        v == proc[c].version
    IN  /\ proc[c].at = "staging" /\ InstallAccepts(p, v)
        /\ code' = [code EXCEPT ![p][v] = "whole"]
        /\ shared' = Materialized(p, v)
        /\ Goto(c, "recording")
        /\ UNCHANGED <<registry, profile, lease, child, worldVars, count>>

(* add() of what is configured already: nothing to install or ask.         *)
AlreadyConfigured(c) ==
    LET p == proc[c].pack
        v == proc[c].version
    IN  /\ proc[c].at = "staging" /\ proc[c].op = "add"
        /\ registry[p].enabled /\ registry[p].selected = v
        /\ registry[p].grants = Declares(p, v).needs
        /\ Verifies(registry, p, v)
        /\ Goto(c, "reconciling")
        /\ UNCHANGED <<storeVars, profile, lease, child, worldVars, count>>

(* ... then the registry is saved; add, and update of an enabled pack, go  *)
(* on to enable what they installed.                                       *)
Record(c) ==
    LET p == proc[c].pack
    IN  /\ proc[c].at = "recording"
        /\ registry' = Recorded(p, proc[c].version)
        /\ Goto(c, IF proc[c].op = "add" \/ (proc[c].op = "update" /\ registry[p].enabled)
                     THEN "changing" ELSE "reconciling")
        /\ UNCHANGED <<code, shared, profile, lease, child, worldVars, count>>

(* The candidate a command is about to publish, and whether it may.        *)
Grants(c) == CASE proc[c].op = "add"    -> Declares(proc[c].pack, proc[c].version).needs
               [] proc[c].op = "update" -> registry[proc[c].pack].grants
               [] OTHER                 -> proc[c].grants
Gone(c) == IF proc[c].version = None THEN registry[proc[c].pack].versions ELSE {proc[c].version}
Accepts(c) ==
    LET p == proc[c].pack
    IN  CASE proc[c].op = "rollback"  -> RollbackAccepts(p, live)
          [] proc[c].op = "disable"   -> DisableAccepts(p, live)
          [] proc[c].op = "uninstall" -> UninstallAccepts(p, Gone(c))
          [] OTHER                    -> EnableAccepts(p, proc[c].version, Grants(c), live)
Candidate(c) ==
    LET p == proc[c].pack
    IN  CASE proc[c].op = "rollback" -> RolledBack(p)
          [] proc[c].op = "disable"  -> Disabled(p)
          [] OTHER                   -> Activated(p, proc[c].version, Grants(c))

Change(c) ==
    /\ proc[c].at = "changing" /\ proc[c].op # "uninstall" /\ Accepts(c)
    /\ registry' = Candidate(c)
    /\ Goto(c, "reconciling")
    /\ UNCHANGED <<code, shared, profile, lease, child, worldVars, count>>

(* Code, grants, conflicts or a reader's progress under another definition *)
(* stand in the way: nothing is published.                                 *)
Refused(c) ==
    /\ \/ proc[c].at = "locking" /\ profile # None
       \/ proc[c].at = "locking" /\ ~LiveReadersProject
       \/ proc[c].at = "staging" /\ ~InstallAccepts(proc[c].pack, proc[c].version)
       \/ proc[c].at = "changing" /\ ~Accepts(c)
       \/ /\ proc[c].at = "changing" /\ proc[c].op \notin {"disable", "uninstall"} /\ Accepts(c)
          /\ Declares(proc[c].pack, Candidate(c)[proc[c].pack].selected).reader
    /\ Leaves(c)
    /\ UNCHANGED <<storeVars, child, worldVars, count>>

(* uninstall() verifies every version, removes the trees one by one and    *)
(* only then saves the registry.                                           *)
StartRemoval(c) ==
    /\ proc[c].at = "changing" /\ proc[c].op = "uninstall" /\ Accepts(c)
    /\ proc' = [proc EXCEPT ![c].at = "removing", ![c].gone = Gone(c), ![c].left = Gone(c)]
    /\ UNCHANGED <<storeVars, profile, lease, child, worldVars, count>>

RemoveTree(c) ==
    /\ proc[c].at = "removing"
    /\ \E v \in proc[c].left :
         /\ code' = [code EXCEPT ![proc[c].pack][v] = "absent"]
         /\ proc' = [proc EXCEPT ![c].left = @ \ {v}]
    /\ UNCHANGED <<shared, registry, profile, lease, child, worldVars, count>>

RecordRemoval(c) ==
    /\ proc[c].at = "removing" /\ proc[c].left = {}
    /\ registry' = Uninstalled(proc[c].pack, proc[c].gone)
    /\ Goto(c, "reconciling")
    /\ UNCHANGED <<code, shared, profile, lease, child, worldVars, count>>

(* Mutant: the job is loaded when it is wanted and never unloaded.         *)
ReconcileLoads(c, wanted) ==
    /\ proc[c].at = "reconciling"
    /\ registered' = (registered \/ wanted # {})
    /\ Leaves(c)
    /\ UNCHANGED <<storeVars, child, live, bound, tampered, scenario, count>>

(* Last, the background job is loaded or unloaded to suit.                 *)
Reconcile(c, wanted) ==
    /\ proc[c].at = "reconciling"
    /\ registered' = (wanted # {})
    /\ Leaves(c)
    /\ UNCHANGED <<storeVars, child, live, bound, tampered, scenario, count>>

(* The process is killed, or the disk, launchctl or the controller's       *)
(* absence fails it: resources may be in place without the code, and the   *)
(* tree it was removing may be left in pieces.                             *)
Interrupted(c) ==
    /\ proc[c].op \in Stages \cup Keyed /\ Spends("cuts")
    /\ Leaves(c)
    /\ \/ UNCHANGED <<code, shared>>
       \/ /\ proc[c].at = "staging" /\ InstallAccepts(proc[c].pack, proc[c].version)
          /\ shared' = Materialized(proc[c].pack, proc[c].version) /\ UNCHANGED code
       \/ /\ proc[c].at = "removing"
          /\ \E v \in proc[c].left : code' = [code EXCEPT ![proc[c].pack][v] = "torn"]
          /\ UNCHANGED shared
    /\ UNCHANGED <<registry, child, worldVars>>

-----------------------------------------------------------------------------
(* dispatch(): the command is resolved without a lease, ...                *)
BeginRun(c) ==
    /\ proc[c] = Idle /\ c \in scenario.cli
    /\ "run" \in scenario.ops /\ Spends("commands")
    /\ \E p \in Packs :
         /\ p \in Providers
         /\ proc' = [proc EXCEPT ![c] = [Idle EXCEPT !.op = "run", !.at = "leasing", !.pack = p,
                                                     !.version = registry[p].selected]]
    /\ UNCHANGED <<storeVars, profile, lease, child, worldVars>>

LeaseRun(c) ==
    /\ proc[c].at = "leasing" /\ lease[proc[c].pack] = None
    /\ lease' = [lease EXCEPT ![proc[c].pack] = c]
    /\ Goto(c, "checking")
    /\ UNCHANGED <<storeVars, profile, child, worldVars, count>>

(* ... and again under both, before its provider is started.               *)
StillProvides(c) ==
    proc[c].pack \in Providers /\ registry[proc[c].pack].selected = proc[c].version

StartRun(c) ==
    /\ proc[c].at = "checking" /\ profile = None /\ StillProvides(c)
    /\ child' = [child EXCEPT ![proc[c].pack] = proc[c].version]
    /\ Goto(c, "running")
    /\ UNCHANGED <<storeVars, profile, lease, worldVars, count>>

RunRefused(c) ==
    /\ \/ proc[c].at = "leasing" /\ lease[proc[c].pack] # None
       \/ proc[c].at = "checking" /\ (profile # None \/ ~StillProvides(c))
    /\ Leaves(c)
    /\ UNCHANGED <<storeVars, child, worldVars, count>>

RunEnds(c) ==
    /\ proc[c].at = "running"
    /\ child' = [child EXCEPT ![proc[c].pack] = None]
    /\ Leaves(c)
    /\ UNCHANGED <<storeVars, worldVars, count>>

(* Mutant: the child does not inherit the lease.                           *)
DispatcherKilledWithLease(c) ==
    /\ proc[c].at = "running" /\ Spends("cuts")
    /\ proc' = [proc EXCEPT ![c] = Idle]
    /\ lease' = [lease EXCEPT ![proc[c].pack] = None]
    /\ UNCHANGED <<storeVars, profile, child, worldVars>>

(* The dispatcher dies alone: its child has the lease.                     *)
DispatcherKilled(c) ==
    /\ proc[c].at = "running" /\ Spends("cuts")
    /\ proc' = [proc EXCEPT ![c] = Idle]
    /\ lease' = [lease EXCEPT ![proc[c].pack] = Orphan]
    /\ UNCHANGED <<storeVars, profile, child, worldVars>>

OrphanEnds(p) ==
    /\ lease[p] = Orphan
    /\ lease' = [lease EXCEPT ![p] = None]
    /\ child' = [child EXCEPT ![p] = None]
    /\ UNCHANGED <<storeVars, proc, profile, worldVars, count>>

-----------------------------------------------------------------------------
(* `tap on' and `tap off', as far as packs see them: the bindings are read *)
(* when the profile starts, and on loads or unloads the background job.    *)
TurnOn(wanted) ==
    /\ ~live /\ profile = None /\ Spends("switches")
    /\ EnabledPacksVerify(registry) /\ ResourcesInPlace(registry)
    /\ Selection(registry) \in ServicesCompose
    /\ live' = TRUE
    /\ bound' = Bindings(registry)
    /\ registered' = (wanted # {})
    /\ UNCHANGED <<storeVars, proc, profile, lease, child, tampered, scenario>>

TurnOff ==
    /\ live /\ profile = None /\ Spends("switches")
    /\ live' = FALSE /\ bound' = None
    /\ UNCHANGED <<storeVars, proc, profile, lease, child, registered, tampered, scenario>>

(* Someone changes installed code, or puts it right again.                 *)
Tamper(p, v) ==
    /\ code[p][v] = "whole" /\ <<p, v>> \in scenario.fragile \ tampered
    /\ code' = [code EXCEPT ![p][v] = "torn"]
    /\ tampered' = tampered \cup {<<p, v>>}
    /\ UNCHANGED <<shared, registry, cliVars, registered>>

Mend(p, v) ==
    /\ code[p][v] = "torn" /\ <<p, v>> \in tampered
    /\ code' = [code EXCEPT ![p][v] = "whole"]
    /\ UNCHANGED <<shared, registry, cliVars, registered, tampered>>

-----------------------------------------------------------------------------
CommandInit ==
    /\ scenario \in Scenarios
    /\ count = [commands |-> 0, cuts |-> 0, switches |-> 0]
    /\ registry = scenario.registry
    /\ code = CodeOf(registry) /\ shared = SharedOf(registry)
    /\ proc = [c \in Cli |-> Idle] /\ profile = None
    /\ lease = [x \in Packs \cup {Global} |-> None]
    /\ child = [p \in Packs |-> None]
    /\ live = scenario.live /\ bound = IF live THEN Bindings(registry) ELSE None
    /\ registered = (Scheduled # {})
    /\ tampered = {}

(* A process goes on; Reconcile is composed with the scheduler's account.  *)
Continues(c) ==
    \/ TakeProfile(c) \/ Stage(c) \/ AlreadyConfigured(c) \/ Record(c) \/ Change(c)
    \/ StartRemoval(c) \/ RemoveTree(c) \/ RecordRemoval(c) \/ Refused(c)
    \/ LeaseRun(c) \/ StartRun(c) \/ RunRefused(c) \/ RunEnds(c)

Starts(c) ==
    \/ BeginStaging(c) \/ BeginEnable(c) \/ BeginChange(c) \/ BeginUninstall(c) \/ BeginRun(c)

Surroundings ==
    \/ TurnOff
    \/ \E c \in Cli : Interrupted(c) \/ DispatcherKilled(c)
    \/ \E a \in Artifacts : Tamper(a[1], a[2]) \/ Mend(a[1], a[2])
=============================================================================
