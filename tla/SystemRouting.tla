---------------------------- MODULE SystemRouting ----------------------------
(***************************************************************************)
(* The system proxy settings under tap on, off, uninstall, install (over   *)
(* an installation: repair) and routing set: tap_core/routing.py, Lifecycle*)
(* and MacOS.start/stop of runtime.py, routing_set() and the two leases    *)
(* that tap_core/cli.py takes around them.                                 *)
(*                                                                         *)
(* Commands are processes that interleave, fail at every system call and   *)
(* die at any point (their flock is then free); the user edits the network *)
(* preferences in between.  enable() refuses to take over when a proxy is  *)
(* enabled, so every saved endpoint is off and a snapshot is told by the   *)
(* services it covers and the bypass lists it saves.                       *)
(***************************************************************************)
EXTENDS Integers, Sequences, FiniteSets, SequencesExt

CONSTANTS
  None,         \* no snapshot, no lease holder
  Order,        \* the network services, in the order they are listed
  Procs,        \* command processes
  Sessions,     \* [mode, verbs, spent]: the routing at first, the commands that are
                \* issued, and how much of the bounds is used up from the start
  MaxCommands,  \* bound: commands issued
  MaxFailures,  \* bound: system calls that fail, listeners that hang
  MaxCrashes,   \* bound: commands that die
  MaxEdits      \* bound: edits of the user

Services == ToSet(Order)
Kinds    == {"http", "https"}
Lists    == {"user", "edited", "declared"}   \* declared: the profile's passthrough list

Modes    == {"system", "explicit"}
Verbs    == {"on", "off", "uninstall", "repair", "set system", "set explicit", "other"}

ASSUME RoutingAssumption ==
  /\ IsInjective(Order)
  /\ \A s \in Sessions :
       /\ s.mode \in Modes /\ s.verbs \subseteq Verbs
       /\ s.spent \in [commands : 0..MaxCommands, failures : 0..MaxFailures,
                       crashes : 0..MaxCrashes, edits : 0..MaxEdits]
  /\ {MaxCommands, MaxFailures, MaxCrashes, MaxEdits} \subseteq Nat
  /\ None \notin Procs /\ \A held \in SUBSET Services : None \notin [held -> Lists]

VARIABLES
  endpoint,  \* service -> kind -> off, own (this profile's listener) or foreign
  bypass,    \* service -> its bypass list
  enabled,   \* the services that are enabled, so listed
  mode,      \* the routing that profile.json says
  snapshot,  \* state/proxy-before.json: service -> its saved bypass list
  capture,   \* the launchd job: down, up (it owns its port), or hung
  lease,     \* the profile lease and the shared network lease
  cmd,       \* process -> the command it runs
  theirs,    \* history: the list each service had when this profile took it over
  manual,    \* history: the endpoints the user pointed at the listener by hand
  late,      \* history: what the user set since the network lease was last taken
  verbs,     \* the commands of this session
  spent      \* history: what the bounds count

settings == <<endpoint, bypass, manual>>
saved    == <<mode, verbs>>
users    == <<enabled, theirs, late, saved>>
vars     == <<settings, users, snapshot, capture, lease, cmd, spent>>

Endpoints == Services \X Kinds
Work    == Endpoints \cup (Services \X {"bypass"})
Idle    == [verb |-> "none", pc |-> "idle", mode |-> "system", again |-> FALSE,
            todo |-> {}, goal |-> "end", errors |-> FALSE]
Command == [verb : Verbs \cup {"none"},
            pc : {"idle", "emergency", "profile", "network", "other", "switch", "start", "enable",
                  "arm", "tighten", "restore", "undo", "stop", "save"},
            mode : Modes,                     \* its copy of the profile's routing
            again : BOOLEAN,                  \* it starts the listener that it stopped
            todo : SUBSET Work,               \* settings still to be written
            goal : {"end", "cleanup", "retry", "stop", "save"},  \* what follows a restore that succeeds
            errors : BOOLEAN]

\* A lease belongs to a running command: the kernel drops the flock of a dead one.
TypeOK ==
  /\ endpoint \in [Services -> [Kinds -> {"off", "own", "foreign"}]]
  /\ bypass \in [Services -> Lists] /\ theirs \in [Services -> Lists \ {"declared"}]
  /\ manual \subseteq {e \in Endpoints : endpoint[e[1]][e[2]] = "own"}
  /\ late \subseteq Endpoints
  /\ enabled \in (SUBSET Services) \ {{}}
  /\ snapshot = None \/ \E held \in (SUBSET Services) \ {{}} : snapshot \in [held -> Lists \ {"declared"}]
  /\ mode \in Modes /\ verbs \subseteq Verbs
  /\ capture \in {"down", "up", "hung"}
  /\ lease \in [{"profile", "network"} -> {p \in Procs : cmd[p].pc # "idle"} \cup {None}]
  /\ cmd \in [Procs -> Command]
  /\ spent \in [commands : 0..MaxCommands, failures : 0..MaxFailures,
                crashes : 0..MaxCrashes, edits : 0..MaxEdits]

Init ==
  /\ endpoint = [s \in Services |-> [k \in Kinds |-> "off"]]
  /\ bypass = [s \in Services |-> "user"] /\ theirs = bypass /\ manual = {} /\ late = {}
  /\ enabled \in (SUBSET Services) \ {{}}
  /\ snapshot = None /\ capture = "down"
  /\ lease = [l \in {"profile", "network"} |-> None]
  /\ cmd = [p \in Procs |-> Idle]
  /\ \E s \in Sessions : mode = s.mode /\ verbs = s.verbs /\ spent = s.spent

Limit == [commands |-> MaxCommands, failures |-> MaxFailures, crashes |-> MaxCrashes, edits |-> MaxEdits]
Spend(what) == spent[what] < Limit[what] /\ spent' = [spent EXCEPT ![what] = @ + 1]

Saved   == IF snapshot = None THEN {} ELSE DOMAIN snapshot
Ours(s) == \E k \in Kinds : endpoint[s][k] = "own"

-----------------------------------------------------------------------------
(* Steps of a command. *)

At(p, pc) == cmd[p].pc = pc
Goto(p, pc) == cmd' = [cmd EXCEPT ![p].pc = pc]
Free(p) == [l \in DOMAIN lease |-> IF lease[l] = p THEN None ELSE lease[l]]

End(p) == cmd' = [cmd EXCEPT ![p] = Idle] /\ lease' = Free(p)

\* Lifecycle.recover(): put the network back, then perhaps remove the failed job.
Recover(p, goal) ==
  cmd' = [cmd EXCEPT ![p] = [@ EXCEPT !.pc = "restore", !.goal = goal, !.todo = {}]] /\ lease' = lease

\* The writes enable() and restore() make: service by service, the bypass list last.
WritesFor(services) == services \X (Kinds \cup {"bypass"})

Place(s) == CHOOSE i \in DOMAIN Order : Order[i] = s

Precedes(v, w) ==
  \/ Place(v[1]) < Place(w[1])
  \/ v[1] = w[1] /\ <<v[2], w[2]>> \in {<<"http", "https">>, <<"http", "bypass">>, <<"https", "bypass">>}

\* w is the next write of p.
NextWrite(p, w) == w \in cmd[p].todo /\ \A v \in cmd[p].todo : ~Precedes(v, w)

\* One networksetup write of a proxy (value) or a bypass list.
Write(w, value, list) ==
  IF w[2] = "bypass"
  THEN bypass' = [bypass EXCEPT ![w[1]] = list] /\ UNCHANGED <<endpoint, manual>>
  ELSE /\ endpoint' = [endpoint EXCEPT ![w[1]][w[2]] = value]
       /\ manual' = manual \ {w} /\ bypass' = bypass

\* Mutant: off queues for the profile lease like every other command.
Queues(verb) == "profile"

\* The off verb restores before it queues for the profile lease.
FirstLease(verb) ==
  IF verb = "off" /\ (mode = "system" \/ snapshot # None) THEN "emergency" ELSE "profile"

\* Every command loads the profile before it has a lease.
Issue(p, verb) ==
  /\ At(p, "idle") /\ Spend("commands") /\ verb \in verbs
  /\ cmd' = [cmd EXCEPT ![p] = [Idle EXCEPT !.verb = verb, !.mode = mode, !.pc = FirstLease(verb)]]
  /\ UNCHANGED <<settings, users, snapshot, capture, lease>>

\* The network lease alone, without the profile lease.
Emergency(p) ==
  /\ At(p, "emergency")
  /\ \/ /\ lease["network"] = None
        /\ lease' = [lease EXCEPT !["network"] = p] /\ late' = {}
        /\ cmd' = [cmd EXCEPT ![p].pc = "restore", ![p].goal = "retry"]
     \/ lease["network"] # None /\ End(p) /\ late' = late
  /\ UNCHANGED <<settings, enabled, theirs, saved, snapshot, capture, spent>>

Waits(p) == cmd[p].goal = "retry"
Sets(p)  == cmd[p].verb \in {"set system", "set explicit"}

\* Under the lease the profile is loaded again, except to repair an installation.
Routing(p) == IF cmd[p].verb = "repair" THEN cmd[p].mode ELSE mode

\* Mutant: stop first, restore afterwards.
StopsFirst(verb) == IF verb = "on" THEN "start" ELSE "stop"

FirstStep(verb) ==
  CASE verb = "on" -> "start" [] verb \in {"off", "uninstall", "repair"} -> "restore" [] OTHER -> "switch"

NextLease(p) ==
  CASE cmd[p].verb = "other" -> "other"
    [] "system" = Routing(p) \/ cmd[p].verb = "set system" -> "network"
    [] OTHER -> FirstStep(cmd[p].verb)

\* Everything but the cleanup of off is refused at once.
TakeProfile(p) ==
  /\ At(p, "profile")
  /\ \/ /\ lease["profile"] = None
        /\ lease' = [lease EXCEPT !["profile"] = p]
        /\ cmd' = [cmd EXCEPT ![p].pc = NextLease(p), ![p].mode = Routing(p), ![p].goal = "stop"]
     \/ lease["profile"] # None /\ ~Waits(p) /\ End(p)
  /\ UNCHANGED <<settings, users, snapshot, capture, spent>>

\* The bounded drain runs out.
TimedOut(p) ==
  /\ At(p, "profile") /\ Waits(p) /\ lease["profile"] # None /\ End(p)
  /\ UNCHANGED <<settings, users, snapshot, capture, spent>>

\* Another command of the profile is done with its lease.
OtherEnds(p) ==
  At(p, "other") /\ End(p) /\ UNCHANGED <<settings, users, snapshot, capture, spent>>

TakeNetwork(p) ==
  /\ At(p, "network")
  /\ \/ /\ lease["network"] = None
        /\ lease' = [lease EXCEPT !["network"] = p] /\ late' = {}
        /\ Goto(p, FirstStep(cmd[p].verb))
     \/ lease["network"] # None /\ End(p) /\ late' = late
  /\ UNCHANGED <<settings, enabled, theirs, saved, snapshot, capture, spent>>

-----------------------------------------------------------------------------
(* tap on: start the listener, then take the settings over. *)

\* A hung job is stopped first.
Starts(p) ==
  /\ At(p, "start") /\ capture' = "up"
  /\ IF cmd[p].verb = "repair" \/ cmd[p].mode = "explicit" THEN End(p)
     ELSE Goto(p, "enable") /\ lease' = lease
  /\ UNCHANGED <<settings, users, snapshot, spent>>

\* The backend, its port or the removal of a hung job fails: routing may be armed.
StartRefused(p) ==
  /\ At(p, "start") /\ Spend("failures")
  /\ IF snapshot = None THEN End(p) ELSE Recover(p, "end")
  /\ capture' \in IF capture = "hung" THEN {"hung", "down"} ELSE {capture}
  /\ UNCHANGED <<settings, users, snapshot>>

\* StartupError: the job never owns its port, or a component does not start.
StartFails(p) ==
  /\ At(p, "start") /\ Spend("failures") /\ Recover(p, "cleanup")
  /\ capture' \in IF capture = "up" THEN {"up"} ELSE {"down", "hung", "up"}
  /\ UNCHANGED <<settings, users, snapshot>>

Verified      == \A s \in enabled, k \in Kinds : endpoint[s][k] = "own"
BypassesMatch == enabled = Saved /\ \A s \in Saved : bypass[s] = "declared"
Tightenable   == enabled = Saved /\ \A s \in Saved : bypass[s] \in {snapshot[s], "declared"}

\* enable() with a snapshot: nothing to do, only bypasses to tighten, or refuse.
Rearm(p) ==
  /\ At(p, "enable") /\ snapshot # None
  /\ \/ Verified /\ BypassesMatch /\ End(p)
     \/ /\ Verified /\ ~BypassesMatch /\ Tightenable /\ lease' = lease
        /\ cmd' = [cmd EXCEPT ![p].pc = "tighten",
                              ![p].todo = Saved \X {"bypass"}]
     \/ ~(Verified /\ (BypassesMatch \/ Tightenable)) /\ Recover(p, "end")
  /\ UNCHANGED <<settings, users, snapshot, capture, spent>>

ProxyInUse == \E s \in enabled, k \in Kinds : endpoint[s][k] # "off"

\* enable() without one: refuse to replace a proxy, else save what is there.
TakeOver(p) ==
  /\ At(p, "enable") /\ snapshot = None
  /\ \/ ProxyInUse /\ Recover(p, "end") /\ snapshot' = snapshot
     \/ /\ ~ProxyInUse /\ lease' = lease
        /\ snapshot' = [s \in enabled |-> bypass[s]]
        /\ cmd' = [cmd EXCEPT ![p].pc = "arm", ![p].todo = WritesFor(enabled)]
  /\ UNCHANGED <<settings, users, capture, spent>>

\* The next write.
Arm(p) ==
  /\ cmd[p].pc \in {"arm", "tighten"}
  /\ \E w \in Work : /\ NextWrite(p, w) /\ Write(w, "own", "declared")
                    /\ cmd' = [cmd EXCEPT ![p].todo = @ \ {w}]
  /\ UNCHANGED <<users, snapshot, capture, lease, spent>>

\* After the last write the settings are read back; tightening looks at bypasses only.
Verify(p) ==
  /\ cmd[p].pc \in {"arm", "tighten"} /\ cmd[p].todo = {}
  /\ IF BypassesMatch /\ (Verified \/ At(p, "tighten")) THEN End(p) ELSE Recover(p, "end")
  /\ UNCHANGED <<settings, users, snapshot, capture, spent>>

\* A call that failed or timed out may have taken effect.
EnableFails(p) ==
  /\ cmd[p].pc \in {"enable", "arm", "tighten"} /\ Spend("failures") /\ Recover(p, "end")
  /\ \/ UNCHANGED settings
     \/ \E w \in Work : NextWrite(p, w) /\ Write(w, "own", "declared")
  /\ UNCHANGED <<users, snapshot, capture>>

-----------------------------------------------------------------------------
(* restore(): alone for tap off's first pass, then again before the stop. *)

\* Mutant: restore() looks at the HTTP endpoints only.
TakenHttp == \E s \in Saved : endpoint[s]["http"] = "foreign"

Taken == \E s \in Saved, k \in Kinds : endpoint[s][k] = "foreign"
Strays == {s \in enabled \ Saved : Ours(s)}   \* ours, but no snapshot says how to undo it

\* What a restore that returned is followed by.
Released(p) ==
  IF cmd[p].goal = "retry"
  THEN cmd' = [cmd EXCEPT ![p].pc = "profile", ![p].errors = FALSE] /\ lease' = Free(p)
  ELSE IF cmd[p].goal = "end" THEN End(p)
       ELSE /\ cmd' = [cmd EXCEPT ![p].pc = IF cmd[p].goal = "save" THEN "save" ELSE "stop",
                                 ![p].errors = FALSE]
            /\ lease' = lease

\* off's first pass always looks at the system's settings.
OwnsSettings(p) == cmd[p].mode = "system" \/ cmd[p].goal = "retry"

Restore(p) ==
  /\ At(p, "restore")
  /\ \/ ~OwnsSettings(p) /\ Released(p)
     \/ OwnsSettings(p) /\ snapshot = None /\ Strays # {} /\ End(p)
     \/ OwnsSettings(p) /\ snapshot = None /\ Strays = {} /\ Released(p)
     \/ OwnsSettings(p) /\ snapshot # None /\ Taken /\ End(p)
     \/ /\ OwnsSettings(p) /\ snapshot # None /\ ~Taken /\ lease' = lease
        /\ cmd' = [cmd EXCEPT ![p].pc = "undo", ![p].todo = WritesFor(Saved)]
  /\ UNCHANGED <<settings, users, snapshot, capture, spent>>

\* Errors are collected; the other settings are still restored.
Undo(p) ==
  /\ At(p, "undo")
  /\ \E w \in Work :
       /\ NextWrite(p, w)
       /\ \/ /\ Write(w, "off", snapshot[w[1]]) /\ spent' = spent
             /\ cmd' = [cmd EXCEPT ![p].todo = @ \ {w}]
          \/ /\ Spend("failures")
             /\ cmd' = [cmd EXCEPT ![p].todo = @ \ {w}, ![p].errors = TRUE]
             /\ Write(w, "off", snapshot[w[1]]) \/ UNCHANGED settings
  /\ UNCHANGED <<users, snapshot, capture, lease>>

Undone == /\ \A s \in Saved : bypass[s] = snapshot[s] /\ \A k \in Kinds : endpoint[s][k] = "off"
          /\ Strays = {}

\* Mutant: restore() removes the snapshot before it looks at the result.
ConfirmBlindly(p) ==
  /\ At(p, "undo") /\ cmd[p].todo = {} /\ snapshot' = None /\ Released(p)
  /\ UNCHANGED <<settings, users, capture, spent>>

\* Read everything back; only a complete restoration gives the snapshot up.
Confirm(p) ==
  /\ At(p, "undo") /\ cmd[p].todo = {}
  /\ \/ Undone /\ ~cmd[p].errors /\ snapshot' = None /\ Released(p)
     \/ ~(Undone /\ ~cmd[p].errors) /\ snapshot' = snapshot /\ End(p)
  /\ UNCHANGED <<settings, users, capture, spent>>

\* A read fails, or the snapshot cannot be read or removed.
RestoreFails(p) ==
  /\ At(p, "restore") \/ (At(p, "undo") /\ cmd[p].todo = {})
  /\ Spend("failures") /\ End(p)
  /\ UNCHANGED <<settings, users, snapshot, capture>>

\* Components, then the exact launchd job.
Stop(p) ==
  /\ At(p, "stop") /\ capture' = "down"
  /\ IF cmd[p].goal = "stop" /\ (Sets(p) \/ cmd[p].verb = "repair")
     THEN cmd' = [cmd EXCEPT ![p].pc = "save", ![p].again = TRUE] /\ lease' = lease
     ELSE End(p)
  /\ UNCHANGED <<settings, users, snapshot, spent>>

StopFails(p) ==
  /\ At(p, "stop") /\ Spend("failures") /\ End(p) /\ capture' \in {capture, "down"}
  /\ UNCHANGED <<settings, users, snapshot>>

-----------------------------------------------------------------------------
(* tap routing set, and tap install over an installation. *)

Target(p) == IF cmd[p].verb = "set system" THEN "system" ELSE "explicit"

\* The old routing lets go of the network before the new one is saved.
Switch(p) ==
  /\ At(p, "switch")
  /\ \/ mode = Target(p) /\ End(p)
     \/ /\ mode # Target(p) /\ lease' = lease
        /\ cmd' = CASE capture # "down" -> [cmd EXCEPT ![p].pc = "restore"]
                    [] capture = "down" /\ snapshot # None ->
                         [cmd EXCEPT ![p].pc = "restore", ![p].goal = "save"]
                    [] OTHER -> [cmd EXCEPT ![p].pc = "save"]
  /\ UNCHANGED <<settings, users, snapshot, capture, spent>>

\* The new routing is written, and a listener that was stopped starts again under it.
Save(p) ==
  /\ At(p, "save") /\ Sets(p) /\ mode' = Target(p)
  /\ IF cmd[p].again THEN cmd' = [cmd EXCEPT ![p].pc = "start", ![p].mode = mode'] /\ lease' = lease
     ELSE End(p)
  /\ UNCHANGED <<settings, enabled, theirs, late, verbs, snapshot, capture, spent>>

\* Lifecycle.install(repair=True) writes the profile with the command's copy of it.
Reinstall(p) ==
  /\ At(p, "save") /\ ~Sets(p) /\ mode' = cmd[p].mode
  /\ Goto(p, "start") /\ lease' = lease
  /\ UNCHANGED <<settings, enabled, theirs, late, verbs, snapshot, capture, spent>>

\* The backend is gone, the port is taken, or the profile is not written.
SaveFails(p) ==
  /\ At(p, "save") /\ Spend("failures") /\ End(p)
  /\ UNCHANGED <<settings, users, snapshot, capture>>

-----------------------------------------------------------------------------
(* What happens around the commands. *)

Crash(p) ==
  /\ ~At(p, "idle") /\ Spend("crashes") /\ End(p)
  /\ UNCHANGED <<settings, users, snapshot, capture>>

\* launchd's KeepAlive restarts a listener that died or hung.
ListenerHangs ==
  /\ capture = "up" /\ Spend("failures") /\ capture' = "hung"
  /\ UNCHANGED <<settings, users, snapshot, lease, cmd>>

ListenerReturns ==
  /\ capture = "hung" /\ capture' = "up"
  /\ UNCHANGED <<settings, users, snapshot, lease, cmd, spent>>

\* The user edits network preferences at any time, in the middle of a command too.
Late(es) == late' = IF lease["network"] = None THEN late ELSE late \cup es

UserSetsProxy(s, k, value) ==
  /\ Spend("edits") /\ endpoint[s][k] # value
  /\ endpoint' = [endpoint EXCEPT ![s][k] = value] /\ Late({<<s, k>>})
  /\ manual' = IF value = "own" THEN manual \cup {<<s, k>>} ELSE manual \ {<<s, k>>}
  /\ UNCHANGED <<bypass, enabled, theirs, saved, snapshot, capture, lease, cmd>>

\* An edit of a service this profile holds is undone with the rest by restore().
UserSetsBypass(s) ==
  /\ Spend("edits") /\ bypass[s] # "edited"
  /\ bypass' = [bypass EXCEPT ![s] = "edited"]
  /\ theirs' = IF s \in Saved THEN theirs ELSE [theirs EXCEPT ![s] = "edited"]
  /\ UNCHANGED <<endpoint, manual, enabled, late, saved, snapshot, capture, lease, cmd>>

UserTogglesService(s) ==
  /\ Spend("edits") /\ enabled # {s}
  /\ enabled' = SymDiff(enabled, {s}) /\ Late({s} \X Kinds)
  /\ UNCHANGED <<settings, theirs, saved, snapshot, capture, lease, cmd>>

On(p)  == \/ Starts(p) \/ StartRefused(p) \/ StartFails(p) \/ Rearm(p) \/ TakeOver(p)
          \/ Arm(p) \/ Verify(p) \/ EnableFails(p)
Off(p) == Restore(p) \/ Undo(p) \/ Confirm(p) \/ RestoreFails(p) \/ Stop(p) \/ StopFails(p)
Leases(p) == Emergency(p) \/ TakeProfile(p) \/ TimedOut(p) \/ TakeNetwork(p)

\* No command runs.
Rest == (\A p \in Procs : At(p, "idle")) /\ UNCHANGED vars

CommandStep(p) == Leases(p) \/ On(p) \/ Off(p) \/ Switch(p) \/ Save(p) \/ Reinstall(p)
                  \/ SaveFails(p)

Next ==
  \/ \E p \in Procs : CommandStep(p) \/ OtherEnds(p) \/ Crash(p) \/ \E verb \in Verbs : Issue(p, verb)
  \/ ListenerHangs \/ ListenerReturns \/ Rest
  \/ \E s \in Services, k \in Kinds, value \in {"off", "own", "foreign"} : UserSetsProxy(s, k, value)
  \/ \E s \in Services : UserSetsBypass(s) \/ UserTogglesService(s)

Spec == Init /\ [][Next]_vars

\* A command goes on; the one that only holds the profile lease may never end.
FairSpec == Spec /\ \A p \in Procs : WF_vars(CommandStep(p))

-----------------------------------------------------------------------------
(* Properties. *)

Direct == \A s \in Services, k \in Kinds : endpoint[s][k] = "own" => <<s, k>> \in manual

\* Whatever fails or dies in whatever order, a service outside the snapshot
\* carries no proxy of ours and has its own bypass list, and a service inside
\* it can get that list back (routing.py 183, "persist before the first
\* mutation", and the unlink at the end of restore()).
NothingIsLost ==
  \A s \in Services :
    IF s \in Saved THEN snapshot[s] = theirs[s]
    ELSE /\ bypass[s] = theirs[s]
         /\ \A k \in Kinds : endpoint[s][k] = "own" => <<s, k>> \in manual

\* A listener that answers is never stopped while a listed service still sends
\* its traffic there, unless the user pointed it there after restore() looked
\* (runtime.py: off() "exception prevents stop", recover() "Capture was not
\* stopped").
StopsOnlyWhenDirect ==
  [][capture = "up" /\ capture' = "down" =>
       \A s \in enabled, k \in Kinds : endpoint[s][k] = "own" =>
         <<s, k>> \in late \/ (mode = "explicit" /\ <<s, k>> \in manual)]_vars

\* No command writes over a proxy that somebody else enabled before the command
\* took the network lease: enable() refuses to replace it and restore() does
\* not touch it (routing.py 181 and 207), however earlier commands failed.
ForeignIsLeftAlone ==
  [][cmd' # cmd => \A s \in Services, k \in Kinds :
       endpoint[s][k] = "foreign" /\ <<s, k>> \notin late => endpoint'[s][k] = "foreign"]_vars

Disturbances == spent.failures + spent.crashes + spent.edits

\* tap off gets the traffic off the listener even if another command keeps the
\* profile lease for ever, unless something fails meanwhile or another command
\* has the network lease just then (cli.py 742, the operator's escape hatch).
OffIsNeverBlocked ==
  \A p \in Procs : \A n \in 0..(MaxFailures + MaxCrashes + MaxEdits) :
    (cmd[p].verb = "off" /\ At(p, FirstLease("off")) /\ Disturbances = n)
      ~> (Direct \/ lease["network"] \notin {None, p} \/ Disturbances > n)

=============================================================================
