------------------------------ MODULE MCParts ------------------------------
(***************************************************************************)
(* Small instances of the parts that work on their own.  A behaviour is    *)
(* one of one part, chosen at the start; the parts share the variables.    *)
(***************************************************************************)
EXTENDS BridgePlan

CONSTANTS Parts,
          RuntimeOrder, Files, Setups,
          Worlds, Here, MaxChanges, MaxRestarts, MaxVisits,
          Commands, Requests, HubCommands, PageCommands, HubHandlers, PageRequests,
          MaxTries, MaxSockets, Runs,
          Definitions, MaxFaults, MaxDeaths, MaxParked,
          Revisions, Unacceptable, Reloads, MaxEdits, MaxStops,
          TargetOrder, WakeInterval, Expiry, ActiveWindow, ActiveInterval, IdleInterval,
          SafetyInterval, BackoffBase, BackoffCap, Window, Budget, MaxPerWake, Nights, MaxTime, MaxNews, MaxCuts,
          Packs, HeaderOrder, GrantRecords, Capacity, MaxSeen, MaxRegrants, MaxDrops,
          ServiceOrder, MaxStarts, MaxServiceStarts, MaxHubFailures, MaxServiceFailures,
          MaxEvents, MaxKills, MaxCommands

VARIABLES part, a, b, c, d, e

vars == <<part, a, b, c, d, e>>

-----------------------------------------------------------------------------
(* Installer: a whole installation, and one whose first managed runtimes   *)
(* and bindings come with B.                                               *)
PythonThenBun == <<"python", "bun">>
OnlyBun       == {"bun"}

Whole == [had |-> {"checkout", "managed", "python", "bun"}, staged |-> {"python", "bun"},
          configured |-> TRUE, sameCommand |-> FALSE, loyal |-> TRUE,
          updates |-> 2, fails |-> 2, cuts |-> 1]
First == [Whole EXCEPT !.had = {"checkout", "bun"}, !.staged = {"python"}]

Updates == {Whole, First, [Whole EXCEPT !.sameCommand = TRUE], [Whole EXCEPT !.cuts = 0]}

Installer == INSTANCE Installer WITH disk <- a, proc <- b, running <- c, setup <- d, used <- e

-----------------------------------------------------------------------------
(* Bridge: a pack with a page, a page pack that is a development tool, the *)
(* profile's own script, and what is on the disk while these change.       *)
PageThenTool == <<"page", "tool">>

Own      == [enabled |-> TRUE, allow |-> {}, exclude |-> {}, scripts |-> <<>>, readable |-> TRUE]
Scripted == [Own EXCEPT !.allow = {"here"}, !.scripts = <<"own">>]
UI(digest)     == [id |-> "ui", version |-> 1, digest |-> digest]
PagePack(uses) == [enabled |-> TRUE, intact |-> TRUE, origins |-> {"here"}, granted |-> {"here"},
                   roles |-> {"page"}, uses |-> uses]
Page1 == PagePack(<<UI("one")>>)
Page2 == PagePack(<<UI("two")>>)
Tool  == [PagePack(<<UI("one")>>) EXCEPT !.origins = {"there"}, !.granted = {AllOrigins}]
Off(pack) == [pack EXCEPT !.enabled = FALSE]
NoDev == [origins |-> {}, tools |-> {}]
Dev   == [origins |-> {"here"}, tools |-> {"tool"}]
World(bridge, dev, page, tool) ==
    LET w == [bridge |-> bridge, dev |-> dev, packs |-> [page |-> page, tool |-> tool]]
    IN  [bridge |-> bridge, dev |-> dev, packs |-> w.packs, config |-> EffectiveConfiguration(w)]

Disks ==
    {World(Own, NoDev, Page1, Off(Tool)),
     World(Own, NoDev, Page2, Off(Tool)),
     World(Own, NoDev, [Page1 EXCEPT !.intact = FALSE], Off(Tool)),
     World(Own, NoDev, Off(Page1), Off(Tool)),
     World([Own EXCEPT !.exclude = {"here"}], NoDev, Page1, Off(Tool)),
     World(Scripted, NoDev, Page1, Tool),
     World([Scripted EXCEPT !.readable = FALSE], NoDev, Page1, Tool),
     World(Scripted, NoDev, Page2, Tool),
     World(Own, Dev, Off(Page1), Tool),
     World([Own EXCEPT !.allow = {"here"}], Dev, Off(Page1), Tool)}

Bridge == INSTANCE Bridge WITH disk <- a, proxy <- b, hub <- c, page <- d, used <- e

-----------------------------------------------------------------------------
(* Pages: two commands at once for a page that takes one, or a command and *)
(* a request, with one event; or either of them alone with two.            *)
Traffic ==
    {[calls |-> {"c1", "c2"}, events |-> 1], [calls |-> {"c1", "r1"}, events |-> 1],
     [calls |-> {"c1"}, events |-> 2], [calls |-> {"r1"}, events |-> 2]}

Pages == INSTANCE Pages WITH page <- a, conn <- b, hub <- c, calls <- d, left <- e

-----------------------------------------------------------------------------
(* Controller: a reader with two versions and one with one.                *)
Versions == [r |-> {"d1", "d2"}, s |-> {"d1"}]

Controller == INSTANCE Controller
                WITH registry <- a, main <- b, jobs <- c, workers <- d, used <- e
-----------------------------------------------------------------------------
PolicyReload == INSTANCE PolicyReload
                  WITH files <- a, proxy <- b, reloads <- c, claim <- d, used <- e

-----------------------------------------------------------------------------
(* Freshness: two providers that one command looks at.                     *)
TwoTargets == <<"antigravity", "codex">>

Freshness == INSTANCE Freshness WITH account <- a, world <- b, run <- c, asked <- d, clock <- e

-----------------------------------------------------------------------------
(* SessionObservation: two packs with a grant, another version of a pack,  *)
(* one that is damaged and one that is not enabled.                        *)
CookieThenAgent == <<"cookie", "user-agent">>

Granted  == [enabled |-> TRUE, granted |-> TRUE, version |-> 1, intact |-> TRUE]
Records  == {Granted, [Granted EXCEPT !.version = 2], [Granted EXCEPT !.intact = FALSE],
             [Granted EXCEPT !.enabled = FALSE, !.granted = FALSE]}

Session == INSTANCE SessionObservation
             WITH registry <- a, inbox <- b, worker <- c, disk <- d, used <- e

-----------------------------------------------------------------------------
(* Supervisor: two services.                                               *)
TwoServices == <<"db", "web">>

Supervisor == INSTANCE Supervisor WITH ctl <- a, hub <- b, service <- c, used <- d

-----------------------------------------------------------------------------
Init ==
    /\ part \in Parts
    /\ \/ part = "installer" /\ Installer!Init
       \/ part = "bridge" /\ Bridge!Init
       \/ part = "pages" /\ Pages!Init
       \/ part = "controller" /\ Controller!Init
       \/ part = "policy" /\ PolicyReload!Init
       \/ part = "freshness" /\ Freshness!Init
       \/ part = "session" /\ Session!Init
       \/ part = "supervisor" /\ Supervisor!Init /\ e = None

Is(p) == part = p /\ part' = p

Next ==
    \/ Is("installer") /\ Installer!Next
    \/ Is("bridge") /\ Bridge!Next
    \/ Is("pages") /\ Pages!Next
    \/ Is("controller") /\ Controller!Next
    \/ Is("policy") /\ PolicyReload!Next
    \/ Is("freshness") /\ Freshness!Next
    \/ Is("session") /\ Session!Next
    \/ Is("supervisor") /\ Supervisor!Next /\ UNCHANGED e

Fairness ==
    /\ WF_vars(Is("installer") /\ Installer!Step)
    /\ WF_vars(Is("installer") /\ Installer!RollBack /\ a.decided = "rollback")
    /\ WF_vars(Is("bridge") /\ Bridge!TTLPasses)
    /\ WF_vars(Is("bridge") /\ Bridge!Runtime)
    /\ WF_vars(Is("pages") /\ Pages!PageStep)
    /\ WF_vars(Is("pages") /\ Pages!HubStep)
    /\ WF_vars(Is("pages") /\ Pages!HubStarts)
    /\ WF_vars(Is("pages") /\ Pages!Timers)
    /\ WF_vars(Is("controller") /\ Controller!MainStep)
    /\ WF_vars(Is("controller") /\ Controller!Signal)
    /\ WF_vars(Is("controller") /\ Controller!WorkerStops)
    /\ WF_vars(Is("policy") /\ PolicyReload!Report)
    /\ WF_vars(Is("policy") /\ PolicyReload!Watcher)
    /\ WF_vars(Is("supervisor") /\ Supervisor!ControllerStep /\ UNCHANGED e)
    /\ WF_vars(Is("supervisor") /\ Supervisor!HubAnswers /\ UNCHANGED e)
    /\ \A k \in {1, 2} :
         /\ WF_vars(Is("supervisor") /\ Supervisor!RestartLeavesWindow(TwoServices[k]) /\ UNCHANGED e)
         /\ WF_vars(Is("supervisor") /\ Supervisor!ProcessStep(TwoServices[k]) /\ UNCHANGED e)

Spec == Init /\ [][Next]_vars /\ Fairness

UpdateIsRecoverable == part = "installer" => Installer!UpdateIsRecoverable
RollbackConverges ==
    (part = "installer" /\ a.decided = "rollback" /\ d.cuts = 0)
      ~> (part = "installer" /\ Installer!WhollyA)
DocumentsKeepTheirScripts == part = "bridge" => Bridge!DocumentsKeepTheirScripts
DocumentsCatchUp == <>[](part = "bridge" /\ Bridge!Readable(a) => Bridge!Current)
EveryCallIsAnswered ==
    []<>(part = "pages" => \A x \in Commands \cup Requests : Pages!Answered(x))
StaysReachable == <>[](part = "pages" => Pages!Reachable)
OneWorkerPerReader == part = "controller" => Controller!OneWorkerPerReader
RefreshIsNotLost == <>[](part = "controller" => Controller!Reconciled)
DocumentComesIntoForce == <>[](part = "policy" => PolicyReload!DocumentInForce)
AppliedStands == part = "policy" => PolicyReload!AppliedStands
LooksAreRationed == part = "freshness" => Freshness!LooksAreRationed
KeptIsQueued == part = "session" => Session!KeptIsQueued
PublishedUnderGrant == [][part = "session" => Session!PublishedUnderGrant]_vars
ServicesComeBack == <>[](part = "supervisor" => Supervisor!AllServicesUp)
=============================================================================
