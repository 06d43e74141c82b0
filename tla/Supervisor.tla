----------------------------- MODULE Supervisor -----------------------------
(***************************************************************************)
(* The component controller's supervision (service.py main, components.py  *)
(* start and stop, guardian.py): launchd keeps the controller, within its  *)
(* crash budget; the controller starts the Hub and the services, ends when *)
(* the Hub fails, and restarts a service that exits or stops answering,    *)
(* within the service's own budget.                                        *)
(*                                                                         *)
(* The starts that a budget counts are those of its window; each of them   *)
(* leaves it by a step of its own.                                         *)
(***************************************************************************)
EXTENDS Naturals, FiniteSets, FiniteSetsExt, Sequences, SequencesExt

CONSTANTS ServiceOrder,
          MaxStarts,          \* of the controller, in a minute
          MaxServiceStarts,   \* starts of a service, in two minutes
          MaxHubFailures, MaxServiceFailures,
          MaxEvents, MaxKills, MaxCommands

(* ctl: the controller and how many of its starts count.  hub, service:    *)
(* the processes and what the controller keeps of them.                    *)
VARIABLES ctl, hub, service, used

vars == <<ctl, hub, service, used>>

Services == ToSet(ServiceOrder)
Running  == ctl.pc = "running"

NoHub     == [process |-> "none", failures |-> 0]
NoService == [process |-> "none", announced |-> FALSE, grace |-> FALSE, failures |-> 0, recent |-> 0]

(* Guardians, and the controller's own end, leave none of the processes.   *)
AllKilled == hub' = NoHub /\ service' = [s \in Services |-> NoService]

-----------------------------------------------------------------------------
(* launchd and the commands.                                               *)

(* start: an explicit start resets the crash budget.                       *)
On ==
    /\ ctl.pc = "ended" /\ used.commands < MaxCommands
    /\ ctl' = [ctl EXCEPT !.pc = "launched", !.starts = 0]
    /\ used' = [used EXCEPT !.commands = @ + 1]
    /\ UNCHANGED <<hub, service>>

Off ==
    /\ ctl.pc # "ended" /\ used.commands < MaxCommands
    /\ ctl' = [ctl EXCEPT !.pc = "ended"] /\ AllKilled
    /\ used' = [used EXCEPT !.commands = @ + 1]

(* The controller ends with 0, and launchd leaves it at that.              *)
Ends == ctl' = [ctl EXCEPT !.pc = "ended"] /\ AllKilled

Begin ==
    /\ ctl.pc = "launched"
    /\ \/ ctl.starts >= MaxStarts /\ Ends
       \/ /\ ctl.starts < MaxStarts
          /\ ctl' = [ctl EXCEPT !.pc = "starting", !.starts = @ + 1]
          /\ hub' = [NoHub EXCEPT !.process = "starting"]
          /\ UNCHANGED service
    /\ UNCHANGED used

(* A kill; launchd starts it again.                                        *)
Crash ==
    /\ ctl.pc \in {"starting", "running"} /\ used.crashes < MaxKills
    /\ ctl' = [ctl EXCEPT !.pc = "launched"] /\ AllKilled
    /\ used' = [used EXCEPT !.crashes = @ + 1]

StartLeavesWindow ==
    /\ ctl.starts > 0
    /\ ctl' = [ctl EXCEPT !.starts = @ - 1]
    /\ UNCHANGED <<hub, service, used>>

-----------------------------------------------------------------------------
(* The controller.                                                         *)

Spawned(s) == [process |-> "starting", announced |-> FALSE, grace |-> TRUE,
               failures |-> service[s].failures, recent |-> service[s].recent + 1]

HubIsReady ==
    /\ ctl.pc = "starting" /\ hub.process = "up"
    /\ ctl' = [ctl EXCEPT !.pc = "running", !.turn = 0]
    /\ service' = [s \in Services |-> Spawned(s)]
    /\ UNCHANGED <<hub, used>>

(* It exits, or does not answer in ten seconds.                            *)
HubIsNot ==
    /\ ctl.pc = "starting" /\ hub.process \in {"exited", "hung"}
    /\ Ends /\ UNCHANGED used

Passed == [ctl EXCEPT !.turn = (@ + 1) % (Len(ServiceOrder) + 1)]

ProbeHub ==
    /\ Running /\ ctl.turn = 0
    /\ CASE hub.process = "up" ->
              ctl' = Passed /\ hub' = [hub EXCEPT !.failures = 0] /\ UNCHANGED service
         [] hub.process = "hung" /\ hub.failures + 1 < MaxHubFailures ->
              ctl' = Passed /\ hub' = [hub EXCEPT !.failures = @ + 1] /\ UNCHANGED service
         [] OTHER -> Ends
    /\ UNCHANGED used

WithinRestartBudget(s) == service[s].recent < MaxServiceStarts

(* A failed probe; inside the startup grace it is none.                    *)
Refused(s) ==
    LET failures == service[s].failures + 1
    IN  CASE ~service[s].announced /\ service[s].grace -> service[s]
          [] failures >= MaxServiceFailures /\ WithinRestartBudget(s)
               /\ (service[s].announced \/ ~service[s].grace) ->
               [Spawned(s) EXCEPT !.failures = 0]
          [] OTHER ->
               [service[s] EXCEPT !.announced = TRUE, !.failures = Min({failures, MaxServiceFailures})]

ProbeService ==
    /\ Running /\ ctl.turn # 0
    /\ LET s == ServiceOrder[ctl.turn]
       IN  service' = [service EXCEPT ![s] =
             CASE @.process = "exited" -> IF WithinRestartBudget(s) THEN Spawned(s) ELSE @
               [] @.process = "up" -> [@ EXCEPT !.failures = 0, !.announced = TRUE]
               [] OTHER -> Refused(s)]
    /\ ctl' = Passed
    /\ UNCHANGED <<hub, used>>

(* A service that cannot be spawned ends the controller.                   *)
SpawnFails ==
    /\ Running /\ ctl.turn # 0 /\ used.events < MaxEvents
    /\ service[ServiceOrder[ctl.turn]].process = "exited"
    /\ WithinRestartBudget(ServiceOrder[ctl.turn])
    /\ Ends /\ used' = [used EXCEPT !.events = @ + 1]

-----------------------------------------------------------------------------
(* The windows and the processes.                                          *)

(* Mutant: a start counts for ever.                                        *)
RestartStays(s) == FALSE /\ UNCHANGED vars

RestartLeavesWindow(s) ==
    /\ service[s].recent > 0
    /\ service' = [service EXCEPT ![s].recent = @ - 1]
    /\ UNCHANGED <<ctl, hub, used>>

(* A service that answers at all does so within its grace; one that is     *)
(* slower counts as hung.                                                  *)
GraceEnds(s) ==
    /\ service[s].grace /\ service[s].process # "starting"
    /\ service' = [service EXCEPT ![s].grace = FALSE]
    /\ UNCHANGED <<ctl, hub, used>>

HubAnswers ==
    /\ hub.process = "starting"
    /\ hub' = [hub EXCEPT !.process = "up"]
    /\ UNCHANGED <<ctl, service, used>>

Answers(s) ==
    /\ service[s].process = "starting"
    /\ service' = [service EXCEPT ![s].process = "up"]
    /\ UNCHANGED <<ctl, hub, used>>

HubFails ==
    /\ hub.process \in {"starting", "up"} /\ used.events < MaxEvents
    /\ \E how \in {"exited", "hung"} : hub' = [hub EXCEPT !.process = how]
    /\ used' = [used EXCEPT !.events = @ + 1]
    /\ UNCHANGED <<ctl, service>>

ServiceFails(s) ==
    /\ service[s].process \in {"starting", "up"} /\ used.events < MaxEvents
    /\ \E how \in {"exited", "hung"} : service' = [service EXCEPT ![s].process = how]
    /\ used' = [used EXCEPT !.events = @ + 1]
    /\ UNCHANGED <<ctl, hub>>

-----------------------------------------------------------------------------
Init ==
    /\ ctl = [pc |-> "ended", starts |-> 0, turn |-> 0]
    /\ hub = NoHub /\ service = [s \in Services |-> NoService]
    /\ used = [events |-> 0, crashes |-> 0, commands |-> 0]

ControllerStep == Begin \/ HubIsReady \/ HubIsNot \/ ProbeHub \/ ProbeService

ProcessStep(s) == Answers(s) \/ GraceEnds(s)

Next ==
    \/ On \/ Off \/ Crash \/ StartLeavesWindow
    \/ ControllerStep \/ SpawnFails
    \/ HubAnswers \/ HubFails
    \/ \E s \in Services : RestartLeavesWindow(s) \/ ProcessStep(s) \/ ServiceFails(s)

Spec == Init /\ [][Next]_vars

(* The controller's loop goes round, what was started comes up or fails,   *)
(* and time passes.                                                        *)
Fairness ==
    /\ WF_vars(ControllerStep) /\ WF_vars(HubAnswers)
    /\ \A s \in Services : WF_vars(RestartLeavesWindow(s)) /\ WF_vars(ProcessStep(s))

-----------------------------------------------------------------------------
(* "a service that exits or stays unhealthy is restarted on its own with a *)
(* bounded budget": once the faults are over, every service of a running   *)
(* controller is up again, however many of its restarts the faults used.   *)
AllServicesUp == Running => \A s \in Services : service[s].process = "up"

ServicesComeBack == <>[]AllServicesUp
=============================================================================
