------------------------------ MODULE Freshness ------------------------------
(***************************************************************************)
(* When a provider is asked for its quota: the policy (freshness_policy.py)*)
(* and the coordinator that wakes with the background scheduler, decides,  *)
(* runs the one command that serves all targets and settles each of them   *)
(* (background.py, run_freshness_once).  Wakes are its only input: nothing *)
(* of the program makes an explicit request, knows whether the machine is  *)
(* online or whether the dashboard is in view.                             *)
(*                                                                         *)
(* Times are numbers of ticks; None is never.                              *)
(***************************************************************************)
EXTENDS Naturals, Sequences, FiniteSets, SequencesExt, FiniteSetsExt

CONSTANTS None,
          TargetOrder,              \* the targets, by name
          WakeInterval, Expiry,     \* a look that is not heard of any more
          ActiveWindow, ActiveInterval, IdleInterval, SafetyInterval,
          BackoffBase, BackoffCap,
          Window, Budget,
          MaxPerWake,
          Nights,
          MaxTime, MaxNews, MaxCuts

(* account: what is saved.  world: what the sidecar and the activity       *)
(* ledger say.  run: the coordinator.  asked is history: the looks.        *)
VARIABLES account, world, run, asked, clock

vars == <<account, world, run, asked, clock>>

Targets == ToSet(TargetOrder)
now     == clock.now

-----------------------------------------------------------------------------
(* The policy.                                                             *)

(* Activity that the last snapshot accounts for makes nothing active.      *)
Tier(s, night) ==
    CASE night -> SafetyInterval
      [] ~night /\ s.active # None /\ now - s.active <= ActiveWindow
           /\ (s.seen = None \/ s.active > s.seen) -> ActiveInterval
      [] OTHER -> IdleInterval

Attempts(s) == {at \in s.attempts : at + Window > now}

Delay(failures) == Min({BackoffBase * 2 ^ (failures - 1), BackoffCap})

(* A look that failed, at a time that may be over.                         *)
Failed(s, at) ==
    [s EXCEPT !.flight = None, !.failures = @ + 1, !.retry = at + Delay(s.failures + 1)]

Looked(s, observed) ==
    [s EXCEPT !.flight = None, !.failures = 0, !.retry = None,
              !.seen = Max({observed, IF @ = None THEN 0 ELSE @})]

(* Mutant: a look that was not heard of again is forgotten.                *)
SettledFree(s) ==
    IF s.flight # None /\ now >= s.flight + Expiry THEN [s EXCEPT !.flight = None] ELSE s

(* expire_in_flight: a timeout, from the time that it was one.             *)
Settled(s) ==
    IF s.flight # None /\ now >= s.flight + Expiry THEN Failed(s, s.flight + Expiry) ELSE s

(* decide, for a target that is settled.                                   *)
Due(s, night) ==
    /\ s.flight = None
    /\ s.retry = None \/ now >= s.retry
    /\ Cardinality(Attempts(s)) < Budget
    /\ s.seen = None \/ now - s.seen >= Tier(s, night)

(* _overdue: who was never observed goes first, then the largest age in    *)
(* intervals.                                                              *)
Before(ss, night, t, u) ==
    LET Age(x) == now - ss[x].seen
    IN  \/ ss[t].seen = None /\ ss[u].seen # None
        \/ /\ ss[t].seen # None /\ ss[u].seen # None
           /\ Age(t) * Tier(ss[u], night) > Age(u) * Tier(ss[t], night)

(* plan: those approved of the ones that are due.                          *)
Rank(t) == CHOOSE k \in DOMAIN TargetOrder : TargetOrder[k] = t
Approved(ss, night) ==
    LET due == {t \in Targets : Due(ss[t], night)}
        Ahead(t) == {u \in due \ {t} : \/ Before(ss, night, u, t)
                                       \/ ~Before(ss, night, t, u) /\ Rank(u) < Rank(t)}
    IN  {t \in due : Cardinality(Ahead(t)) < MaxPerWake}

Started(s) == [s EXCEPT !.flight = now, !.attempts = Attempts(s) \cup {now}]

-----------------------------------------------------------------------------
(* The coordinator.                                                        *)

NoRun == [pc |-> "none", approved |-> {}, previous |-> <<>>]

Newer(stored, at) == at # None /\ (stored = None \/ at > stored)
Observed(s, t) ==
    [s EXCEPT !.seen   = IF Newer(@, world.quota[t]) THEN world.quota[t] ELSE @,
              !.active = IF Newer(@, world.activity[t]) THEN world.activity[t] ELSE @]

Wake ==
    /\ run.pc = "none" /\ now >= account.nextWake
    /\ LET night == now \in Nights
            ss   == [t \in Targets |-> Settled(Observed(account.targets[t], t))]
            some == Approved(ss, night)
        IN  /\ account' = [nextWake |-> now + WakeInterval, targets |-> ss]
            /\ run' = IF some = {} THEN NoRun
                      ELSE [pc |-> "approved", approved |-> some, previous |-> world.quota]
    /\ UNCHANGED <<world, asked, clock>>

(* Its command has changed, or is busy: nothing is asked in this wake.     *)
NotRun ==
    /\ run.pc = "approved" /\ clock.cuts < MaxCuts
    /\ run' = NoRun /\ clock' = [clock EXCEPT !.cuts = @ + 1]
    /\ UNCHANGED <<account, world, asked>>

StartRun ==
    /\ run.pc = "approved"
    /\ account' = [account EXCEPT !.targets =
                     [t \in Targets |-> IF t \in run.approved THEN Started(@[t]) ELSE @[t]]]
    /\ run' = [run EXCEPT !.pc = "running"]
    /\ asked' = [t \in Targets |-> asked[t] \o
                   IF t \in run.approved THEN <<[at |-> now, ok |-> FALSE]>> ELSE <<>>]
    /\ UNCHANGED <<world, clock>>

(* The command ends, well or not; it may have brought something new for    *)
(* any of the targets, and each is settled from what is new for it.        *)
Moved(t, ok) ==
    ok /\ world.quota[t] # None /\ (run.previous[t] = None \/ world.quota[t] > run.previous[t])

EndRun ==
    /\ run.pc = "running"
    /\ \E ok \in BOOLEAN :
         /\ account' = [account EXCEPT !.targets = [t \in Targets |->
              CASE Moved(t, ok) -> Looked(@[t], world.quota[t])
                [] ~Moved(t, ok) /\ t \in run.approved -> Failed(@[t], now)
                [] OTHER -> @[t]]]
         /\ asked' = [t \in Targets |->
              IF Moved(t, ok) /\ asked[t] # <<>> THEN [asked[t] EXCEPT ![Len(asked[t])].ok = TRUE]
              ELSE asked[t]]
    /\ run' = NoRun
    /\ UNCHANGED <<world, clock>>

(* The command, or what captures the clients' own calls, writes the        *)
(* sidecar; a client is active.                                            *)
Quota(t) ==
    /\ clock.news < MaxNews
    /\ world.quota[t] # None => world.quota[t] < now
    /\ world' = [world EXCEPT !.quota[t] = now]
    /\ clock' = [clock EXCEPT !.news = @ + 1]
    /\ UNCHANGED <<account, run, asked>>

Activity(t) ==
    /\ clock.news < MaxNews
    /\ world.activity[t] # None => world.activity[t] < now
    /\ world' = [world EXCEPT !.activity[t] = now]
    /\ clock' = [clock EXCEPT !.news = @ + 1]
    /\ UNCHANGED <<account, run, asked>>

Crash ==
    /\ run.pc = "running" /\ clock.cuts < MaxCuts
    /\ run' = NoRun
    /\ clock' = [clock EXCEPT !.cuts = @ + 1]
    /\ UNCHANGED <<account, world, asked>>

Tick ==
    /\ now < MaxTime
    /\ run.pc = "none"
    /\ clock' = [clock EXCEPT !.now = @ + 1]
    /\ UNCHANGED <<account, world, run, asked>>

-----------------------------------------------------------------------------
Fresh == [seen |-> None, active |-> None, flight |-> None, failures |-> 0, retry |-> None, attempts |-> {}]

Init ==
    /\ account = [nextWake |-> 0, targets |-> [t \in Targets |-> Fresh]]
    /\ world = [quota |-> [t \in Targets |-> None], activity |-> [t \in Targets |-> None]]
    /\ run = NoRun
    /\ asked = [t \in Targets |-> <<>>]
    /\ clock = [now |-> 0, news |-> 0, cuts |-> 0]

Next ==
    \/ Wake \/ NotRun \/ StartRun \/ EndRun \/ Crash \/ Tick
    \/ \E t \in Targets : Quota(t) \/ Activity(t)

Spec == Init /\ [][Next]_vars

-----------------------------------------------------------------------------
(* What the policy promises of the looks, over crashes of the coordinator  *)
(* and runs that are not heard of again.                                   *)

(* "48 live attempts per 24 h per target" (docs/usage-freshness-policy.md).*)
WithinBudget ==
    \A t \in Targets : \A k \in DOMAIN asked[t] :
      LET at == asked[t][k].at
      IN  Cardinality({j \in DOMAIN asked[t] :
                         asked[t][j].at \in at .. at + Window - 1}) <= Budget

(* "Failures back off 5 min x 2^n, capped" and "a timeout failure, not a   *)
(* free retry": after k looks in a row that brought nothing, the next is   *)
(* not before the k-th back-off is over.                                   *)
Streak(t, k) == k - Max({0} \cup {j \in 1 .. k : asked[t][j].ok})

FailuresBackOff ==
    \A t \in Targets : \A k \in 1 .. Len(asked[t]) - 1 :
      ~asked[t][k].ok =>
        asked[t][k + 1].at >= asked[t][k].at + Delay(Streak(t, k))

LooksAreRationed == WithinBudget /\ FailuresBackOff
=============================================================================
