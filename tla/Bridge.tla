------------------------------- MODULE Bridge -------------------------------
(***************************************************************************)
(* The page side of the proxy (bridge.py): from what is on the disk it     *)
(* makes the plan of an origin, puts its scripts into documents and serves *)
(* them.  The Hub watches the configuration it publishes (hub.mjs), and    *)
(* the runtime in a document asks for its plan again and again and reloads *)
(* the document when the plan has changed (page-runtime.js).               *)
(*                                                                         *)
(* A fingerprint is the thing itself: a configuration or a plan.           *)
(***************************************************************************)
EXTENDS BridgePlan

CONSTANTS Worlds,   \* what may be on the disk, each with the EffectiveConfiguration
                    \* of it as its `config'
          Here,     \* the origin of the document
          MaxChanges, MaxRestarts, MaxVisits

VARIABLES disk, proxy, hub, page, used

vars == <<disk, proxy, hub, page, used>>

-----------------------------------------------------------------------------
Plan == PagePlan(proxy.config, proxy.dev, Here)

-----------------------------------------------------------------------------
(* The proxy.                                                              *)

Digests == UNION {{s.digest : s \in ToSet(w.config.scripts)} :
                    w \in {v \in Worlds : v.config # None}}

Readable(w) == w.config # None /\ (w.bridge.enabled => w.bridge.readable)

(* The digests the scripts of c are published under; c enabled or not.     *)
Grants(c, d) == UNION {c.scripts[k].origins : k \in {j \in DOMAIN c.scripts : c.scripts[j].digest = d}}

(* Mutant: only the current plan's scripts are kept.                       *)
PublishedAnew(assets, c) ==
    [d \in DOMAIN assets |-> IF c.enabled THEN Grants(c, d) ELSE {}]

(* Bytes and grants of earlier plans stay, for documents that are open.    *)
Published(assets, c) ==
    [d \in DOMAIN assets |-> IF c.enabled THEN assets[d] \cup Grants(c, d) ELSE assets[d]]

Bootstraps(c) == IF AllOrigins \in c.allow THEN (c.allow \ c.exclude) \cup {AllOrigins}
                 ELSE c.allow \ c.exclude

(* _apply_plan.                                                            *)
Applied(p, c) ==
    [p EXCEPT !.config = c, !.assets = Published(@, c), !.bootstrap = @ \cup Bootstraps(c)]

(* refresh_plan: at most once a second, before a request or a response is  *)
(* handled.  A refresh that fails keeps the plan it had; the development   *)
(* origins, which are read first, change all the same.                     *)
Refreshed ==
    LET read == [proxy EXCEPT !.due = FALSE, !.dev = disk.dev.origins]
    IN  CASE ~proxy.due -> proxy
          [] proxy.due /\ Readable(disk) -> Applied(read, disk.config)
          [] OTHER -> read

TTLPasses == ~proxy.due /\ proxy' = [proxy EXCEPT !.due = TRUE] /\ UNCHANGED <<disk, hub, page, used>>

Loaded(run) ==
    Applied([config |-> None, dev |-> disk.dev.origins, bootstrap |-> {}, due |-> FALSE,
             assets |-> [d \in Digests |-> {}], run |-> run],
            disk.config)

(* The proxy is stopped and started: a new addon, which would not load if  *)
(* the disk were not readable.                                             *)
Restart ==
    /\ used.restarts < MaxRestarts /\ Readable(disk)
    /\ proxy' = Loaded(proxy.run + 1)
    /\ used' = [used EXCEPT !.restarts = @ + 1]
    /\ UNCHANGED <<disk, hub, page>>

(* Commands change the disk; a world may also be what one leaves half done.*)
Change ==
    /\ used.changes < MaxChanges
    /\ disk' \in Worlds \ {disk}
    /\ used' = [used EXCEPT !.changes = @ + 1]
    /\ UNCHANGED <<proxy, hub, page>>

-----------------------------------------------------------------------------
(* The document.  It is `loading', without a runtime (`bare'), `open', or  *)
(* waiting for the `answer' of a check of its plan.                        *)

Bare == [phase |-> "bare", plan |-> None, born |-> 0, answer |-> None, due |-> FALSE, state |-> None]

(* response(): the runtime and the scripts of the plan go into the HTML.   *)
Inject ==
    /\ page.phase = "loading"
    /\ proxy' = Refreshed
    /\ page' = IF Allowed(proxy'.config, Here)
                 THEN [Bare EXCEPT !.phase = "open", !.plan = Plan', !.born = proxy.run, !.due = TRUE]
                 ELSE Bare
    /\ UNCHANGED <<disk, hub, used>>

(* A user comes to the document, or leaves it for the same one.            *)
Visit ==
    /\ used.visits < MaxVisits /\ page.phase # "loading"
    /\ page' = [Bare EXCEPT !.phase = "loading"]
    /\ used' = [used EXCEPT !.visits = @ + 1]
    /\ UNCHANGED <<disk, proxy, hub>>

(* Mutant: an origin that is not allowed any more is not answered.         *)
PlanChannelNow(p) == Allowed(p.config, Here)

(* Who may be told a plan: an origin that is allowed, and one that was at  *)
(* any time since the proxy started.                                       *)
PlanChannel(p) == Allowed(p.config, Here) \/ OriginAllowed(Here, p.bootstrap)

(* checkPlan: one at a time.                                               *)
Check ==
    /\ page.phase = "open" /\ page.due
    /\ proxy' = Refreshed
    /\ page' = [page EXCEPT !.phase = "answer", !.due = FALSE,
                            !.answer = IF PlanChannel(proxy') THEN Plan' ELSE None]
    /\ UNCHANGED <<disk, hub, used>>

CheckFails ==
    /\ page.phase = "answer" /\ page.answer = None
    /\ page' = [page EXCEPT !.phase = "open", !.state = "unavailable"]
    /\ UNCHANGED <<disk, proxy, hub, used>>

SamePlan ==
    /\ page.phase = "answer" /\ page.answer = page.plan
    /\ page' = [page EXCEPT !.phase = "open", !.state = page.answer.access]
    /\ UNCHANGED <<disk, proxy, hub, used>>

Reload ==
    /\ page.phase = "answer" /\ page.answer \notin {None, page.plan}
    /\ page' = [Bare EXCEPT !.phase = "loading"]
    /\ UNCHANGED <<disk, proxy, hub, used>>

(* schedulePlan's timer.                                                   *)
CheckDue ==
    /\ page.phase = "open" /\ ~page.due
    /\ page' = [page EXCEPT !.due = TRUE] /\ UNCHANGED <<disk, proxy, hub, used>>

(* The Hub sees a new configuration and tells the documents connected to   *)
(* it; one that is being checked pays no attention.                        *)
PlanChanged ==
    /\ hub # proxy.config /\ hub' = proxy.config
    /\ page' \in {page, IF page.phase = "open" THEN [page EXCEPT !.due = TRUE] ELSE page}
    /\ UNCHANGED <<disk, proxy, used>>

-----------------------------------------------------------------------------
Init ==
    /\ disk \in {w \in Worlds : Readable(w)}
    /\ proxy = Loaded(1)
    /\ hub = proxy.config
    /\ page = [Bare EXCEPT !.phase = "loading"]
    /\ used = [changes |-> 0, restarts |-> 0, visits |-> 0]

Runtime == Inject \/ Check \/ CheckFails \/ SamePlan \/ Reload \/ CheckDue

Next == TTLPasses \/ Restart \/ Change \/ Visit \/ PlanChanged \/ Runtime

Spec == Init /\ [][Next]_vars

(* A document goes on checking, and time goes on.                          *)
Fairness == WF_vars(TTLPasses) /\ WF_vars(Runtime)

-----------------------------------------------------------------------------
(* "an already-injected document keeps fetching the same bytes for its old *)
(* digest" (docs/profile-bridge.md): whatever plans came after the one a   *)
(* document was loaded with, its scripts are served while its origin is    *)
(* allowed and the proxy is the same.                                      *)
ServesAsset(d) == Allowed(proxy.config, Here) /\ OriginAllowed(Here, proxy.assets[d])

DocumentsKeepTheirScripts ==
    page.plan # None /\ page.born = proxy.run /\ Allowed(proxy.config, Here) =>
      \A d \in ToSet(page.plan.scripts) : ServesAsset(d)

(* When changes end in a disk that can be read, an open document ends up   *)
(* with the plan that is there for it, or without a runtime when there is  *)
(* none.  Two documents are let off: one that was loaded before there was  *)
(* anything for it (bare), and one whose origin a restarted proxy has      *)
(* never allowed, which keeps its scripts and is told nothing.             *)
Current ==
    \/ page.phase = "bare"
    \/ /\ page.phase \in {"open", "answer"}
       /\ page.plan = PagePlan(disk.config, disk.dev.origins, Here)
       /\ page.plan.access = "current"
    \/ page.phase \in {"open", "answer"} /\ ~PlanChannel(proxy) /\ page.born # proxy.run

DocumentsCatchUp == <>[](Readable(disk) => Current)
=============================================================================
