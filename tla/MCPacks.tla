------------------------------- MODULE MCPacks -------------------------------
(***************************************************************************)
(* Small instances of Background, with everything it is built on.          *)
(***************************************************************************)
EXTENDS Background

CONSTANTS p1, p2, v1, v2, c1, c2,      \* packs, versions, operators' processes
          here, access, job            \* an origin, two capabilities

Order == <<p1, p2>>
Both  == {v1, v2}
TwoClis == {c1, c2}

Plain == [commands |-> {}, scheduled |-> FALSE, page |-> FALSE, uses |-> <<>>,
          origins |-> {here}, needs |-> {access}, bound |-> TRUE,
          handler |-> FALSE, reader |-> FALSE, bodies |-> {}]
Res(id, d) == [id |-> id, version |-> 1, digest |-> d]

(* p1's first version is a scheduled command; its second adds a page and a *)
(* handler.  p2's first version wants a command under p1's; its second has *)
(* a page that shares a resource with p1's, in another order.              *)
Catalogue ==
    p1 :> (v1 :> [Plain EXCEPT !.commands = {<<"a">>}, !.scheduled = TRUE] @@
           v2 :> [Plain EXCEPT !.commands = {<<"a">>}, !.scheduled = TRUE,
                               !.needs = {access, job}, !.page = TRUE, !.handler = TRUE,
                               !.uses = <<Res("x", 1), Res("y", 1)>>]) @@
    p2 :> (v1 :> [Plain EXCEPT !.commands = {<<"a", "b">>}, !.reader = TRUE] @@
           v2 :> [Plain EXCEPT !.commands = {<<"c">>}, !.scheduled = TRUE, !.page = TRUE,
                               !.uses = <<Res("y", 1), Res("x", 1)>>, !.bodies = {"q"}])

Configured == [bridge |-> TRUE, components |-> TRUE, names |-> {}, bodies |-> {}]
On(v, vs) == [versions |-> vs, selected |-> v, enabled |-> TRUE, history |-> <<>>,
              grants |-> {access, job}]
Off(v, vs) == [On(v, vs) EXCEPT !.enabled = FALSE]

(* Registries that earlier commands leave behind.                          *)
BothEnabled == p1 :> On(v1, {v1}) @@ p2 :> On(v2, {v2})
OneEnabled  == p1 :> On(v1, {v1, v2}) @@ p2 :> Off(v2, {v1, v2})
Updated     == p1 :> [On(v2, {v1, v2}) EXCEPT !.history = <<v1>>] @@ p2 :> NoRecord
Commanded   == p1 :> NoRecord @@ p2 :> On(v1, {v1})

Quiet == [registry |-> BothEnabled, live |-> FALSE, cli |-> {c1}, commands |-> 0, ops |-> {},
          artifacts |-> {}, grants |-> {{access}, {access, job}},
          cuts |-> 0, switches |-> 0, fragile |-> {}]

(* One command of any kind while the scheduler works, and one cut.         *)
AnyCommand == [Quiet EXCEPT !.commands = 1, !.cuts = 1, !.artifacts = Packs \X Both,
                 !.ops = {"install", "update", "add", "enable", "rollback", "disable",
                          "uninstall", "run"}]

Setups == {OneEnabled, BothEnabled, Updated, Commanded}

(* Two commands at once.                                                   *)
TwoAtOnce == [AnyCommand EXCEPT !.registry = OneEnabled, !.cli = TwoClis, !.commands = 2,
                !.cuts = 0, !.artifacts = {<<p1, v2>>}, !.grants = {{access, job}}]

(* A run whose dispatcher dies, and then its pack is taken away.           *)
OrphanedRun == [TwoAtOnce EXCEPT !.registry = Commanded, !.cli = {c1}, !.commands = 3, !.cuts = 1,
                !.artifacts = {}, !.ops = {"run", "disable", "uninstall"}]

(* Commands one after the other, on a running profile or a stopped one.    *)
InTurn == [AnyCommand EXCEPT !.live = TRUE, !.commands = 2, !.cuts = 0,
             !.grants = {{access, job}}, !.artifacts = {<<p1, v2>>, <<p2, v2>>},
             !.ops = {"update", "enable", "rollback", "disable", "uninstall"}]

(* The profile is turned on and off around a command.                      *)
Switched == [AnyCommand EXCEPT !.registry = OneEnabled, !.switches = 2, !.cuts = 0]

(* Installed code changes behind the scheduler's back.                     *)
Broken == [Quiet EXCEPT !.fragile = {<<p1, v1>>}, !.commands = 1, !.cuts = 1,
             !.ops = {"disable", "enable"}, !.artifacts = {<<p1, v1>>}]

Safety ==
    {[AnyCommand EXCEPT !.registry = r] : r \in Setups}
      \cup {TwoAtOnce, OrphanedRun, Switched, Broken}
      \cup {[InTurn EXCEPT !.registry = r] : r \in {OneEnabled, Updated}}
      \cup {[InTurn EXCEPT !.registry = Updated, !.live = FALSE]}
=============================================================================
