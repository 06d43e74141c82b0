--------------------------- MODULE MCSystemRouting ---------------------------
(***************************************************************************)
(* Small instances of SystemRouting for TLC.                               *)
(***************************************************************************)
EXTENDS SystemRouting

CONSTANTS a, b, p, q   \* model values: two network services, two commands

TwoServices == <<a, b>>
OneService  == <<a>>
TwoProcs    == {p, q}

Fresh == [commands |-> 0, failures |-> 0, crashes |-> 0, edits |-> 0]
Session(routing, cmds, used) == [mode |-> routing, verbs |-> cmds, spent |-> used]

\* Another command that only holds the profile lease.
WithOthers == {Session("system", {"on", "off", "other"}, Fresh)}

\* The settings are taken over and given back; the routing is set meanwhile; an
\* installation is repaired.
Switching == {"on", "off", "set system", "set explicit"}
Used      == [Fresh EXCEPT !.failures = 1]
Everyday  == {Session("system", {"on", "off", "uninstall"}, Fresh),
              Session("system", Switching, [Used EXCEPT !.edits = 1]),
              Session("explicit", Switching, [Used EXCEPT !.crashes = 1]),
              Session("system", {"on", "off", "repair"}, [Used EXCEPT !.edits = 1])}

\* An installation is repaired while the routing is set.
Repairs == {Session("explicit", {"on", "repair", "set system"}, Fresh)}

Commands == Permutations(TwoProcs)
=============================================================================
