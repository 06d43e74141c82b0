----------------------------- MODULE BridgePlan -----------------------------
(***************************************************************************)
(* What the addon (bridge.py) makes of the files on the disk: the          *)
(* configuration of the proxy, and from that the plan of an origin.        *)
(*                                                                         *)
(* A world is [bridge, dev, packs]: the profile's own bridge [enabled,     *)
(* allow, exclude, scripts, readable], the development overlay [origins,   *)
(* tools], and for each pack [enabled, intact, origins, granted, roles,    *)
(* uses] of its selected version, `uses' being resources [id, version,     *)
(* digest].                                                                *)
(***************************************************************************)
EXTENDS PageResources

CONSTANT PackOrder   \* the packs in the order of their ids

-----------------------------------------------------------------------------
(* The plan.                                                               *)

OriginAllowed(origin, origins)   == AllOrigins \in origins \/ origin \in origins
OriginSubset(requested, allowed) == AllOrigins \in allowed \/ requested \subseteq allowed

Enabled(w)      == {p \in DOMAIN w.packs : w.packs[p].enabled}
WithRole(w, rs) == {p \in Enabled(w) : w.packs[p].roles \cap rs # {}}

(* The development overlay adds its origins to the pages of its tools.     *)
PageOrigins(w, p) ==
    w.packs[p].origins \cup
      (IF p \in w.dev.tools /\ "page" \in w.packs[p].roles THEN w.dev.origins ELSE {})

PageUses(w) ==
    LET pages == SelectSeq(PackOrder, LAMBDA p : p \in WithRole(w, {"page"}))
    IN  [i \in DOMAIN pages |->
           [origins   |-> PageOrigins(w, pages[i]),
            resources |-> [k \in DOMAIN w.packs[pages[i]].uses |-> w.packs[pages[i]].uses[k].id]]]

UsedIn(w)      == UNION {ToSet(w.packs[p].uses) : p \in WithRole(w, {"page"})}
DigestOf(w, i) == (CHOOSE r \in UsedIn(w) : r.id = i).digest

(* The profile's scripts go first, on every origin the profile allows.     *)
Base(w) ==
    [enabled |-> w.bridge.enabled, allow |-> w.bridge.allow, exclude |-> w.bridge.exclude,
     scripts |-> [k \in DOMAIN w.bridge.scripts |->
                    [digest |-> w.bridge.scripts[k], origins |-> w.bridge.allow]],
     packs   |-> {}]

Composed(w, order) ==
    [Base(w) EXCEPT
       !.allow   = @ \cup UNION {w.packs[p].origins : p \in WithRole(w, {"page", "handler"})},
       !.scripts = @ \o [k \in DOMAIN order |-> [digest  |-> DigestOf(w, order[k].id),
                                                 origins |-> order[k].origins]],
       !.packs   = {[id |-> p, origins |-> PageOrigins(w, p)] : p \in Enabled(w)}]

(* Each enabled pack is verified again, whatever its role.                 *)
PacksAreSound(w) ==
    \A p \in Enabled(w) : w.packs[p].intact /\ OriginSubset(w.packs[p].origins, w.packs[p].granted)

ResourcesAgree(w) == \A r, s \in UsedIn(w) : r.id = s.id => r = s

(* configuration(): no script on an origin that is not allowed at all.     *)
Covered(c) ==
    IF \A k \in DOMAIN c.scripts : OriginSubset(c.scripts[k].origins, c.allow) THEN c ELSE None

WithResources(w, order) == IF order = None THEN None ELSE Covered(Composed(w, order))

EffectiveConfiguration(w) ==
    CASE ~PacksAreSound(w) -> None
      [] PacksAreSound(w) /\ WithRole(w, {"page", "handler"}) = {} -> Base(w)
      [] OTHER -> IF ResourcesAgree(w) THEN WithResources(w, OrderPageResources(PageUses(w))) ELSE None

(* decision().                                                             *)
Allowed(c, origin) == c.enabled /\ origin \notin c.exclude /\ OriginAllowed(origin, c.allow)

(* origin_digests: each digest once, where it comes first.                 *)
OriginDigests(c, origin) ==
    LET upto[k \in 0..Len(c.scripts)] ==
          IF k = 0 THEN <<>>
          ELSE IF /\ OriginAllowed(origin, c.scripts[k].origins)
                  /\ ~Contains(upto[k - 1], c.scripts[k].digest)
                 THEN Append(upto[k - 1], c.scripts[k].digest) ELSE upto[k - 1]
    IN  upto[Len(c.scripts)]

PagePlan(c, dev, origin) ==
    LET mode == IF origin \in dev THEN "development" ELSE "installed"
    IN  IF Allowed(c, origin)
          THEN [access |-> "current", mode |-> mode, scripts |-> OriginDigests(c, origin),
                packs |-> {i \in c.packs : OriginAllowed(origin, i.origins)}]
          ELSE [access |-> "revoked", mode |-> mode, scripts |-> <<>>, packs |-> {}]
=============================================================================
