----------------------------- MODULE PackRegistry -----------------------------
(***************************************************************************)
(* The profile's pack registry and the installed code it points to         *)
(* (pack_store.py): what a saved registry must satisfy to be loaded, what  *)
(* the enabled packs project onto commands, pages, components and capture, *)
(* and which candidate registry an activation may publish.                 *)
(*                                                                         *)
(* An artifact is named by its pack and version; its content is what       *)
(* Manifest says.  Code on disk is whole, torn (some declared file is      *)
(* missing or differs from the recorded hashes) or absent.                 *)
(***************************************************************************)
EXTENDS PageResources

CONSTANTS PackOrder,   \* the pack ids in their sorted order
          Versions,    \* the versions an artifact may have
          Manifest,    \* [pack -> [version -> what the manifest declares]]
          CoreRoots,   \* first words that belong to built-in commands
          Profile,     \* what profile.json configures
          BodyLimit    \* 64 in capture_limits

VARIABLES code,        \* [pack -> [version -> state of its directory]]
          shared,      \* [resource -> state of its file under resources/page]
          registry     \* pack-registry.json

storeVars == <<code, shared, registry>>

Packs     == ToSet(PackOrder)
Artifacts == Packs \X Versions
Declares(p, v) == Manifest[p][v]
Resources == UNION {ToSet(Declares(a[1], a[2]).uses) : a \in Artifacts}

(* A pack the registry has no entry for.                                   *)
NoRecord == [versions |-> {}, selected |-> None, enabled |-> FALSE,
             history |-> <<>>, grants |-> {}]

(* The elements of a sequence that are in a set, in their order.           *)
Among(s, set) ==
    LET upto[i \in 0..Len(s)] ==
          IF i = 0 THEN <<>>
          ELSE IF s[i] \in set THEN Append(upto[i - 1], s[i]) ELSE upto[i - 1]
    IN  upto[Len(s)]

(* What load() demands of every entry.                                     *)
Loads(reg) ==
    \A p \in Packs :
      /\ reg[p].selected \in reg[p].versions \cup {None}
      /\ ToSet(reg[p].history) \subseteq reg[p].versions
      /\ reg[p].enabled => reg[p].selected # None

(* _tree_hashes: the files are the declared ones and have their hashes.    *)
Intact(p, v) == code[p][v] = "whole"

(* verify(): the version is registered and its files are as they were.     *)
Verifies(reg, p, v) == v \in reg[p].versions /\ Intact(p, v)

(* _require_host_entrypoints: the host has a binding for each of its roles. *)
HostBinds(p, v) == Declares(p, v).bound

(* check_activation: what the pack requests was granted.                   *)
MayActivate(p, v, grants) ==
    /\ Declares(p, v).needs \subseteq grants
    /\ HostBinds(p, v)

(* _enabled_packs: fails when one enabled pack is broken.                  *)
EnabledPacksVerify(reg) ==
    \A p \in {q \in Packs : reg[q].enabled} :
      /\ Verifies(reg, p, reg[p].selected)
      /\ MayActivate(p, reg[p].selected, reg[p].grants)

-----------------------------------------------------------------------------
(* What a selection projects: the version of each enabled pack, or None.   *)
(* Written out as a set of its members, TLC tabulates what is picked out   *)
(* of it below, none of which depends on the state.                        *)

Selections     == {sel : sel \in [Packs -> Versions \cup {None}]}
Selection(reg) == [p \in Packs |-> IF reg[p].enabled THEN reg[p].selected ELSE None]
Selected(sel)  == {p \in Packs : sel[p] # None}
Having(sel, roles) == {p \in Selected(sel) : \E role \in roles : Declares(p, sel[p])[role]}

PathsConflict(left, right) ==
    LET size == Min({Len(left), Len(right)})
    IN  SubSeq(left, 1, size) = SubSeq(right, 1, size)

(* validate_external_command_paths: no exact or leaf/prefix ambiguity.     *)
CommandsAgree(sel) ==
    LET owned == UNION {{p} \X Declares(p, sel[p]).commands : p \in Selected(sel)}
    IN  \A left \in owned :
          /\ left[2][1] \notin CoreRoots
          /\ \A right \in owned \ {left} : ~PathsConflict(left[2], right[2])

(* The uses of the enabled page packs, as order_page_resources takes them; *)
(* where another pack stands there is nothing to order.                    *)
NoUse == [origins |-> {}, resources |-> <<>>]
Use(m) == [origins |-> m.origins, resources |-> [k \in DOMAIN m.uses |-> m.uses[k].id]]
Uses(sel) ==
    [i \in DOMAIN PackOrder |->
       IF PackOrder[i] \in Having(sel, {"page"})
         THEN Use(Declares(PackOrder[i], sel[PackOrder[i]])) ELSE NoUse]

UsedResources(sel) ==
    UNION {ToSet(Declares(p, sel[p]).uses) : p \in Having(sel, {"page"})}

(* _effective_bridge: one version and content of each resource id, and an  *)
(* order that suits all the packs.                                         *)
PagesCompose(sel) ==
    /\ Having(sel, {"page", "handler"}) # {} => Profile.bridge
    /\ \A r, s \in UsedResources(sel) : r.id = s.id => r = s
    /\ Orderable(Uses(sel))

(* _effective_components: component packs need configured components, and  *)
(* no name the profile itself has given to a reader or a handler.          *)
ComponentsCompose(sel) ==
    LET names == Having(sel, {"handler", "reader"})
    IN  names # {} => Profile.components /\ names \cap Profile.names = {}

(* _effective_capture: a body path each, and not too many together.        *)
Bodies(sel) == Profile.bodies \cup
    UNION {Declares(p, sel[p]).bodies : p \in Selected(sel)}
CaptureComposes(sel) == Cardinality(Bodies(sel)) <= BodyLimit

ServicesCompose ==
    {sel \in Selections : PagesCompose(sel) /\ ComponentsCompose(sel) /\ CaptureComposes(sel)}
Composes == {sel \in ServicesCompose : CommandsAgree(sel)}

ResourcesInPlace(reg) == \A r \in UsedResources(Selection(reg)) : shared[r] = "whole"

(* What enable and rollback demand of a candidate before they publish it.  *)
Projects(reg) ==
    /\ EnabledPacksVerify(reg)
    /\ ResourcesInPlace(reg)
    /\ Selection(reg) \in Composes

(* The bindings a running profile was started with and keeps.              *)
Bindings(reg) ==
    LET sel == Selection(reg)
    IN  [handlers |-> {<<p, sel[p]>> : p \in Having(sel, {"handler"})},
         bodies   |-> Bodies(sel)]

(* What a running profile accepts: readers are reconciled in place, but    *)
(* handler bindings and the request bodies are fixed when it starts.       *)
KeepsLiveBindings(reg, candidate) ==
    /\ EnabledPacksVerify(reg) /\ EnabledPacksVerify(candidate)
    /\ Bindings(reg).bodies = Bindings(candidate).bodies
    /\ Profile.components =>
         /\ ComponentsCompose(Selection(reg)) /\ ComponentsCompose(Selection(candidate))
         /\ Bindings(reg).handlers = Bindings(candidate).handlers

-----------------------------------------------------------------------------
(* The candidates the commands publish.                                    *)

Activated(p, v, grants) ==
    LET r == registry[p]
        history == IF r.enabled /\ r.selected # v THEN Append(r.history, r.selected) ELSE r.history
    IN  [registry EXCEPT ![p] = [r EXCEPT !.selected = v, !.enabled = TRUE,
                                         !.history = history, !.grants = grants]]

RolledBack(p) ==
    [registry EXCEPT ![p].history = Front(@), ![p].selected = Last(registry[p].history)]

Disabled(p) == [registry EXCEPT ![p].enabled = FALSE]

Recorded(p, v) == [registry EXCEPT ![p].versions = @ \cup {v}]

(* Mutant: the rollback history keeps versions that are gone.              *)
UninstalledHistory(p, gone) ==
    LET r    == registry[p]
        left == r.versions \ gone
    IN  [registry EXCEPT ![p] =
           IF left = {} THEN NoRecord
           ELSE [r EXCEPT !.versions = left,
                          !.selected = IF r.selected \in left THEN r.selected ELSE None]]

(* The versions are gone; without any the entry goes too, with its grants. *)
Uninstalled(p, gone) ==
    LET r    == registry[p]
        left == r.versions \ gone
    IN  [registry EXCEPT ![p] =
           IF left = {} THEN NoRecord
           ELSE [r EXCEPT !.versions = left,
                          !.history  = Among(r.history, left),
                          !.selected = IF r.selected \in left THEN r.selected ELSE None]]

(* enable(): what it checks, in a running profile and in a stopped one.    *)
EnableAccepts(p, v, grants, live) ==
    /\ Verifies(registry, p, v)
    /\ MayActivate(p, v, grants)
    /\ Projects(Activated(p, v, grants))
    /\ live => KeepsLiveBindings(registry, Activated(p, v, grants))

(* Mutant: a rollback does not look at the running profile.                *)
RollbackAcceptsLive(p, live) ==
    /\ registry[p].enabled
    /\ registry[p].history # <<>>
    /\ Verifies(registry, p, Last(registry[p].history))
    /\ MayActivate(p, Last(registry[p].history), registry[p].grants)
    /\ Projects(RolledBack(p))

RollbackAccepts(p, live) ==
    /\ registry[p].enabled
    /\ registry[p].history # <<>>
    /\ Verifies(registry, p, Last(registry[p].history))
    /\ MayActivate(p, Last(registry[p].history), registry[p].grants)
    /\ Projects(RolledBack(p))
    /\ live => KeepsLiveBindings(registry, RolledBack(p))

DisableAccepts(p, live) ==
    /\ registry[p].versions # {}
    /\ live => KeepsLiveBindings(registry, Disabled(p))

(* install(): code that is there already must be the artifact's own, and   *)
(* so must each shared resource.                                           *)
InstallAccepts(p, v) ==
    /\ code[p][v] # "torn"
    /\ \A r \in ToSet(Declares(p, v).uses) : shared[r] # "torn"

Materialized(p, v) ==
    [r \in Resources |-> IF r \in ToSet(Declares(p, v).uses) THEN "whole" ELSE shared[r]]

UninstallAccepts(p, gone) ==
    /\ ~registry[p].enabled
    /\ gone # {}
    /\ \A v \in gone : Verifies(registry, p, v)

(* The working directories of a registry whose code is all in place.       *)
CodeOf(reg) ==
    [p \in Packs |-> [v \in Versions |-> IF v \in reg[p].versions THEN "whole" ELSE "absent"]]
SharedOf(reg) ==
    [r \in Resources |->
       IF \E a \in Artifacts : a[2] \in reg[a[1]].versions /\ r \in ToSet(Declares(a[1], a[2]).uses)
         THEN "whole" ELSE "absent"]
=============================================================================
