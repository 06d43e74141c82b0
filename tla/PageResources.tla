---------------------------- MODULE PageResources ----------------------------
(***************************************************************************)
(* The order in which the page resources of several packs are put into one *)
(* document (bridge.py, order_page_resources).                             *)
(*                                                                         *)
(* `uses' is a sequence with one entry for each enabled page pack, in the  *)
(* order of the pack ids: the origins the pack may touch and the ids of    *)
(* the resources it uses, in the order it needs them.  The result is a     *)
(* sequence of entries [id, origins]; None when no order exists.           *)
(***************************************************************************)
EXTENDS Naturals, Sequences, FiniteSets, SequencesExt

CONSTANTS None, AllOrigins

Ids(uses) == UNION {ToSet(uses[i].resources) : i \in DOMAIN uses}

(* Where an id is declared: by which pack, and at which place of its uses. *)
Places(uses, id) ==
    UNION {{i} \X {k \in DOMAIN uses[i].resources : uses[i].resources[k] = id} : i \in DOMAIN uses}

Earlier(a, b) == a[1] < b[1] \/ (a[1] = b[1] /\ a[2] <= b[2])

(* Its first place is its priority: of two ids the one declared earlier    *)
(* goes first whenever no pack asks otherwise.                             *)
Declared(uses) ==
    [id \in Ids(uses) |->
       CHOOSE a \in Places(uses, id) : \A b \in Places(uses, id) : Earlier(a, b)]

(* The origins of every pack that uses the resource, together.             *)
OriginsOf(uses, id) ==
    UNION {uses[i].origins : i \in {j \in DOMAIN uses : Contains(uses[j].resources, id)}}

(* What one pack asks for: each of its resources before the next one.      *)
Edges(use) ==
    {<<use.resources[k], use.resources[k + 1]>> : k \in 1 .. Len(use.resources) - 1}

EdgesAt(uses, origin) ==
    UNION {Edges(uses[i]) : i \in {j \in DOMAIN uses : origin \in uses[j].origins}}

(* Kahn's algorithm: of the nodes nothing waits for any more, the one      *)
(* declared first; None when every node left waits for another.            *)
Topological(nodes, edges, rank) ==
    LET order[left \in SUBSET nodes] ==
          LET ready == {n \in left : \A m \in left : <<m, n>> \notin edges}
              next  == CHOOSE n \in ready : \A m \in ready : Earlier(rank[n], rank[m])
              rest  == order[left \ {next}]
          IN  IF left = {} THEN <<>>
              ELSE IF ready = {} \/ rest = None THEN None ELSE <<next>> \o rest
    IN  order[nodes]

Everywhere(uses) ==
    Topological(Ids(uses), UNION {Edges(uses[i]) : i \in DOMAIN uses}, Declared(uses))

OrderOn(uses, origin) ==
    Topological({id \in Ids(uses) : origin \in OriginsOf(uses, id)},
                EdgesAt(uses, origin), Declared(uses))

Origins(uses) == UNION {uses[i].origins : i \in DOMAIN uses}

(* A cycle on an origin, or any cycle once a pack runs on all sites, is    *)
(* refused.                                                                *)
Orderable(uses) ==
    \/ Everywhere(uses) # None
    \/ /\ AllOrigins \notin Origins(uses)
       /\ \A o \in Origins(uses) : OrderOn(uses, o) # None

(* One order for all the origins when there is one; else one for each      *)
(* origin, origins with the same sequence sharing its entries.             *)
Orders(uses) ==
    LET global == Everywhere(uses)
        Sharing(seq) == {o \in Origins(uses) : OrderOn(uses, o) = seq}
        groups == SetToSeq({OrderOn(uses, o) : o \in Origins(uses)})
    IN  IF global # None
          THEN [k \in DOMAIN global |->
                  [id |-> global[k], origins |-> OriginsOf(uses, global[k])]]
          ELSE FlattenSeq([g \in DOMAIN groups |->
                 [k \in DOMAIN groups[g] |->
                    [id |-> groups[g][k], origins |-> Sharing(groups[g])]]])

OrderPageResources(uses) == IF Orderable(uses) THEN Orders(uses) ELSE None
=============================================================================
