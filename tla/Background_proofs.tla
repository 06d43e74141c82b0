--------------------------- MODULE Background_proofs ---------------------------
(***************************************************************************)
(* Proofs about Background: pack commands, runs and the scheduler keep the *)
(* registry usable, the code of running providers in place, the bindings   *)
(* of a running profile and the background job in step with the registry.  *)
(*                                                                         *)
(* They rest on two families of lemmas about the operators: that packs     *)
(* which fit together do so without some of them, down to the order of     *)
(* their page resources, and what each candidate registry is.              *)
(***************************************************************************)
EXTENDS Background, SequenceTheorems, FiniteSetTheorems, TLAPS

-----------------------------------------------------------------------------
(* Numbers.                                                                *)

\* Induction over the numbers, as a fact about sets.
LEMMA SetInduction ==
  ASSUME NEW S \in SUBSET Nat, 0 \in S, \A m \in S : m + 1 \in S
  PROVE  S = Nat
  <1> SUFFICES ASSUME NEW n \in Nat, n \notin S PROVE FALSE
    OBVIOUS
  <1> DEFINE A == {m \in S : m <= n}
  <1>1. IsFiniteSet(A)
    BY FS_BoundedSetOfNaturals
  <1>2. \A m \in A : m + 1 \in A
    OBVIOUS
  <1>3. /\ \A m \in A : m \in Nat
        /\ 0 \in A
    <2>1. \A m \in S : m \in Nat
      OBVIOUS
    <2>2. 0 <= n
      OBVIOUS
    <2>3. QED
      BY <2>1, <2>2
  <1> HIDE DEF A
  <1> DEFINE f == [m \in A |-> m + 1]
  <1>4. /\ f \in [A -> A]
        /\ \A m \in A : f[m] = m + 1
    BY <1>2
  <1> HIDE DEF f
  <1>5. /\ \A l, m \in A : f[l] = f[m] => l = m
        /\ \A m \in A : f[m] # 0
    BY <1>3, <1>4
  <1>6. f \in Injection(A, A)
    BY <1>4, <1>5 DEF Injection, IsInjective
  <1>7. f \in Surjection(A, A)
    BY <1>1, <1>6, FS_Injection
  <1>8. \E m \in A : f[m] = 0
    BY <1>3, <1>7 DEF Surjection
  <1>9. QED
    BY <1>5, <1>8

-----------------------------------------------------------------------------
(* When there is an order of the page resources.                           *)

\* A set of numbers that is not empty has a least one, ...
LEMMA Least ==
  ASSUME NEW T \in SUBSET Nat, T # {}
  PROVE  \E m \in T : \A n \in T : m <= n
  <1> SUFFICES ASSUME \A m \in T : \E n \in T : ~(m <= n) PROVE FALSE
    OBVIOUS
  <1> DEFINE S == {n \in Nat : \A m \in T : n <= m}
  <1>1. 0 \in S
    OBVIOUS
  <1>2. ASSUME NEW n \in S PROVE n + 1 \in S
    <2>1. n \notin T
      OBVIOUS
    <2>2. \A m \in T : n <= m /\ n # m /\ m \in Nat
      BY <2>1
    <2>3. QED
      BY <2>2
  <1>3. S = Nat
    <2>1. S \in SUBSET Nat
      OBVIOUS
    <2> HIDE DEF S
    <2>2. QED
      BY <1>1, <1>2, <2>1, SetInduction
  <1>4. PICK t \in T : TRUE
    OBVIOUS
  <1>5. t + 1 \in S
    BY <1>3
  <1>6. QED
    BY <1>4, <1>5

\* ... and so has a set of places.
LEMMA EarliestPlace ==
  ASSUME NEW T \in SUBSET (Nat \X Nat), T # {}
  PROVE  \E a \in T : \A b \in T : Earlier(a, b)
  <1> DEFINE I == {a[1] : a \in T}
  <1>1. PICK i \in I : \A j \in I : i <= j
    <2>1. I \in SUBSET Nat /\ I # {}
      OBVIOUS
    <2> HIDE DEF I
    <2>2. QED
      BY <2>1, Least
  <1> DEFINE K == {a[2] : a \in {b \in T : b[1] = i}}
  <1>2. PICK k \in K : \A l \in K : k <= l
    <2>1. K \in SUBSET Nat /\ K # {}
      BY <1>1
    <2> HIDE DEF K
    <2>2. QED
      BY <2>1, Least
  <1>3. PICK a \in T : a[1] = i /\ a[2] = k
    BY <1>2
  <1>4. ASSUME NEW b \in T PROVE Earlier(a, b)
    <2>1. /\ b[1] \in Nat /\ b[2] \in Nat /\ a[1] \in Nat /\ a[2] \in Nat
          /\ a[1] <= b[1]
      BY <1>1, <1>3
    <2>2. b[1] = a[1] => a[2] <= b[2]
      BY <1>2, <1>3
    <2>3. QED
      BY <2>1, <2>2 DEF Earlier
  <1>5. QED
    BY <1>4

\* Nodes none of which can be put into an order before the others.
Stuck(W, edges) == W # {} /\ \A n \in W : \E m \in W : <<m, n>> \in edges

Ready(left, edges) == {n \in left : \A m \in left : <<m, n>> \notin edges}

Foremost(left, edges, rank) ==
  CHOOSE n \in Ready(left, edges) : \A m \in Ready(left, edges) : Earlier(rank[n], rank[m])

Rest(f, left, edges, rank) == f[left \ {Foremost(left, edges, rank)}]

\* What Kahn's algorithm makes of the nodes that are left, given what it makes of fewer.
Sorted(f, left, edges, rank) ==
  IF left = {} THEN <<>>
  ELSE IF Ready(left, edges) = {} \/ Rest(f, left, edges, rank) = None THEN None
       ELSE <<Foremost(left, edges, rank)>> \o Rest(f, left, edges, rank)

UpTo(nodes, n) == {left \in SUBSET nodes : Cardinality(left) <= n}

\* Of the ready nodes one is foremost, and then there is one node less.
LEMMA OneLess ==
  ASSUME NEW nodes, IsFiniteSet(nodes), NEW edges, NEW rank,
         \A T \in SUBSET nodes : T # {} => \E n \in T : \A m \in T : Earlier(rank[n], rank[m]),
         NEW left \in SUBSET nodes, Ready(left, edges) # {}
  PROVE  /\ Foremost(left, edges, rank) \in Ready(left, edges)
         /\ left \ {Foremost(left, edges, rank)} \in SUBSET nodes
         /\ \A n \in Nat : left \in UpTo(nodes, n + 1)
              => left \ {Foremost(left, edges, rank)} \in UpTo(nodes, n)
         /\ Cardinality(left) > 0
  <1>1. Ready(left, edges) \in SUBSET nodes
    BY DEF Ready
  <1>2. \E n \in Ready(left, edges) : \A m \in Ready(left, edges) : Earlier(rank[n], rank[m])
    BY <1>1
  <1>3. Foremost(left, edges, rank) \in Ready(left, edges)
    BY <1>2 DEF Foremost
  <1>4. Foremost(left, edges, rank) \in left
    BY <1>3 DEF Ready
  <1>5. IsFiniteSet(left)
    BY FS_Subset
  <1> DEFINE less == left \ {Foremost(left, edges, rank)}
  <1>6. /\ Cardinality(less) \in Nat /\ Cardinality(left) \in Nat
        /\ Cardinality(less) = Cardinality(left) - 1
    BY <1>4, <1>5, FS_RemoveElement, FS_CardinalityType
  <1>7. QED
    BY <1>3, <1>6 DEF UpTo

\* There is what the recursive definition defines.
LEMMA SortedExists ==
  ASSUME NEW nodes, IsFiniteSet(nodes), NEW edges, NEW rank,
         \A T \in SUBSET nodes : T # {} => \E n \in T : \A m \in T : Earlier(rank[n], rank[m])
  PROVE  \E f : f = [left \in SUBSET nodes |-> Sorted(f, left, edges, rank)]
  <1> DEFINE P(n) == \E f : f = [left \in UpTo(nodes, n) |-> Sorted(f, left, edges, rank)]
             S == {n \in Nat : P(n)}
  <1>1. 0 \in S
    <2> DEFINE f == [left \in UpTo(nodes, 0) |-> <<>>]
    <2>1. ASSUME NEW left \in UpTo(nodes, 0) PROVE left = {}
      <3>1. IsFiniteSet(left)
        BY FS_Subset DEF UpTo
      <3>2. Cardinality(left) = 0
        BY <3>1, FS_CardinalityType DEF UpTo
      <3>3. QED
        BY <3>1, <3>2, FS_EmptySet
    <2>2. \A left \in UpTo(nodes, 0) : f[left] = Sorted(f, left, edges, rank)
      BY <2>1 DEF Sorted
    <2>3. f = [left \in UpTo(nodes, 0) |-> Sorted(f, left, edges, rank)]
      BY <2>2
    <2>4. QED
      BY <2>3
  <1>2. ASSUME NEW n \in S PROVE n + 1 \in S
    <2>1. n \in Nat
      OBVIOUS
    <2>2. PICK f : f = [left \in UpTo(nodes, n) |-> Sorted(f, left, edges, rank)]
      OBVIOUS
    <2> DEFINE g == [left \in UpTo(nodes, n + 1) |->
                       IF left \in UpTo(nodes, n) THEN f[left] ELSE Sorted(f, left, edges, rank)]
    <2>3. ASSUME NEW left \in UpTo(nodes, n + 1)
          PROVE  /\ g[left] = Sorted(f, left, edges, rank)
                 /\ Sorted(f, left, edges, rank) = Sorted(g, left, edges, rank)
      <3>1. g[left] = Sorted(f, left, edges, rank)
        <4>1. CASE left \in UpTo(nodes, n)
          <5>1. f[left] = Sorted(f, left, edges, rank)
            BY <2>2, <4>1
          <5>2. QED
            BY <4>1, <5>1
        <4>2. CASE left \notin UpTo(nodes, n)
          BY <4>2
        <4>3. QED
          BY <4>1, <4>2
      <3>2. CASE Ready(left, edges) = {}
        BY <3>1, <3>2 DEF Sorted
      <3>3. CASE Ready(left, edges) # {}
        <4> DEFINE less == left \ {Foremost(left, edges, rank)}
        <4>1. less \in UpTo(nodes, n)
          BY <2>1, <3>3, OneLess DEF UpTo
        <4>2. less \in UpTo(nodes, n + 1)
          <5>1. IsFiniteSet(less)
            BY <4>1, FS_Subset DEF UpTo
          <5>2. QED
            BY <2>1, <4>1, <5>1, FS_CardinalityType DEF UpTo
        <4>3. g[less] = f[less]
          BY <4>1, <4>2
        <4>4. Rest(g, left, edges, rank) = Rest(f, left, edges, rank)
          BY <4>3 DEF Rest
        <4> HIDE DEF g
        <4>5. QED
          BY <3>1, <4>4 DEF Sorted
      <3>4. QED
        BY <3>2, <3>3
    <2>4. g = [left \in UpTo(nodes, n + 1) |-> Sorted(g, left, edges, rank)]
      <3>1. \A left \in UpTo(nodes, n + 1) : g[left] = Sorted(g, left, edges, rank)
        BY <2>3
      <3>2. g = [left \in UpTo(nodes, n + 1) |-> g[left]]
        OBVIOUS
      <3> HIDE DEF g
      <3>3. QED
        BY <3>1, <3>2
    <2> HIDE DEF g
    <2>5. P(n + 1)
      BY <2>4
    <2>6. QED
      BY <2>1, <2>5
  <1>3. S = Nat
    <2>1. S \in SUBSET Nat
      OBVIOUS
    <2> HIDE DEF S
    <2>2. QED
      BY <1>1, <1>2, <2>1, SetInduction
  <1>4. Cardinality(nodes) \in Nat
    BY FS_CardinalityType
  <1>5. UpTo(nodes, Cardinality(nodes)) = SUBSET nodes
    <2>1. \A left \in SUBSET nodes : Cardinality(left) <= Cardinality(nodes)
      BY FS_Subset
    <2>2. QED
      BY <2>1 DEF UpTo
  <1>6. P(Cardinality(nodes))
    BY <1>3, <1>4
  <1>7. QED
    BY <1>5, <1>6

\* Kahn's algorithm fails exactly when some nodes wait for each other.
LEMMA TopologicalFails ==
  ASSUME NEW nodes, IsFiniteSet(nodes), NEW edges, NEW rank,
         \A T \in SUBSET nodes : T # {} => \E n \in T : \A m \in T : Earlier(rank[n], rank[m]),
         None \notin Seq(nodes)
  PROVE  Topological(nodes, edges, rank) = None <=> \E W \in SUBSET nodes : Stuck(W, edges)
  <1> DEFINE E(f) == f = [left \in SUBSET nodes |-> Sorted(f, left, edges, rank)]
             order == CHOOSE f : E(f)
  <1>1. Topological(nodes, edges, rank) = order[nodes]
    BY DEF Topological, Sorted, Rest, Foremost, Ready
  <1>2. E(order)
    BY SortedExists
  <1> HIDE DEF order
  <1> DEFINE Right(left) == /\ order[left] \in Seq(nodes) \cup {None}
                            /\ order[left] = None <=> \E W \in SUBSET left : Stuck(W, edges)
             S == {n \in Nat : \A left \in UpTo(nodes, n) : Right(left)}
  <1>3. ASSUME NEW left \in SUBSET nodes, left = {} PROVE Right(left)
    <2>1. order[left] = <<>>
      BY <1>2, <1>3 DEF Sorted
    <2>2. <<>> \in Seq(nodes)
      BY EmptySeq
    <2>3. \A W \in SUBSET left : ~Stuck(W, edges)
      BY <1>3 DEF Stuck
    <2>4. QED
      BY <2>1, <2>2, <2>3
  <1>4. ASSUME NEW left \in SUBSET nodes, left # {}, Ready(left, edges) = {} PROVE Right(left)
    <2>1. order[left] = None
      BY <1>2, <1>4 DEF Sorted
    <2>2. Stuck(left, edges)
      BY <1>4 DEF Stuck, Ready
    <2>3. QED
      BY <2>1, <2>2
  <1>5. ASSUME NEW left \in SUBSET nodes, Ready(left, edges) # {},
               Right(left \ {Foremost(left, edges, rank)})
        PROVE  Right(left)
    <2> DEFINE first == Foremost(left, edges, rank)
               less  == left \ {first}
    <2>1. /\ first \in Ready(left, edges) /\ first \in nodes /\ left # {}
          /\ less \in SUBSET nodes
      BY <1>5, OneLess DEF Ready
    <2>2. order[left] = IF order[less] = None THEN None ELSE <<first>> \o order[less]
      BY <1>2, <1>5, <2>1 DEF Sorted, Rest
    <2>3. \A W \in SUBSET left : Stuck(W, edges) => W \in SUBSET less
      BY <2>1 DEF Stuck, Ready
    <2>4. (\E W \in SUBSET left : Stuck(W, edges)) <=> (\E W \in SUBSET less : Stuck(W, edges))
      BY <2>3
    <2>5. order[less] \in Seq(nodes) => <<first>> \o order[less] \in Seq(nodes)
      BY <2>1, ConcatProperties
    <2>6. /\ order[less] \in Seq(nodes) \cup {None}
          /\ order[less] = None <=> \E W \in SUBSET less : Stuck(W, edges)
      BY <1>5
    <2> HIDE DEF first, less
    <2>7. QED
      BY <2>2, <2>4, <2>5, <2>6
  <1>6. 0 \in S
    <2>1. \A left \in UpTo(nodes, 0) : left = {} /\ left \in SUBSET nodes
      <3>1. ASSUME NEW left \in UpTo(nodes, 0) PROVE left = {}
        <4>1. IsFiniteSet(left)
          BY FS_Subset DEF UpTo
        <4>2. Cardinality(left) = 0
          BY <4>1, FS_CardinalityType DEF UpTo
        <4>3. QED
          BY <4>1, <4>2, FS_EmptySet
      <3>2. QED
        BY <3>1 DEF UpTo
    <2> HIDE DEF Right
    <2>2. QED
      BY <1>3, <2>1
  <1>7. ASSUME NEW n \in S PROVE n + 1 \in S
    <2>1. n \in Nat /\ \A less \in UpTo(nodes, n) : Right(less)
      BY DEF Right
    <2> HIDE DEF Right
    <2>2. ASSUME NEW left \in UpTo(nodes, n + 1) PROVE Right(left)
      <3>1. left \in SUBSET nodes
        BY DEF UpTo
      <3>2. CASE Ready(left, edges) # {}
        <4>1. left \ {Foremost(left, edges, rank)} \in UpTo(nodes, n)
          BY <2>1, <3>1, <3>2, OneLess
        <4>2. QED
          BY <1>5, <2>1, <3>1, <3>2, <4>1
      <3>3. QED
        BY <1>3, <1>4, <3>1, <3>2
    <2>3. QED
      BY <2>1, <2>2
  <1>8. S = Nat
    <2>1. S \in SUBSET Nat
      OBVIOUS
    <2> HIDE DEF S
    <2>2. QED
      BY <1>6, <1>7, <2>1, SetInduction
  <1>9. Right(nodes)
    <2>1. Cardinality(nodes) \in Nat
      BY FS_CardinalityType
    <2>2. nodes \in UpTo(nodes, Cardinality(nodes))
      BY <2>1 DEF UpTo
    <2> HIDE DEF Right
    <2>3. QED
      BY <1>8, <2>1, <2>2
  <1>10. QED
    BY <1>1, <1>9

\* Uses as the registry makes them: sequences of resource ids.
Proper(uses) ==
  /\ \E n \in Nat : DOMAIN uses = 1..n
  /\ \A i \in DOMAIN uses : uses[i].resources \in Seq({r.id : r \in Resources})

\* What a function takes finitely many values to is finite.
LEMMA FiniteImage ==
  ASSUME NEW S, IsFiniteSet(S), NEW f, DOMAIN f = S
  PROVE  IsFiniteSet({f[x] : x \in S})
  <1> DEFINE T == {f[x] : x \in S}
             g == [x \in S |-> f[x]]
  <1>1. g \in Surjection(S, T)
    BY DEF Surjection
  <1> HIDE DEF g
  <1>2. QED
    BY <1>1, FS_Surjection

\* The packs use finitely many resources.
LEMMA IdsAreFinite ==
  ASSUME NEW uses, Proper(uses)
  PROVE  /\ IsFiniteSet(Ids(uses))
         /\ Ids(uses) \subseteq {r.id : r \in Resources}
  <1> DEFINE of(i) == ToSet(uses[i].resources)
  <1>1. ASSUME NEW i \in DOMAIN uses
        PROVE  IsFiniteSet(of(i)) /\ of(i) \subseteq {r.id : r \in Resources}
    <2> DEFINE s == uses[i].resources
    <2>1. s \in Seq({r.id : r \in Resources})
      BY DEF Proper
    <2> HIDE DEF s
    <2>2. Len(s) \in Nat /\ DOMAIN s = 1..Len(s)
      BY <2>1
    <2>3. IsFiniteSet(1..Len(s))
      BY <2>2, FS_Interval
    <2>4. IsFiniteSet({s[k] : k \in DOMAIN s})
      BY <2>2, <2>3, FiniteImage
    <2>5. \A k \in DOMAIN s : s[k] \in {r.id : r \in Resources}
      BY <2>1
    <2>6. ToSet(s) = {s[k] : k \in DOMAIN s}
      BY DEF ToSet
    <2>7. QED
      BY <2>4, <2>5, <2>6 DEF s
  <1>2. IsFiniteSet(DOMAIN uses)
    BY FS_Interval DEF Proper
  <1> HIDE DEF of
  <1>3. IsFiniteSet({of(i) : i \in DOMAIN uses})
    <2> DEFINE f == [i \in DOMAIN uses |-> of(i)]
    <2>1. IsFiniteSet({f[i] : i \in DOMAIN uses})
      BY <1>2, FiniteImage
    <2>2. QED
      BY <2>1
  <1>4. IsFiniteSet(UNION {of(i) : i \in DOMAIN uses})
    BY <1>1, <1>3, FS_UNION
  <1>5. Ids(uses) = UNION {of(i) : i \in DOMAIN uses}
    BY DEF Ids, of
  <1>6. QED
    BY <1>1, <1>4, <1>5

\* Where the ids are first declared tells which of some ids goes first.
LEMMA SomeIdIsFirst ==
  ASSUME NEW uses, Proper(uses), NEW T \in SUBSET Ids(uses), T # {}
  PROVE  \E n \in T : \A m \in T : Earlier(Declared(uses)[n], Declared(uses)[m])
  <1>1. ASSUME NEW id \in Ids(uses) PROVE Declared(uses)[id] \in Nat \X Nat
    <2>1. Places(uses, id) # {}
      <3>1. PICK i \in DOMAIN uses : id \in ToSet(uses[i].resources)
        BY DEF Ids
      <3>2. PICK k \in DOMAIN uses[i].resources : uses[i].resources[k] = id
        BY <3>1 DEF ToSet
      <3>3. <<i, k>> \in Places(uses, id)
        BY <3>2 DEF Places
      <3>4. QED
        BY <3>3
    <2>2. Places(uses, id) \in SUBSET (Nat \X Nat)
      <3>1. ASSUME NEW i \in DOMAIN uses
            PROVE  i \in Nat /\ DOMAIN uses[i].resources \in SUBSET Nat
        <4> DEFINE s == uses[i].resources
        <4>1. s \in Seq({r.id : r \in Resources}) /\ i \in Nat
          BY DEF Proper
        <4> HIDE DEF s
        <4>2. DOMAIN s \in SUBSET Nat
          BY <4>1
        <4>3. QED
          BY <4>1, <4>2 DEF s
      <3>2. QED
        BY <3>1 DEF Places
    <2>3. \E a \in Places(uses, id) : \A b \in Places(uses, id) : Earlier(a, b)
      BY <2>1, <2>2, EarliestPlace
    <2>4. Declared(uses)[id] \in Places(uses, id)
      BY <2>3 DEF Declared
    <2>5. QED
      BY <2>2, <2>4
  <1> DEFINE P == {Declared(uses)[n] : n \in T}
  <1>2. P \in SUBSET (Nat \X Nat) /\ P # {}
    BY <1>1
  <1>3. PICK a \in P : \A b \in P : Earlier(a, b)
    <2> HIDE DEF P
    <2>1. QED
      BY <1>2, EarliestPlace
  <1>4. QED
    BY <1>3

\* An order exists on some of the ids when no nodes wait for each other.
LEMMA OrderExists ==
  ASSUME NEW uses, Proper(uses), NEW nodes \in SUBSET Ids(uses), NEW edges
  PROVE  Topological(nodes, edges, Declared(uses)) = None
           <=> \E W \in SUBSET nodes : Stuck(W, edges)
  <1>1. IsFiniteSet(nodes)
    BY IdsAreFinite, FS_Subset
  <1>2. None \notin Seq(nodes)
    <2>1. nodes \subseteq {r.id : r \in Resources}
      BY IdsAreFinite
    <2>2. QED
      BY <2>1, SeqMonotonic, CommandsAssumption
  <1>3. \A T \in SUBSET nodes :
          T # {} => \E n \in T : \A m \in T : Earlier(Declared(uses)[n], Declared(uses)[m])
    BY SomeIdIsFirst
  <1>4. QED
    BY <1>1, <1>2, <1>3, TopologicalFails

\* The uses of some of the packs.
Fewer(less, more) ==
  /\ Proper(less) /\ Proper(more) /\ DOMAIN less = DOMAIN more
  /\ \A i \in DOMAIN more : less[i] = more[i] \/ less[i] = NoUse

\* Fewer packs declare, ask for and touch no more.
LEMMA FewerAsk ==
  ASSUME NEW less, NEW more, Fewer(less, more)
  PROVE  /\ Ids(less) \subseteq Ids(more)
         /\ Origins(less) \subseteq Origins(more)
         /\ \A id : OriginsOf(less, id) \subseteq OriginsOf(more, id)
         /\ UNION {Edges(less[i]) : i \in DOMAIN less} \subseteq UNION {Edges(more[i]) : i \in DOMAIN more}
         /\ \A o : EdgesAt(less, o) \subseteq EdgesAt(more, o)
  <1>1. /\ ToSet(NoUse.resources) = {} /\ NoUse.origins = {} /\ Edges(NoUse) = {}
        /\ \A id : ~Contains(NoUse.resources, id)
    BY DEF NoUse, Edges, ToSet, Contains
  <1>2. DOMAIN less = DOMAIN more /\ \A i \in DOMAIN more : less[i] = more[i] \/ less[i] = NoUse
    BY DEF Fewer
  <1>3. Ids(less) \subseteq Ids(more)
    BY <1>1, <1>2 DEF Ids
  <1>4. Origins(less) \subseteq Origins(more)
    BY <1>1, <1>2 DEF Origins
  <1>5. ASSUME NEW id PROVE OriginsOf(less, id) \subseteq OriginsOf(more, id)
    BY <1>1, <1>2 DEF OriginsOf
  <1>6. UNION {Edges(less[i]) : i \in DOMAIN less} \subseteq UNION {Edges(more[i]) : i \in DOMAIN more}
    BY <1>1, <1>2
  <1>7. ASSUME NEW o PROVE EdgesAt(less, o) \subseteq EdgesAt(more, o)
    BY <1>1, <1>2 DEF EdgesAt
  <1>8. QED
    BY <1>3, <1>4, <1>5, <1>6, <1>7

\* What can be ordered can be ordered without some of the packs.
LEMMA FewerAreOrderable ==
  ASSUME NEW less, NEW more, Fewer(less, more), Orderable(more)
  PROVE  Orderable(less)
  <1> DEFINE all(uses) == UNION {Edges(uses[i]) : i \in DOMAIN uses}
             at(uses, o) == {id \in Ids(uses) : o \in OriginsOf(uses, id)}
  <1>0. Proper(less) /\ Proper(more)
    BY DEF Fewer
  <1>1. CASE Everywhere(more) # None
    <2>1. \A W \in SUBSET Ids(more) : ~Stuck(W, all(more))
      BY <1>0, <1>1, OrderExists DEF Everywhere
    <2>2. \A W \in SUBSET Ids(less) : ~Stuck(W, all(less))
      BY <2>1, FewerAsk DEF Stuck
    <2>3. Everywhere(less) # None
      BY <1>0, <2>2, OrderExists DEF Everywhere
    <2>4. QED
      BY <2>3 DEF Orderable
  <1>2. CASE Everywhere(more) = None
    <2>1. /\ AllOrigins \notin Origins(more)
          /\ \A o \in Origins(more) : OrderOn(more, o) # None
      BY <1>2 DEF Orderable
    <2>2. ASSUME NEW o \in Origins(less) PROVE OrderOn(less, o) # None
      <3>1. o \in Origins(more)
        BY FewerAsk
      <3>2. \A W \in SUBSET at(more, o) : ~Stuck(W, EdgesAt(more, o))
        <4>1. at(more, o) \in SUBSET Ids(more)
          OBVIOUS
        <4>2. QED
          BY <1>0, <2>1, <3>1, <4>1, OrderExists DEF OrderOn
      <3>3. at(less, o) \subseteq at(more, o) /\ at(less, o) \in SUBSET Ids(less)
        BY FewerAsk
      <3>4. \A W \in SUBSET at(less, o) : ~Stuck(W, EdgesAt(less, o))
        BY <3>2, <3>3, FewerAsk DEF Stuck
      <3>5. Topological(at(less, o), EdgesAt(less, o), Declared(less)) # None
        <4> HIDE DEF at
        <4>1. QED
          BY <1>0, <3>3, <3>4, OrderExists
      <3>6. QED
        BY <3>5 DEF OrderOn
    <2>3. AllOrigins \notin Origins(less)
      BY <2>1, FewerAsk
    <2>4. QED
      BY <2>2, <2>3 DEF Orderable
  <1>3. QED
    BY <1>1, <1>2

-----------------------------------------------------------------------------
(* What fits together fits together without some of the packs.             *)

Narrower(less, more) ==
  /\ less \in Selections /\ more \in Selections
  /\ \A p \in Packs : less[p] = more[p] \/ less[p] = None

\* Of fewer packs no more have a role.
LEMMA FewerHave ==
  ASSUME NEW less, NEW more, Narrower(less, more), NEW roles
  PROVE  Having(less, roles) \subseteq Having(more, roles)
         /\ \A p \in Having(less, roles) : less[p] = more[p]
  BY DEF Having, Selected, Narrower

\* The packs are those of their sorted order, and finitely many.
LEMMA PacksOfOrder ==
  /\ Len(PackOrder) \in Nat /\ DOMAIN PackOrder = 1..Len(PackOrder)
  /\ \A i \in DOMAIN PackOrder : PackOrder[i] \in Packs
  /\ IsFiniteSet(Packs)
  <1>1. PackOrder \in Seq(Packs)
    BY CommandsAssumption
  <1>2. /\ Len(PackOrder) \in Nat /\ DOMAIN PackOrder = 1..Len(PackOrder)
        /\ \A i \in DOMAIN PackOrder : PackOrder[i] \in Packs
    BY <1>1
  <1>3. IsFiniteSet(1..Len(PackOrder))
    BY <1>2, FS_Interval
  <1>4. IsFiniteSet({PackOrder[i] : i \in DOMAIN PackOrder})
    BY <1>2, <1>3, FiniteImage
  <1>5. QED
    BY <1>2, <1>4 DEF Packs, ToSet

\* What a selection asks of the pages is a proper sequence of uses.
LEMMA UsesAreProper ==
  ASSUME NEW sel \in Selections
  PROVE  Proper(Uses(sel))
  <1>1. DOMAIN Uses(sel) = 1..Len(PackOrder) /\ Len(PackOrder) \in Nat
    BY PacksOfOrder DEF Uses
  <1>3. ASSUME NEW i \in DOMAIN Uses(sel)
        PROVE  Uses(sel)[i].resources \in Seq({r.id : r \in Resources})
    <2> DEFINE p == PackOrder[i]
               m == Declares(p, sel[p])
    <2>1. CASE p \in Having(sel, {"page"})
      <3>1. /\ p \in Packs /\ sel[p] \in Versions
        BY <1>1, <2>1, PacksOfOrder DEF Having, Selected, Selections
      <3>2. m.uses \in Seq(Resources)
        <4>1. <<p, sel[p]>> \in Artifacts
          BY <3>1 DEF Artifacts
        <4>2. QED
          BY <4>1, CommandsAssumption
      <3>3. [k \in DOMAIN m.uses |-> m.uses[k].id] \in Seq({r.id : r \in Resources})
        <4> DEFINE u == m.uses
        <4>1. u \in Seq(Resources)
          BY <3>2
        <4> HIDE DEF u
        <4>2. Len(u) \in Nat /\ DOMAIN u = 1..Len(u) /\ \A k \in 1..Len(u) : u[k] \in Resources
          BY <4>1
        <4>3. [k \in 1..Len(u) |-> u[k].id] \in Seq({r.id : r \in Resources})
          BY <4>2, IsASeq
        <4>4. QED
          BY <4>2, <4>3 DEF u
      <3>4. Uses(sel)[i] = Use(m)
        BY <1>1, <2>1, PacksOfOrder DEF Uses
      <3>5. QED
        BY <3>3, <3>4 DEF Use
    <2>2. CASE p \notin Having(sel, {"page"})
      <3>1. Uses(sel)[i] = NoUse
        BY <1>1, <2>2, PacksOfOrder DEF Uses
      <3>2. QED
        BY <3>1, EmptySeq DEF NoUse
    <2>3. QED
      BY <2>1, <2>2
  <1>4. QED
    BY <1>1, <1>3 DEF Proper

\* A selection captures finitely many bodies.
LEMMA BodiesAreFinite ==
  ASSUME NEW sel \in Selections
  PROVE  IsFiniteSet(Bodies(sel))
  <1> DEFINE f == [p \in Selected(sel) |-> Declares(p, sel[p]).bodies]
  <1>1. IsFiniteSet(Selected(sel))
    BY PacksOfOrder, FS_Subset DEF Selected
  <1>2. IsFiniteSet({f[p] : p \in Selected(sel)})
    BY <1>1, FiniteImage
  <1>3. \A p \in Selected(sel) : <<p, sel[p]>> \in Artifacts
    BY DEF Selected, Selections, Artifacts
  <1>4. \A p \in Selected(sel) : IsFiniteSet(f[p])
    BY <1>3, CommandsAssumption
  <1> HIDE DEF f
  <1>5. IsFiniteSet(UNION {f[p] : p \in Selected(sel)})
    BY <1>2, <1>4, FS_UNION
  <1>6. Bodies(sel) = Profile.bodies \cup UNION {f[p] : p \in Selected(sel)}
    BY DEF Bodies, f
  <1>7. IsFiniteSet(Profile.bodies)
    BY CommandsAssumption
  <1> DEFINE U == UNION {f[p] : p \in Selected(sel)}
  <1>8. IsFiniteSet(U)
    BY <1>5
  <1> HIDE DEF U
  <1>9. IsFiniteSet(Profile.bodies \cup U)
    BY <1>7, <1>8, FS_Union
  <1>10. QED
    BY <1>6, <1>9 DEF U

\* Fewer packs use fewer resources.
LEMMA FewerUses ==
  ASSUME NEW less, NEW more, Narrower(less, more)
  PROVE  /\ Fewer(Uses(less), Uses(more))
         /\ UsedResources(less) \subseteq UsedResources(more)
  <1>1. Proper(Uses(less)) /\ Proper(Uses(more))
    BY UsesAreProper DEF Narrower
  <1>2. /\ Having(less, {"page"}) \subseteq Having(more, {"page"})
        /\ \A p \in Having(less, {"page"}) : less[p] = more[p]
    BY FewerHave
  <1>3. DOMAIN Uses(less) = DOMAIN PackOrder /\ DOMAIN Uses(more) = DOMAIN PackOrder
    BY DEF Uses
  <1>4. ASSUME NEW i \in DOMAIN PackOrder
        PROVE  Uses(less)[i] = Uses(more)[i] \/ Uses(less)[i] = NoUse
    <2>1. CASE PackOrder[i] \in Having(less, {"page"})
      BY <1>2, <2>1 DEF Uses
    <2>2. CASE PackOrder[i] \notin Having(less, {"page"})
      BY <2>2 DEF Uses
    <2>3. QED
      BY <2>1, <2>2
  <1>5. UsedResources(less) \subseteq UsedResources(more)
    BY <1>2 DEF UsedResources
  <1>6. QED
    BY <1>1, <1>3, <1>4, <1>5 DEF Fewer

\* A selection that fits together does so without some of its packs.
LEMMA FewerCompose ==
  ASSUME NEW less, NEW more, Narrower(less, more), more \in Composes
  PROVE  less \in Composes
  <1>1. /\ less \in Selections /\ more \in Selections
        /\ PagesCompose(more) /\ ComponentsCompose(more) /\ CaptureComposes(more)
        /\ CommandsAgree(more)
    BY DEF Composes, ServicesCompose, Narrower
  <1>2. PagesCompose(less)
    <2>1. Having(less, {"page", "handler"}) # {} => Profile.bridge
      BY <1>1, FewerHave DEF PagesCompose
    <2>2. \A r, s \in UsedResources(less) : r.id = s.id => r = s
      BY <1>1, FewerUses DEF PagesCompose
    <2>3. Orderable(Uses(less))
      BY <1>1, FewerUses, FewerAreOrderable DEF PagesCompose
    <2>4. QED
      BY <2>1, <2>2, <2>3 DEF PagesCompose
  <1>3. ComponentsCompose(less)
    BY <1>1, FewerHave DEF ComponentsCompose
  <1>4. CaptureComposes(less)
    <2>1. Bodies(less) \subseteq Bodies(more)
      BY DEF Bodies, Selected, Narrower
    <2>2. IsFiniteSet(Bodies(less)) /\ IsFiniteSet(Bodies(more))
      BY <1>1, BodiesAreFinite
    <2>3. /\ Cardinality(Bodies(less)) <= Cardinality(Bodies(more))
          /\ Cardinality(Bodies(less)) \in Nat /\ Cardinality(Bodies(more)) \in Nat
      BY <2>1, <2>2, FS_Subset, FS_CardinalityType
    <2>4. BodyLimit \in Nat
      BY CommandsAssumption
    <2>5. QED
      BY <1>1, <2>3, <2>4 DEF CaptureComposes
  <1>5. CommandsAgree(less)
    <2> DEFINE owned(sel) == UNION {{p} \X Declares(p, sel[p]).commands : p \in Selected(sel)}
    <2>1. owned(less) \subseteq owned(more)
      BY DEF Selected, Narrower
    <2>2. \A left \in owned(more) :
            /\ left[2][1] \notin CoreRoots
            /\ \A right \in owned(more) \ {left} : ~PathsConflict(left[2], right[2])
      BY <1>1 DEF CommandsAgree
    <2>3. \A left \in owned(less) :
            /\ left[2][1] \notin CoreRoots
            /\ \A right \in owned(less) \ {left} : ~PathsConflict(left[2], right[2])
      <3> HIDE DEF owned
      <3>1. QED
        BY <2>1, <2>2
    <2>4. QED
      BY <2>3 DEF CommandsAgree
  <1>6. QED
    BY <1>1, <1>2, <1>3, <1>4, <1>5 DEF Composes, ServicesCompose

-----------------------------------------------------------------------------
(* What is in a sequence and in a set.                                     *)

Filtered(f, s, set, i) ==
  IF i = 0 THEN <<>>
  ELSE IF s[i] \in set THEN Append(f[i - 1], s[i]) ELSE f[i - 1]

Filter(f, s, set, n) == f = [i \in 0..n |-> Filtered(f, s, set, i)]

\* A filter of a sequence, as a recursive function, exists.
LEMMA FilteredExists ==
  ASSUME NEW n \in Nat, NEW s, NEW set
  PROVE  \E f : Filter(f, s, set, n)
  <1> DEFINE P(k) == \E f : f = [i \in 0..k |-> Filtered(f, s, set, i)]
             S == {k \in Nat : P(k)}
  <1>1. 0 \in S
    <2> DEFINE f == [i \in 0..0 |-> <<>>]
    <2>1. \A i \in 0..0 : f[i] = Filtered(f, s, set, i)
      BY DEF Filtered
    <2>2. f = [i \in 0..0 |-> Filtered(f, s, set, i)]
      BY <2>1
    <2>3. QED
      BY <2>2
  <1>2. ASSUME NEW k \in S PROVE k + 1 \in S
    <2>1. k \in Nat
      OBVIOUS
    <2>2. PICK f : f = [i \in 0..k |-> Filtered(f, s, set, i)]
      OBVIOUS
    <2> DEFINE g == [i \in 0..k+1 |-> IF i = k + 1 THEN Filtered(f, s, set, i) ELSE f[i]]
    <2>3. ASSUME NEW i \in 0..k+1 PROVE g[i] = Filtered(g, s, set, i)
      <3>1. g[i] = Filtered(f, s, set, i)
        <4>1. CASE i = k + 1
          BY <4>1
        <4>2. CASE i # k + 1
          <5>1. i \in 0..k
            BY <2>1, <4>2
          <5>2. f[i] = Filtered(f, s, set, i)
            BY <2>2, <5>1
          <5>3. QED
            BY <4>2, <5>2
        <4>3. QED
          BY <4>1, <4>2
      <3>2. i > 0 => g[i - 1] = f[i - 1]
        BY <2>1
      <3> HIDE DEF g
      <3>3. QED
        BY <2>1, <3>1, <3>2 DEF Filtered
    <2>4. g = [i \in 0..k+1 |-> g[i]]
      OBVIOUS
    <2> HIDE DEF g
    <2>5. g = [i \in 0..k+1 |-> Filtered(g, s, set, i)]
      BY <2>3, <2>4
    <2>6. QED
      BY <2>1, <2>5
  <1>3. S = Nat
    <2>1. S \in SUBSET Nat
      OBVIOUS
    <2> HIDE DEF S
    <2>2. QED
      BY <1>1, <1>2, <2>1, SetInduction
  <1>4. QED
    BY <1>3 DEF Filter

\* Among() takes what is in the sequence and in the set.
LEMMA AmongFacts ==
  ASSUME NEW X, NEW s \in Seq(X), NEW set
  PROVE  Among(s, set) \in Seq(X \cap set)
  <1> DEFINE E(f) == Filter(f, s, set, Len(s))
             upto == CHOOSE f : E(f)
  <1>1. Len(s) \in Nat /\ \A i \in 1..Len(s) : s[i] \in X
    OBVIOUS
  <1>2. Among(s, set) = upto[Len(s)]
    BY DEF Among, Filter, Filtered
  <1>3. E(upto)
    <2>1. \E f : E(f)
      BY <1>1, FilteredExists
    <2> HIDE DEF E
    <2>2. QED
      BY <2>1
  <1> HIDE DEF upto
  <1> DEFINE S == {n \in Nat : n <= Len(s) => upto[n] \in Seq(X \cap set)}
  <1>4. 0 \in S
    <2>1. upto[0] = <<>>
      BY <1>1, <1>3 DEF Filter, Filtered
    <2>2. QED
      BY <2>1, EmptySeq
  <1>5. ASSUME NEW n \in S PROVE n + 1 \in S
    <2>1. n \in Nat
      OBVIOUS
    <2> SUFFICES ASSUME n + 1 <= Len(s) PROVE upto[n + 1] \in Seq(X \cap set)
      BY <2>1
    <2>2. /\ upto[n] \in Seq(X \cap set) /\ n + 1 \in 1..Len(s) /\ n + 1 \in 0..Len(s)
          /\ s[n + 1] \in X
      BY <1>1, <2>1
    <2>3. upto[n + 1] = Filtered(upto, s, set, n + 1)
      BY <1>3, <2>2 DEF Filter
    <2>4. CASE s[n + 1] \in set
      <3>1. upto[n + 1] = Append(upto[n], s[n + 1])
        BY <2>1, <2>3, <2>4 DEF Filtered
      <3>2. QED
        BY <2>2, <2>4, <3>1, AppendProperties
    <2>5. CASE s[n + 1] \notin set
      <3>1. upto[n + 1] = upto[n]
        BY <2>1, <2>3, <2>5 DEF Filtered
      <3>2. QED
        BY <2>2, <3>1
    <2>6. QED
      BY <2>4, <2>5
  <1>6. S = Nat
    <2>1. S \in SUBSET Nat
      OBVIOUS
    <2> HIDE DEF S
    <2>2. QED
      BY <1>4, <1>5, <2>1, SetInduction
  <1>7. QED
    BY <1>1, <1>2, <1>6

-----------------------------------------------------------------------------
(* Types.                                                                  *)

\* Every registry has a selection.
LEMMA SelectionType ==
  ASSUME NEW reg \in Registries
  PROVE  Selection(reg) \in Selections
  BY DEF Registries, Selection, Selections

\* What an entry of a registry consists of.
Entries ==
  [versions : SUBSET Versions, selected : Versions \cup {None}, enabled : BOOLEAN,
   history : Seq(Versions), grants : SUBSET Capabilities]

\* What the commands publish has a registry's type.
LEMMA CandidateTypes ==
  ASSUME TypeOK, NEW p \in Packs
  PROVE  /\ Disabled(p) \in Registries
         /\ \A v \in Versions : Recorded(p, v) \in Registries
         /\ \A v \in Versions, g \in SUBSET Capabilities :
              Loads(registry) => Activated(p, v, g) \in Registries
         /\ registry[p].history # <<>> => RolledBack(p) \in Registries
         /\ \A gone : Uninstalled(p, gone) \in Registries
  <1>1. registry \in [Packs -> Entries] /\ registry[p] \in Entries /\ Registries = [Packs -> Entries]
    BY DEF TypeOK, Registries, Entries
  <1>2. \A e \in Entries : [registry EXCEPT ![p] = e] \in Registries
    BY <1>1
  <1>3. Disabled(p) \in Registries
    <2>1. [registry[p] EXCEPT !.enabled = FALSE] \in Entries
      BY <1>1 DEF Entries
    <2>2. QED
      BY <1>1, <2>1 DEF Disabled
  <1>4. ASSUME NEW v \in Versions PROVE Recorded(p, v) \in Registries
    <2>1. [registry[p] EXCEPT !.versions = registry[p].versions \cup {v}] \in Entries
      BY <1>1 DEF Entries
    <2>2. QED
      BY <1>1, <2>1 DEF Recorded
  <1>5. ASSUME NEW v \in Versions, NEW g \in SUBSET Capabilities, Loads(registry)
        PROVE  Activated(p, v, g) \in Registries
    <2> DEFINE r == registry[p]
               h == IF r.enabled /\ r.selected # v THEN Append(r.history, r.selected) ELSE r.history
    <2>1. r.enabled => r.selected \in Versions
      BY <1>1, <1>5 DEF Loads, Entries
    <2>2. h \in Seq(Versions)
      <3>1. r.history \in Seq(Versions)
        BY <1>1 DEF Entries
      <3>2. QED
        BY <2>1, <3>1, AppendProperties
    <2>3. [r EXCEPT !.selected = v, !.enabled = TRUE, !.history = h, !.grants = g] \in Entries
      <3> HIDE DEF h
      <3>1. QED
        BY <1>1, <2>2 DEF Entries
    <2>4. QED
      BY <1>2, <2>3 DEF Activated
  <1>6. ASSUME registry[p].history # <<>> PROVE RolledBack(p) \in Registries
    <2> DEFINE h == registry[p].history
    <2>1. h \in Seq(Versions) /\ h # <<>>
      BY <1>1, <1>6 DEF Entries
    <2> HIDE DEF h
    <2>2. /\ Front(h) \in Seq(Versions)
          /\ Last(h) \in Versions
      BY <2>1 DEF Front, Last
    <2>3. [registry[p] EXCEPT !.history = Front(h), !.selected = Last(h)] \in Entries
      BY <1>1, <2>2 DEF Entries
    <2>4. RolledBack(p) = [registry EXCEPT ![p] = [registry[p] EXCEPT !.history = Front(h),
                                                                     !.selected = Last(h)]]
      BY <1>1 DEF RolledBack, h
    <2>5. QED
      BY <1>2, <2>3, <2>4
  <1>7. ASSUME NEW gone PROVE Uninstalled(p, gone) \in Registries
    <2> DEFINE r    == registry[p]
               left == r.versions \ gone
    <2>1. NoRecord \in Entries
      BY EmptySeq DEF NoRecord, Entries
    <2>2. Among(r.history, left) \in Seq(Versions)
      <3>1. Among(r.history, left) \in Seq(Versions \cap left)
        BY <1>1, AmongFacts DEF Entries
      <3>2. QED
        BY <3>1, SeqMonotonic
    <2>3. [r EXCEPT !.versions = left, !.history = Among(r.history, left),
                    !.selected = IF r.selected \in left THEN r.selected ELSE None] \in Entries
      BY <1>1, <2>2 DEF Entries
    <2>4. QED
      BY <1>2, <2>1, <2>3 DEF Uninstalled
  <1>8. QED
    BY <1>3, <1>4, <1>5, <1>6, <1>7

\* The initial states have their types.
LEMMA TypeInit == Init => TypeOK
  <1> SUFFICES ASSUME Init PROVE TypeOK
    OBVIOUS
  <1>1. scenario \in Scenarios /\ registry = scenario.registry /\ live = scenario.live
    BY DEF Init, CommandInit
  <1>2. registry \in Registries /\ live \in BOOLEAN
    BY <1>1, CommandsAssumption
  <1>3. code \in [Packs -> [Versions -> {"whole", "torn", "absent"}]]
    BY DEF Init, CommandInit, CodeOf
  <1>4. shared \in [Resources -> {"whole", "torn", "absent"}]
    BY DEF Init, CommandInit, SharedOf
  <1>5. proc \in [Cli -> Processes]
    BY DEF Init, CommandInit, Idle, Processes
  <1>6. sched \in [at : {"idle", "jobs"} \cup Underway, due : Seq(Packs \X (Versions \cup {None}))]
    BY EmptySeq DEF Init, Asleep
  <1>7. count \in [{"commands", "cuts", "switches"} -> Nat]
    BY DEF Init, CommandInit
  <1>8. QED
    BY <1>1, <1>2, <1>3, <1>4, <1>5, <1>6, <1>7
    DEF Init, CommandInit, TypeOK, NoJob, NoFailures

\* What moving on and ending do to the processes and the leases.
LEMMA GotoFacts ==
  ASSUME TypeOK, NEW c \in Cli, NEW at \in Published \cup {"idle", "locking", "leasing", "checking", "running"},
         Goto(c, at)
  PROVE  /\ proc' \in [Cli -> Processes]
         /\ proc'[c] = [proc[c] EXCEPT !.at = at]
         /\ \A d \in Cli \ {c} : proc'[d] = proc[d]
  <1>1. proc \in [Cli -> Processes]
    BY DEF TypeOK
  <1>2. [proc[c] EXCEPT !.at = at] \in Processes
    BY <1>1 DEF Processes
  <1>3. proc' = [proc EXCEPT ![c] = [proc[c] EXCEPT !.at = at]]
    BY <1>1 DEF Goto
  <1>4. QED
    BY <1>1, <1>2, <1>3

\* A process that does nothing is one.
LEMMA IdleType == Idle \in Processes
  BY DEF Idle, Processes

\* A process that ends gives up its leases and no others.
LEMMA LeavesFacts ==
  ASSUME TypeOK, NEW c \in Cli, Leaves(c)
  PROVE  /\ proc' \in [Cli -> Processes] /\ proc'[c] = Idle
         /\ \A d \in Cli \ {c} : proc'[d] = proc[d]
         /\ profile' \in Cli \cup {None} /\ (profile # c => profile' = profile)
         /\ lease' \in [Packs \cup {Global} -> Cli \cup {None, Scheduler, Orphan}]
         /\ \A x \in Packs \cup {Global} : lease[x] # c => lease'[x] = lease[x]
  <1>1. proc \in [Cli -> Processes] /\ profile \in Cli \cup {None}
        /\ lease \in [Packs \cup {Global} -> Cli \cup {None, Scheduler, Orphan}]
    BY DEF TypeOK
  <1>2. proc' = [proc EXCEPT ![c] = Idle]
    BY DEF Leaves
  <1>3. proc' \in [Cli -> Processes] /\ proc'[c] = Idle /\ \A d \in Cli \ {c} : proc'[d] = proc[d]
    BY <1>1, <1>2, IdleType
  <1>4. profile' \in Cli \cup {None} /\ (profile # c => profile' = profile)
    BY <1>1 DEF Leaves
  <1>5. lease' = [x \in Packs \cup {Global} |-> IF lease[x] = c THEN None ELSE lease[x]]
    BY <1>1 DEF Leaves
  <1>6. QED
    BY <1>1, <1>3, <1>4, <1>5

\* What counts the bounds keeps its type; only cuts count as cuts.
LEMMA SpendsType ==
  ASSUME TypeOK, NEW what \in {"commands", "cuts", "switches"}, Spends(what)
  PROVE  /\ count' \in [{"commands", "cuts", "switches"} -> Nat]
         /\ count'.cuts = IF what = "cuts" THEN count.cuts + 1 ELSE count.cuts
  BY DEF TypeOK, Spends

\* What a command or a run starts as.
LEMMA BeginFacts ==
  ASSUME TypeOK, NEW c \in Cli, NEW o \in Stages \cup Keyed, NEW p \in Packs,
         NEW v \in Versions \cup {None}, NEW g \in SUBSET Capabilities, Begin(c, o, p, v, g)
  PROVE  /\ proc[c] = Idle
         /\ proc' \in [Cli -> Processes] /\ \A d \in Cli \ {c} : proc'[d] = proc[d]
         /\ proc'[c].op = o /\ proc'[c].at = "locking" /\ proc'[c].pack = p /\ proc'[c].version = v
         /\ lease' \in [Packs \cup {Global} -> Cli \cup {None, Scheduler, Orphan}]
         /\ o \in Keyed => lease'[p] = c
         /\ \A x \in Packs \cup {Global} : lease[x] # None => lease'[x] = lease[x]
         /\ count' \in [{"commands", "cuts", "switches"} -> Nat] /\ count'.cuts = count.cuts
         /\ UNCHANGED <<storeVars, profile, child, worldVars>>
  <1>1. proc \in [Cli -> Processes]
        /\ lease \in [Packs \cup {Global} -> Cli \cup {None, Scheduler, Orphan}]
    BY DEF TypeOK
  <1>2. proc[c] = Idle /\ UNCHANGED <<storeVars, profile, child, worldVars>>
    BY DEF Begin
  <1> DEFINE new == [Idle EXCEPT !.op = o, !.at = "locking", !.pack = p, !.version = v, !.grants = g]
  <1>3. proc' = [proc EXCEPT ![c] = new]
    BY DEF Begin
  <1>4. /\ new \in Processes
        /\ new.op = o /\ new.at = "locking" /\ new.pack = p /\ new.version = v
    BY DEF Idle, Processes
  <1> HIDE DEF new
  <1>5. /\ proc' \in [Cli -> Processes] /\ proc'[c] = new
        /\ \A d \in Cli \ {c} : proc'[d] = proc[d]
    BY <1>1, <1>3, <1>4
  <1>6. count' \in [{"commands", "cuts", "switches"} -> Nat] /\ count'.cuts = count.cuts
    <2>1. Spends("commands")
      BY DEF Begin
    <2>2. QED
      BY <2>1, SpendsType
  <1>7. /\ lease' \in [Packs \cup {Global} -> Cli \cup {None, Scheduler, Orphan}]
        /\ o \in Keyed => lease'[p] = c
        /\ \A x \in Packs \cup {Global} : lease[x] # None => lease'[x] = lease[x]
    <2>1. CASE o = "install"
      <3>1. lease' = lease /\ o \notin Keyed
        BY <2>1 DEF Begin, Keyed
      <3>2. QED
        BY <1>1, <3>1
    <2>2. CASE o = "add"
      <3>1. lease' = [lease EXCEPT ![Global] = c] /\ o \notin Keyed /\ lease[Global] = None
        BY <2>2 DEF Begin, Keyed
      <3>2. QED
        BY <1>1, <3>1
    <2>3. CASE o \in Keyed
      <3>1. lease' = [lease EXCEPT ![p] = c] /\ lease[p] = None
        BY <2>3 DEF Begin, Keyed
      <3>2. QED
        BY <1>1, <3>1
    <2>4. QED
      BY <2>1, <2>2, <2>3 DEF Stages, Keyed
  <1>8. QED
    BY <1>2, <1>4, <1>5, <1>6, <1>7

\* Every command is one that some pack, version and grants suit.
LEMMA CommandBegins ==
  ASSUME TypeOK, NEW c \in Cli,
         BeginStaging(c) \/ BeginEnable(c) \/ BeginChange(c) \/ BeginUninstall(c)
  PROVE  \E o \in Stages \cup Keyed, p \in Packs, v \in Versions \cup {None}, g \in SUBSET Capabilities :
           /\ Begin(c, o, p, v, g)
           /\ o \in Stages \cup {"enable"} => v # None
  <1>1. scenario \in Scenarios /\ scenario.artifacts \subseteq Artifacts /\ None \notin Versions
    BY CommandsAssumption DEF TypeOK
  <1>2. {} \in SUBSET Capabilities /\ \A g \in scenario.grants : g \in SUBSET Capabilities
    <2>1. \A g \in scenario.grants : g \in UNION {s.grants : s \in Scenarios}
      BY <1>1
    <2>2. QED
      BY <2>1 DEF Capabilities
  <1>3. CASE BeginStaging(c)
    <2>1. PICK o \in Stages, a \in scenario.artifacts : Begin(c, o, a[1], a[2], {})
      BY <1>3 DEF BeginStaging
    <2>2. a[1] \in Packs /\ a[2] \in Versions
      BY <1>1 DEF Artifacts
    <2>3. QED
      BY <1>1, <1>2, <2>1, <2>2
  <1>4. CASE BeginEnable(c)
    <2>1. PICK a \in scenario.artifacts, g \in scenario.grants : Begin(c, "enable", a[1], a[2], g)
      BY <1>4 DEF BeginEnable
    <2>2. a[1] \in Packs /\ a[2] \in Versions /\ "enable" \in Keyed
      BY <1>1 DEF Artifacts, Keyed
    <2>3. QED
      BY <1>1, <1>2, <2>1, <2>2
  <1>5. CASE BeginChange(c)
    <2>1. PICK o \in {"rollback", "disable"}, p \in Packs : Begin(c, o, p, None, {})
      BY <1>5 DEF BeginChange
    <2>2. o \in Keyed /\ o \notin Stages \cup {"enable"}
      BY DEF Keyed, Stages
    <2>3. QED
      BY <1>2, <2>1, <2>2
  <1>6. CASE BeginUninstall(c)
    <2>1. PICK p \in Packs, v \in Versions \cup {None} : Begin(c, "uninstall", p, v, {})
      BY <1>6 DEF BeginUninstall
    <2>2. "uninstall" \in Keyed /\ "uninstall" \notin Stages \cup {"enable"}
      BY DEF Keyed, Stages
    <2>3. QED
      BY <1>2, <2>1, <2>2
  <1>7. QED
    BY <1>3, <1>4, <1>5, <1>6

\* A run starts without a lease.
LEMMA RunBegins ==
  ASSUME TypeOK, NEW c \in Cli, BeginRun(c)
  PROVE  \E p \in Packs :
           /\ proc[c] = Idle
           /\ proc' \in [Cli -> Processes] /\ \A d \in Cli \ {c} : proc'[d] = proc[d]
           /\ proc'[c].op = "run" /\ proc'[c].at = "leasing" /\ proc'[c].pack = p
           /\ count' \in [{"commands", "cuts", "switches"} -> Nat] /\ count'.cuts = count.cuts
           /\ UNCHANGED <<storeVars, profile, lease, child, worldVars>>
  <1>1. /\ proc \in [Cli -> Processes] /\ registry \in Registries
        /\ Spends("commands") /\ proc[c] = Idle
        /\ UNCHANGED <<storeVars, profile, lease, child, worldVars>>
    BY DEF TypeOK, BeginRun
  <1>2. count' \in [{"commands", "cuts", "switches"} -> Nat] /\ count'.cuts = count.cuts
    BY <1>1, SpendsType
  <1> DEFINE new(p) == [Idle EXCEPT !.op = "run", !.at = "leasing", !.pack = p,
                                    !.version = registry[p].selected]
  <1>3. PICK p \in Packs : proc' = [proc EXCEPT ![c] = new(p)]
    BY DEF BeginRun
  <1>4. registry[p].selected \in Versions \cup {None}
    BY <1>1 DEF Registries
  <1>5. new(p) \in Processes /\ new(p).op = "run" /\ new(p).at = "leasing" /\ new(p).pack = p
    BY <1>4 DEF Idle, Processes
  <1> HIDE DEF new
  <1>6. /\ proc' \in [Cli -> Processes] /\ proc'[c] = new(p)
        /\ \A d \in Cli \ {c} : proc'[d] = proc[d]
    BY <1>1, <1>3, <1>5
  <1>7. QED
    BY <1>1, <1>2, <1>5, <1>6

\* What an installation does to the code and the shared resources.
LEMMA StageTypes ==
  ASSUME TypeOK, NEW p \in Packs, NEW v \in Versions
  PROVE  /\ \A s \in {"whole", "torn", "absent"} :
              [code EXCEPT ![p][v] = s] \in [Packs -> [Versions -> {"whole", "torn", "absent"}]]
         /\ Materialized(p, v) \in [Resources -> {"whole", "torn", "absent"}]
         /\ \A r \in Resources : shared[r] = "whole" => Materialized(p, v)[r] = "whole"
  BY DEF TypeOK, Materialized

\* A command that publishes has what it publishes at hand.
LEMMA AtHand ==
  ASSUME TypeOK, LeaseInv, NEW c \in Cli, proc[c].at # "idle"
  PROVE  /\ proc[c].pack \in Packs
         /\ proc[c].op \in Stages \cup {"enable"} => proc[c].version \in Versions
         /\ proc[c].at \in {"staging", "recording"} => proc[c].version \in Versions
         /\ Gone(c) \subseteq Versions
         /\ proc[c].version \in Versions => Grants(c) \in SUBSET Capabilities
  <1>1. Holds(c) /\ proc[c] \in Processes /\ registry \in Registries
    BY DEF LeaseInv, TypeOK
  <1>2. proc[c].pack \in Packs /\ proc[c].version \in Versions \cup {None}
    BY <1>1 DEF Holds, Processes
  <1>3. proc[c].op \in Stages \cup {"enable"} => proc[c].version \in Versions
    BY <1>1, <1>2 DEF Holds
  <1>4. proc[c].at \in {"staging", "recording"} => proc[c].op \in Stages
    BY <1>1 DEF Holds
  <1>5. Gone(c) \subseteq Versions
    <2>1. registry[proc[c].pack].versions \subseteq Versions
      BY <1>1, <1>2 DEF Registries
    <2>2. QED
      BY <1>2, <2>1 DEF Gone
  <1>6. ASSUME proc[c].version \in Versions PROVE Grants(c) \in SUBSET Capabilities
    <2>1. registry[proc[c].pack].grants \in SUBSET Capabilities
      BY <1>1, <1>2 DEF Registries
    <2>2. proc[c].grants \in SUBSET Capabilities
      BY <1>1 DEF Processes
    <2>3. Declares(proc[c].pack, proc[c].version).needs \in SUBSET Capabilities
      <3>1. <<proc[c].pack, proc[c].version>> \in Artifacts
        BY <1>2, <1>6 DEF Artifacts
      <3>2. QED
        BY <3>1 DEF Capabilities
    <2>4. QED
      BY <2>1, <2>2, <2>3 DEF Grants
  <1>7. QED
    BY <1>2, <1>3, <1>4, <1>5, <1>6

\* What a command is about to publish has a registry's type.
LEMMA CandidateIsARegistry ==
  ASSUME TypeOK, LeaseInv, Loads(registry), NEW c \in Cli, proc[c].at = "changing", Accepts(c),
         proc[c].op # "uninstall"
  PROVE  Candidate(c) \in Registries
  <1> DEFINE p == proc[c].pack
  <1>1. Holds(c)
    BY DEF LeaseInv
  <1>2. /\ p \in Packs /\ proc[c].op \in (Stages \cup Keyed) \ {"install", "uninstall"}
    BY <1>1, AtHand DEF Holds, Published
  <1>3. CASE proc[c].op = "rollback"
    <2>1. registry[p].history # <<>>
      BY <1>3 DEF Accepts, RollbackAccepts
    <2>2. QED
      BY <1>2, <1>3, <2>1, CandidateTypes DEF Candidate
  <1>4. CASE proc[c].op = "disable"
    BY <1>2, <1>4, CandidateTypes DEF Candidate
  <1>5. CASE proc[c].op \notin {"rollback", "disable"}
    <2>1. proc[c].op \in Stages \cup {"enable"}
      BY <1>2, <1>5 DEF Keyed, Stages
    <2>2. proc[c].version \in Versions /\ Grants(c) \in SUBSET Capabilities
      BY <2>1, AtHand
    <2>3. Candidate(c) = Activated(p, proc[c].version, Grants(c))
      BY <1>5 DEF Candidate
    <2>4. QED
      BY <1>2, <2>2, <2>3, CandidateTypes
  <1>6. QED
    BY <1>3, <1>4, <1>5

\* The variables that the commands share with the scheduler.
CommandTypes ==
  /\ registry \in Registries
  /\ code \in [Packs -> [Versions -> {"whole", "torn", "absent"}]]
  /\ shared \in [Resources -> {"whole", "torn", "absent"}]
  /\ proc \in [Cli -> Processes] /\ profile \in Cli \cup {None}
  /\ lease \in [Packs \cup {Global} -> Cli \cup {None, Scheduler, Orphan}]
  /\ child \in [Packs -> Versions \cup {None}]
  /\ live \in BOOLEAN /\ registered \in BOOLEAN
  /\ tampered \subseteq Artifacts /\ scenario \in Scenarios
  /\ count \in [{"commands", "cuts", "switches"} -> Nat]

SchedulerTypes ==
  /\ sched \in [at : {"idle", "jobs"} \cup Underway, due : Seq(Packs \X (Versions \cup {None}))]
  /\ jobs \in [Packs -> [version : Versions \cup {None}, phase : {"none", "running", "ended"},
                         later : BOOLEAN]]
  /\ failures \in [Packs -> [version : Versions \cup {None}, count : Nat, quarantined : BOOLEAN]]

\* The types are those of the commands' variables and the scheduler's.
LEMMA TypesApart == TypeOK <=> CommandTypes /\ SchedulerTypes
  BY DEF TypeOK, CommandTypes, SchedulerTypes

\* A process that goes on keeps the types.
LEMMA TypesOfContinuing ==
  ASSUME TypeOK, LeaseInv, Loads(registry), NEW c \in Cli, Continues(c)
  PROVE  CommandTypes'
  <1>0. CommandTypes
    BY TypesApart
  <1>1. CASE TakeProfile(c)
    <2>1. Goto(c, "staging") \/ Goto(c, "changing")
      BY <1>1 DEF TakeProfile
    <2>2. proc' \in [Cli -> Processes]
      BY <2>1, GotoFacts DEF Published
    <2>3. QED
      BY <1>0, <1>1, <2>2 DEF CommandTypes, TakeProfile, storeVars, worldVars
  <1>2. CASE Stage(c)
    <2>1. proc[c].pack \in Packs /\ proc[c].version \in Versions
      BY <1>2, AtHand DEF Stage
    <2>2. /\ code' \in [Packs -> [Versions -> {"whole", "torn", "absent"}]]
          /\ shared' \in [Resources -> {"whole", "torn", "absent"}]
      BY <1>2, <2>1, StageTypes DEF Stage
    <2>3. proc' \in [Cli -> Processes]
      BY <1>2, GotoFacts DEF Stage, Published
    <2>4. QED
      BY <1>0, <1>2, <2>2, <2>3 DEF CommandTypes, Stage, worldVars
  <1>3. CASE AlreadyConfigured(c)
    <2>1. proc' \in [Cli -> Processes]
      BY <1>3, GotoFacts DEF AlreadyConfigured, Published
    <2>2. QED
      BY <1>0, <1>3, <2>1 DEF CommandTypes, AlreadyConfigured, storeVars, worldVars
  <1>4. CASE Record(c)
    <2>1. Goto(c, "changing") \/ Goto(c, "reconciling")
      BY <1>4 DEF Record
    <2>2. proc' \in [Cli -> Processes]
      BY <2>1, GotoFacts DEF Published
    <2>3. registry' \in Registries
      BY <1>4, AtHand, CandidateTypes DEF Record
    <2>4. QED
      BY <1>0, <1>4, <2>2, <2>3 DEF CommandTypes, Record, worldVars
  <1>5. CASE Change(c)
    <2>1. proc' \in [Cli -> Processes]
      BY <1>5, GotoFacts DEF Change, Published
    <2>2. registry' \in Registries
      BY <1>5, CandidateIsARegistry DEF Change
    <2>3. QED
      BY <1>0, <1>5, <2>1, <2>2 DEF CommandTypes, Change, worldVars
  <1>6. CASE StartRemoval(c)
    <2>1. Gone(c) \subseteq Versions
      BY <1>6, AtHand DEF StartRemoval
    <2>2. proc' \in [Cli -> Processes]
      <3>1. proc' = [proc EXCEPT ![c].at = "removing", ![c].gone = Gone(c), ![c].left = Gone(c)]
        BY <1>6 DEF StartRemoval
      <3>2. [proc[c] EXCEPT !.at = "removing", !.gone = Gone(c), !.left = Gone(c)] \in Processes
        <4>1. proc[c] \in Processes
          BY <1>0 DEF CommandTypes
        <4>2. "removing" \in Published
          BY DEF Published
        <4>3. QED
          BY <2>1, <4>1, <4>2 DEF Processes
      <3>3. proc' = [proc EXCEPT ![c] = [proc[c] EXCEPT !.at = "removing", !.gone = Gone(c),
                                                       !.left = Gone(c)]]
        BY <1>0, <3>1 DEF CommandTypes
      <3>4. QED
        BY <1>0, <3>2, <3>3 DEF CommandTypes
    <2>3. QED
      BY <1>0, <1>6, <2>2 DEF CommandTypes, StartRemoval, storeVars, worldVars
  <1>7. CASE RemoveTree(c)
    <2>1. PICK v \in proc[c].left :
            /\ code' = [code EXCEPT ![proc[c].pack][v] = "absent"]
            /\ proc' = [proc EXCEPT ![c].left = @ \ {v}]
      BY <1>7 DEF RemoveTree
    <2>2. proc[c].pack \in Packs /\ v \in Versions
      BY <1>0, <1>7, AtHand DEF RemoveTree, CommandTypes, Processes
    <2>3. code' \in [Packs -> [Versions -> {"whole", "torn", "absent"}]]
      BY <2>1, <2>2, StageTypes
    <2>4. proc' \in [Cli -> Processes]
      <3>1. [proc[c] EXCEPT !.left = @ \ {v}] \in Processes
        <4>1. proc[c] \in Processes
          BY <1>0 DEF CommandTypes
        <4>2. QED
          BY <4>1 DEF Processes
      <3>2. proc' = [proc EXCEPT ![c] = [proc[c] EXCEPT !.left = @ \ {v}]]
        BY <1>0, <2>1 DEF CommandTypes
      <3>3. QED
        BY <1>0, <3>1, <3>2 DEF CommandTypes
    <2>5. QED
      BY <1>0, <1>7, <2>3, <2>4 DEF CommandTypes, RemoveTree, worldVars
  <1>8. CASE RecordRemoval(c)
    <2>1. proc' \in [Cli -> Processes]
      BY <1>8, GotoFacts DEF RecordRemoval, Published
    <2>2. registry' \in Registries
      BY <1>8, AtHand, CandidateTypes DEF RecordRemoval
    <2>3. QED
      BY <1>0, <1>8, <2>1, <2>2 DEF CommandTypes, RecordRemoval, worldVars
  <1>9. CASE Refused(c) \/ RunRefused(c)
    <2>1. Leaves(c) /\ UNCHANGED <<storeVars, child, worldVars, count>>
      BY <1>9 DEF Refused, RunRefused
    <2>2. QED
      BY <1>0, <2>1, LeavesFacts DEF CommandTypes, storeVars, worldVars
  <1>10. CASE LeaseRun(c)
    <2>1. proc' \in [Cli -> Processes]
      BY <1>10, GotoFacts DEF LeaseRun
    <2>2. proc[c].pack \in Packs
      BY <1>10, AtHand DEF LeaseRun
    <2>3. lease' \in [Packs \cup {Global} -> Cli \cup {None, Scheduler, Orphan}]
      BY <1>0, <1>10, <2>2 DEF LeaseRun, CommandTypes
    <2>4. QED
      BY <1>0, <1>10, <2>1, <2>3 DEF CommandTypes, LeaseRun, storeVars, worldVars
  <1>11. CASE StartRun(c)
    <2>1. proc' \in [Cli -> Processes]
      BY <1>11, GotoFacts DEF StartRun
    <2>2. child' \in [Packs -> Versions \cup {None}]
      BY <1>0, <1>11 DEF StartRun, CommandTypes, Processes
    <2>3. QED
      BY <1>0, <1>11, <2>1, <2>2 DEF CommandTypes, StartRun, storeVars, worldVars
  <1>12. CASE RunEnds(c)
    <2>1. child' \in [Packs -> Versions \cup {None}]
      BY <1>0, <1>12 DEF RunEnds, CommandTypes
    <2>2. Leaves(c)
      BY <1>12 DEF RunEnds
    <2>3. QED
      BY <1>0, <1>12, <2>1, <2>2, LeavesFacts DEF CommandTypes, RunEnds, storeVars, worldVars
  <1>13. QED
    BY <1>1, <1>2, <1>3, <1>4, <1>5, <1>6, <1>7, <1>8, <1>9, <1>10, <1>11, <1>12 DEF Continues

\* The jobs that are due, and the first of them.
Dues == Seq(Packs \X (Versions \cup {None}))

\* The next due job is of a pack, and leaving it out leaves due jobs.
LEMMA DueFacts ==
  ASSUME TypeOK
  PROVE  /\ sched.at \in {"idle", "jobs"} \cup Underway /\ sched.due \in Dues
         /\ sched.due # <<>> => /\ Head1[1] \in Packs /\ Head1[2] \in Versions \cup {None}
                                /\ Tail(sched.due) \in Dues
                                /\ [sched EXCEPT !.due = Tail(@)]
                                     \in [at : {"idle", "jobs"} \cup Underway, due : Dues]
         /\ Asleep \in [at : {"idle", "jobs"} \cup Underway, due : Dues]
         /\ \A at \in {"idle", "jobs"} \cup Underway :
              /\ [sched EXCEPT !.at = at].at = at /\ [sched EXCEPT !.at = at].due = sched.due
              /\ [sched EXCEPT !.at = at] \in [at : {"idle", "jobs"} \cup Underway, due : Dues]
  <1>1. sched \in [at : {"idle", "jobs"} \cup Underway, due : Dues]
    BY DEF TypeOK, Dues
  <1>2. sched.at \in {"idle", "jobs"} \cup Underway /\ sched.due \in Dues
    BY <1>1
  <1>3. ASSUME sched.due # <<>>
        PROVE  /\ Head1[1] \in Packs /\ Head1[2] \in Versions \cup {None}
               /\ Tail(sched.due) \in Dues
    <2> DEFINE d == sched.due
    <2>1. d \in Seq(Packs \X (Versions \cup {None})) /\ d # <<>>
      BY <1>2, <1>3 DEF Dues
    <2> HIDE DEF d
    <2>2. d[1] \in Packs \X (Versions \cup {None})
          /\ Tail(d) \in Seq(Packs \X (Versions \cup {None}))
      BY <2>1
    <2>3. QED
      BY <2>2 DEF d, Head1, Dues
  <1>4. Asleep \in [at : {"idle", "jobs"} \cup Underway, due : Dues]
    BY EmptySeq DEF Asleep, Dues
  <1>5. sched.due # <<>> => [sched EXCEPT !.due = Tail(@)]
                               \in [at : {"idle", "jobs"} \cup Underway, due : Dues]
    BY <1>1, <1>3
  <1>6. QED
    BY <1>1, <1>2, <1>3, <1>4, <1>5

\* So do those that start, are cut short or live beside them.
LEMMA TypesOfTheRest ==
  ASSUME TypeOK, LeaseInv
  PROVE  /\ \A c \in Cli : Starts(c) => CommandTypes'
         /\ \A c \in Cli : Reconcile(c, Tasks) => CommandTypes'
         /\ \A p \in Packs : OrphanEnds(p) => CommandTypes'
         /\ Surroundings => CommandTypes'
         /\ TurnOn(Tasks) => CommandTypes'
  <1>0. CommandTypes
    BY TypesApart
  <1>1. ASSUME NEW c \in Cli, Starts(c) PROVE CommandTypes'
    <2>1. CASE BeginRun(c)
      <3>1. PICK p \in Packs :
           /\ proc' \in [Cli -> Processes]
           /\ count' \in [{"commands", "cuts", "switches"} -> Nat]
           /\ UNCHANGED <<storeVars, profile, lease, child, worldVars>>
        BY <2>1, RunBegins
      <3>2. QED
        BY <1>0, <3>1 DEF CommandTypes, storeVars, worldVars
    <2>2. CASE ~BeginRun(c)
      <3>1. PICK o \in Stages \cup Keyed, p \in Packs, v \in Versions \cup {None},
                 g \in SUBSET Capabilities : Begin(c, o, p, v, g)
        BY <1>1, <2>2, CommandBegins DEF Starts
      <3>2. /\ proc' \in [Cli -> Processes]
            /\ lease' \in [Packs \cup {Global} -> Cli \cup {None, Scheduler, Orphan}]
            /\ count' \in [{"commands", "cuts", "switches"} -> Nat]
            /\ UNCHANGED <<storeVars, profile, child, worldVars>>
        BY <3>1, BeginFacts
      <3>3. QED
        BY <1>0, <3>2 DEF CommandTypes, storeVars, worldVars
    <2>3. QED
      BY <2>1, <2>2
  <1>2. ASSUME NEW c \in Cli, Reconcile(c, Tasks) PROVE CommandTypes'
    <2>1. Leaves(c) /\ registered' \in BOOLEAN
      BY <1>2 DEF Reconcile
    <2>2. QED
      BY <1>0, <1>2, <2>1, LeavesFacts DEF CommandTypes, Reconcile, storeVars
  <1>3. ASSUME NEW p \in Packs, OrphanEnds(p) PROVE CommandTypes'
    BY <1>0, <1>3 DEF CommandTypes, OrphanEnds, storeVars, worldVars
  <1>4. ASSUME TurnOn(Tasks) PROVE CommandTypes'
    <2>1. count' \in [{"commands", "cuts", "switches"} -> Nat]
      BY <1>4, SpendsType DEF TurnOn
    <2>2. registered' \in BOOLEAN /\ live' \in BOOLEAN
      BY <1>4 DEF TurnOn
    <2>3. QED
      BY <1>0, <1>4, <2>1, <2>2 DEF CommandTypes, TurnOn, storeVars
  <1>5. ASSUME Surroundings PROVE CommandTypes'
    <2>1. CASE TurnOff
      <3>1. count' \in [{"commands", "cuts", "switches"} -> Nat]
        BY <2>1, SpendsType DEF TurnOff
      <3>2. QED
        BY <1>0, <2>1, <3>1 DEF CommandTypes, TurnOff, storeVars
    <2>2. ASSUME NEW c \in Cli, Interrupted(c) PROVE CommandTypes'
      <3>1. count' \in [{"commands", "cuts", "switches"} -> Nat] /\ Leaves(c)
        BY <2>2, SpendsType DEF Interrupted
      <3>2. /\ code' \in [Packs -> [Versions -> {"whole", "torn", "absent"}]]
            /\ shared' \in [Resources -> {"whole", "torn", "absent"}]
        <4>1. CASE UNCHANGED <<code, shared>>
          BY <1>0, <4>1 DEF CommandTypes
        <4>2. CASE /\ proc[c].at = "staging" /\ InstallAccepts(proc[c].pack, proc[c].version)
                   /\ shared' = Materialized(proc[c].pack, proc[c].version) /\ UNCHANGED code
          BY <1>0, <4>2, AtHand, StageTypes DEF CommandTypes
        <4>3. CASE /\ proc[c].at = "removing"
                   /\ \E v \in proc[c].left : code' = [code EXCEPT ![proc[c].pack][v] = "torn"]
                   /\ UNCHANGED shared
          <5>1. PICK v \in proc[c].left : code' = [code EXCEPT ![proc[c].pack][v] = "torn"]
            BY <4>3
          <5>2. proc[c].pack \in Packs /\ v \in Versions
            BY <1>0, <4>3, AtHand DEF CommandTypes, Processes
          <5>3. QED
            BY <1>0, <4>3, <5>1, <5>2, StageTypes DEF CommandTypes
        <4>4. QED
          BY <2>2, <4>1, <4>2, <4>3 DEF Interrupted
      <3>3. UNCHANGED <<registry, child, worldVars>>
        BY <2>2 DEF Interrupted
      <3>4. QED
        BY <1>0, <3>1, <3>2, <3>3, LeavesFacts DEF CommandTypes, worldVars
    <2>3. ASSUME NEW c \in Cli, DispatcherKilled(c) PROVE CommandTypes'
      <3>1. count' \in [{"commands", "cuts", "switches"} -> Nat]
        BY <2>3, SpendsType DEF DispatcherKilled
      <3>2. proc' \in [Cli -> Processes]
        BY <1>0, <2>3, IdleType DEF DispatcherKilled, CommandTypes
      <3>3. lease' \in [Packs \cup {Global} -> Cli \cup {None, Scheduler, Orphan}]
        BY <1>0, <2>3, AtHand DEF DispatcherKilled, CommandTypes
      <3>4. QED
        BY <1>0, <2>3, <3>1, <3>2, <3>3 DEF CommandTypes, DispatcherKilled, storeVars, worldVars
    <2>4. ASSUME NEW a \in Artifacts, Tamper(a[1], a[2]) \/ Mend(a[1], a[2]) PROVE CommandTypes'
      <3>1. a[1] \in Packs /\ a[2] \in Versions /\ <<a[1], a[2]>> \in Artifacts
        BY DEF Artifacts
      <3>2. code' \in [Packs -> [Versions -> {"whole", "torn", "absent"}]]
        <4>1. PICK s \in {"whole", "torn"} : code' = [code EXCEPT ![a[1]][a[2]] = s]
          BY <2>4 DEF Tamper, Mend
        <4>2. QED
          BY <3>1, <4>1, StageTypes
      <3>3. tampered' \subseteq Artifacts
        <4>1. tampered \subseteq Artifacts
          BY <1>0 DEF CommandTypes
        <4>2. tampered' = tampered \/ tampered' = tampered \cup {<<a[1], a[2]>>}
          BY <2>4 DEF Tamper, Mend
        <4>3. QED
          BY <3>1, <4>1, <4>2
      <3>4. QED
        BY <1>0, <2>4, <3>2, <3>3 DEF CommandTypes, Tamper, Mend, cliVars
    <2>5. QED
      BY <1>5, <2>1, <2>2, <2>3, <2>4 DEF Surroundings
  <1>6. QED
    BY <1>1, <1>2, <1>3, <1>4, <1>5

\* So does the scheduler.
LEMMA TypesOfScheduler ==
  ASSUME TypeOK, LeaseInv,
         SchedulerStep \/ Terminated \/ SchedulerKilled \/ \E p \in Packs : IntervalPasses(p)
  PROVE  TypeOK'
  <1>0. CommandTypes /\ SchedulerTypes
    BY TypesApart
  <1>1. sched.at \in Underway => Head1[1] \in Packs /\ Head1[2] \in Versions \cup {None}
    BY DueFacts DEF LeaseInv
  <1>2. CASE Wake
    <2>1. failures' \in [Packs -> [version : Versions \cup {None}, count : Nat, quarantined : BOOLEAN]]
      <3>1. ASSUME NEW p \in Packs
            PROVE  Accounted(p) \in [version : Versions \cup {None}, count : Nat, quarantined : BOOLEAN]
        <4>1. /\ failures[p] \in [version : Versions \cup {None}, count : Nat, quarantined : BOOLEAN]
              /\ registry[p].selected \in Versions \cup {None} /\ registry[p].enabled \in BOOLEAN
          BY <1>0 DEF SchedulerTypes, CommandTypes, Registries
        <4> DEFINE more == IF failures[p].version = registry[p].selected THEN failures[p].count + 1 ELSE 1
        <4>2. more \in Nat /\ (more >= Threshold) \in BOOLEAN
          BY <4>1
        <4> HIDE DEF more
        <4>3. NoFailures \in [version : Versions \cup {None}, count : Nat, quarantined : BOOLEAN]
          BY DEF NoFailures
        <4>4. [version |-> registry[p].selected, count |-> more, quarantined |-> more >= Threshold]
                \in [version : Versions \cup {None}, count : Nat, quarantined : BOOLEAN]
          BY <4>1, <4>2
        <4>5. \/ Accounted(p) = NoFailures \/ Accounted(p) = failures[p]
              \/ Accounted(p) = [version |-> registry[p].selected, count |-> more,
                                 quarantined |-> more >= Threshold]
          BY DEF Accounted, more
        <4>6. QED
          BY <4>1, <4>3, <4>4, <4>5
      <3>2. failures' = [p \in Packs |-> Accounted(p)]
        BY <1>2 DEF Wake
      <3>3. QED
        BY <3>1, <3>2
    <2>2. jobs' \in [Packs -> [version : Versions \cup {None}, phase : {"none", "running", "ended"},
                             later : BOOLEAN]]
      BY <1>0, <1>2 DEF Wake, SchedulerTypes, NoJob
    <2>3. sched' \in [at : {"idle", "jobs"} \cup Underway, due : Seq(Packs \X (Versions \cup {None}))]
      <3> DEFINE d == Among(PackOrder, {p \in Tasks : Due(p)})
      <3>1. d \in Seq(Packs)
        <4>1. PackOrder \in Seq(Packs)
          BY CommandsAssumption
        <4>2. d \in Seq(Packs \cap {p \in Tasks : Due(p)})
          BY <4>1, AmongFacts
        <4>3. QED
          BY <4>2, SeqMonotonic
      <3>2. sched' = [at |-> "jobs", due |-> [i \in DOMAIN d |-> <<d[i], registry[d[i]].selected>>]]
        BY <1>2 DEF Wake
      <3> HIDE DEF d
      <3>3. Len(d) \in Nat /\ DOMAIN d = 1..Len(d) /\ \A i \in 1..Len(d) : d[i] \in Packs
        BY <3>1
      <3>4. \A i \in 1..Len(d) : registry[d[i]].selected \in Versions \cup {None}
        BY <1>0, <3>3 DEF CommandTypes, Registries
      <3>5. [i \in 1..Len(d) |-> <<d[i], registry[d[i]].selected>>]
              \in Seq(Packs \X (Versions \cup {None}))
        BY <3>3, <3>4, IsASeq
      <3>6. QED
        BY <3>2, <3>3, <3>5
    <2>4. CommandTypes'
      BY <1>0, <1>2 DEF Wake, CommandTypes, commandVars, storeVars, cliVars
    <2>5. QED
      BY <2>1, <2>2, <2>3, <2>4 DEF TypeOK, CommandTypes
  <1>3. CASE JobStarts
    <2>1. Head1[1] \in Packs /\ Head1[2] \in Versions \cup {None}
      BY <1>3, DueFacts DEF JobStarts
    <2>2. lease' \in [Packs \cup {Global} -> Cli \cup {None, Scheduler, Orphan}]
      BY <1>0, <1>3, <2>1 DEF JobStarts, CommandTypes
    <2>3. jobs' \in [Packs -> [version : Versions \cup {None}, phase : {"none", "running", "ended"},
                             later : BOOLEAN]]
      BY <1>0, <1>3, <2>1 DEF JobStarts, SchedulerTypes
    <2>4. sched' \in [at : {"idle", "jobs"} \cup Underway, due : Dues]
      BY <1>3, DueFacts DEF JobStarts, Underway
    <2>5. QED
      BY <1>0, <1>3, <2>2, <2>3, <2>4
      DEF JobStarts, TypeOK, CommandTypes, SchedulerTypes, storeVars, worldVars, Dues
  <1>4. CASE JobChanged \/ Busy \/ Finish
    <2>1. /\ UNCHANGED <<commandVars, jobs, failures>>
          /\ sched' = Asleep \/ (sched.due # <<>> /\ sched' = [sched EXCEPT !.due = Tail(@)])
      BY <1>4 DEF JobChanged, Busy, Finish
    <2>2. sched' \in [at : {"idle", "jobs"} \cup Underway, due : Dues]
      BY <2>1, DueFacts
    <2>3. QED
      BY <1>0, <2>1, <2>2 DEF TypeOK, CommandTypes, SchedulerTypes, commandVars, storeVars, cliVars, Dues
  <1>5. CASE ProviderStarts \/ ProviderEnds \/ Terminated
    <2>1. /\ UNCHANGED <<storeVars, proc, profile, lease, worldVars, count, jobs, failures>>
          /\ sched' = [sched EXCEPT !.at = "running"] \/ sched' = [sched EXCEPT !.at = "settling"]
          /\ \/ child' = child \/ child' = [child EXCEPT ![Head1[1]] = None]
             \/ sched.at = "starting" /\ child' = [child EXCEPT ![Head1[1]] = Head1[2]]
      BY <1>5 DEF ProviderStarts, ProviderEnds, Terminated
    <2>2. sched' \in [at : {"idle", "jobs"} \cup Underway, due : Dues]
      BY <2>1, DueFacts DEF Underway
    <2>3. child' \in [Packs -> Versions \cup {None}]
      BY <1>0, <1>1, <2>1 DEF CommandTypes, Underway
    <2>4. QED
      BY <1>0, <2>1, <2>2, <2>3
      DEF TypeOK, CommandTypes, SchedulerTypes, storeVars, worldVars, Dues
  <1>6. CASE Settle
    <2>1. sched.due # <<>> /\ Head1[1] \in Packs
      BY <1>1, <1>6 DEF Settle, LeaseInv, Underway
    <2>2. lease' \in [Packs \cup {Global} -> Cli \cup {None, Scheduler, Orphan}]
      BY <1>0, <1>6 DEF Settle, CommandTypes
    <2>3. sched' \in [at : {"idle", "jobs"} \cup Underway, due : Dues]
      <3>1. sched' = Asleep \/ sched' = [at |-> "jobs", due |-> Tail(sched.due)]
        BY <1>6 DEF Settle
      <3>2. QED
        <4>1. Tail(sched.due) \in Dues
          BY <2>1, DueFacts
        <4>2. [at |-> "jobs", due |-> Tail(sched.due)]
                \in [at : {"idle", "jobs"} \cup Underway, due : Dues]
          BY <4>1
        <4>3. QED
          BY <3>1, <4>2, DueFacts
    <2>4. jobs' \in [Packs -> [version : Versions \cup {None}, phase : {"none", "running", "ended"},
                             later : BOOLEAN]]
      <3>1. \/ jobs' = jobs
            \/ jobs' = [jobs EXCEPT ![Head1[1]].phase = "ended", ![Head1[1]].later = TRUE]
        BY <1>6 DEF Settle
      <3> DEFINE j == jobs[Head1[1]]
      <3>2. [j EXCEPT !.phase = "ended", !.later = TRUE]
              \in [version : Versions \cup {None}, phase : {"none", "running", "ended"}, later : BOOLEAN]
        <4>1. j \in [version : Versions \cup {None}, phase : {"none", "running", "ended"}, later : BOOLEAN]
          BY <1>0, <2>1 DEF SchedulerTypes
        <4> HIDE DEF j
        <4>2. QED
          BY <4>1
      <3>3. \/ jobs' = jobs
            \/ jobs' = [jobs EXCEPT ![Head1[1]] = [j EXCEPT !.phase = "ended", !.later = TRUE]]
        BY <1>0, <2>1, <3>1 DEF SchedulerTypes
      <3> HIDE DEF j
      <3>4. QED
        BY <1>0, <2>1, <3>2, <3>3 DEF SchedulerTypes
    <2>5. QED
      BY <1>0, <1>6, <2>2, <2>3, <2>4
      DEF Settle, TypeOK, CommandTypes, SchedulerTypes, storeVars, worldVars, Dues
  <1>7. CASE SchedulerKilled
    <2>1. count' \in [{"commands", "cuts", "switches"} -> Nat]
      BY <1>7, SpendsType DEF SchedulerKilled
    <2>2. lease' \in [Packs \cup {Global} -> Cli \cup {None, Scheduler, Orphan}]
      BY <1>0, <1>7 DEF SchedulerKilled, CommandTypes
    <2>3. sched' \in [at : {"idle", "jobs"} \cup Underway, due : Dues]
      BY <1>7, EmptySeq DEF SchedulerKilled, Asleep, Dues
    <2>4. QED
      BY <1>0, <1>7, <2>1, <2>2, <2>3
      DEF SchedulerKilled, TypeOK, CommandTypes, SchedulerTypes, storeVars, worldVars, Dues
  <1>8. CASE \E p \in Packs : IntervalPasses(p)
    <2>1. PICK p \in Packs : jobs' = [jobs EXCEPT ![p].later = FALSE]
                             /\ UNCHANGED <<commandVars, sched, failures>>
      BY <1>8 DEF IntervalPasses
    <2>2. jobs' \in [Packs -> [version : Versions \cup {None}, phase : {"none", "running", "ended"},
                             later : BOOLEAN]]
      <3> DEFINE j == [jobs[p] EXCEPT !.later = FALSE]
      <3>1. jobs[p] \in [version : Versions \cup {None}, phase : {"none", "running", "ended"},
                         later : BOOLEAN]
        BY <1>0 DEF SchedulerTypes
      <3>2. j \in [version : Versions \cup {None}, phase : {"none", "running", "ended"}, later : BOOLEAN]
        BY <3>1
      <3>3. jobs' = [jobs EXCEPT ![p] = j]
        BY <1>0, <2>1 DEF SchedulerTypes
      <3> HIDE DEF j
      <3>4. QED
        BY <1>0, <3>2, <3>3 DEF SchedulerTypes
    <2>3. QED
      BY <1>0, <2>1, <2>2
      DEF TypeOK, CommandTypes, SchedulerTypes, commandVars, storeVars, cliVars
  <1>9. QED
    BY <1>2, <1>3, <1>4, <1>5, <1>6, <1>7, <1>8 DEF SchedulerStep

\* Every step keeps the types.
LEMMA TypeStep ==
  ASSUME TypeOK, LeaseInv, Loads(registry), [Next]_vars
  PROVE  TypeOK'
  <1>1. CASE UNCHANGED vars
    BY <1>1 DEF TypeOK, vars, commandVars, storeVars, cliVars, backgroundVars
  <1>2. CASE SchedulerStep \/ Terminated \/ SchedulerKilled \/ \E p \in Packs : IntervalPasses(p)
    BY <1>2, TypesOfScheduler
  <1>3. CASE /\ UNCHANGED backgroundVars
             /\ \/ \E c \in Cli : Continues(c) \/ Reconcile(c, Tasks) \/ Starts(c)
                \/ \E p \in Packs : OrphanEnds(p)
                \/ Surroundings \/ TurnOn(Tasks)
    <2>1. CommandTypes'
      BY <1>3, TypesOfContinuing, TypesOfTheRest
    <2>2. SchedulerTypes'
      BY <1>3, TypesApart DEF SchedulerTypes, backgroundVars
    <2>3. QED
      BY <2>1, <2>2 DEF TypeOK, CommandTypes, SchedulerTypes
  <1>4. QED
    BY <1>1, <1>2, <1>3 DEF Next, CommandStep

-----------------------------------------------------------------------------
(* Leases.                                                                 *)

\* A process that did nothing holds what it held.
LEMMA HoldsStay ==
  ASSUME TypeOK, NEW d \in Cli, Holds(d), proc'[d] = proc[d],
         profile = d => profile' = d /\ registry' = registry,
         \A x \in Packs : lease[x] = d => lease'[x] = d
  PROVE  Holds(d)'
  <1>1. proc[d].op \in Keyed => proc[d].pack \in Packs
    BY DEF Holds
  <1>2. proc[d].at = "removing" => proc[d].at \in Published
    BY DEF Published
  <1>3. proc[d].at \in {"checking", "running"} => proc[d].pack \in Packs
    BY DEF Holds
  <1>4. QED
    BY <1>1, <1>2, <1>3 DEF Holds

\* What the step of one process leaves to the others.
Frame(c) ==
  /\ \A d \in Cli \ {c} : proc'[d] = proc[d]
  /\ \A x \in Packs \cup {Global} : lease[x] \notin {c, None} => lease'[x] = lease[x]
  /\ profile \notin {c, None} => profile' = profile /\ registry' = registry
  /\ sched' = sched

\* A process that respects the frame keeps the leases in order.
LEMMA LeasesStay ==
  ASSUME TypeOK, LeaseInv, NEW c \in Cli, Frame(c), Holds(c)'
  PROVE  LeaseInv'
  <1>1. ASSUME NEW d \in Cli, d # c PROVE Holds(d)'
    <2>1. d # None /\ Holds(d)
      BY CommandsAssumption DEF LeaseInv
    <2>2. /\ proc'[d] = proc[d]
          /\ profile = d => profile' = d /\ registry' = registry
          /\ \A x \in Packs : lease[x] = d => lease'[x] = d
      BY <1>1, <2>1 DEF Frame
    <2>3. QED
      BY <2>1, <2>2, HoldsStay
  <1>2. ASSUME sched'.at \in Underway
        PROVE  sched'.due # <<>> /\ lease'[Head1[1]] = Scheduler /\ Head1' = Head1
    <2>1. sched' = sched
      BY DEF Frame
    <2>2. sched.due # <<>> /\ lease[Head1[1]] = Scheduler
      BY <1>2, <2>1 DEF LeaseInv
    <2>3. Head1[1] \in Packs
      BY <2>2, DueFacts
    <2>4. Scheduler \notin {c, None}
      BY CommandsAssumption
    <2>5. QED
      BY <2>1, <2>2, <2>3, <2>4 DEF Frame, Head1
  <1>3. QED
    BY <1>1, <1>2 DEF LeaseInv

\* A process that ended holds nothing.
LEMMA IdleHolds == ASSUME NEW c \in Cli, proc'[c] = Idle PROVE Holds(c)'
  <1>1. /\ proc'[c].at = "idle" /\ proc'[c].op = None
        /\ None \notin Stages \cup Keyed
    BY CommandsAssumption DEF Idle
  <1>2. /\ "enable" \in Keyed /\ "idle" \notin Published
    BY DEF Keyed, Published
  <1>3. QED
    BY <1>1, <1>2 DEF Holds

\* A process that ends respects the frame.
LEMMA LeavingFrame ==
  ASSUME TypeOK, NEW c \in Cli, Leaves(c), sched' = sched,
         profile \notin {c, None} => registry' = registry
  PROVE  Frame(c) /\ Holds(c)'
  BY LeavesFacts, IdleHolds DEF Frame

\* Every step of a command or a run respects the frame.
LEMMA CommandFrames ==
  ASSUME TypeOK, LeaseInv, NEW c \in Cli,
         Continues(c) \/ Reconcile(c, Tasks) \/ Starts(c) \/ Interrupted(c) \/ DispatcherKilled(c),
         UNCHANGED backgroundVars
  PROVE  Frame(c) /\ Holds(c)'
  <1>0. /\ sched' = sched /\ Holds(c) /\ proc \in [Cli -> Processes]
        /\ lease \in [Packs \cup {Global} -> Cli \cup {None, Scheduler, Orphan}]
    BY DEF backgroundVars, LeaseInv, TypeOK
  <1>1. CASE TakeProfile(c)
    <2>1. /\ proc[c].at = "locking" /\ profile = None /\ profile' = c /\ lease' = lease
          /\ registry' = registry
          /\ Goto(c, IF proc[c].op \in Stages THEN "staging" ELSE "changing")
      BY <1>1 DEF TakeProfile, storeVars
    <2> DEFINE at == IF proc[c].op \in Stages THEN "staging" ELSE "changing"
    <2>2. /\ proc'[c] = [proc[c] EXCEPT !.at = at] /\ \A d \in Cli \ {c} : proc'[d] = proc[d]
      BY <2>1, GotoFacts DEF Published
    <2>3. /\ proc'[c].at = at /\ proc'[c].op = proc[c].op /\ proc'[c].pack = proc[c].pack
          /\ proc'[c].version = proc[c].version
      BY <1>0, <2>2 DEF Processes
    <2>4. Frame(c)
      BY <1>0, <2>1, <2>2 DEF Frame
    <2>5. Holds(c)'
      BY <1>0, <2>1, <2>3 DEF Holds, Published, Stages
    <2>6. QED
      BY <2>4, <2>5
  <1>2. CASE Stage(c) \/ AlreadyConfigured(c)
    <2>1. /\ proc[c].at = "staging" /\ UNCHANGED <<profile, lease, registry>>
          /\ Goto(c, "recording") \/ Goto(c, "reconciling")
      BY <1>2 DEF Stage, AlreadyConfigured, storeVars
    <2>2. PICK at \in {"recording", "reconciling"} :
            /\ proc'[c] = [proc[c] EXCEPT !.at = at] /\ \A d \in Cli \ {c} : proc'[d] = proc[d]
      BY <2>1, GotoFacts DEF Published
    <2>3. /\ proc'[c].at = at /\ proc'[c].op = proc[c].op /\ proc'[c].pack = proc[c].pack
          /\ proc'[c].version = proc[c].version
      BY <1>0, <2>2 DEF Processes
    <2>4. Frame(c)
      BY <1>0, <2>1, <2>2 DEF Frame
    <2>5. Holds(c)'
      BY <1>0, <2>1, <2>3 DEF Holds, Published, Stages
    <2>6. QED
      BY <2>4, <2>5
  <1>3. CASE Record(c)
    <2>1. /\ proc[c].at = "recording" /\ UNCHANGED <<profile, lease>>
          /\ Goto(c, IF proc[c].op = "add" \/ (proc[c].op = "update" /\ registry[proc[c].pack].enabled)
                     THEN "changing" ELSE "reconciling")
      BY <1>3 DEF Record
    <2>2. PICK at \in {"changing", "reconciling"} :
            /\ proc'[c] = [proc[c] EXCEPT !.at = at] /\ \A d \in Cli \ {c} : proc'[d] = proc[d]
            /\ at = "changing" => proc[c].op # "install"
      BY <2>1, GotoFacts DEF Published
    <2>3. /\ proc'[c].at = at /\ proc'[c].op = proc[c].op /\ proc'[c].pack = proc[c].pack
          /\ proc'[c].version = proc[c].version
      BY <1>0, <2>2 DEF Processes
    <2>4. profile = c
      BY <1>0, <2>1 DEF Holds, Published
    <2>5. Frame(c)
      BY <1>0, <2>1, <2>2, <2>4 DEF Frame
    <2>6. Holds(c)'
      BY <1>0, <2>1, <2>2, <2>3 DEF Holds, Published, Stages
    <2>7. QED
      BY <2>5, <2>6
  <1>4. CASE Change(c) \/ RecordRemoval(c)
    <2>1. /\ proc[c].at \in {"changing", "removing"} /\ UNCHANGED <<profile, lease>>
          /\ Goto(c, "reconciling")
      BY <1>4 DEF Change, RecordRemoval
    <2>2. /\ proc'[c] = [proc[c] EXCEPT !.at = "reconciling"]
          /\ \A d \in Cli \ {c} : proc'[d] = proc[d]
      BY <2>1, GotoFacts DEF Published
    <2>3. /\ proc'[c].at = "reconciling" /\ proc'[c].op = proc[c].op /\ proc'[c].pack = proc[c].pack
          /\ proc'[c].version = proc[c].version
      BY <1>0, <2>2 DEF Processes
    <2>4. profile = c
      BY <1>0, <2>1 DEF Holds, Published
    <2>5. Frame(c)
      BY <1>0, <2>1, <2>2, <2>4 DEF Frame
    <2>6. Holds(c)'
      BY <1>0, <2>1, <2>3 DEF Holds, Published
    <2>7. QED
      BY <2>5, <2>6
  <1>5. CASE StartRemoval(c)
    <2>1. /\ proc[c].at = "changing" /\ proc[c].op = "uninstall" /\ Accepts(c)
          /\ proc' = [proc EXCEPT ![c].at = "removing", ![c].gone = Gone(c), ![c].left = Gone(c)]
          /\ UNCHANGED <<profile, lease, registry>>
      BY <1>5 DEF StartRemoval, storeVars
    <2>2. /\ proc'[c].at = "removing" /\ proc'[c].op = proc[c].op /\ proc'[c].pack = proc[c].pack
          /\ proc'[c].version = proc[c].version /\ \A d \in Cli \ {c} : proc'[d] = proc[d]
      BY <1>0, <2>1 DEF Processes
    <2>3. ~registry[proc[c].pack].enabled
      BY <2>1 DEF Accepts, UninstallAccepts
    <2>4. Frame(c)
      BY <1>0, <2>1, <2>2 DEF Frame
    <2>5. Holds(c)'
      BY <1>0, <2>1, <2>2, <2>3 DEF Holds, Published
    <2>6. QED
      BY <2>4, <2>5
  <1>6. CASE RemoveTree(c)
    <2>1. PICK v : /\ proc' = [proc EXCEPT ![c].left = @ \ {v}]
                   /\ UNCHANGED <<profile, lease, registry>>
      BY <1>6 DEF RemoveTree
    <2>2. /\ proc'[c].at = proc[c].at /\ proc'[c].op = proc[c].op /\ proc'[c].pack = proc[c].pack
          /\ proc'[c].version = proc[c].version /\ \A d \in Cli \ {c} : proc'[d] = proc[d]
      BY <1>0, <2>1 DEF Processes
    <2>3. Frame(c)
      BY <1>0, <2>1, <2>2 DEF Frame
    <2>4. Holds(c)'
      BY <1>0, <2>1, <2>2 DEF Holds
    <2>5. QED
      BY <2>3, <2>4
  <1>7. CASE Refused(c) \/ RunRefused(c) \/ RunEnds(c) \/ Reconcile(c, Tasks) \/ Interrupted(c)
    <2>1. Leaves(c) /\ registry' = registry
      BY <1>7 DEF Refused, RunRefused, RunEnds, Reconcile, Interrupted, storeVars
    <2>2. QED
      BY <1>0, <2>1, LeavingFrame
  <1>8. CASE LeaseRun(c)
    <2>1. /\ proc[c].at = "leasing" /\ lease[proc[c].pack] = None
          /\ lease' = [lease EXCEPT ![proc[c].pack] = c]
          /\ Goto(c, "checking") /\ UNCHANGED <<profile, registry>>
      BY <1>8 DEF LeaseRun, storeVars
    <2>2. /\ proc'[c] = [proc[c] EXCEPT !.at = "checking"]
          /\ \A d \in Cli \ {c} : proc'[d] = proc[d]
      BY <2>1, GotoFacts
    <2>3. /\ proc'[c].at = "checking" /\ proc'[c].op = proc[c].op /\ proc'[c].pack = proc[c].pack
          /\ proc'[c].version = proc[c].version
      BY <1>0, <2>2 DEF Processes
    <2>4. proc[c].pack \in Packs /\ proc[c].op = "run"
      BY <1>0, <2>1 DEF Holds
    <2>5. lease'[proc[c].pack] = c
      BY <1>0, <2>1, <2>4
    <2>6. Frame(c)
      BY <1>0, <2>1, <2>2 DEF Frame
    <2>7. Holds(c)'
      BY <1>0, <2>3, <2>4, <2>5 DEF Holds, Published, Stages, Keyed
    <2>8. QED
      BY <2>6, <2>7
  <1>9. CASE StartRun(c)
    <2>1. /\ proc[c].at = "checking" /\ Goto(c, "running") /\ UNCHANGED <<profile, registry, lease>>
      BY <1>9 DEF StartRun, storeVars
    <2>2. /\ proc'[c] = [proc[c] EXCEPT !.at = "running"]
          /\ \A d \in Cli \ {c} : proc'[d] = proc[d]
      BY <2>1, GotoFacts
    <2>3. /\ proc'[c].at = "running" /\ proc'[c].op = proc[c].op /\ proc'[c].pack = proc[c].pack
          /\ proc'[c].version = proc[c].version
      BY <1>0, <2>2 DEF Processes
    <2>4. Frame(c)
      BY <1>0, <2>1, <2>2 DEF Frame
    <2>5. Holds(c)'
      BY <1>0, <2>1, <2>3 DEF Holds, Published
    <2>6. QED
      BY <2>4, <2>5
  <1>10. CASE DispatcherKilled(c)
    <2>1. /\ proc[c].at = "running" /\ proc' = [proc EXCEPT ![c] = Idle]
          /\ lease' = [lease EXCEPT ![proc[c].pack] = Orphan] /\ UNCHANGED <<profile, registry>>
      BY <1>10 DEF DispatcherKilled, storeVars
    <2>2. lease[proc[c].pack] = c
      BY <1>0, <2>1 DEF Holds
    <2>3. proc'[c] = Idle /\ \A d \in Cli \ {c} : proc'[d] = proc[d]
      BY <1>0, <2>1
    <2>4. Frame(c)
      BY <1>0, <2>1, <2>2, <2>3 DEF Frame
    <2>5. QED
      BY <2>3, <2>4, IdleHolds
  <1>11. CASE Starts(c)
    <2>1. CASE BeginRun(c)
      <3>1. PICK p \in Packs :
           /\ \A d \in Cli \ {c} : proc'[d] = proc[d]
           /\ proc'[c].op = "run" /\ proc'[c].at = "leasing" /\ proc'[c].pack = p
           /\ UNCHANGED <<storeVars, profile, lease, child, worldVars>>
        BY <2>1, RunBegins
      <3>2. Frame(c)
        BY <1>0, <3>1 DEF Frame, storeVars
      <3>3. Holds(c)'
        BY <3>1 DEF Holds, Published, Stages, Keyed
      <3>4. QED
        BY <3>2, <3>3
    <2>2. CASE ~BeginRun(c)
      <3>1. PICK o \in Stages \cup Keyed, p \in Packs, v \in Versions \cup {None},
                 g \in SUBSET Capabilities :
              /\ Begin(c, o, p, v, g)
              /\ o \in Stages \cup {"enable"} => v # None
        BY <1>11, <2>2, CommandBegins DEF Starts
      <3>2. /\ \A d \in Cli \ {c} : proc'[d] = proc[d]
            /\ proc'[c].op = o /\ proc'[c].at = "locking" /\ proc'[c].pack = p /\ proc'[c].version = v
            /\ o \in Keyed => lease'[p] = c
            /\ \A x \in Packs \cup {Global} : lease[x] # None => lease'[x] = lease[x]
            /\ UNCHANGED <<storeVars, profile, child, worldVars>>
        BY <3>1, BeginFacts
      <3>3. Frame(c)
        BY <1>0, <3>2 DEF Frame, storeVars
      <3>4. Holds(c)'
        BY <3>1, <3>2 DEF Holds, Published
      <3>5. QED
        BY <3>3, <3>4
    <2>3. QED
      BY <2>1, <2>2
  <1>12. QED
    BY <1>1, <1>2, <1>3, <1>4, <1>5, <1>6, <1>7, <1>8, <1>9, <1>10, <1>11 DEF Continues

\* What leaves the processes and their leases alone.
LEMMA ProcessesStay ==
  ASSUME TypeOK, LeaseInv, UNCHANGED <<proc, profile, registry>>,
         \A x \in Packs : lease[x] \in Cli => lease'[x] = lease[x]
  PROVE  \A c \in Cli : Holds(c)'
  <1>1. ASSUME NEW c \in Cli PROVE Holds(c)'
    <2>1. Holds(c)
      BY DEF LeaseInv
    <2>2. \A x \in Packs : lease[x] = c => lease'[x] = c
      OBVIOUS
    <2>3. QED
      BY <2>1, <2>2, HoldsStay
  <1>2. QED
    BY <1>1

\* Every step keeps the leases in order.
LEMMA LeaseStep ==
  ASSUME TypeOK, LeaseInv, [Next]_vars
  PROVE  LeaseInv'
  <1>0. /\ lease \in [Packs \cup {Global} -> Cli \cup {None, Scheduler, Orphan}]
        /\ None \notin Cli /\ Scheduler \notin Cli /\ Orphan \notin Cli
        /\ Scheduler # Orphan /\ Scheduler # None /\ Orphan # None
        /\ sched.at \in Underway => sched.due # <<>> /\ lease[Head1[1]] = Scheduler
    BY CommandsAssumption DEF TypeOK, LeaseInv
  <1>1. CASE UNCHANGED vars
    <2>1. UNCHANGED <<proc, profile, registry, lease, sched>>
      BY <1>1 DEF vars, commandVars, storeVars, cliVars, backgroundVars
    <2>2. \A c \in Cli : Holds(c)'
      BY <2>1, ProcessesStay
    <2>3. QED
      BY <1>0, <2>1, <2>2 DEF LeaseInv, Head1
  <1>2. ASSUME NEW c \in Cli, UNCHANGED backgroundVars,
               Continues(c) \/ Reconcile(c, Tasks) \/ Starts(c) \/ Interrupted(c) \/ DispatcherKilled(c)
        PROVE  LeaseInv'
    BY <1>2, CommandFrames, LeasesStay
  <1>3. ASSUME UNCHANGED backgroundVars,
               \/ \E p \in Packs : OrphanEnds(p)
               \/ TurnOn(Tasks) \/ TurnOff
               \/ \E a \in Artifacts : Tamper(a[1], a[2]) \/ Mend(a[1], a[2])
        PROVE  LeaseInv'
    <2>1. /\ UNCHANGED <<proc, profile, registry, sched>>
          /\ \A x \in Packs : lease[x] \in Cli \cup {Scheduler} => lease'[x] = lease[x]
      <3>1. CASE \E p \in Packs : OrphanEnds(p)
        BY <1>0, <1>3, <3>1 DEF OrphanEnds, storeVars, backgroundVars
      <3>2. CASE ~\E p \in Packs : OrphanEnds(p)
        BY <1>3, <3>2 DEF TurnOn, TurnOff, Tamper, Mend, storeVars, cliVars, backgroundVars
      <3>3. QED
        BY <3>1, <3>2
    <2>2. \A c \in Cli : Holds(c)'
      BY <2>1, ProcessesStay
    <2>3. sched.at \in Underway => Head1[1] \in Packs
      BY <1>0, DueFacts
    <2>4. QED
      BY <1>0, <2>1, <2>2, <2>3 DEF LeaseInv, Head1
  <1>4. CASE Wake \/ JobChanged \/ Busy \/ Finish \/ \E p \in Packs : IntervalPasses(p)
    <2>1. /\ UNCHANGED commandVars
          /\ sched'.at \in {"idle", "jobs"} \/ sched' = sched
      <3>1. CASE JobChanged
        <4>1. sched' = [sched EXCEPT !.due = Tail(@)] /\ sched.at = "jobs"
          BY <3>1 DEF JobChanged
        <4>2. sched'.at = "jobs"
          BY <4>1 DEF TypeOK
        <4>3. QED
          BY <3>1, <4>2 DEF JobChanged
      <3>2. CASE ~JobChanged
        BY <1>4, <3>2 DEF Wake, Busy, Finish, IntervalPasses, Asleep
      <3>3. QED
        BY <3>1, <3>2
    <2>2. UNCHANGED <<proc, profile, registry, lease>>
      BY <2>1 DEF commandVars, storeVars, cliVars
    <2>3. \A c \in Cli : Holds(c)'
      BY <2>2, ProcessesStay
    <2>4. sched'.at \in Underway => sched' = sched
      BY <2>1 DEF Underway
    <2>5. QED
      BY <1>0, <2>2, <2>3, <2>4 DEF LeaseInv, Head1
  <1>5. CASE JobStarts
    <2>1. /\ UNCHANGED <<storeVars, proc, profile>> /\ sched.due # <<>>
          /\ lease[Head1[1]] = None /\ lease' = [lease EXCEPT ![Head1[1]] = Scheduler]
          /\ sched' = [sched EXCEPT !.at = "starting"]
      BY <1>5 DEF JobStarts
    <2>2. Head1[1] \in Packs /\ sched'.due = sched.due /\ Head1' = Head1
      BY <2>1, DueFacts DEF Underway, Head1
    <2>3. \A c \in Cli : Holds(c)'
      BY <1>0, <2>1, <2>2, ProcessesStay DEF storeVars
    <2>4. lease'[Head1[1]] = Scheduler
      BY <1>0, <2>1, <2>2
    <2>5. QED
      BY <2>1, <2>2, <2>3, <2>4 DEF LeaseInv
  <1>6. CASE ProviderStarts \/ ProviderEnds \/ Terminated
    <2>1. /\ UNCHANGED <<storeVars, proc, profile, lease>> /\ sched.at \in Underway
          /\ sched' = [sched EXCEPT !.at = "running"] \/ sched' = [sched EXCEPT !.at = "settling"]
      BY <1>6 DEF ProviderStarts, ProviderEnds, Terminated, Underway
    <2>2. sched'.due = sched.due /\ Head1' = Head1
      BY <2>1, DueFacts DEF Underway, Head1
    <2>3. \A c \in Cli : Holds(c)'
      BY <2>1, ProcessesStay DEF storeVars
    <2>4. QED
      BY <1>0, <2>1, <2>2, <2>3 DEF LeaseInv
  <1>7. CASE Settle \/ SchedulerKilled
    <2>1. /\ UNCHANGED <<storeVars, proc, profile>> /\ sched'.at \in {"idle", "jobs"}
          /\ \A x \in Packs : lease[x] \in Cli => lease'[x] = lease[x]
      <3>1. CASE Settle
        BY <1>0, <3>1 DEF Settle, Asleep, Underway
      <3>2. CASE SchedulerKilled
        BY <1>0, <3>2 DEF SchedulerKilled, Asleep
      <3>3. QED
        BY <1>7, <3>1, <3>2
    <2>2. \A c \in Cli : Holds(c)'
      BY <2>1, ProcessesStay DEF storeVars
    <2>3. QED
      BY <2>1, <2>2 DEF LeaseInv, Underway
  <1>8. QED
    BY <1>1, <1>2, <1>3, <1>4, <1>5, <1>6, <1>7
    DEF Next, CommandStep, Surroundings, SchedulerStep

-----------------------------------------------------------------------------
(* Providers that run.                                                     *)

\* The step leaves alone the code that c's command has no business with.
CodeKept(c) ==
  \A p \in Packs : lease[p] \notin {c, None} =>
    /\ registry[p].versions \subseteq registry'[p].versions
    /\ \A v \in Versions : code[p][v] = "whole" => code'[p][v] = "whole" \/ <<p, v>> \in tampered'

\* Such a step leaves the providers that run their code and lease.
LEMMA ProvidersStay ==
  ASSUME TypeOK, LeaseInv, ChildInv, RunningCodeStays, NEW c \in Cli, Frame(c), CodeKept(c),
         proc[c].at # "running", child' = child, tampered \subseteq tampered'
  PROVE  ChildInv' /\ RunningCodeStays'
  <1>0. /\ None \notin Cli /\ Scheduler \notin Cli /\ Orphan \notin Cli
        /\ Scheduler # Orphan /\ Scheduler # None /\ Orphan # None /\ sched' = sched
        /\ child \in [Packs -> Versions \cup {None}]
        /\ sched.at \in Underway => sched.due # <<>> /\ lease[Head1[1]] = Scheduler
    BY CommandsAssumption DEF TypeOK, LeaseInv, Frame
  <1>1. ASSUME NEW p \in Packs, child[p] # None
        PROVE  Minded(p)' /\ lease[p] \notin {c, None}
    <2>1. Minded(p)
      BY <1>1 DEF ChildInv
    <2>2. CASE lease[p] = Orphan \/ lease[p] = Scheduler
      BY <1>0, <2>1, <2>2 DEF Minded, Frame, Head1
    <2>3. CASE \E d \in Cli : lease[p] = d /\ proc[d].at = "running" /\ proc[d].pack = p
      <3>1. PICK d \in Cli : lease[p] = d /\ proc[d].at = "running" /\ proc[d].pack = p
        BY <2>3
      <3>2. d # c /\ d # None
        BY <1>0, <3>1
      <3>3. lease'[p] = d /\ proc'[d] = proc[d]
        BY <3>1, <3>2 DEF Frame
      <3>4. QED
        BY <3>1, <3>2, <3>3 DEF Minded
    <2>4. QED
      BY <2>1, <2>2, <2>3 DEF Minded
  <1>2. ASSUME NEW p \in Packs, child[p] # None
        PROVE  /\ child[p] \in registry'[p].versions
               /\ <<p, child[p]>> \in tampered' \/ code'[p][child[p]] = "whole"
    <2>1. /\ child[p] \in registry[p].versions
          /\ <<p, child[p]>> \in tampered \/ code[p][child[p]] = "whole"
      BY <1>2 DEF RunningCodeStays
    <2>2. child[p] \in Versions
      BY <1>0, <1>2
    <2>3. QED
      BY <1>1, <1>2, <2>1, <2>2 DEF CodeKept
  <1>3. ASSUME sched.at = "starting"
        PROVE  /\ Head1[2] \in registry'[Head1[1]].versions
               /\ <<Head1[1], Head1[2]>> \in tampered' \/ code'[Head1[1]][Head1[2]] = "whole"
    <2>1. /\ Head1[2] \in registry[Head1[1]].versions
          /\ <<Head1[1], Head1[2]>> \in tampered \/ code[Head1[1]][Head1[2]] = "whole"
      BY <1>3 DEF ChildInv
    <2>2. sched.due # <<>> /\ lease[Head1[1]] = Scheduler
      BY <1>0, <1>3 DEF Underway
    <2>3. Head1[1] \in Packs
      BY <2>2, DueFacts
    <2>4. Head1[2] \in Versions
      BY <2>1, <2>3 DEF TypeOK, Registries
    <2>5. lease[Head1[1]] \notin {c, None}
      BY <1>0, <2>2
    <2>6. QED
      BY <2>1, <2>3, <2>4, <2>5 DEF CodeKept
  <1>4. Head1' = Head1
    BY <1>0 DEF Head1
  <1>5. ChildInv'
    BY <1>0, <1>1, <1>3, <1>4 DEF ChildInv
  <1>6. RunningCodeStays'
    BY <1>2 DEF RunningCodeStays
  <1>7. QED
    BY <1>5, <1>6

\* A candidate keeps the versions, and every pack but its own.
LEMMA CandidateKeepsVersions ==
  ASSUME TypeOK, NEW c \in Cli, proc[c].pack \in Packs, proc[c].op # "uninstall"
  PROVE  \A q \in Packs : /\ Candidate(c)[q].versions = registry[q].versions
                          /\ q # proc[c].pack => Candidate(c)[q] = registry[q]
  <1> DEFINE p == proc[c].pack
  <1>1. registry \in [Packs -> Entries]
    BY DEF TypeOK, Registries, Entries
  <1>2. ASSUME NEW e, e.versions = registry[p].versions
        PROVE  \A q \in Packs : /\ [registry EXCEPT ![p] = e][q].versions = registry[q].versions
                                /\ q # p => [registry EXCEPT ![p] = e][q] = registry[q]
    BY <1>1, <1>2
  <1>3. registry[p] \in Entries
    BY <1>1
  <1>4. CASE proc[c].op = "rollback"
    <2> DEFINE h == registry[p].history
    <2>1. Candidate(c) = [registry EXCEPT ![p] = [registry[p] EXCEPT !.history = Front(h),
                                                                  !.selected = Last(h)]]
      BY <1>1, <1>4 DEF Candidate, RolledBack
    <2>2. [registry[p] EXCEPT !.history = Front(h), !.selected = Last(h)].versions
            = registry[p].versions
      BY <1>3 DEF Entries
    <2> HIDE DEF h
    <2>3. QED
      BY <1>2, <2>1, <2>2
  <1>5. CASE proc[c].op = "disable"
    <2>1. Candidate(c) = [registry EXCEPT ![p] = [registry[p] EXCEPT !.enabled = FALSE]]
      BY <1>1, <1>5 DEF Candidate, Disabled
    <2>2. [registry[p] EXCEPT !.enabled = FALSE].versions = registry[p].versions
      BY <1>3 DEF Entries
    <2>3. QED
      BY <1>2, <2>1, <2>2
  <1>6. CASE proc[c].op \notin {"rollback", "disable"}
    <2> DEFINE r == registry[p]
               v == proc[c].version
               g == Grants(c)
               h == IF r.enabled /\ r.selected # v THEN Append(r.history, r.selected) ELSE r.history
    <2>1. Candidate(c) = [registry EXCEPT ![p] = [r EXCEPT !.selected = v, !.enabled = TRUE,
                                                          !.history = h, !.grants = g]]
      BY <1>6 DEF Candidate, Activated
    <2> HIDE DEF h, g, v
    <2>2. [r EXCEPT !.selected = v, !.enabled = TRUE, !.history = h, !.grants = g].versions
            = r.versions
      BY <1>3 DEF Entries
    <2>3. QED
      BY <1>2, <2>1, <2>2
  <1>7. QED
    BY <1>4, <1>5, <1>6

\* No command touches the code of a pack whose lease another process has.
LEMMA CommandsKeepCode ==
  ASSUME TypeOK, LeaseInv, NEW c \in Cli,
         Continues(c) \/ Reconcile(c, Tasks) \/ Starts(c) \/ Interrupted(c),
         ~StartRun(c), ~RunEnds(c)
  PROVE  CodeKept(c) /\ child' = child /\ proc[c].at # "running" /\ tampered' = tampered
  <1>0. /\ registry \in [Packs -> Entries] /\ Holds(c)
        /\ code \in [Packs -> [Versions -> {"whole", "torn", "absent"}]]
        /\ proc[c] \in Processes
    BY DEF TypeOK, Registries, Entries, LeaseInv
  <1>1. CASE TakeProfile(c) \/ AlreadyConfigured(c) \/ StartRemoval(c) \/ Refused(c) \/ LeaseRun(c)
             \/ RunRefused(c) \/ Reconcile(c, Tasks)
    <2>1. /\ UNCHANGED <<storeVars, child, tampered>>
          /\ proc[c].at \in {"locking", "staging", "changing", "leasing", "checking", "reconciling"}
      BY <1>1 DEF TakeProfile, AlreadyConfigured, StartRemoval, Refused, LeaseRun, RunRefused,
                  Reconcile, worldVars
    <2>2. QED
      BY <2>1 DEF CodeKept, storeVars
  <1>2. CASE Stage(c)
    <2>1. /\ code' = [code EXCEPT ![proc[c].pack][proc[c].version] = "whole"]
          /\ UNCHANGED <<registry, child, tampered>> /\ proc[c].at = "staging"
      BY <1>2 DEF Stage, worldVars
    <2>2. \A p \in Packs, v \in Versions : code[p][v] = "whole" => code'[p][v] = "whole"
      BY <1>0, <2>1
    <2>3. QED
      BY <2>1, <2>2 DEF CodeKept
  <1>3. CASE Record(c)
    <2>1. /\ registry' = Recorded(proc[c].pack, proc[c].version)
          /\ UNCHANGED <<code, child, tampered>> /\ proc[c].at = "recording"
      BY <1>3 DEF Record, worldVars
    <2>2. \A p \in Packs : registry[p].versions \subseteq registry'[p].versions
      BY <1>0, <2>1 DEF Recorded, Entries
    <2>3. QED
      BY <2>1, <2>2 DEF CodeKept
  <1>4. CASE Change(c)
    <2>1. /\ registry' = Candidate(c) /\ proc[c].op # "uninstall" /\ proc[c].at = "changing"
          /\ UNCHANGED <<code, child, tampered>>
      BY <1>4 DEF Change, worldVars
    <2>2. proc[c].pack \in Packs
      BY <2>1, AtHand
    <2>3. \A p \in Packs : registry[p].versions = registry'[p].versions
      BY <2>1, <2>2, CandidateKeepsVersions
    <2>4. QED
      BY <2>1, <2>3 DEF CodeKept
  <1>5. CASE RemoveTree(c) \/ RecordRemoval(c)
    <2>1. /\ proc[c].at = "removing" /\ UNCHANGED <<child, tampered>>
      BY <1>5 DEF RemoveTree, RecordRemoval, worldVars
    <2>2. proc[c].pack \in Packs /\ lease[proc[c].pack] = c
      BY <1>0, <2>1 DEF Holds, Keyed
    <2>3. ASSUME NEW p \in Packs, p # proc[c].pack
          PROVE  registry'[p] = registry[p] /\ code'[p] = code[p]
      <3>1. CASE RemoveTree(c)
        BY <1>0, <2>3, <3>1 DEF RemoveTree
      <3>2. CASE RecordRemoval(c)
        BY <1>0, <2>3, <3>2 DEF RecordRemoval, Uninstalled
      <3>3. QED
        BY <1>5, <3>1, <3>2
    <2>4. QED
      BY <2>1, <2>2, <2>3 DEF CodeKept
  <1>6. CASE Starts(c)
    <2>1. proc[c] = Idle /\ UNCHANGED <<storeVars, child, worldVars>>
      <3>1. CASE BeginRun(c)
        BY <3>1, RunBegins
      <3>2. CASE ~BeginRun(c)
        BY <1>6, <3>2, CommandBegins, BeginFacts DEF Starts
      <3>3. QED
        BY <3>1, <3>2
    <2>2. QED
      BY <2>1 DEF CodeKept, storeVars, worldVars, Idle
  <1>7. CASE Interrupted(c)
    <2>1. /\ UNCHANGED <<registry, child, tampered>>
          /\ proc[c].op \in Stages \cup Keyed
      BY <1>7 DEF Interrupted, worldVars
    <2>2. proc[c].at # "running"
      BY <1>0, <2>1 DEF Holds, Stages, Keyed
    <2>3. CASE code' = code
      BY <2>1, <2>2, <2>3 DEF CodeKept
    <2>4. CASE code' # code
      <3>1. /\ proc[c].at = "removing"
            /\ \E v \in proc[c].left : code' = [code EXCEPT ![proc[c].pack][v] = "torn"]
        BY <1>7, <2>4 DEF Interrupted
      <3>2. proc[c].pack \in Packs /\ lease[proc[c].pack] = c
        BY <1>0, <3>1 DEF Holds, Keyed
      <3>3. \A p \in Packs : p # proc[c].pack => code'[p] = code[p]
        BY <1>0, <3>1
      <3>4. QED
        BY <2>1, <2>2, <3>2, <3>3 DEF CodeKept
    <2>5. QED
      BY <2>3, <2>4
  <1>8. QED
    BY <1>1, <1>2, <1>3, <1>4, <1>5, <1>6, <1>7 DEF Continues

\* Steps after which the code is as it was.
SameCode ==
  /\ UNCHANGED registry /\ tampered \subseteq tampered'
  /\ \A p \in Packs, v \in Versions :
       code[p][v] = "whole" => code'[p][v] = "whole" \/ <<p, v>> \in tampered'

\* Such steps leave the code of the providers that still run.
LEMMA RunningCodeKept ==
  ASSUME TypeOK, RunningCodeStays, SameCode,
         \A p \in Packs : child'[p] = child[p] \/ child'[p] = None
  PROVE  RunningCodeStays'
  <1>1. ASSUME NEW p \in Packs, child'[p] # None
        PROVE  /\ child'[p] \in registry'[p].versions
               /\ <<p, child'[p]>> \in tampered' \/ code'[p][child'[p]] = "whole"
    <2>1. child'[p] = child[p] /\ child[p] \in Versions
      BY <1>1 DEF TypeOK
    <2>2. /\ child[p] \in registry[p].versions
          /\ <<p, child[p]>> \in tampered \/ code[p][child[p]] = "whole"
      BY <1>1, <2>1 DEF RunningCodeStays
    <2>3. QED
      BY <2>1, <2>2 DEF SameCode
  <1>2. QED
    BY <1>1 DEF RunningCodeStays

\* Every step leaves a running provider its code and its lease.
LEMMA ProviderStep ==
  ASSUME TypeOK, LeaseInv, ChildInv, RunningCodeStays, [Next]_vars
  PROVE  ChildInv' /\ RunningCodeStays'
  <1>0. /\ None \notin Cli /\ Scheduler \notin Cli /\ Orphan \notin Cli
        /\ Scheduler # Orphan /\ Scheduler # None /\ Orphan # None
        /\ None \notin Versions /\ \A c \in Cli : Holds(c)
        /\ child \in [Packs -> Versions \cup {None}] /\ proc \in [Cli -> Processes]
        /\ lease \in [Packs \cup {Global} -> Cli \cup {None, Scheduler, Orphan}]
        /\ sched.at \in Underway => /\ sched.due # <<>> /\ lease[Head1[1]] = Scheduler
                                    /\ Head1[1] \in Packs /\ Head1[2] \in Versions \cup {None}
    BY CommandsAssumption, DueFacts DEF TypeOK, LeaseInv
  <1>1. ASSUME UNCHANGED <<code, registry, lease, proc, child, tampered, sched>>
        PROVE  ChildInv' /\ RunningCodeStays'
    BY <1>1 DEF ChildInv, Minded, RunningCodeStays, Head1
  <1>2. ASSUME NEW c \in Cli, UNCHANGED backgroundVars,
               Continues(c) \/ Reconcile(c, Tasks) \/ Starts(c) \/ Interrupted(c),
               ~StartRun(c), ~RunEnds(c)
        PROVE  ChildInv' /\ RunningCodeStays'
    BY <1>2, CommandFrames, CommandsKeepCode, ProvidersStay
  <1>3. ASSUME NEW c \in Cli, UNCHANGED backgroundVars, StartRun(c)
        PROVE  ChildInv' /\ RunningCodeStays'
    <2> DEFINE q == proc[c].pack
    <2>1. /\ proc[c].at = "checking" /\ StillProvides(c) /\ sched' = sched
          /\ child' = [child EXCEPT ![q] = proc[c].version]
          /\ Goto(c, "running") /\ UNCHANGED <<code, registry, tampered, lease>>
      BY <1>3 DEF StartRun, storeVars, worldVars, backgroundVars
    <2>2. q \in Packs /\ lease[q] = c
      BY <1>0, <2>1 DEF Holds
    <2>3. /\ proc'[c] = [proc[c] EXCEPT !.at = "running"]
          /\ \A d \in Cli \ {c} : proc'[d] = proc[d]
      BY <2>1, GotoFacts
    <2>4. proc'[c].at = "running" /\ proc'[c].pack = q
      BY <1>0, <2>3 DEF Processes
    <2>5. proc[c].version \in registry[q].versions /\ code[q][proc[c].version] = "whole"
      BY <2>1 DEF StillProvides, Providers, Verifies, Intact
    <2>6. ASSUME NEW p \in Packs, child'[p] # None
          PROVE  /\ Minded(p)' /\ child'[p] \in registry'[p].versions
                 /\ <<p, child'[p]>> \in tampered' \/ code'[p][child'[p]] = "whole"
      <3>1. CASE p = q
        <4>1. child'[p] = proc[c].version
          BY <1>0, <2>1, <3>1
        <4>2. QED
          BY <2>1, <2>2, <2>4, <2>5, <3>1, <4>1 DEF Minded
      <3>2. CASE p # q
        <4>1. child'[p] = child[p]
          BY <1>0, <2>1, <3>2
        <4>2. Minded(p)
          BY <2>6, <4>1 DEF ChildInv
        <4>3. Minded(p)'
          <5>1. \A d \in Cli : proc[d].at = "running" => d # c
            BY <2>1
          <5>2. QED
            BY <2>1, <2>3, <4>2, <5>1 DEF Minded, Head1
        <4>4. QED
          BY <2>1, <2>6, <4>1, <4>3 DEF RunningCodeStays
      <3>3. QED
        BY <3>1, <3>2
    <2>7. QED
      BY <2>1, <2>6 DEF ChildInv, RunningCodeStays, Head1
  <1>4. ASSUME NEW c \in Cli, UNCHANGED backgroundVars, RunEnds(c) \/ DispatcherKilled(c)
        PROVE  ChildInv' /\ RunningCodeStays'
    <2> DEFINE q == proc[c].pack
    <2>1. /\ proc[c].at = "running" /\ sched' = sched /\ UNCHANGED <<code, registry, tampered>>
      BY <1>4 DEF RunEnds, DispatcherKilled, storeVars, worldVars, backgroundVars
    <2>2. q \in Packs /\ lease[q] = c
      BY <1>0, <2>1 DEF Holds
    <2>3. /\ \A d \in Cli \ {c} : proc'[d] = proc[d]
          /\ \A x \in Packs : lease[x] # c => lease'[x] = lease[x]
          /\ \A p \in Packs \ {q} : child'[p] = child[p]
          /\ \/ child'[q] = None
             \/ child'[q] = child[q] /\ lease'[q] = Orphan
      <3>1. CASE RunEnds(c)
        <4>1. Leaves(c) /\ child' = [child EXCEPT ![q] = None]
          BY <3>1 DEF RunEnds
        <4>2. QED
          BY <1>0, <2>2, <4>1, LeavesFacts
      <3>2. CASE DispatcherKilled(c)
        BY <1>0, <2>2, <3>2 DEF DispatcherKilled
      <3>3. QED
        BY <1>4, <3>1, <3>2
    <2>4. ASSUME NEW p \in Packs, child'[p] # None
          PROVE  Minded(p)'
      <3>1. CASE p = q
        BY <2>3, <2>4, <3>1 DEF Minded
      <3>2. CASE p # q
        <4>1. Minded(p)
          BY <2>3, <2>4, <3>2 DEF ChildInv
        <4>2. lease[p] # c
          BY <1>0, <3>2, <4>1 DEF Minded
        <4>3. \A d \in Cli : lease[p] = d => d # c
          BY <4>2
        <4>4. QED
          BY <2>1, <2>3, <4>1, <4>2, <4>3 DEF Minded, Head1
      <3>3. QED
        BY <3>1, <3>2
    <2>5. \A p \in Packs : child'[p] = child[p] \/ child'[p] = None
      BY <2>3
    <2>6. RunningCodeStays'
      BY <2>1, <2>5, RunningCodeKept DEF SameCode
    <2>7. ChildInv'
      BY <2>1, <2>4 DEF ChildInv, Head1
    <2>8. QED
      BY <2>6, <2>7
  <1>5. ASSUME UNCHANGED backgroundVars,
               \/ \E p \in Packs : OrphanEnds(p)
               \/ TurnOn(Tasks) \/ TurnOff
               \/ \E a \in Artifacts : Tamper(a[1], a[2]) \/ Mend(a[1], a[2])
        PROVE  ChildInv' /\ RunningCodeStays'
    <2>1. sched' = sched
      BY <1>5 DEF backgroundVars
    <2>2. CASE TurnOn(Tasks) \/ TurnOff
      BY <1>1, <2>1, <2>2 DEF TurnOn, TurnOff, storeVars
    <2>3. CASE \E p \in Packs : OrphanEnds(p)
      <3>1. PICK p \in Packs : OrphanEnds(p)
        BY <2>3
      <3>2. /\ UNCHANGED <<code, registry, tampered, proc>> /\ lease[p] = Orphan
            /\ child'[p] = None
            /\ \A q \in Packs \ {p} : child'[q] = child[q] /\ lease'[q] = lease[q]
        BY <1>0, <3>1 DEF OrphanEnds, storeVars, worldVars
      <3>3. \A q \in Packs : child'[q] = child[q] \/ child'[q] = None
        BY <3>2
      <3>4. RunningCodeStays'
        BY <3>2, <3>3, RunningCodeKept DEF SameCode
      <3>5. ASSUME NEW q \in Packs, child'[q] # None PROVE Minded(q)'
        <4>1. q # p /\ Minded(q) /\ lease'[q] = lease[q]
          BY <3>2, <3>5 DEF ChildInv
        <4>2. QED
          BY <2>1, <3>2, <4>1 DEF Minded, Head1
      <3>6. ChildInv'
        BY <2>1, <3>2, <3>5 DEF ChildInv, Head1
      <3>7. QED
        BY <3>4, <3>6
    <2>4. CASE \E a \in Artifacts : Tamper(a[1], a[2]) \/ Mend(a[1], a[2])
      <3>1. PICK a \in Artifacts : Tamper(a[1], a[2]) \/ Mend(a[1], a[2])
        BY <2>4
      <3>2. UNCHANGED <<registry, proc, lease, child>> /\ tampered \subseteq tampered'
        BY <3>1 DEF Tamper, Mend, cliVars
      <3>3. \A p \in Packs, v \in Versions :
              code[p][v] = "whole" => code'[p][v] = "whole" \/ <<p, v>> \in tampered'
        <4>1. code \in [Packs -> [Versions -> {"whole", "torn", "absent"}]]
          BY DEF TypeOK
        <4>2. CASE Tamper(a[1], a[2])
          BY <4>1, <4>2 DEF Tamper
        <4>3. CASE Mend(a[1], a[2])
          BY <4>1, <4>3 DEF Mend
        <4>4. QED
          BY <3>1, <4>2, <4>3
      <3>4. RunningCodeStays'
        BY <3>2, <3>3, RunningCodeKept DEF SameCode
      <3>5. ChildInv'
        <4>1. \A p \in Packs : Minded(p)' <=> Minded(p)
          BY <2>1, <3>2 DEF Minded, Head1
        <4>2. sched.at = "starting" => Head1[1] \in Packs /\ Head1[2] \in Versions
          BY <1>0 DEF ChildInv, TypeOK, Registries, Underway
        <4>3. QED
          BY <2>1, <3>2, <3>3, <4>1, <4>2 DEF ChildInv, Head1
      <3>6. QED
        BY <3>4, <3>5
    <2>5. QED
      BY <1>5, <2>2, <2>3, <2>4
  <1>6. CASE Wake \/ JobChanged \/ Busy \/ Finish \/ \E p \in Packs : IntervalPasses(p)
    <2>1. UNCHANGED <<code, registry, tampered, proc, lease, child>>
      BY <1>6 DEF Wake, JobChanged, Busy, Finish, IntervalPasses, commandVars, storeVars, cliVars
    <2>2. \/ sched' = sched
          \/ sched.at \in {"idle", "jobs"} /\ sched'.at \in {"idle", "jobs"}
      <3>1. CASE JobChanged
        <4>1. sched' = [sched EXCEPT !.due = Tail(@)] /\ sched.at = "jobs"
          BY <3>1 DEF JobChanged
        <4>2. sched'.at = "jobs"
          BY <4>1 DEF TypeOK
        <4>3. QED
          BY <4>1, <4>2
      <3>2. CASE ~JobChanged
        BY <1>6, <3>2 DEF Wake, Busy, Finish, IntervalPasses, Asleep
      <3>3. QED
        BY <3>1, <3>2
    <2>3. CASE sched' = sched
      BY <1>1, <2>1, <2>3
    <2>4. CASE sched.at \in {"idle", "jobs"} /\ sched'.at \in {"idle", "jobs"}
      BY <2>1, <2>4 DEF ChildInv, Minded, RunningCodeStays
    <2>5. QED
      BY <2>2, <2>3, <2>4
  <1>7. CASE JobStarts
    <2> DEFINE h == Head1[1]
    <2>1. /\ UNCHANGED <<code, registry, tampered, proc, child>> /\ sched.due # <<>> /\ sched.at = "jobs"
          /\ lease[h] = None /\ lease' = [lease EXCEPT ![h] = Scheduler] /\ Current(Head1)
          /\ sched' = [sched EXCEPT !.at = "starting"]
      BY <1>7 DEF JobStarts, storeVars, worldVars
    <2>2. /\ h \in Packs /\ sched'.at = "starting" /\ Head1' = Head1
      BY <2>1, DueFacts DEF Underway, Head1
    <2>3. /\ Head1[2] \in registry[h].versions
          /\ code[h][Head1[2]] = "whole"
      BY <2>1 DEF Current, Tasks, Scheduled, Providers, Verifies, Intact
    <2>4. ASSUME NEW p \in Packs, child'[p] # None PROVE Minded(p)'
      <3>1. Minded(p)
        BY <2>1, <2>4 DEF ChildInv
      <3>2. lease[p] # None
        BY <1>0, <3>1 DEF Minded
      <3>3. lease'[p] = lease[p]
        BY <1>0, <2>1, <3>2
      <3>4. QED
        BY <2>1, <3>1, <3>3 DEF Minded
    <2>5. RunningCodeStays'
      BY <2>1 DEF RunningCodeStays
    <2>6. QED
      BY <2>1, <2>2, <2>3, <2>4, <2>5 DEF ChildInv
  <1>8. CASE ProviderStarts \/ ProviderEnds \/ Terminated
    <2> DEFINE h == Head1[1]
    <2>1. /\ UNCHANGED <<code, registry, tampered, proc, lease>> /\ sched.at \in {"starting", "running"}
          /\ \/ /\ sched' = [sched EXCEPT !.at = "running"] /\ sched.at = "starting"
                /\ child' = [child EXCEPT ![h] = Head1[2]]
             \/ /\ sched' = [sched EXCEPT !.at = "settling"]
                /\ \/ child' = child /\ sched.at = "starting"
                   \/ child' = [child EXCEPT ![h] = None] /\ sched.at = "running"
      BY <1>8 DEF ProviderStarts, ProviderEnds, Terminated, storeVars, worldVars
    <2>2. /\ h \in Packs /\ Head1' = Head1 /\ lease[h] = Scheduler
          /\ sched'.at = "running" \/ sched'.at = "settling"
          /\ sched'.at = "running" => child' = [child EXCEPT ![h] = Head1[2]] /\ sched.at = "starting"
          /\ sched'.at = "settling" => \/ child' = child /\ sched.at = "starting"
                                       \/ child' = [child EXCEPT ![h] = None]
      BY <1>0, <2>1, DueFacts DEF Underway, Head1
    <2>3. ASSUME NEW p \in Packs, child'[p] # None
          PROVE  /\ Minded(p)' /\ child'[p] \in registry'[p].versions
                 /\ <<p, child'[p]>> \in tampered' \/ code'[p][child'[p]] = "whole"
      <3>1. CASE p = h /\ sched'.at = "running"
        <4>1. child'[p] = Head1[2]
          BY <1>0, <2>2, <3>1
        <4>2. Minded(p)'
          BY <2>1, <2>2, <3>1 DEF Minded
        <4>3. /\ Head1[2] \in registry[h].versions
              /\ <<h, Head1[2]>> \in tampered \/ code[h][Head1[2]] = "whole"
          BY <2>2, <3>1 DEF ChildInv
        <4>4. QED
          BY <2>1, <3>1, <4>1, <4>2, <4>3
      <3>2. CASE ~(p = h /\ sched'.at = "running")
        <4>1. child'[p] = child[p] /\ (p = h => sched.at = "starting")
          BY <1>0, <2>2, <2>3, <3>2
        <4>2. Minded(p) /\ (lease[p] = Scheduler => Minded(p)')
          <5>1. Minded(p)
            BY <2>3, <4>1 DEF ChildInv
          <5>2. p = h => lease[p] = Scheduler /\ sched.at # "running"
            BY <2>2, <4>1
          <5>3. p # h
            BY <1>0, <5>1, <5>2 DEF Minded
          <5>4. QED
            BY <1>0, <5>1, <5>3 DEF Minded
        <4>3. Minded(p)'
          BY <2>1, <4>2 DEF Minded
        <4>4. QED
          BY <2>1, <2>3, <4>1, <4>3 DEF RunningCodeStays
      <3>3. QED
        BY <3>1, <3>2
    <2>4. QED
      BY <2>2, <2>3 DEF ChildInv, RunningCodeStays
  <1>9. CASE Settle
    <2> DEFINE h == Head1[1]
    <2>1. /\ UNCHANGED <<code, registry, tampered, proc, child>> /\ sched.at = "settling"
          /\ lease' = [lease EXCEPT ![h] = None] /\ sched'.at \in {"idle", "jobs"}
      BY <1>9 DEF Settle, storeVars, worldVars, Asleep
    <2>2. ASSUME NEW p \in Packs, child[p] # None PROVE Minded(p)'
      <3>1. Minded(p) /\ lease[p] # Scheduler
        BY <1>0, <2>1, <2>2 DEF ChildInv, Minded
      <3>2. lease'[p] = lease[p]
        BY <1>0, <2>1, <3>1 DEF Underway
      <3>3. QED
        BY <2>1, <3>1, <3>2 DEF Minded
    <2>3. QED
      BY <2>1, <2>2 DEF ChildInv, RunningCodeStays
  <1>10. CASE SchedulerKilled
    <2>1. /\ UNCHANGED <<code, registry, tampered, proc, child>> /\ sched'.at = "idle"
          /\ \A x \in Packs : lease'[x] = IF lease[x] # Scheduler THEN lease[x]
                                          ELSE IF sched.at = "running" THEN Orphan ELSE None
      BY <1>0, <1>10 DEF SchedulerKilled, storeVars, worldVars, Asleep
    <2>2. ASSUME NEW p \in Packs, child[p] # None PROVE Minded(p)'
      <3>1. Minded(p)
        BY <2>2 DEF ChildInv
      <3>2. CASE lease[p] = Scheduler
        BY <1>0, <2>1, <3>1, <3>2 DEF Minded
      <3>3. CASE lease[p] # Scheduler
        BY <1>0, <2>1, <3>1, <3>3 DEF Minded
      <3>4. QED
        BY <3>2, <3>3
    <2>3. QED
      BY <2>1, <2>2 DEF ChildInv, RunningCodeStays
  <1>11. CASE UNCHANGED vars
    BY <1>1, <1>11 DEF vars, commandVars, storeVars, cliVars, backgroundVars
  <1>12. QED
    BY <1>2, <1>3, <1>4, <1>5, <1>6, <1>7, <1>8, <1>9, <1>10, <1>11
    DEF Next, CommandStep, Surroundings, SchedulerStep

-----------------------------------------------------------------------------
(* The registry stays usable.                                              *)

\* What each candidate makes of the entries, and that it can be loaded.
LEMMA RecordedFacts ==
  ASSUME TypeOK, Loads(registry), NEW p \in Packs, NEW v \in Versions
  PROVE  /\ Loads(Recorded(p, v))
         /\ \A q \in Packs : /\ Recorded(p, v)[q].enabled = registry[q].enabled
                             /\ Recorded(p, v)[q].selected = registry[q].selected
                             /\ Recorded(p, v)[q].grants = registry[q].grants
  <1>1. registry \in [Packs -> Entries]
    BY DEF TypeOK, Registries, Entries
  <1> DEFINE e == [registry[p] EXCEPT !.versions = registry[p].versions \cup {v}]
  <1>2. Recorded(p, v) = [registry EXCEPT ![p] = e]
    BY <1>1 DEF Recorded
  <1>3. /\ e.versions = registry[p].versions \cup {v} /\ e.selected = registry[p].selected
        /\ e.enabled = registry[p].enabled /\ e.history = registry[p].history
        /\ e.grants = registry[p].grants
    BY <1>1 DEF Entries
  <1> HIDE DEF e
  <1>4. \A q \in Packs : Recorded(p, v)[q] = IF q = p THEN e ELSE registry[q]
    BY <1>1, <1>2
  <1>5. Loads(Recorded(p, v))
    BY <1>3, <1>4 DEF Loads
  <1>6. QED
    BY <1>3, <1>4, <1>5

\* A disabled pack takes nothing from the others.
LEMMA DisabledFacts ==
  ASSUME TypeOK, Loads(registry), NEW p \in Packs
  PROVE  /\ Loads(Disabled(p))
         /\ ~Disabled(p)[p].enabled
         /\ \A q \in Packs : q # p => Disabled(p)[q] = registry[q]
  <1>1. registry \in [Packs -> Entries]
    BY DEF TypeOK, Registries, Entries
  <1> DEFINE e == [registry[p] EXCEPT !.enabled = FALSE]
  <1>2. Disabled(p) = [registry EXCEPT ![p] = e]
    BY <1>1 DEF Disabled
  <1>3. /\ e.versions = registry[p].versions /\ e.selected = registry[p].selected
        /\ e.enabled = FALSE /\ e.history = registry[p].history
    BY <1>1 DEF Entries
  <1> HIDE DEF e
  <1>4. \A q \in Packs : Disabled(p)[q] = IF q = p THEN e ELSE registry[q]
    BY <1>1, <1>2
  <1>5. Loads(Disabled(p))
    BY <1>3, <1>4 DEF Loads
  <1>6. QED
    BY <1>3, <1>4, <1>5

\* Nor does one that is uninstalled, whose history loses what is gone.
LEMMA UninstalledFacts ==
  ASSUME TypeOK, Loads(registry), NEW p \in Packs, ~registry[p].enabled, NEW gone
  PROVE  /\ Loads(Uninstalled(p, gone))
         /\ ~Uninstalled(p, gone)[p].enabled
         /\ \A q \in Packs : q # p => Uninstalled(p, gone)[q] = registry[q]
  <1>1. registry \in [Packs -> Entries] /\ registry[p] \in Entries
    BY DEF TypeOK, Registries, Entries
  <1> DEFINE r    == registry[p]
             left == r.versions \ gone
             h    == Among(r.history, left)
             s    == IF r.selected \in left THEN r.selected ELSE None
             e    == IF left = {} THEN NoRecord
                     ELSE [r EXCEPT !.versions = left, !.history = h, !.selected = s]
  <1>2. Uninstalled(p, gone) = [registry EXCEPT ![p] = e]
    BY DEF Uninstalled
  <1>3. /\ e.selected \in e.versions \cup {None}
        /\ ToSet(e.history) \subseteq e.versions
        /\ ~e.enabled
    <2>1. CASE left = {}
      <3>1. e = NoRecord
        BY <2>1
      <3>2. ToSet(NoRecord.history) = {}
        BY DEF NoRecord, ToSet
      <3>3. QED
        BY <3>1, <3>2 DEF NoRecord
    <2>2. CASE left # {}
      <3>1. e = [r EXCEPT !.versions = left, !.history = h, !.selected = s]
        BY <2>2
      <3>2. h \in Seq(left)
        <4>1. h \in Seq(Versions \cap left)
          BY <1>1, AmongFacts DEF Entries
        <4>2. QED
          BY <4>1, SeqMonotonic
      <3> HIDE DEF h, s, left
      <3>3. e.versions = left /\ e.history = h /\ e.selected = s /\ e.enabled = r.enabled
        BY <1>1, <3>1 DEF Entries
      <3>4. ToSet(h) \subseteq left
        BY <3>2 DEF ToSet
      <3>5. s \in left \cup {None}
        BY DEF s
      <3>6. QED
        BY <3>3, <3>4, <3>5
    <2>3. QED
      BY <2>1, <2>2
  <1> HIDE DEF e
  <1>4. \A q \in Packs : Uninstalled(p, gone)[q] = IF q = p THEN e ELSE registry[q]
    BY <1>1, <1>2
  <1>5. Loads(Uninstalled(p, gone))
    BY <1>3, <1>4 DEF Loads
  <1>6. QED
    BY <1>3, <1>4, <1>5

\* An activated version that is installed leaves a loadable registry.
LEMMA ActivatedLoads ==
  ASSUME TypeOK, Loads(registry), NEW p \in Packs, NEW v \in Versions, NEW g,
         v \in registry[p].versions
  PROVE  Loads(Activated(p, v, g))
  <1>1. registry \in [Packs -> Entries] /\ registry[p] \in Entries
    BY DEF TypeOK, Registries, Entries
  <1> DEFINE r == registry[p]
             h == IF r.enabled /\ r.selected # v THEN Append(r.history, r.selected) ELSE r.history
             e == [r EXCEPT !.selected = v, !.enabled = TRUE, !.history = h, !.grants = g]
  <1>2. Activated(p, v, g) = [registry EXCEPT ![p] = e]
    BY DEF Activated
  <1>3. ToSet(h) \subseteq r.versions
    <2>1. ToSet(r.history) \subseteq r.versions /\ (r.enabled => r.selected \in r.versions)
      BY DEF Loads
    <2>2. r.history \in Seq(Versions) /\ r.versions \subseteq Versions
      BY <1>1 DEF Entries
    <2>3. CASE r.enabled /\ r.selected # v
      <3> DEFINE t == r.history
                 x == r.selected
      <3>1. t \in Seq(Versions) /\ x \in Versions /\ h = Append(t, x)
        BY <2>1, <2>2, <2>3
      <3>2. \A i \in DOMAIN Append(t, x) :
               \/ i \in DOMAIN t /\ Append(t, x)[i] = t[i]
               \/ Append(t, x)[i] = x
        <4> HIDE DEF t, x
        <4>1. QED
          BY <3>1
      <3>3. QED
        BY <2>1, <2>3, <3>1, <3>2 DEF ToSet
    <2>4. CASE ~(r.enabled /\ r.selected # v)
      BY <2>1, <2>4
    <2>5. QED
      BY <2>3, <2>4
  <1>4. /\ e.versions = r.versions /\ e.selected = v /\ e.enabled = TRUE /\ e.history = h
    <2> HIDE DEF h
    <2>1. QED
      BY <1>1 DEF Entries
  <1>5. v # None
    BY CommandsAssumption
  <1> HIDE DEF e, h
  <1>6. \A q \in Packs : Activated(p, v, g)[q] = IF q = p THEN e ELSE registry[q]
    BY <1>1, <1>2
  <1>7. QED
    BY <1>3, <1>4, <1>5, <1>6 DEF Loads

\* So does the last version of the history.
LEMMA RolledBackLoads ==
  ASSUME TypeOK, Loads(registry), NEW p \in Packs, registry[p].history # <<>>
  PROVE  Loads(RolledBack(p))
  <1>1. registry \in [Packs -> Entries] /\ registry[p] \in Entries
    BY DEF TypeOK, Registries, Entries
  <1> DEFINE r == registry[p]
             h == r.history
             e == [r EXCEPT !.history = Front(h), !.selected = Last(h)]
  <1>2. RolledBack(p) = [registry EXCEPT ![p] = e]
    BY <1>1 DEF RolledBack
  <1>3. /\ h \in Seq(Versions) /\ h # <<>> /\ ToSet(h) \subseteq r.versions
        /\ r.versions \subseteq Versions
    BY <1>1 DEF Entries, Loads
  <1>4. ToSet(Front(h)) \subseteq ToSet(h) /\ Last(h) \in ToSet(h)
    <2> HIDE DEF h
    <2>1. Len(h) \in Nat \ {0} /\ DOMAIN h = 1..Len(h)
      BY <1>3
    <2>2. Last(h) = h[Len(h)] /\ Len(h) \in DOMAIN h
      BY <2>1 DEF Last
    <2>3. \A i \in DOMAIN Front(h) : i \in DOMAIN h /\ Front(h)[i] = h[i]
      BY <1>3, <2>1 DEF Front
    <2>4. QED
      BY <2>2, <2>3 DEF ToSet
  <1>5. e.versions = r.versions /\ e.selected = Last(h) /\ e.enabled = r.enabled /\ e.history = Front(h)
    <2> HIDE DEF h
    <2>1. QED
      BY <1>1 DEF Entries
  <1>6. Last(h) # None
    BY <1>3, <1>4, CommandsAssumption
  <1> HIDE DEF e, h
  <1>7. \A q \in Packs : RolledBack(p)[q] = IF q = p THEN e ELSE registry[q]
    BY <1>1, <1>2
  <1>8. QED
    BY <1>3, <1>4, <1>5, <1>6, <1>7 DEF Loads

\* A command that publishes a candidate leaves a registry that can be loaded.
LEMMA CandidateLoads ==
  ASSUME TypeOK, LeaseInv, Loads(registry), NEW c \in Cli, proc[c].at = "changing", Accepts(c),
         proc[c].op # "uninstall"
  PROVE  Loads(Candidate(c))
  <1> DEFINE p == proc[c].pack
  <1>1. Holds(c)
    BY DEF LeaseInv
  <1>2. /\ p \in Packs /\ proc[c].op \in (Stages \cup Keyed) \ {"install", "uninstall"}
    BY <1>1, AtHand DEF Holds, Published
  <1>3. CASE proc[c].op = "rollback"
    <2>1. registry[p].history # <<>>
      BY <1>3 DEF Accepts, RollbackAccepts
    <2>2. QED
      BY <1>2, <1>3, <2>1, RolledBackLoads DEF Candidate
  <1>4. CASE proc[c].op = "disable"
    BY <1>2, <1>4, DisabledFacts DEF Candidate
  <1>5. CASE proc[c].op \notin {"rollback", "disable"}
    <2>1. proc[c].op \in Stages \cup {"enable"}
      BY <1>2, <1>5 DEF Keyed, Stages
    <2>2. proc[c].version \in Versions /\ Grants(c) \in SUBSET Capabilities
      BY <2>1, AtHand
    <2>3. Candidate(c) = Activated(p, proc[c].version, Grants(c))
      BY <1>5 DEF Candidate
    <2>4. proc[c].version \in registry[p].versions
      <3>1. EnableAccepts(p, proc[c].version, Grants(c), live)
        BY <1>2, <1>5 DEF Accepts
      <3>2. QED
        BY <3>1 DEF EnableAccepts, Verifies
    <2>5. QED
      BY <1>2, <2>2, <2>3, <2>4, ActivatedLoads
  <1>6. QED
    BY <1>3, <1>4, <1>5

\* What a selection uses is declared by artifacts.
LEMMA UsedAreResources ==
  ASSUME NEW sel \in Selections
  PROVE  UsedResources(sel) \subseteq Resources
  <1>1. ASSUME NEW p \in Having(sel, {"page"}) PROVE <<p, sel[p]>> \in Artifacts
    BY DEF Having, Selected, Selections, Artifacts
  <1>2. ASSUME NEW p \in Having(sel, {"page"})
        PROVE  ToSet(Declares(p, sel[p]).uses) \subseteq Resources
    <2> DEFINE a == <<p, sel[p]>>
    <2>1. a \in Artifacts /\ a[1] = p /\ a[2] = sel[p]
      BY <1>1
    <2> HIDE DEF a
    <2>2. QED
      BY <2>1 DEF Resources
  <1>3. QED
    BY <1>2 DEF UsedResources

\* The next registry enables none but packs enabled before, as they were.
Lesser ==
  \A p \in Packs : registry'[p].enabled =>
    /\ registry[p].enabled
    /\ registry'[p].selected = registry[p].selected
    /\ registry'[p].grants = registry[p].grants

\* Such a registry has a narrower selection.
LEMMA LesserIsNarrower ==
  ASSUME TypeOK, TypeOK', Lesser
  PROVE  Narrower(Selection(registry'), Selection(registry))
  <1>1. registry \in Registries /\ registry' \in Registries
    BY DEF TypeOK
  <1>2. Selection(registry) \in Selections /\ Selection(registry') \in Selections
    BY <1>1, SelectionType
  <1>3. \A p \in Packs : Selection(registry')[p] = Selection(registry)[p] \/ Selection(registry')[p] = None
    BY DEF Lesser, Selection
  <1>4. QED
    BY <1>2, <1>3 DEF Narrower

\* What is enabled stays usable while its code and resources stay in place.
LEMMA UsableStays ==
  ASSUME TypeOK, TypeOK', RegistryStaysUsable, Lesser, Loads(registry'),
         tampered' = {} =>
           /\ tampered = {}
           /\ \A p \in Packs : registry'[p].enabled =>
                \A v \in Versions : code[p][v] = "whole" => code'[p][v] = "whole"
           /\ \A r \in Resources : shared[r] = "whole" => shared'[r] = "whole"
  PROVE  RegistryStaysUsable'
  <1>1. Narrower(Selection(registry'), Selection(registry))
    BY LesserIsNarrower
  <1>2. Selection(registry') \in Composes
    BY <1>1, FewerCompose DEF RegistryStaysUsable
  <1>3. ASSUME tampered' = {}
        PROVE  Projects(registry)'
    <2>1. /\ tampered = {}
          /\ EnabledPacksVerify(registry) /\ ResourcesInPlace(registry)
      BY <1>3 DEF RegistryStaysUsable, Projects
    <2>2. ASSUME NEW p \in Packs, registry'[p].enabled
          PROVE  /\ registry'[p].selected \in registry'[p].versions
                 /\ code'[p][registry'[p].selected] = "whole"
                 /\ MayActivate(p, registry'[p].selected, registry'[p].grants)
      <3>1. /\ registry[p].enabled /\ registry'[p].selected = registry[p].selected
            /\ registry'[p].grants = registry[p].grants
        BY <2>2 DEF Lesser
      <3>2. /\ registry[p].selected \in registry[p].versions /\ code[p][registry[p].selected] = "whole"
            /\ MayActivate(p, registry[p].selected, registry[p].grants)
        BY <2>1, <3>1 DEF EnabledPacksVerify, Verifies, Intact
      <3>3. registry[p].selected \in Versions
        BY <3>2 DEF TypeOK, Registries
      <3>4. registry'[p].selected \in registry'[p].versions
        BY <2>2, CommandsAssumption DEF Loads
      <3>5. QED
        BY <1>3, <2>2, <3>1, <3>2, <3>3, <3>4
    <2>3. EnabledPacksVerify(registry)'
      BY <2>2 DEF EnabledPacksVerify, Verifies, Intact, MayActivate, HostBinds, Declares
    <2>4. ResourcesInPlace(registry)'
      <3>1. UsedResources(Selection(registry')) \subseteq UsedResources(Selection(registry))
        BY <1>1, FewerUses
      <3>2. UsedResources(Selection(registry)) \subseteq Resources
        BY SelectionType, UsedAreResources DEF TypeOK
      <3>3. \A r \in UsedResources(Selection(registry')) : shared'[r] = "whole"
        BY <1>3, <2>1, <3>1, <3>2 DEF ResourcesInPlace
      <3>4. QED
        BY <3>3 DEF ResourcesInPlace
    <2>5. QED
      BY <1>2, <2>3, <2>4 DEF Projects
  <1>4. QED
    BY <1>2, <1>3 DEF RegistryStaysUsable

\* The steps that touch the registry or the code.
LEMMA StoreSteps ==
  ASSUME [Next]_vars
  PROVE  \/ UNCHANGED <<code, shared, registry, tampered>>
         \/ \E c \in Cli : /\ \/ Stage(c) \/ Record(c) \/ Change(c)
                              \/ RemoveTree(c) \/ RecordRemoval(c) \/ Interrupted(c)
                           /\ UNCHANGED backgroundVars
         \/ \E a \in Artifacts : Tamper(a[1], a[2]) \/ Mend(a[1], a[2])
  <1>1. CASE UNCHANGED vars
    BY <1>1 DEF vars, commandVars, storeVars
  <1>2. ASSUME NEW c \in Cli, Continues(c) \/ Reconcile(c, Tasks)
        PROVE  \/ UNCHANGED <<code, shared, registry, tampered>>
               \/ Stage(c) \/ Record(c) \/ Change(c) \/ RemoveTree(c) \/ RecordRemoval(c)
    BY <1>2 DEF Continues, TakeProfile, AlreadyConfigured, StartRemoval, Refused, LeaseRun,
                StartRun, RunRefused, RunEnds, Reconcile, storeVars, worldVars
  <1>3. ASSUME NEW c \in Cli, Starts(c)
        PROVE  UNCHANGED <<code, shared, registry, tampered>>
    BY <1>3 DEF Starts, BeginStaging, BeginEnable, BeginChange, BeginUninstall, BeginRun, Begin,
                storeVars, worldVars
  <1>4. ASSUME NEW p \in Packs, OrphanEnds(p) PROVE UNCHANGED <<code, shared, registry, tampered>>
    BY <1>4 DEF OrphanEnds, storeVars, worldVars
  <1>5. ASSUME NEW c \in Cli, DispatcherKilled(c) PROVE UNCHANGED <<code, shared, registry, tampered>>
    BY <1>5 DEF DispatcherKilled, storeVars, worldVars
  <1>6. CASE TurnOff \/ TurnOn(Tasks)
    BY <1>6 DEF TurnOff, TurnOn, storeVars
  <1>7. CASE SchedulerStep \/ Terminated \/ SchedulerKilled \/ \E p \in Packs : IntervalPasses(p)
    BY <1>7 DEF SchedulerStep, Wake, JobStarts, JobChanged, Busy, ProviderStarts, ProviderEnds,
                Settle, Finish, Terminated, SchedulerKilled, IntervalPasses, commandVars, storeVars,
                cliVars, worldVars
  <1>8. QED
    BY <1>1, <1>2, <1>3, <1>4, <1>5, <1>6, <1>7 DEF Next, CommandStep, Surroundings

\* Every step leaves a usable registry.
LEMMA RegistryStep ==
  ASSUME TypeOK, LeaseInv, RegistryStaysUsable, [Next]_vars
  PROVE  RegistryStaysUsable'
  <1>0. /\ TypeOK' /\ registry \in [Packs -> Entries] /\ Loads(registry)
        /\ code \in [Packs -> [Versions -> {"whole", "torn", "absent"}]]
    BY TypeStep DEF RegistryStaysUsable, TypeOK, Registries, Entries
  <1>1. CASE UNCHANGED <<code, shared, registry, tampered>>
    BY <1>0, <1>1, UsableStays DEF Lesser
  <1>2. ASSUME NEW c \in Cli, Stage(c) PROVE RegistryStaysUsable'
    <2> DEFINE p == proc[c].pack
               v == proc[c].version
    <2>1. /\ registry' = registry /\ tampered' = tampered /\ proc[c].at = "staging"
          /\ code' = [code EXCEPT ![p][v] = "whole"] /\ shared' = Materialized(p, v)
      BY <1>2 DEF Stage, worldVars
    <2>2. p \in Packs /\ v \in Versions
      BY <2>1, AtHand
    <2>3. \A q \in Packs, w \in Versions : code[q][w] = "whole" => code'[q][w] = "whole"
      BY <1>0, <2>1, <2>2
    <2>4. \A r \in Resources : shared[r] = "whole" => shared'[r] = "whole"
      BY <2>1, <2>2, StageTypes
    <2>5. QED
      BY <1>0, <2>1, <2>3, <2>4, UsableStays DEF Lesser
  <1>3. ASSUME NEW c \in Cli, Record(c) PROVE RegistryStaysUsable'
    <2> DEFINE p == proc[c].pack
               v == proc[c].version
    <2>1. /\ registry' = Recorded(p, v) /\ UNCHANGED <<code, shared, tampered>>
          /\ proc[c].at = "recording"
      BY <1>3 DEF Record, worldVars
    <2>2. p \in Packs /\ v \in Versions
      BY <2>1, AtHand
    <2>3. Loads(registry') /\ Lesser
      BY <1>0, <2>1, <2>2, RecordedFacts DEF Lesser
    <2>4. QED
      BY <1>0, <2>1, <2>3, UsableStays
  <1>4. ASSUME NEW c \in Cli, Change(c) PROVE RegistryStaysUsable'
    <2> DEFINE p == proc[c].pack
    <2>1. /\ registry' = Candidate(c) /\ UNCHANGED <<code, shared, tampered>>
          /\ proc[c].at = "changing" /\ proc[c].op # "uninstall" /\ Accepts(c)
      BY <1>4 DEF Change, worldVars
    <2>2. Loads(registry') /\ p \in Packs
      BY <1>0, <2>1, CandidateLoads, AtHand
    <2>3. CASE proc[c].op = "disable"
      <3>1. registry' = Disabled(p)
        BY <2>1, <2>3 DEF Candidate
      <3>2. Lesser
        BY <1>0, <2>2, <3>1, DisabledFacts DEF Lesser
      <3>3. QED
        BY <1>0, <2>1, <2>2, <3>2, UsableStays
    <2>4. CASE proc[c].op # "disable"
      <3>1. Projects(Candidate(c))
        BY <2>1, <2>4 DEF Accepts, Candidate, RollbackAccepts, EnableAccepts
      <3>2. Projects(registry')
        BY <2>1, <3>1
      <3>3. Projects(registry)'
        BY <2>1, <3>2 DEF Projects, EnabledPacksVerify, Verifies, Intact, ResourcesInPlace,
                          MayActivate, HostBinds, Declares
      <3>4. Selection(registry') \in Composes
        BY <3>2 DEF Projects
      <3>5. QED
        BY <2>2, <3>3, <3>4 DEF RegistryStaysUsable
    <2>5. QED
      BY <2>3, <2>4
  <1>5. ASSUME NEW c \in Cli, RemoveTree(c) \/ RecordRemoval(c) \/ Interrupted(c)
        PROVE  RegistryStaysUsable'
    <2> DEFINE p == proc[c].pack
    <2>0. Holds(c)
      BY DEF LeaseInv
    <2>1. tampered' = tampered
      BY <1>5 DEF RemoveTree, RecordRemoval, Interrupted, worldVars
    <2>2. proc[c].at = "removing" => p \in Packs /\ ~registry[p].enabled
      BY <2>0 DEF Holds
    <2>3. CASE RecordRemoval(c)
      <3>1. /\ registry' = Uninstalled(p, proc[c].gone) /\ UNCHANGED <<code, shared>>
            /\ proc[c].at = "removing"
        BY <2>3 DEF RecordRemoval
      <3>2. Loads(registry') /\ Lesser
        BY <1>0, <2>2, <3>1, UninstalledFacts DEF Lesser
      <3>3. QED
        BY <1>0, <2>1, <3>1, <3>2, UsableStays
    <2>4. CASE ~RecordRemoval(c)
      <3>1. registry' = registry
        BY <1>5, <2>4 DEF RemoveTree, Interrupted
      <3>2. \A q \in Packs, v \in Versions :
              registry[q].enabled /\ code[q][v] = "whole" => code'[q][v] = "whole"
        <4>1. CASE code' = code
          BY <4>1
        <4>2. CASE code' # code
          <5>1. PICK v \in proc[c].left, s \in {"absent", "torn"} :
                  code' = [code EXCEPT ![p][v] = s] /\ proc[c].at = "removing"
            BY <1>5, <2>4, <4>2 DEF RemoveTree, Interrupted
          <5>2. QED
            BY <1>0, <2>2, <5>1
        <4>3. QED
          BY <4>1, <4>2
      <3>3. \A r \in Resources : shared[r] = "whole" => shared'[r] = "whole"
        <4>1. CASE shared' = shared
          BY <4>1
        <4>2. CASE shared' # shared
          <5>1. shared' = Materialized(p, proc[c].version) /\ proc[c].at = "staging"
            BY <1>5, <2>4, <4>2 DEF RemoveTree, Interrupted
          <5>2. p \in Packs /\ proc[c].version \in Versions
            BY <5>1, AtHand
          <5>3. QED
            BY <5>1, <5>2, StageTypes
        <4>3. QED
          BY <4>1, <4>2
      <3>4. QED
        BY <1>0, <2>1, <3>1, <3>2, <3>3, UsableStays DEF Lesser
    <2>5. QED
      BY <2>3, <2>4
  <1>6. ASSUME NEW a \in Artifacts, Tamper(a[1], a[2]) \/ Mend(a[1], a[2])
        PROVE  RegistryStaysUsable'
    <2>1. registry' = registry /\ tampered' # {}
      BY <1>6 DEF Tamper, Mend
    <2>2. QED
      BY <1>0, <2>1, UsableStays DEF Lesser
  <1>7. QED
    BY <1>1, <1>2, <1>3, <1>4, <1>5, <1>6, StoreSteps

-----------------------------------------------------------------------------
(* Quarantine, live bindings and the job that is loaded.                   *)

\* Code that someone changed is remembered.
LEMMA TamperedGrows ==
  ASSUME [Next]_vars
  PROVE  tampered \subseteq tampered'
  <1>1. CASE UNCHANGED <<code, shared, registry, tampered>>
    BY <1>1
  <1>2. ASSUME NEW c \in Cli,
               Stage(c) \/ Record(c) \/ Change(c) \/ RemoveTree(c) \/ RecordRemoval(c) \/ Interrupted(c)
        PROVE  tampered' = tampered
    BY <1>2 DEF Stage, Record, Change, RemoveTree, RecordRemoval, Interrupted, worldVars
  <1>3. ASSUME NEW a \in Artifacts, Tamper(a[1], a[2]) \/ Mend(a[1], a[2])
        PROVE  tampered \subseteq tampered'
    BY <1>3 DEF Tamper, Mend
  <1>4. QED
    BY <1>1, <1>2, <1>3, StoreSteps

\* An enabled pack of a usable registry verifies.
LEMMA EnabledVerify ==
  ASSUME RegistryStaysUsable, tampered = {}, NEW p \in Packs, registry[p].enabled
  PROVE  /\ Verifies(registry, p, registry[p].selected)
         /\ MayActivate(p, registry[p].selected, registry[p].grants)
  BY DEF RegistryStaysUsable, Projects, EnabledPacksVerify

\* Every step leaves packs whose code is whole out of quarantine.
LEMMA QuarantineStep ==
  ASSUME TypeOK, RegistryStaysUsable, NoQuarantine, [Next]_vars
  PROVE  NoQuarantine'
  <1> SUFFICES ASSUME tampered' = {}, NEW p \in Packs PROVE ~failures'[p].quarantined
    BY DEF NoQuarantine
  <1>1. tampered = {} /\ ~failures[p].quarantined
    BY TamperedGrows DEF NoQuarantine
  <1>2. CASE Wake
    <2>1. failures'[p] = Accounted(p)
      BY <1>2 DEF Wake
    <2>2. registry[p].enabled \in BOOLEAN
      BY DEF TypeOK, Registries
    <2>3. ~Quarantined(p)
      BY <1>1 DEF Quarantined
    <2>4. CASE ~registry[p].enabled
      BY <2>1, <2>4 DEF Accounted, NoFailures
    <2>5. CASE registry[p].enabled
      <3>1. Verifies(registry, p, registry[p].selected)
        BY <1>1, <2>5, EnabledVerify
      <3>2. Accounted(p) = NoFailures
        BY <2>3, <2>5, <3>1 DEF Accounted
      <3>3. QED
        BY <2>1, <3>2 DEF NoFailures
    <2>6. QED
      BY <2>2, <2>4, <2>5
  <1>3. CASE ~Wake
    <2>1. failures' = failures
      BY <1>3 DEF Next, CommandStep, SchedulerStep, JobStarts, JobChanged, Busy, ProviderStarts,
                  ProviderEnds, Settle, Finish, IntervalPasses, Terminated, SchedulerKilled,
                  vars, backgroundVars
    <2>2. QED
      BY <1>1, <2>1
  <1>4. QED
    BY <1>2, <1>3

\* A registry with the same selection has the same bindings.
LEMMA SameSelection ==
  ASSUME NEW reg, NEW other, Selection(other) = Selection(reg)
  PROVE  Bindings(other) = Bindings(reg)
  BY DEF Bindings

\* Whatever is recorded or removed, the selection is as it was.
LEMMA SelectionKept ==
  ASSUME TypeOK, LeaseInv, Loads(registry), NEW c \in Cli, Record(c) \/ RecordRemoval(c)
  PROVE  Selection(registry') = Selection(registry)
  <1> DEFINE p == proc[c].pack
  <1>1. CASE Record(c)
    <2>1. proc[c].at = "recording" /\ registry' = Recorded(p, proc[c].version)
      BY <1>1 DEF Record
    <2>2. p \in Packs /\ proc[c].version \in Versions
      BY <2>1, AtHand
    <2>3. QED
      BY <2>1, <2>2, RecordedFacts DEF Selection
  <1>2. CASE RecordRemoval(c)
    <2>1. proc[c].at = "removing" /\ registry' = Uninstalled(p, proc[c].gone)
      BY <1>2 DEF RecordRemoval
    <2>2. p \in Packs /\ ~registry[p].enabled
      BY <2>1 DEF LeaseInv, Holds
    <2>3. ~registry'[p].enabled /\ \A q \in Packs : q # p => registry'[q] = registry[q]
      BY <2>1, <2>2, UninstalledFacts
    <2>4. \A q \in Packs : (IF registry'[q].enabled THEN registry'[q].selected ELSE None)
                         = (IF registry[q].enabled THEN registry[q].selected ELSE None)
      BY <2>2, <2>3
    <2>5. QED
      BY <2>4 DEF Selection
  <1>3. QED
    BY <1>1, <1>2

\* What a running profile accepts has the bindings it was started with.
LEMMA AcceptedBindings ==
  ASSUME NEW reg, NEW other, Selection(reg) \in Composes, Selection(other) \in Composes,
         KeepsLiveBindings(reg, other)
  PROVE  Bindings(other) = Bindings(reg)
  <1>1. /\ Bindings(reg) = [handlers |-> Bindings(reg).handlers, bodies |-> Bindings(reg).bodies]
        /\ Bindings(other) = [handlers |-> Bindings(other).handlers, bodies |-> Bindings(other).bodies]
    BY DEF Bindings
  <1>2. Bindings(reg).bodies = Bindings(other).bodies
    BY DEF KeepsLiveBindings
  <1>3. Bindings(reg).handlers = Bindings(other).handlers
    <2>1. CASE Profile.components
      BY <2>1 DEF KeepsLiveBindings
    <2>2. CASE ~Profile.components
      <3>1. ASSUME NEW r, Selection(r) \in Composes PROVE Bindings(r).handlers = {}
        <4>1. ComponentsCompose(Selection(r))
          BY <3>1 DEF Composes, ServicesCompose
        <4>2. Having(Selection(r), {"handler", "reader"}) = {}
          BY <2>2, <4>1 DEF ComponentsCompose
        <4>3. Having(Selection(r), {"handler"}) = {}
          BY <4>2 DEF Having
        <4>4. QED
          BY <4>3 DEF Bindings
      <3>2. QED
        BY <3>1
    <2>3. QED
      BY <2>1, <2>2
  <1>4. QED
    BY <1>1, <1>2, <1>3

\* The steps that touch what lives beside the commands.
LEMMA WorldSteps ==
  ASSUME [Next]_vars
  PROVE  /\ UNCHANGED <<live, bound>> \/ TurnOn(Tasks) \/ TurnOff
         /\ UNCHANGED registered \/ TurnOn(Tasks) \/ \E c \in Cli : Reconcile(c, Tasks)
         /\ \/ UNCHANGED count \/ Spends("commands") \/ Spends("switches")
            \/ SchedulerKilled \/ \E c \in Cli : Interrupted(c) \/ DispatcherKilled(c)
  <1>1. CASE UNCHANGED vars
    BY <1>1 DEF vars, commandVars, cliVars
  <1>2. ASSUME NEW c \in Cli, Continues(c)
        PROVE  UNCHANGED <<live, bound, registered, count>>
    BY <1>2 DEF Continues, TakeProfile, Stage, AlreadyConfigured, Record, Change, StartRemoval,
                RemoveTree, RecordRemoval, Refused, LeaseRun, StartRun, RunRefused, RunEnds, worldVars
  <1>3. ASSUME NEW c \in Cli, Reconcile(c, Tasks)
        PROVE  UNCHANGED <<live, bound, count>>
    BY <1>3 DEF Reconcile
  <1>4. ASSUME NEW c \in Cli, Starts(c)
        PROVE  UNCHANGED <<live, bound, registered>> /\ Spends("commands")
    BY <1>4 DEF Starts, BeginStaging, BeginEnable, BeginChange, BeginUninstall, BeginRun, Begin, worldVars
  <1>5. ASSUME NEW p \in Packs, OrphanEnds(p)
        PROVE  UNCHANGED <<live, bound, registered, count>>
    BY <1>5 DEF OrphanEnds, worldVars
  <1>6. ASSUME NEW c \in Cli, Interrupted(c) \/ DispatcherKilled(c)
        PROVE  UNCHANGED <<live, bound, registered>>
    BY <1>6 DEF Interrupted, DispatcherKilled, worldVars
  <1>7. CASE TurnOff \/ TurnOn(Tasks)
    BY <1>7 DEF TurnOff, TurnOn
  <1>8. ASSUME NEW a \in Artifacts, Tamper(a[1], a[2]) \/ Mend(a[1], a[2])
        PROVE  UNCHANGED <<live, bound, registered, count>>
    BY <1>8 DEF Tamper, Mend, cliVars
  <1>9. CASE SchedulerKilled
    BY <1>9 DEF SchedulerKilled, worldVars
  <1>10. CASE SchedulerStep \/ Terminated \/ \E p \in Packs : IntervalPasses(p)
    BY <1>10 DEF SchedulerStep, Wake, JobStarts, JobChanged, Busy, ProviderStarts, ProviderEnds,
                 Settle, Finish, Terminated, IntervalPasses, commandVars, cliVars, worldVars
  <1>11. QED
    BY <1>1, <1>2, <1>3, <1>4, <1>5, <1>6, <1>7, <1>8, <1>9, <1>10 DEF Next, CommandStep, Surroundings

\* The steps that change the registry, or what a running profile is bound to.
LEMMA BindingsStep ==
  ASSUME TypeOK, LeaseInv, RegistryStaysUsable, LiveBindingsStand, [Next]_vars
  PROVE  LiveBindingsStand'
  <1> SUFFICES ASSUME live' PROVE Bindings(registry') = bound'
    BY DEF LiveBindingsStand, Bindings, Selection, Having, Selected, Bodies, Declares
  <1>1. CASE TurnOn(Tasks)
    BY <1>1 DEF TurnOn, storeVars
  <1>2. CASE TurnOff
    BY <1>2 DEF TurnOff
  <1>3. CASE ~TurnOn(Tasks) /\ ~TurnOff
    <2>1. live' = live /\ bound' = bound
      BY <1>3, WorldSteps
    <2>2. Bindings(registry) = bound
      BY <2>1 DEF LiveBindingsStand
    <2>3. CASE registry' = registry
      BY <2>1, <2>2, <2>3
    <2>4. ASSUME NEW c \in Cli, Record(c) \/ RecordRemoval(c)
          PROVE  Bindings(registry') = bound'
      BY <2>1, <2>2, <2>4, SelectionKept, SameSelection DEF RegistryStaysUsable
    <2>5. ASSUME NEW c \in Cli, Change(c)
          PROVE  Bindings(registry') = bound'
      <3>1. registry' = Candidate(c) /\ Accepts(c) /\ proc[c].op # "uninstall"
        BY <2>5 DEF Change
      <3>2. KeepsLiveBindings(registry, Candidate(c))
        BY <2>1, <3>1 DEF Accepts, Candidate, RollbackAccepts, DisableAccepts, EnableAccepts
      <3>3. Selection(registry) \in Composes /\ Selection(registry') \in Composes
        <4>1. RegistryStaysUsable'
          BY RegistryStep
        <4>2. QED
          BY <4>1 DEF RegistryStaysUsable
      <3>4. QED
        BY <2>1, <2>2, <3>1, <3>2, <3>3, AcceptedBindings
    <2>6. registry' = registry \/ \E c \in Cli : Record(c) \/ RecordRemoval(c) \/ Change(c)
      BY StoreSteps DEF Stage, RemoveTree, Interrupted, Tamper, Mend
    <2>7. QED
      BY <2>3, <2>4, <2>5, <2>6
  <1>4. QED
    BY <1>1, <1>2, <1>3

\* With the code in place, what is wanted is what the scheduler finds.
LEMMA TasksAreWanted ==
  ASSUME RegistryStaysUsable, NoQuarantine, tampered = {}
  PROVE  Tasks = Wanted
  <1>1. ASSUME NEW p \in Packs
        PROVE  /\ ~Quarantined(p)
               /\ p \in Providers <=> registry[p].enabled
                                      /\ Declares(p, registry[p].selected).commands # {}
    BY EnabledVerify DEF NoQuarantine, Quarantined, Providers
  <1>2. QED
    BY <1>1 DEF Tasks, Wanted, Scheduled, Providers

\* Cuts are counted: without one no process was cut short.
LEMMA CutsGrow ==
  ASSUME TypeOK, [Next]_vars, count'.cuts = 0
  PROVE  /\ count.cuts = 0
         /\ ~SchedulerKilled /\ \A c \in Cli : ~Interrupted(c) /\ ~DispatcherKilled(c)
  <1>0. count.cuts \in Nat
    BY DEF TypeOK
  <1>1. ASSUME SchedulerKilled \/ \E c \in Cli : Interrupted(c) \/ DispatcherKilled(c)
        PROVE  FALSE
    <2>1. Spends("cuts")
      BY <1>1 DEF SchedulerKilled, Interrupted, DispatcherKilled
    <2>2. count'.cuts = count.cuts + 1
      BY <2>1, SpendsType
    <2>3. QED
      BY <1>0, <2>2
  <1>2. count' = count \/ Spends("commands") \/ Spends("switches")
    BY <1>1, WorldSteps
  <1>3. count.cuts = 0
    BY <1>2, SpendsType
  <1>4. QED
    BY <1>1, <1>3

\* A command that is about to reconcile does so, or is cut short.
LEMMA Reconciles ==
  ASSUME TypeOK, LeaseInv, [Next]_vars, count'.cuts = 0,
         NEW d \in Cli, proc[d].at = "reconciling", ~Reconcile(d, Tasks)
  PROVE  proc'[d].at = "reconciling"
  <1>1. CASE proc' = proc
    BY <1>1
  <1>2. ASSUME NEW c \in Cli, CommandStep(c) \/ (Starts(c) /\ UNCHANGED backgroundVars)
        PROVE  proc'[d] = proc[d]
    <2>1. Frame(c)
      BY <1>2, CommandFrames DEF CommandStep
    <2>2. c # d
      <3>1. CASE c = d /\ Continues(d)
        BY <3>1 DEF Continues, TakeProfile, Stage, AlreadyConfigured, Record, Change, StartRemoval,
                    RemoveTree, RecordRemoval, Refused, LeaseRun, StartRun, RunRefused, RunEnds
      <3>2. CASE c = d /\ Starts(d)
        <4>1. proc[d] = Idle
          BY <3>2 DEF Starts, BeginStaging, BeginEnable, BeginChange, BeginUninstall, BeginRun, Begin
        <4>2. QED
          BY <4>1 DEF Idle
      <3>3. QED
        BY <1>2, <3>1, <3>2 DEF CommandStep
    <2>3. QED
      BY <2>1, <2>2 DEF Frame
  <1>3. \/ proc' = proc
        \/ \E c \in Cli : CommandStep(c) \/ (Starts(c) /\ UNCHANGED backgroundVars)
    BY CutsGrow DEF Next, Surroundings, SchedulerStep, OrphanEnds, TurnOn, TurnOff, Tamper, Mend,
         Wake, JobStarts, JobChanged, Busy, ProviderStarts, ProviderEnds, Settle, Finish,
         IntervalPasses, Terminated, vars, commandVars, cliVars
  <1>4. QED
    BY <1>1, <1>2, <1>3

\* Every step leaves the job loaded when it is wanted.
LEMMA LoadedStep ==
  ASSUME TypeOK, LeaseInv, RegistryStaysUsable, NoQuarantine, LoadedInv, [Next]_vars
  PROVE  LoadedInv'
  <1> SUFFICES ASSUME count'.cuts = 0, tampered' = {},
                      \A c \in Cli : proc'[c].at # "reconciling"
               PROVE  registered' = (Wanted # {})'
    BY DEF LoadedInv
  <1>1. /\ count.cuts = 0 /\ tampered = {} /\ Tasks = Wanted
        /\ proc \in [Cli -> Processes] /\ registered' \in BOOLEAN
    BY CutsGrow, TamperedGrows, TasksAreWanted, TypeStep DEF TypeOK, RegistryStaysUsable
  <1>2. CASE TurnOn(Tasks) \/ \E c \in Cli : Reconcile(c, Tasks)
    <2>1. registry' = registry /\ registered' = (Tasks # {})
      BY <1>2 DEF TurnOn, Reconcile, storeVars
    <2>2. Wanted' = Wanted
      BY <2>1 DEF Wanted, Declares
    <2>3. QED
      BY <1>1, <2>1, <2>2
  <1>3. CASE ~(TurnOn(Tasks) \/ \E c \in Cli : Reconcile(c, Tasks))
    <2>1. registered' = registered
      BY <1>3, WorldSteps
    <2>2. registered = (Wanted # {})
      <3>1. \A d \in Cli : proc[d].at # "reconciling"
        BY <1>3, Reconciles
      <3>2. QED
        BY <1>1, <3>1 DEF LoadedInv
    <2>3. Wanted' = Wanted
      <3>1. CASE registry' = registry
        BY <3>1 DEF Wanted, Declares
      <3>2. ASSUME NEW c \in Cli, Record(c) PROVE Wanted' = Wanted
        <4>1. proc[c].at = "recording" /\ registry' = Recorded(proc[c].pack, proc[c].version)
          BY <3>2 DEF Record
        <4>2. proc[c].pack \in Packs /\ proc[c].version \in Versions
          BY <4>1, AtHand
        <4>3. \A p \in Packs : /\ registry'[p].enabled = registry[p].enabled
                               /\ registry'[p].selected = registry[p].selected
          BY <4>1, <4>2, RecordedFacts DEF RegistryStaysUsable
        <4>4. QED
          BY <4>3 DEF Wanted, Declares
      <3>3. ASSUME NEW c \in Cli, Change(c) \/ RecordRemoval(c) PROVE FALSE
        <4>1. Goto(c, "reconciling")
          BY <3>3 DEF Change, RecordRemoval
        <4>2. proc'[c] = [proc[c] EXCEPT !.at = "reconciling"]
          BY <4>1, GotoFacts DEF Published
        <4>3. proc'[c].at = "reconciling"
          BY <1>1, <4>2 DEF Processes
        <4>4. QED
          BY <4>3
      <3>4. registry' = registry \/ \E c \in Cli : Record(c) \/ RecordRemoval(c) \/ Change(c)
        BY StoreSteps DEF Stage, RemoveTree, Interrupted, Tamper, Mend
      <3>5. QED
        BY <3>1, <3>2, <3>3, <3>4
    <2>4. QED
      BY <2>1, <2>2, <2>3
  <1>4. QED
    BY <1>2, <1>3

-----------------------------------------------------------------------------
(* At the start, and together.                                             *)

\* The initial states satisfy the invariant.
LEMMA InvariantInit == Init => BackgroundInv
  <1> SUFFICES ASSUME Init PROVE BackgroundInv
    OBVIOUS
  <1>0. TypeOK
    BY TypeInit
  <1>1. /\ scenario \in Scenarios /\ registry = scenario.registry
        /\ code = CodeOf(registry) /\ shared = SharedOf(registry) /\ tampered = {}
        /\ \A c \in Cli : proc[c] = Idle
        /\ \A p \in Packs : child[p] = None /\ ~failures[p].quarantined
        /\ sched.at = "idle" /\ registered = (Scheduled # {})
        /\ live => bound = Bindings(registry)
    BY DEF Init, CommandInit, Asleep, NoFailures
  <1>2. /\ registry \in Registries /\ Loads(registry) /\ Selection(registry) \in Composes
        /\ \A p \in Packs : registry[p].enabled =>
             MayActivate(p, registry[p].selected, registry[p].grants)
    BY <1>1, CommandsAssumption
  <1>3. LeaseInv
    <2>1. ASSUME NEW c \in Cli PROVE Holds(c)
      <3>1. proc[c].at = "idle" /\ proc[c].op = None /\ None \notin Stages \cup Keyed
        BY <1>1, CommandsAssumption DEF Idle
      <3>2. "enable" \in Keyed /\ "idle" \notin Published
        BY DEF Keyed, Published
      <3>3. QED
        BY <3>1, <3>2 DEF Holds
    <2>2. QED
      BY <1>1, <2>1 DEF LeaseInv, Underway
  <1>4. ChildInv /\ RunningCodeStays
    BY <1>1 DEF ChildInv, RunningCodeStays
  <1>5. Projects(registry)
    <2>1. ASSUME NEW p \in Packs, registry[p].enabled
          PROVE  registry[p].selected \in registry[p].versions /\ registry[p].selected \in Versions
                 /\ code[p][registry[p].selected] = "whole"
      <3>1. registry[p].selected \in registry[p].versions /\ registry[p].versions \subseteq Versions
        BY <1>2, <2>1 DEF Loads, Registries
      <3>2. QED
        BY <1>1, <3>1 DEF CodeOf
    <2>2. EnabledPacksVerify(registry)
      BY <1>2, <2>1 DEF EnabledPacksVerify, Verifies, Intact
    <2>3. ResourcesInPlace(registry)
      <3>1. ASSUME NEW p \in Having(Selection(registry), {"page"}),
                   NEW r \in ToSet(Declares(p, Selection(registry)[p]).uses)
            PROVE  shared[r] = "whole"
        <4>1. /\ p \in Packs /\ Selection(registry)[p] # None
          BY DEF Having, Selected
        <4>2. registry[p].enabled /\ Selection(registry)[p] = registry[p].selected
          BY <4>1 DEF Selection
        <4> DEFINE a == <<p, registry[p].selected>>
        <4>3. a \in Artifacts /\ a[1] = p /\ a[2] = registry[p].selected
          BY <2>1, <4>1, <4>2 DEF Artifacts
        <4>4. a[2] \in registry[a[1]].versions /\ r \in ToSet(Declares(a[1], a[2]).uses)
          BY <2>1, <4>1, <4>2, <4>3
        <4> HIDE DEF a
        <4>5. r \in Resources
          BY <4>3, <4>4 DEF Resources
        <4>6. QED
          BY <1>1, <4>3, <4>4, <4>5 DEF SharedOf
      <3>2. QED
        BY <3>1 DEF ResourcesInPlace, UsedResources
    <2>4. QED
      BY <1>2, <2>2, <2>3 DEF Projects
  <1>6. RegistryStaysUsable /\ NoQuarantine
    BY <1>1, <1>2, <1>5 DEF RegistryStaysUsable, NoQuarantine
  <1>7. LiveBindingsStand
    BY <1>1 DEF LiveBindingsStand
  <1>8. LoadedInv
    <2>1. Tasks = Wanted
      BY <1>1, <1>6, TasksAreWanted
    <2>2. Tasks = Scheduled
      BY <1>1 DEF Tasks, Quarantined, Scheduled, Providers
    <2>3. QED
      BY <1>1, <2>1, <2>2 DEF LoadedInv
  <1>9. QED
    BY <1>0, <1>3, <1>4, <1>6, <1>7, <1>8 DEF BackgroundInv

\* Every step keeps it.
LEMMA InvariantStep == BackgroundInv /\ [Next]_vars => BackgroundInv'
  <1> SUFFICES ASSUME BackgroundInv, [Next]_vars PROVE BackgroundInv'
    OBVIOUS
  <1>1. TypeOK /\ LeaseInv /\ ChildInv /\ RunningCodeStays /\ RegistryStaysUsable /\ NoQuarantine
        /\ LiveBindingsStand /\ LoadedInv /\ Loads(registry)
    BY DEF BackgroundInv, RegistryStaysUsable
  <1>2. TypeOK'
    BY <1>1, TypeStep
  <1>3. LeaseInv'
    BY <1>1, LeaseStep
  <1>4. ChildInv' /\ RunningCodeStays'
    BY <1>1, ProviderStep
  <1>5. RegistryStaysUsable'
    BY <1>1, RegistryStep
  <1>6. NoQuarantine'
    BY <1>1, QuarantineStep
  <1>7. LiveBindingsStand'
    BY <1>1, BindingsStep
  <1>8. LoadedInv'
    BY <1>1, LoadedStep
  <1>9. QED
    BY <1>2, <1>3, <1>4, <1>5, <1>6, <1>7, <1>8 DEF BackgroundInv

(* Commands, providers and the scheduler keep the invariant that the       *)
(* properties below follow from.                                           *)
THEOREM BackgroundInvariant == Spec => []BackgroundInv
  BY InvariantInit, InvariantStep, PTL DEF Spec

(* No sequence of pack commands, cut short wherever, leaves a registry     *)
(* that cannot be loaded or whose enabled packs do not fit together; and   *)
(* what is enabled has its code and resources in place unless someone      *)
(* changed files behind the program's back.                                *)
THEOREM RegistryIsUsable == Spec => []RegistryStaysUsable
  <1>1. BackgroundInv => RegistryStaysUsable
    BY DEF BackgroundInv
  <1>2. QED
    BY <1>1, BackgroundInvariant, PTL

(* The code of a provider that runs is not removed or replaced, whoever    *)
(* of those that started it has died.                                      *)
THEOREM ProvidersKeepTheirCode == Spec => []RunningCodeStays
  <1>1. BackgroundInv => RunningCodeStays
    BY DEF BackgroundInv
  <1>2. QED
    BY <1>1, BackgroundInvariant, PTL

(* A running profile has the handlers and request bodies it started with.  *)
THEOREM BindingsStand == Spec => []LiveBindingsStand
  <1>1. BackgroundInv => LiveBindingsStand
    BY DEF BackgroundInv
  <1>2. QED
    BY <1>1, BackgroundInvariant, PTL

(* The background job is loaded exactly when a pack is scheduled, once     *)
(* nothing is under way and nothing was cut short or changed.              *)
THEOREM JobIsLoadedWhenWanted == Spec => []LoadedWhenWanted
  <1>1. BackgroundInv => LoadedWhenWanted
    <2> SUFFICES ASSUME BackgroundInv, count.cuts = 0, tampered = {}, \A c \in Cli : proc[c] = Idle
                 PROVE  registered = (Tasks # {})
      BY DEF LoadedWhenWanted
    <2>1. Tasks = Wanted
      BY TasksAreWanted DEF BackgroundInv
    <2>2. \A c \in Cli : proc[c].at # "reconciling"
      BY DEF Idle
    <2>3. QED
      BY <2>1, <2>2 DEF BackgroundInv, LoadedInv
  <1>2. QED
    BY <1>1, BackgroundInvariant, PTL

(* A pack whose provider runs has its selection and its grants changed by  *)
(* nothing but `pack add'.                                                 *)
THEOREM OnlyAddChangesAuthority == Spec => OnlyAddReauthorizes
  <1> DEFINE Reauthorized(p) ==
        UnderWay(p) /\ UnderWay(p)' /\ Authority(p)' # Authority(p)
          => \E c \in Cli : proc[c].op = "add" /\ proc[c].at = "changing" /\ proc[c].pack = p
  <1>1. ASSUME BackgroundInv, [Next]_vars, NEW p \in Packs PROVE Reauthorized(p)
    <2> SUFFICES ASSUME UnderWay(p), Authority(p)' # Authority(p)
                 PROVE  \E c \in Cli : proc[c].op = "add" /\ proc[c].at = "changing" /\ proc[c].pack = p
      OBVIOUS
    <2>0. TypeOK /\ LeaseInv /\ ChildInv /\ Loads(registry)
      BY <1>1 DEF BackgroundInv, RegistryStaysUsable
    <2>1. \A c \in Cli : lease[p] = c => proc[c].at = "running"
      <3>1. CASE child[p] # None
        BY <2>0, <3>1, CommandsAssumption DEF ChildInv, Minded
      <3>2. CASE child[p] = None
        <4>1. lease[p] = Scheduler
          BY <2>0, <3>2 DEF UnderWay, LeaseInv, Underway
        <4>2. QED
          BY <4>1, CommandsAssumption
      <3>3. QED
        BY <3>1, <3>2
    <2>2. registry[p] # registry'[p]
      BY DEF Authority
    <2>3. PICK c \in Cli : Record(c) \/ Change(c) \/ RecordRemoval(c)
      BY <1>1, <2>2, StoreSteps DEF Stage, RemoveTree, Interrupted, Tamper, Mend
    <2>4. Holds(c)
      BY <2>0 DEF LeaseInv
    <2>5. CASE Record(c)
      <3>1. proc[c].at = "recording" /\ registry' = Recorded(proc[c].pack, proc[c].version)
        BY <2>5 DEF Record
      <3>2. proc[c].pack \in Packs /\ proc[c].version \in Versions
        BY <2>0, <3>1, AtHand
      <3>3. QED
        BY <2>0, <3>1, <3>2, RecordedFacts DEF Authority
    <2>6. CASE Change(c)
      <3>1. /\ registry' = Candidate(c) /\ proc[c].at = "changing" /\ proc[c].op # "uninstall"
        BY <2>6 DEF Change
      <3>2. proc[c].pack \in Packs
        BY <2>4, <3>1 DEF Holds
      <3>3. proc[c].pack = p
        BY <2>0, <2>2, <3>1, <3>2, CandidateKeepsVersions
      <3>4. proc[c].op \in Stages \cup Keyed /\ proc[c].op # "install"
        BY <2>4, <3>1 DEF Holds, Published
      <3>5. proc[c].op \notin Keyed
        BY <2>1, <2>4, <3>1, <3>3 DEF Holds
      <3>6. QED
        BY <3>1, <3>3, <3>4, <3>5 DEF Stages, Keyed
    <2>7. CASE RecordRemoval(c)
      <3>1. /\ registry' = Uninstalled(proc[c].pack, proc[c].gone) /\ proc[c].at = "removing"
        BY <2>7 DEF RecordRemoval
      <3>2. /\ proc[c].pack \in Packs /\ ~registry[proc[c].pack].enabled
            /\ lease[proc[c].pack] = c
        BY <2>4, <3>1 DEF Holds, Keyed
      <3>3. proc[c].pack = p
        BY <2>0, <2>2, <3>1, <3>2, UninstalledFacts
      <3>4. QED
        BY <2>1, <3>1, <3>2, <3>3
    <2>8. QED
      BY <2>3, <2>5, <2>6, <2>7
  <1>2. BackgroundInv /\ [Next]_vars => [\A p \in Packs : Reauthorized(p)]_vars
    BY <1>1
  <1>3. QED
    BY <1>2, BackgroundInvariant, PTL DEF Spec, OnlyAddReauthorizes
=============================================================================
