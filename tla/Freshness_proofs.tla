-------------------------- MODULE Freshness_proofs --------------------------
(***************************************************************************)
(* Proofs about Freshness, for any targets, intervals, budget and          *)
(* back-off, and any number of ticks, news and crashes.                    *)
(***************************************************************************)
EXTENDS Freshness, Integers, FiniteSetTheorems, TLAPS

\* What the constants are: times are numbers, two wakes are never at the same time, and
\* no time is taken for never.
Times ==
  /\ WakeInterval \in Nat \ {0} /\ Expiry \in Nat /\ Window \in Nat \ {0} /\ Budget \in Nat
  /\ BackoffBase \in Nat /\ BackoffCap \in Nat
  /\ None \notin Int

Look    == [at : Nat, ok : BOOLEAN]
Account == [seen : Nat \cup {None}, active : Nat \cup {None}, flight : Nat \cup {None},
            failures : Nat, retry : Int \cup {None}, attempts : SUBSET Nat]

TypeInv ==
  /\ account \in [nextWake : Nat, targets : [Targets -> Account]]
  /\ world \in [quota : [Targets -> Nat \cup {None}], activity : [Targets -> Nat \cup {None}]]
  /\ run = [pc |-> run.pc, approved |-> run.approved, previous |-> run.previous]
  /\ run.pc \in {"none", "approved", "running"} /\ run.approved \subseteq Targets
  /\ asked \in [Targets -> Seq(Look)]
  /\ clock = [now |-> clock.now, news |-> clock.news, cuts |-> clock.cuts] /\ clock.now \in Nat

-----------------------------------------------------------------------------
(* One target: its account s, its looks, and the time n.                   *)

\* One look a wake, so that no two are at one time.
InOrder(looks) == \A i, j \in 1 .. Len(looks) : i < j => looks[i].at < looks[j].at

Recent(s, n) == {at \in s.attempts : at + Window > n}

\* The account has every look that is still in the window.
Counted(s, looks, n) ==
  /\ IsFiniteSet(s.attempts)
  /\ \A i \in 1 .. Len(looks) : looks[i].at + Window > n => looks[i].at \in s.attempts

\* The looks up to the k-th that brought nothing since one did.
Fruitful(looks, k)  == {0} \cup {j \in 1 .. k : looks[j].ok}
Fruitless(looks, k) == k - Max(Fruitful(looks, k))

\* The last look is in flight, or its failure is counted and its back-off set, or it
\* brought something: no look that brought nothing is forgotten.
Accounted(s, looks) ==
  LET k == Len(looks)
  IN  IF looks # <<>> /\ ~looks[k].ok
        THEN \/ s.flight = looks[k].at /\ s.failures = Fruitless(looks, k) - 1
             \/ /\ s.flight = None /\ s.failures = Fruitless(looks, k)
                /\ s.retry # None /\ s.retry >= looks[k].at + Delay(Fruitless(looks, k))
        ELSE s.flight = None /\ s.failures = 0

InWindow(looks, k) ==
  {j \in 1 .. Len(looks) : looks[k].at <= looks[j].at /\ looks[j].at < looks[k].at + Window}
Rationed(looks) ==
  /\ \A k \in 1 .. Len(looks) : Cardinality(InWindow(looks, k)) <= Budget
  /\ \A k \in 1 .. Len(looks) - 1 :
       ~looks[k].ok => looks[k + 1].at >= looks[k].at + Delay(Fruitless(looks, k))

TargetInv(s, looks, n) ==
  InOrder(looks) /\ Counted(s, looks, n) /\ Accounted(s, looks) /\ Rationed(looks)

-----------------------------------------------------------------------------
\* Between the approval of a look and its start nothing about its target changes.
MayLook(s, n) ==
  /\ s.flight = None /\ (s.retry = None \/ n >= s.retry)
  /\ Cardinality(Recent(s, n)) < Budget

WakeInv ==
  /\ run.pc # "none" => now < account.nextWake
  /\ \A t \in Targets : \A i \in 1 .. Len(asked[t]) :
       /\ asked[t][i].at <= now /\ asked[t][i].at < account.nextWake
       /\ run.pc = "approved" => asked[t][i].at < now
  /\ run.pc = "approved" => \A t \in run.approved : MayLook(account.targets[t], now)
  /\ run.pc = "running" => \A t \in run.approved : account.targets[t].flight = now

FreshnessInv ==
  TypeInv /\ WakeInv /\ \A t \in Targets : TargetInv(account.targets[t], asked[t], now)

-----------------------------------------------------------------------------
(* Back-off and streaks are numbers.                                       *)

LEMMA DelayType ==
  ASSUME Times, NEW k \in Nat \ {0}
  PROVE  Delay(k) \in Int
  <1> DEFINE x == BackoffBase * 2 ^ (k - 1)
             S == {x, BackoffCap}
  <1>1. x \in Int
    <2>1. k - 1 \in Nat
      OBVIOUS
    <2>2. 2 ^ (k - 1) \in Int
      BY <2>1
    <2>3. QED
      BY <2>2 DEF Times
  <1>2. BackoffCap \in Int
    BY DEF Times
  <1> HIDE DEF x
  <1>3. \E y \in S : \A z \in S : y =< z
    BY <1>1, <1>2
  <1>4. Min(S) \in S
    BY <1>3 DEF Min
  <1>5. QED
    BY <1>1, <1>2, <1>4 DEF Delay, x

\* Induction over the numbers, as a fact about sets.
LEMMA SetInduction ==
  ASSUME NEW S \in SUBSET Nat, 0 \in S, \A m \in S : m + 1 \in S
  PROVE  S = Nat
  <1> SUFFICES ASSUME NEW n \in Nat, n \notin S PROVE FALSE
    OBVIOUS
  <1> DEFINE A == {m \in S : m <= n}
  <1>1. IsFiniteSet(A)
    BY FS_BoundedSetOfNaturals
  <1>2. \A m \in A : m + 1 \in A
    OBVIOUS
  <1>3. /\ \A m \in A : m \in Nat
        /\ 0 \in A
    <2>1. \A m \in S : m \in Nat
      OBVIOUS
    <2>2. 0 <= n
      OBVIOUS
    <2>3. QED
      BY <2>1, <2>2
  <1> HIDE DEF A
  <1> DEFINE f == [m \in A |-> m + 1]
  <1>4. /\ f \in [A -> A]
        /\ \A m \in A : f[m] = m + 1
    BY <1>2
  <1> HIDE DEF f
  <1>5. /\ \A l, m \in A : f[l] = f[m] => l = m
        /\ \A m \in A : f[m] # 0
    BY <1>3, <1>4
  <1>6. f \in Injection(A, A)
    BY <1>4, <1>5 DEF Injection, IsInjective
  <1>7. f \in Surjection(A, A)
    BY <1>1, <1>6, FS_Injection
  <1>8. \E m \in A : f[m] = 0
    BY <1>3, <1>7 DEF Surjection
  <1>9. QED
    BY <1>5, <1>8

\* A set of numbers up to k has a largest.
LEMMA LargestUpTo ==
  ASSUME NEW k \in Nat, NEW T \in SUBSET (0 .. k), 0 \in T
  PROVE  Max(T) \in T /\ \A y \in T : Max(T) >= y
  <1> DEFINE N == {n \in Nat : \A S \in SUBSET (0 .. n) : 0 \in S => \E x \in S : \A y \in S : x >= y}
  <1>1. 0 \in N
    OBVIOUS
  <1>2. ASSUME NEW n \in N PROVE n + 1 \in N
    <2>1. n \in Nat /\ n + 1 \in Nat
      OBVIOUS
    <2>2. SUFFICES ASSUME NEW S \in SUBSET (0 .. n + 1), 0 \in S
                   PROVE  \E x \in S : \A y \in S : x >= y
      BY <2>1
    <2>3. CASE n + 1 \in S
      BY <2>1, <2>3
    <2>4. CASE n + 1 \notin S
      <3>1. S \in SUBSET (0 .. n)
        <4>1. ASSUME NEW y \in S PROVE y \in 0 .. n
          BY <2>1, <2>4
        <4>2. QED
          BY <4>1
      <3>2. QED
        BY <2>2, <3>1
    <2>5. QED
      BY <2>3, <2>4
  <1>3. k \in N
    <2>1. N \in SUBSET Nat
      OBVIOUS
    <2> HIDE DEF N
    <2>2. N = Nat
      BY <1>1, <1>2, <2>1, SetInduction
    <2>3. QED
      BY <2>2
  <1>4. \E x \in T : \A y \in T : x >= y
    BY <1>3
  <1>5. QED
    BY <1>4 DEF Max

\* A look that brings nothing adds one to what the last one left, which a look that
\* brought something sets to nothing.
LEMMA FruitlessFacts ==
  ASSUME NEW looks \in Seq(Look), NEW k \in 1 .. Len(looks)
  PROVE  /\ Fruitless(looks, k) \in Nat
         /\ looks[k].ok => Fruitless(looks, k) = 0
         /\ ~looks[k].ok => Fruitless(looks, k) > 0
  <1> DEFINE T == Fruitful(looks, k)
  <1>1. k \in Nat /\ T \in SUBSET (0 .. k) /\ 0 \in T
    BY DEF Fruitful
  <1>2. looks[k].ok <=> k \in T
    BY DEF Fruitful
  <1> HIDE DEF T
  <1>3. Max(T) \in T /\ \A y \in T : Max(T) >= y
    BY <1>1, LargestUpTo
  <1>4. Max(T) \in 0 .. k /\ Fruitless(looks, k) = k - Max(T)
    BY <1>1, <1>3 DEF Fruitless, T
  <1>5. QED
    BY <1>1, <1>2, <1>3, <1>4

LEMMA OneMoreFruitless ==
  ASSUME NEW looks \in Seq(Look), NEW k \in 0 .. Len(looks) - 1, ~looks[k + 1].ok
  PROVE  Fruitless(looks, k + 1) = IF k = 0 THEN 1 ELSE Fruitless(looks, k) + 1
  <1>1. /\ k \in Nat
        /\ Fruitful(looks, k) \in SUBSET (0 .. k) /\ 0 \in Fruitful(looks, k)
        /\ k = 0 => Fruitful(looks, k) = {0}
    BY DEF Fruitful
  <1>2. Fruitful(looks, k + 1) = Fruitful(looks, k)
    BY DEF Fruitful
  <1>3. Max(Fruitful(looks, k)) \in Fruitful(looks, k)
    BY <1>1, LargestUpTo
  <1>4. Max(Fruitful(looks, k)) \in 0 .. k /\ (k = 0 => Max(Fruitful(looks, k)) = 0)
    BY <1>1, <1>3
  <1>5. Fruitless(looks, k + 1) = (k + 1) - Max(Fruitful(looks, k))
    BY <1>2 DEF Fruitless
  <1>6. QED
    BY <1>1, <1>4, <1>5 DEF Fruitless

\* It only depends on the looks so far.
LEMMA SameFruitless ==
  ASSUME NEW looks \in Seq(Look), NEW others \in Seq(Look), NEW k \in Nat,
         k <= Len(looks), k <= Len(others), \A j \in 1 .. k : looks[j].ok = others[j].ok
  PROVE  Fruitless(looks, k) = Fruitless(others, k)
  <1>1. Fruitful(looks, k) = Fruitful(others, k)
    BY DEF Fruitful
  <1>2. QED
    BY <1>1 DEF Fruitless

-----------------------------------------------------------------------------
(* What becomes of one target.                                             *)

\* The looks with one more, at the time n.
Looking(looks, n) == looks \o <<[at |-> n, ok |-> FALSE]>>

LEMMA OneMoreLook ==
  ASSUME NEW looks \in Seq(Look), NEW n \in Nat
  PROVE  /\ Looking(looks, n) \in Seq(Look) /\ Len(Looking(looks, n)) = Len(looks) + 1
         /\ \A i \in 1 .. Len(looks) : Looking(looks, n)[i] = looks[i] /\ looks[i].at \in Nat
         /\ Looking(looks, n)[Len(looks) + 1].at = n /\ Looking(looks, n)[Len(looks) + 1].ok = FALSE
  <1>1. [at |-> n, ok |-> FALSE] \in Look
    BY DEF Look
  <1>2. /\ Looking(looks, n) \in Seq(Look) /\ Len(Looking(looks, n)) = Len(looks) + 1
        /\ \A i \in 1 .. Len(looks) : Looking(looks, n)[i] = looks[i]
        /\ Looking(looks, n)[Len(looks) + 1] = [at |-> n, ok |-> FALSE]
    BY <1>1 DEF Looking
  <1>3. \A i \in 1 .. Len(looks) : looks[i] \in Look
    OBVIOUS
  <1>4. QED
    BY <1>2, <1>3 DEF Look

\* The same in one word.
Longer(looks, more, n) ==
  /\ more \in Seq(Look) /\ Len(more) = Len(looks) + 1
  /\ \A i \in 1 .. Len(looks) : more[i] = looks[i]
  /\ more[Len(looks) + 1].at = n

LEMMA LongerLooks == \A looks \in Seq(Look), n \in Nat : Longer(looks, Looking(looks, n), n)
  BY OneMoreLook DEF Longer

\* The budget was not used up by the looks in the window, so it is not exceeded with one more.
LEMMA WithinBudgetStays ==
  ASSUME Times, NEW looks \in Seq(Look), NEW n \in Nat, NEW s \in Account,
         InOrder(looks), Counted(s, looks, n), Rationed(looks), Cardinality(Recent(s, n)) < Budget,
         \A i \in 1 .. Len(looks) : looks[i].at < n,
         NEW more, more = Looking(looks, n),
         NEW j \in 1 .. Len(more)
  PROVE  Cardinality(InWindow(more, j)) <= Budget
  <1> DEFINE k == Len(looks)
             W == InWindow(more, j)
             A == Recent(s, n)
  <1>1. /\ k \in Nat /\ Len(more) = k + 1 /\ more \in Seq(Look)
        /\ \A i \in 1 .. k : more[i] = looks[i] /\ looks[i].at \in Nat
        /\ more[k + 1].at = n /\ j \in 1 .. k + 1
        /\ Window \in Nat \ {0} /\ Budget \in Nat
    <2>1. k \in Nat /\ Window \in Nat \ {0} /\ Budget \in Nat
      BY DEF Times
    <2>2. /\ Len(more) = Len(looks) + 1 /\ more \in Seq(Look)
          /\ \A i \in 1 .. Len(looks) : more[i] = looks[i] /\ looks[i].at \in Nat
          /\ more[Len(looks) + 1].at = n
      BY OneMoreLook
    <2>3. QED
      BY <2>1, <2>2
  <1>2. CASE k + 1 \notin W
    <2>1. j \in 1 .. k
      BY <1>1, <1>2 DEF InWindow
    <2>2. W = InWindow(looks, j)
      <3>1. ASSUME NEW i \in W PROVE i \in InWindow(looks, j)
        <4>1. i \in 1 .. k + 1 /\ i # k + 1
          BY <1>1, <1>2 DEF InWindow
        <4>2. i \in 1 .. k
          BY <1>1, <4>1
        <4>3. QED
          BY <1>1, <2>1, <4>2 DEF InWindow
      <3>2. ASSUME NEW i \in InWindow(looks, j) PROVE i \in W
        BY <1>1, <2>1 DEF InWindow
      <3>3. QED
        BY <3>1, <3>2
    <2>3. QED
      BY <2>1, <2>2 DEF Rationed
  <1>3. CASE k + 1 \in W
    <2>1. IsFiniteSet(A) /\ Cardinality(A) \in Nat /\ Cardinality(A) < Budget
      BY FS_Subset, FS_CardinalityType DEF Counted, Recent
    <2>2. more[j].at <= n /\ n < more[j].at + Window /\ more[j].at \in Nat
      BY <1>1, <1>3 DEF InWindow
    <2>3. ASSUME NEW i \in W \ {k + 1}
          PROVE  i \in 1 .. k /\ looks[i].at \in A
      <3>1. i \in 1 .. k /\ more[j].at <= more[i].at
        BY <1>1 DEF InWindow
      <3>2. looks[i].at \in Nat /\ looks[i].at + Window > n
        <4>1. looks[i].at \in Nat /\ more[i].at = looks[i].at
          BY <1>1, <3>1
        <4>2. more[j].at <= looks[i].at
          BY <3>1, <4>1
        <4>3. QED
          BY <1>1, <2>2, <4>1, <4>2
      <3>3. QED
        BY <3>1, <3>2 DEF Counted, Recent
    <2> DEFINE f == [i \in W \ {k + 1} |-> looks[i].at]
    <2>4. f \in [W \ {k + 1} -> A]
      BY <2>3
    <2>5. ASSUME NEW a \in W \ {k + 1}, NEW b \in W \ {k + 1}, f[a] = f[b]
          PROVE  a = b
      <3>1. looks[a].at = looks[b].at /\ a \in 1 .. k /\ b \in 1 .. k
        BY <2>3, <2>5
      <3>2. ~(a < b) /\ ~(b < a)
        BY <1>1, <3>1 DEF InOrder
      <3>3. QED
        BY <3>1, <3>2
    <2> HIDE DEF f
    <2>6. f \in Injection(W \ {k + 1}, A)
      BY <2>4, <2>5 DEF Injection, IsInjective
    <2>7. /\ IsFiniteSet(W \ {k + 1}) /\ Cardinality(W \ {k + 1}) \in Nat
          /\ Cardinality(W \ {k + 1}) <= Cardinality(A)
      BY <2>1, <2>6, FS_Injection, FS_CardinalityType
    <2>8. W = (W \ {k + 1}) \cup {k + 1}
      BY <1>3
    <2>9. Cardinality(W) = Cardinality(W \ {k + 1}) + 1
      BY <2>7, <2>8, FS_AddElement
    <2>10. QED
      BY <1>1, <2>1, <2>7, <2>9
  <1>4. QED
    BY <1>2, <1>3

\* Once approved, a look keeps to the budget and to the back-off.
LEMMA LookStarts ==
  ASSUME Times, NEW looks \in Seq(Look), NEW n \in Nat, NEW s \in Account,
         TargetInv(s, looks, n), MayLook(s, n), \A i \in 1 .. Len(looks) : looks[i].at < n,
         NEW more, more = Looking(looks, n),
         NEW t, t.flight = n, t.failures = s.failures, t.attempts = Recent(s, n) \cup {n}
  PROVE  TargetInv(t, more, n)
  <1> DEFINE k == Len(looks)
  <1>1. /\ k \in Nat /\ Len(more) = k + 1 /\ more \in Seq(Look)
        /\ \A i \in 1 .. k : more[i] = looks[i] /\ looks[i].at \in Nat
        /\ more[k + 1].at = n /\ more[k + 1].ok = FALSE /\ more # <<>>
    <2>1. /\ Len(Looking(looks, n)) = Len(looks) + 1 /\ Looking(looks, n) \in Seq(Look)
          /\ \A i \in 1 .. Len(looks) : Looking(looks, n)[i] = looks[i] /\ looks[i].at \in Nat
          /\ Looking(looks, n)[Len(looks) + 1].at = n /\ Looking(looks, n)[Len(looks) + 1].ok = FALSE
      BY OneMoreLook
    <2>2. QED
      BY <2>1
  <1>2. InOrder(more)
    <2>1. SUFFICES ASSUME NEW i \in 1 .. k + 1, NEW j \in 1 .. k + 1, i < j
                   PROVE  more[i].at < more[j].at
      BY <1>1 DEF InOrder
    <2>2. i \in 1 .. k /\ more[i] = looks[i]
      BY <1>1, <2>1
    <2>3. CASE j = k + 1
      BY <1>1, <2>2, <2>3
    <2>4. CASE j # k + 1
      <3>1. j \in 1 .. k /\ more[j] = looks[j]
        BY <1>1, <2>4
      <3>2. QED
        BY <2>1, <2>2, <3>1 DEF TargetInv, InOrder
    <2>5. QED
      BY <2>3, <2>4
  <1>10. ASSUME NEW j \in 0 .. k
         PROVE  Fruitless(more, j) = Fruitless(looks, j)
    <2>1. j \in Nat /\ j <= Len(more) /\ j <= Len(looks) /\ \A i \in 1 .. j : more[i].ok = looks[i].ok
      BY <1>1
    <2>2. QED
      BY <1>1, <2>1, SameFruitless
  <1>3. Counted(t, more, n)
    <2>1. IsFiniteSet(t.attempts)
      <3>1. IsFiniteSet(s.attempts) /\ Recent(s, n) \in SUBSET s.attempts
        BY DEF Counted, Recent, TargetInv
      <3>2. IsFiniteSet(Recent(s, n))
        BY <3>1, FS_Subset
      <3>3. QED
        BY <3>2, FS_AddElement
    <2>2. ASSUME NEW i \in 1 .. Len(more), more[i].at + Window > n
          PROVE  more[i].at \in t.attempts
      <3>1. CASE i = k + 1
        BY <1>1, <3>1
      <3>2. CASE i # k + 1
        <4>1. i \in 1 .. k /\ looks[i].at + Window > n
          BY <1>1, <2>2, <3>2
        <4>2. QED
          BY <1>1, <4>1 DEF Counted, TargetInv, Recent
      <3>3. QED
        BY <3>1, <3>2
    <2>3. QED
      BY <2>1, <2>2 DEF Counted
  <1>4. /\ k = 0 => s.failures = 0
        /\ k # 0 => /\ looks # <<>> /\ k \in 1 .. k
                    /\ s.failures = Fruitless(looks, k)
                    /\ Fruitless(more, k) = Fruitless(looks, k)
                    /\ ~looks[k].ok => n >= looks[k].at + Delay(Fruitless(looks, k))
    <2>1. CASE k = 0
      BY <2>1 DEF TargetInv, Accounted
    <2>2. CASE k # 0
      <3>1. looks # <<>> /\ k \in 1 .. k
        BY <1>1, <2>2
      <3>2. Fruitless(more, k) = Fruitless(looks, k)
        BY <1>1, <1>10
      <3>3. CASE looks[k].ok
        BY <3>1, <3>2, <3>3, FruitlessFacts DEF TargetInv, Accounted
      <3>4. CASE ~looks[k].ok
        <4>1. s.flight = None /\ looks[k].at # None /\ looks[k].at \in Nat
          BY <1>1, <3>1 DEF MayLook, Times
        <4>2. s.failures = Fruitless(looks, k) /\ s.retry # None
              /\ s.retry >= looks[k].at + Delay(Fruitless(looks, k))
          BY <3>1, <3>4, <4>1 DEF TargetInv, Accounted
        <4>3. n >= s.retry /\ s.retry \in Int
          BY <4>2 DEF MayLook, Account
        <4>4. Delay(Fruitless(looks, k)) \in Int
          BY <3>1, <3>4, FruitlessFacts, DelayType
        <4>5. QED
          BY <3>1, <3>2, <4>1, <4>2, <4>3, <4>4
      <3>5. QED
        BY <3>3, <3>4
    <2>3. QED
      BY <2>1, <2>2
  <1>5. s.failures = Fruitless(more, k + 1) - 1
    <2>1. k \in 0 .. Len(more) - 1 /\ ~more[k + 1].ok
      BY <1>1
    <2>2. Fruitless(more, k + 1) = IF k = 0 THEN 1 ELSE Fruitless(more, k) + 1
      BY <1>1, <2>1, OneMoreFruitless
    <2>3. k # 0 => Fruitless(looks, k) \in Nat
      BY <1>4, FruitlessFacts
    <2>4. QED
      BY <1>4, <2>2, <2>3
  <1>6. Accounted(t, more)
    BY <1>1, <1>5 DEF Accounted
  <1>7. ASSUME NEW j \in 1 .. Len(more) - 1, ~more[j].ok
        PROVE  more[j + 1].at >= more[j].at + Delay(Fruitless(more, j))
    <2>1. j \in 1 .. k /\ more[j] = looks[j]
      BY <1>1
    <2>2. Fruitless(more, j) = Fruitless(looks, j)
      BY <2>1, <1>10
    <2>3. CASE j = k
      BY <1>1, <1>4, <1>7, <2>1, <2>2, <2>3
    <2>4. CASE j # k
      <3>1. j \in 1 .. Len(looks) - 1 /\ j + 1 \in 1 .. k
        BY <1>1, <2>1, <2>4
      <3>2. looks[j + 1].at >= looks[j].at + Delay(Fruitless(looks, j))
        BY <1>7, <2>1, <3>1 DEF TargetInv, Rationed
      <3>3. QED
        BY <1>1, <2>1, <2>2, <3>1, <3>2
    <2>5. QED
      BY <2>3, <2>4
  <1>8. Rationed(more)
    <2>1. \A j \in 1 .. Len(more) : Cardinality(InWindow(more, j)) <= Budget
      BY WithinBudgetStays DEF TargetInv, MayLook
    <2>2. QED
      BY <1>7, <2>1 DEF Rationed
  <1>9. QED
    BY <1>2, <1>3, <1>6, <1>8 DEF TargetInv

\* A look that is over, or not heard of any more, is a failure from then on.
LEMMA FailedFacts ==
  ASSUME Times, NEW s \in Account, NEW at \in Nat
  PROVE  /\ Failed(s, at) \in Account
         /\ Failed(s, at).flight = None /\ Failed(s, at).failures = s.failures + 1
         /\ Failed(s, at).retry = at + Delay(s.failures + 1)
         /\ Failed(s, at).attempts = s.attempts
  <1>1. s.failures + 1 \in Nat \ {0} /\ s.failures \in Nat
    BY DEF Account
  <1>2. at + Delay(s.failures + 1) \in Int
    BY <1>1, DelayType
  <1>3. QED
    BY <1>1, <1>2 DEF Failed, Account

LEMMA LookFails ==
  ASSUME Times, NEW looks \in Seq(Look), NEW n \in Nat, NEW s \in Account,
         TargetInv(s, looks, n), s.flight # None, NEW at \in Nat, at >= s.flight
  PROVE  TargetInv(Failed(s, at), looks, n)
  <1> DEFINE k == Len(looks)
             f == Failed(s, at)
  <1>1. /\ looks # <<>> /\ ~looks[k].ok
        /\ s.flight = looks[k].at /\ s.failures = Fruitless(looks, k) - 1
    BY DEF TargetInv, Accounted
  <1>2. k \in 1 .. k /\ looks[k].at \in Nat
    <2>1. k \in 1 .. k /\ looks[k] \in Look
      BY <1>1
    <2>2. QED
      BY <2>1 DEF Look
  <1>3. Fruitless(looks, k) \in Nat \ {0} /\ s.failures + 1 = Fruitless(looks, k)
    BY <1>1, <1>2, FruitlessFacts
  <1>4. Delay(Fruitless(looks, k)) \in Int
    BY <1>3, DelayType
  <1>5. /\ f.flight = None /\ f.failures = Fruitless(looks, k)
        /\ f.retry = at + Delay(Fruitless(looks, k)) /\ f.attempts = s.attempts
    <2>1. /\ f.flight = None /\ f.failures = s.failures + 1
          /\ f.retry = at + Delay(s.failures + 1) /\ f.attempts = s.attempts
      BY FailedFacts
    <2>2. QED
      BY <1>3, <2>1
  <1> HIDE DEF f
  <1>6. f.retry >= looks[k].at + Delay(Fruitless(looks, k)) /\ f.retry \in Int
    BY <1>1, <1>2, <1>4, <1>5
  <1>7. Accounted(f, looks)
    BY <1>1, <1>5, <1>6 DEF Accounted, Times
  <1>8. Counted(f, looks, n)
    BY <1>5 DEF Counted, TargetInv
  <1>9. QED
    BY <1>7, <1>8 DEF TargetInv, f

\* A look that brought something ends all that came before.
Fruit(looks) == IF looks # <<>> THEN [looks EXCEPT ![Len(looks)].ok = TRUE] ELSE looks

LEMMA FruitFacts ==
  ASSUME NEW looks \in Seq(Look)
  PROVE  /\ Fruit(looks) \in Seq(Look) /\ Len(Fruit(looks)) = Len(looks)
         /\ \A i \in 1 .. Len(looks) : Fruit(looks)[i].at = looks[i].at
         /\ \A i \in 1 .. Len(looks) - 1 : Fruit(looks)[i] = looks[i]
         /\ looks # <<>> => Fruit(looks)[Len(looks)].ok
  <1>1. CASE looks = <<>>
    BY <1>1 DEF Fruit
  <1>2. CASE looks # <<>>
    <2>1. Len(looks) \in 1 .. Len(looks) /\ looks[Len(looks)] \in Look
      BY <1>2
    <2> DEFINE v == [looks[Len(looks)] EXCEPT !.ok = TRUE]
    <2>2. v \in Look /\ v.at = looks[Len(looks)].at /\ v.ok
      BY <2>1 DEF Look
    <2>3. Fruit(looks) = [looks EXCEPT ![Len(looks)] = v]
      BY <1>2 DEF Fruit
    <2> HIDE DEF v
    <2>4. /\ [looks EXCEPT ![Len(looks)] = v] \in Seq(Look)
          /\ Len([looks EXCEPT ![Len(looks)] = v]) = Len(looks)
          /\ \A i \in 1 .. Len(looks) :
               [looks EXCEPT ![Len(looks)] = v][i] = IF i = Len(looks) THEN v ELSE looks[i]
      BY <2>1, <2>2
    <2>5. QED
      BY <2>1, <2>2, <2>3, <2>4
  <1>3. QED
    BY <1>1, <1>2

LEMMA LookBrings ==
  ASSUME Times, NEW looks \in Seq(Look), NEW n \in Nat, NEW s, TargetInv(s, looks, n),
         NEW t, t.flight = None, t.failures = 0, t.attempts = s.attempts
  PROVE  TargetInv(t, Fruit(looks), n)
  <1> DEFINE k == Len(looks)
             more == Fruit(looks)
  <1>1. /\ k \in Nat /\ more \in Seq(Look) /\ Len(more) = k
        /\ \A i \in 1 .. k : more[i].at = looks[i].at
        /\ \A i \in 1 .. k - 1 : more[i] = looks[i]
        /\ more # <<>> => more[k].ok
    BY FruitFacts DEF Fruit
  <1> HIDE DEF more
  <1>2. InOrder(more)
    BY <1>1 DEF InOrder, TargetInv
  <1>3. Counted(t, more, n)
    BY <1>1 DEF Counted, TargetInv
  <1>4. Accounted(t, more)
    BY <1>1 DEF Accounted
  <1>5. ASSUME NEW j \in 1 .. Len(more)
        PROVE  Cardinality(InWindow(more, j)) <= Budget
    <2>1. InWindow(more, j) = InWindow(looks, j)
      BY <1>1 DEF InWindow
    <2>2. QED
      BY <1>1, <2>1 DEF TargetInv, Rationed
  <1>6. ASSUME NEW j \in 1 .. Len(more) - 1, ~more[j].ok
        PROVE  more[j + 1].at >= more[j].at + Delay(Fruitless(more, j))
    <2>1. /\ j \in Nat /\ j <= Len(more) /\ j <= Len(looks) /\ j \in 1 .. k - 1 /\ j + 1 \in 1 .. k
          /\ \A i \in 1 .. j : more[i].ok = looks[i].ok
      BY <1>1
    <2>2. Fruitless(more, j) = Fruitless(looks, j)
      BY <1>1, <2>1, SameFruitless
    <2>3. QED
      BY <1>1, <1>6, <2>1, <2>2 DEF TargetInv, Rationed
  <1>7. QED
    BY <1>2, <1>3, <1>4, <1>5, <1>6 DEF TargetInv, Rationed, more

\* What else is observed of a target is of no account here, and time only helps.
LEMMA LooksStay ==
  ASSUME NEW looks, NEW n, NEW s, TargetInv(s, looks, n),
         NEW t, t.flight = s.flight, t.failures = s.failures, t.retry = s.retry, t.attempts = s.attempts
  PROVE  TargetInv(t, looks, n)
  BY DEF TargetInv, Counted, Accounted

LEMMA TimePasses ==
  ASSUME Times, NEW looks \in Seq(Look), NEW n \in Nat, NEW s, TargetInv(s, looks, n)
  PROVE  TargetInv(s, looks, n + 1)
  <1>1. \A i \in 1 .. Len(looks) : looks[i] \in Look
    OBVIOUS
  <1>2. \A i \in 1 .. Len(looks) : looks[i].at \in Nat
    BY <1>1 DEF Look
  <1>3. Counted(s, looks, n + 1)
    BY <1>2 DEF Counted, TargetInv, Times
  <1>4. QED
    BY <1>3 DEF TargetInv

-----------------------------------------------------------------------------
(* The steps.                                                              *)

LEMMA FreshnessInit == Init /\ Times => FreshnessInv
  <1> SUFFICES ASSUME Init, Times
               PROVE  FreshnessInv
    OBVIOUS
  <1>1. /\ Fresh \in Account /\ Fresh.flight = None /\ Fresh.failures = 0
        /\ Fresh.attempts = {}
    BY DEF Fresh, Account
  <1>2. TypeInv
    BY <1>1 DEF Init, TypeInv, NoRun
  <1>3. WakeInv
    BY DEF Init, WakeInv, NoRun
  <1>4. TargetInv(Fresh, <<>>, 0)
    BY <1>1, FS_EmptySet DEF TargetInv, InOrder, Counted, Accounted, Rationed
  <1>5. QED
    BY <1>2, <1>3, <1>4 DEF FreshnessInv, Init, now

LEMMA ObservedFacts ==
  ASSUME TypeInv, NEW t \in Targets, NEW s \in Account
  PROVE  /\ Observed(s, t) \in Account
         /\ Observed(s, t).flight = s.flight /\ Observed(s, t).failures = s.failures
         /\ Observed(s, t).retry = s.retry /\ Observed(s, t).attempts = s.attempts
  <1>1. world.quota[t] \in Nat \cup {None} /\ world.activity[t] \in Nat \cup {None}
    BY DEF TypeInv
  <1>2. QED
    BY <1>1 DEF Observed, Account

\* A wake settles what is overdue and approves looks that are due.
LEMMA WakeStep ==
  ASSUME Times, FreshnessInv, Wake
  PROVE  FreshnessInv'
  <1> DEFINE seen(t) == Observed(account.targets[t], t)
             ss == [t \in Targets |-> Settled(seen(t))]
  <1>1. /\ run.pc = "none" /\ now >= account.nextWake /\ now \in Nat /\ WakeInterval \in Nat \ {0}
        /\ account' = [nextWake |-> now + WakeInterval, targets |-> ss]
        /\ run' = NoRun \/ run' = [pc |-> "approved", approved |-> Approved(ss, now \in Nights), previous |-> world.quota]
        /\ UNCHANGED <<world, asked, clock>> /\ now' = now
    BY DEF Wake, Times, FreshnessInv, TypeInv, now
  <1>2. ASSUME NEW t \in Targets
        PROVE  ss[t] \in Account /\ TargetInv(ss[t], asked[t], now)
    <2>1. account.targets[t] \in Account /\ asked[t] \in Seq(Look) /\ TargetInv(account.targets[t], asked[t], now)
      BY DEF FreshnessInv, TypeInv
    <2>2. seen(t) \in Account /\ TargetInv(seen(t), asked[t], now)
      BY <2>1, ObservedFacts, LooksStay DEF FreshnessInv
    <2>3. ss[t] = Settled(seen(t))
      OBVIOUS
    <2> HIDE DEF seen, ss
    <2>4. CASE Settled(seen(t)) = seen(t)
      BY <2>2, <2>3, <2>4
    <2>5. CASE seen(t).flight # None /\ Settled(seen(t)) = Failed(seen(t), seen(t).flight + Expiry)
      <3>1. seen(t).flight \in Nat /\ seen(t).flight + Expiry \in Nat /\ seen(t).flight + Expiry >= seen(t).flight
        BY <2>2, <2>5 DEF Account, Times
      <3>2. Failed(seen(t), seen(t).flight + Expiry) \in Account
        BY <2>2, <3>1, FailedFacts
      <3>3. TargetInv(Failed(seen(t), seen(t).flight + Expiry), asked[t], now)
        BY <1>1, <2>1, <2>2, <2>5, <3>1, LookFails
      <3>4. QED
        BY <2>3, <2>5, <3>2, <3>3
    <2>6. QED
      BY <2>4, <2>5 DEF Settled
  <1>3. ASSUME NEW t \in Approved(ss, now \in Nights)
        PROVE  t \in Targets /\ MayLook(ss[t], now)
    BY DEF Approved, Due, MayLook, Attempts, Recent
  <1>4. DOMAIN ss = Targets
    OBVIOUS
  <1> HIDE DEF ss
  <1>5. ss \in [Targets -> Account]
    <2>1. ss = [t \in Targets |-> ss[t]]
      BY DEF ss
    <2>2. QED
      BY <1>2, <2>1
  <1>6. TypeInv'
    BY <1>1, <1>3, <1>5 DEF FreshnessInv, TypeInv, NoRun
  <1>7. WakeInv'
    <2>1. now < account'.nextWake /\ account'.nextWake \in Nat
      BY <1>1
    <2>2. ASSUME NEW t \in Targets, NEW i \in 1 .. Len(asked[t])
          PROVE  asked[t][i].at < now /\ asked[t][i].at < account'.nextWake
      <3>1. asked[t] \in Seq(Look) /\ asked[t][i] \in Look /\ asked[t][i].at < account.nextWake
        BY DEF FreshnessInv, TypeInv, WakeInv
      <3>2. asked[t][i].at \in Nat /\ account.nextWake \in Nat
        BY <3>1 DEF Look, FreshnessInv, TypeInv
      <3>3. QED
        BY <1>1, <2>1, <3>1, <3>2
    <2>3. run'.pc = "approved" => \A t \in run'.approved : MayLook(account'.targets[t], now)
      BY <1>1, <1>3 DEF NoRun
    <2>4. \A t \in Targets : \A i \in 1 .. Len(asked[t]) : asked[t][i].at <= now
      BY DEF FreshnessInv, WakeInv
    <2>5. run'.pc # "running"
      BY <1>1 DEF NoRun
    <2>6. now' < account'.nextWake /\ asked' = asked
      BY <1>1, <2>1
    <2>7. QED
      BY <1>1, <2>2, <2>3, <2>4, <2>5, <2>6 DEF WakeInv, MayLook, Recent
  <1>8. \A t \in Targets : TargetInv(account'.targets[t], asked'[t], now')
    BY <1>1, <1>2
  <1>9. QED
    BY <1>6, <1>7, <1>8 DEF FreshnessInv

\* What was approved is asked for, once.
LEMMA StartStep ==
  ASSUME Times, FreshnessInv, StartRun
  PROVE  FreshnessInv'
  <1> DEFINE ss == [t \in Targets |-> IF t \in run.approved THEN Started(account.targets[t])
                                      ELSE account.targets[t]]
  <1>1. /\ run.pc = "approved" /\ account.nextWake \in Nat /\ now \in Nat /\ now < account.nextWake
        /\ account' = [nextWake |-> account.nextWake, targets |-> ss]
        /\ run' = [pc |-> "running", approved |-> run.approved, previous |-> run.previous]
        /\ UNCHANGED <<world, clock>> /\ now' = now
    BY DEF StartRun, FreshnessInv, TypeInv, WakeInv, now
  <1>2. asked' = [t \in Targets |-> IF t \in run.approved THEN Looking(asked[t], now) ELSE asked[t]]
    <2>1. \A t \in Targets : asked[t] \in Seq(Look)
      BY DEF FreshnessInv, TypeInv
    <2>2. \A t \in Targets : asked[t] \o <<>> = asked[t]
      BY <2>1
    <2>3. QED
      BY <2>2 DEF StartRun, Looking
  <1>3. ASSUME NEW t \in Targets
        PROVE  /\ asked[t] \in Seq(Look) /\ account.targets[t] \in Account
               /\ TargetInv(account.targets[t], asked[t], now)
               /\ t \in run.approved => MayLook(account.targets[t], now)
               /\ \A i \in 1 .. Len(asked[t]) : /\ asked[t][i].at < now /\ asked[t][i].at <= now
                                                /\ asked[t][i].at < account.nextWake
    BY <1>1 DEF FreshnessInv, TypeInv, WakeInv
  <1>4. ASSUME NEW t \in run.approved
        PROVE  /\ Started(account.targets[t]) \in Account
               /\ Started(account.targets[t]).flight = now
               /\ Started(account.targets[t]).failures = account.targets[t].failures
               /\ Started(account.targets[t]).attempts = Recent(account.targets[t], now) \cup {now}
    <2>1. t \in Targets /\ account.targets[t] \in Account
      BY <1>3 DEF FreshnessInv, TypeInv
    <2>2. Attempts(account.targets[t]) = Recent(account.targets[t], now)
      BY DEF Attempts, Recent
    <2>3. Recent(account.targets[t], now) \cup {now} \in SUBSET Nat
      BY <1>1, <2>1 DEF Recent, Account
    <2>4. QED
      BY <1>1, <2>1, <2>2, <2>3 DEF Started, Account
  <1>5. ASSUME NEW t \in Targets
        PROVE  /\ ss[t] \in Account /\ asked'[t] \in Seq(Look)
               /\ TargetInv(ss[t], asked'[t], now)
               /\ \A i \in 1 .. Len(asked'[t]) : asked'[t][i].at <= now /\ asked'[t][i].at < account.nextWake
    <2>1. CASE t \in run.approved
      <3>1. ss[t] = Started(account.targets[t]) /\ asked'[t] = Looking(asked[t], now)
        BY <1>2, <2>1
      <3>2. TargetInv(Started(account.targets[t]), Looking(asked[t], now), now)
        BY <1>1, <1>3, <1>4, <2>1, LookStarts
      <3>3. /\ Len(Looking(asked[t], now)) = Len(asked[t]) + 1 /\ Looking(asked[t], now) \in Seq(Look)
            /\ \A i \in 1 .. Len(asked[t]) : Looking(asked[t], now)[i] = asked[t][i]
            /\ Looking(asked[t], now)[Len(asked[t]) + 1].at = now
        <4>1. asked[t] \in Seq(Look) /\ now \in Nat
          BY <1>1, <1>3
        <4>2. Longer(asked[t], Looking(asked[t], now), now)
          BY <4>1, LongerLooks, Zenon
        <4>3. QED
          BY <4>2 DEF Longer
      <3>4. ASSUME NEW i \in 1 .. Len(asked'[t])
            PROVE  asked'[t][i].at <= now /\ asked'[t][i].at < account.nextWake
        <4>1. CASE i = Len(asked[t]) + 1
          BY <1>1, <3>1, <3>3, <4>1
        <4>2. CASE i # Len(asked[t]) + 1
          <5>1. i \in 1 .. Len(asked[t])
            BY <3>1, <3>3, <4>2
          <5>2. QED
            BY <1>3, <3>1, <3>3, <5>1
        <4>3. QED
          BY <4>1, <4>2
      <3>5. QED
        BY <1>4, <2>1, <3>1, <3>2, <3>3, <3>4
    <2>2. CASE t \notin run.approved
      BY <1>2, <1>3, <2>2
    <2>3. QED
      BY <2>1, <2>2
  <1>6. \A t \in run.approved : t \in Targets /\ ss[t].flight = now
    BY <1>4 DEF FreshnessInv, TypeInv
  <1> HIDE DEF ss
  <1>7. ss \in [Targets -> Account] /\ asked' \in [Targets -> Seq(Look)]
    <2>1. ss = [t \in Targets |-> ss[t]]
      BY DEF ss
    <2>2. asked' = [t \in Targets |-> asked'[t]]
      BY <1>2
    <2>3. QED
      BY <1>5, <2>1, <2>2
  <1>8. TypeInv'
    BY <1>1, <1>7 DEF FreshnessInv, TypeInv
  <1>9. WakeInv'
    BY <1>1, <1>5, <1>6 DEF WakeInv
  <1>10. QED
    BY <1>1, <1>5, <1>8, <1>9 DEF FreshnessInv

LEMMA LookedFacts ==
  ASSUME NEW s \in Account, NEW at \in Nat
  PROVE  /\ Looked(s, at) \in Account
         /\ Looked(s, at).flight = None /\ Looked(s, at).failures = 0
         /\ Looked(s, at).attempts = s.attempts
  <1> DEFINE S == {at, IF s.seen = None THEN 0 ELSE s.seen}
  <1>1. S \in SUBSET Nat /\ \E x \in S : \A y \in S : x >= y
    BY DEF Account
  <1>2. Max(S) \in Nat
    BY <1>1 DEF Max
  <1> HIDE DEF S
  <1>3. Looked(s, at) = [s EXCEPT !.flight = None, !.failures = 0, !.retry = None, !.seen = Max(S)]
    BY DEF Looked, S
  <1>4. Looked(s, at) = [seen |-> Max(S), active |-> s.active, flight |-> None, failures |-> 0,
                         retry |-> None, attempts |-> s.attempts]
    BY <1>3 DEF Account
  <1>5. QED
    BY <1>2, <1>4 DEF Account

\* The command ends, well or not, and each target is settled.
LEMMA EndStep ==
  ASSUME Times, FreshnessInv, EndRun
  PROVE  FreshnessInv'
  <1>1. PICK ok \in BOOLEAN :
          /\ account' = [account EXCEPT !.targets = [t \in Targets |->
               CASE Moved(t, ok) -> Looked(account.targets[t], world.quota[t])
                 [] ~Moved(t, ok) /\ t \in run.approved -> Failed(account.targets[t], now)
                 [] OTHER -> account.targets[t]]]
          /\ asked' = [t \in Targets |->
               IF Moved(t, ok) /\ asked[t] # <<>> THEN [asked[t] EXCEPT ![Len(asked[t])].ok = TRUE]
               ELSE asked[t]]
    BY DEF EndRun, FreshnessInv, TypeInv
  <1> DEFINE ss == [t \in Targets |->
               CASE Moved(t, ok) -> Looked(account.targets[t], world.quota[t])
                 [] ~Moved(t, ok) /\ t \in run.approved -> Failed(account.targets[t], now)
                 [] OTHER -> account.targets[t]]
  <1>2. /\ run.pc = "running" /\ run' = NoRun /\ UNCHANGED <<world, clock>> /\ now' = now /\ now \in Nat
        /\ account' = [nextWake |-> account.nextWake, targets |-> ss] /\ account.nextWake \in Nat
    BY <1>1 DEF EndRun, FreshnessInv, TypeInv, now
  <1>3. asked' = [t \in Targets |-> IF Moved(t, ok) THEN Fruit(asked[t]) ELSE asked[t]]
    BY <1>1 DEF Fruit
  <1>4. ASSUME NEW t \in Targets
        PROVE  /\ asked[t] \in Seq(Look) /\ account.targets[t] \in Account
               /\ TargetInv(account.targets[t], asked[t], now)
               /\ world.quota[t] \in Nat \cup {None}
               /\ t \in run.approved => account.targets[t].flight = now
               /\ \A i \in 1 .. Len(asked[t]) : asked[t][i].at <= now /\ asked[t][i].at < account.nextWake
    BY <1>2 DEF FreshnessInv, TypeInv, WakeInv
  <1>5. ASSUME NEW t \in Targets
        PROVE  /\ ss[t] \in Account /\ asked'[t] \in Seq(Look)
               /\ TargetInv(ss[t], asked'[t], now)
               /\ \A i \in 1 .. Len(asked'[t]) : asked'[t][i].at <= now /\ asked'[t][i].at < account.nextWake
    <2>1. CASE Moved(t, ok)
      <3>1. world.quota[t] \in Nat
        BY <1>4, <2>1 DEF Moved
      <3>2. ss[t] = Looked(account.targets[t], world.quota[t]) /\ asked'[t] = Fruit(asked[t])
        BY <1>3, <2>1
      <3>3. /\ Looked(account.targets[t], world.quota[t]) \in Account
            /\ TargetInv(Looked(account.targets[t], world.quota[t]), Fruit(asked[t]), now)
        <4>1. /\ account.targets[t] \in Account /\ asked[t] \in Seq(Look)
              /\ TargetInv(account.targets[t], asked[t], now)
          BY <1>4
        <4> DEFINE got == Looked(account.targets[t], world.quota[t])
        <4>2. /\ got \in Account /\ got.flight = None /\ got.failures = 0
              /\ got.attempts = account.targets[t].attempts
          BY <3>1, <4>1, LookedFacts
        <4> HIDE DEF got
        <4>3. TargetInv(got, Fruit(asked[t]), now)
          BY <1>2, <4>1, <4>2, LookBrings
        <4>4. QED
          BY <4>2, <4>3 DEF got
      <3>4. /\ Fruit(asked[t]) \in Seq(Look) /\ Len(Fruit(asked[t])) = Len(asked[t])
            /\ \A i \in 1 .. Len(asked[t]) : Fruit(asked[t])[i].at = asked[t][i].at
        BY <1>4, FruitFacts
      <3>5. QED
        BY <1>4, <3>2, <3>3, <3>4
    <2>2. CASE ~Moved(t, ok) /\ t \in run.approved
      <3>1. ss[t] = Failed(account.targets[t], now) /\ asked'[t] = asked[t]
        BY <1>3, <2>2
      <3>2. account.targets[t].flight = now /\ now # None /\ now >= now
        BY <1>2, <1>4, <2>2 DEF Times
      <3>3. Failed(account.targets[t], now) \in Account
        BY <1>2, <1>4, FailedFacts
      <3>4. TargetInv(Failed(account.targets[t], now), asked[t], now)
        BY <1>2, <1>4, <3>2, LookFails
      <3>5. QED
        BY <1>4, <3>1, <3>3, <3>4
    <2>3. CASE ~Moved(t, ok) /\ t \notin run.approved
      BY <1>3, <1>4, <2>3
    <2>4. QED
      BY <2>1, <2>2, <2>3
  <1> HIDE DEF ss
  <1>6. ss \in [Targets -> Account] /\ asked' \in [Targets -> Seq(Look)]
    <2>1. ss = [t \in Targets |-> ss[t]]
      BY DEF ss
    <2>2. asked' = [t \in Targets |-> asked'[t]]
      BY <1>3
    <2>3. QED
      BY <1>5, <2>1, <2>2
  <1>7. TypeInv'
    BY <1>2, <1>6 DEF FreshnessInv, TypeInv, NoRun
  <1>8. WakeInv'
    BY <1>2, <1>5 DEF WakeInv, NoRun
  <1>9. QED
    BY <1>2, <1>5, <1>7, <1>8 DEF FreshnessInv

\* Nothing else changes what is accounted for, or the looks.
LEMMA OtherSteps ==
  ASSUME Times, FreshnessInv,
         NotRun \/ Crash \/ Tick \/ (\E t \in Targets : Quota(t) \/ Activity(t)) \/ UNCHANGED vars
  PROVE  FreshnessInv'
  <1>1. UNCHANGED <<account, asked>> /\ now \in Nat
    BY DEF NotRun, Crash, Tick, Quota, Activity, vars, FreshnessInv, TypeInv, now
  <1>2. TypeInv'
    <2>1. CASE NotRun \/ Crash \/ Tick \/ UNCHANGED vars
      <3>1. run' = run \/ run' = NoRun
        BY <2>1 DEF NotRun, Crash, Tick, vars
      <3>2. world' = world
        BY <2>1 DEF NotRun, Crash, Tick, vars
      <3>3. clock' = [now |-> clock'.now, news |-> clock'.news, cuts |-> clock'.cuts] /\ clock'.now \in Nat
        BY <2>1 DEF NotRun, Crash, Tick, vars, FreshnessInv, TypeInv
      <3>4. QED
        BY <1>1, <3>1, <3>2, <3>3 DEF FreshnessInv, TypeInv, NoRun
    <2>2. CASE \E t \in Targets : Quota(t) \/ Activity(t)
      <3>1. run' = run
        BY <2>2 DEF Quota, Activity
      <3>2. world' \in [quota : [Targets -> Nat \cup {None}], activity : [Targets -> Nat \cup {None}]]
        <4>1. world.quota \in [Targets -> Nat \cup {None}] /\ world.activity \in [Targets -> Nat \cup {None}]
              /\ world = [quota |-> world.quota, activity |-> world.activity]
          BY DEF FreshnessInv, TypeInv
        <4>2. PICK t \in Targets : \/ world' = [world EXCEPT !.quota = [world.quota EXCEPT ![t] = now]]
                                   \/ world' = [world EXCEPT !.activity = [world.activity EXCEPT ![t] = now]]
          BY <2>2 DEF Quota, Activity
        <4>3. /\ [world.quota EXCEPT ![t] = now] \in [Targets -> Nat \cup {None}]
              /\ [world.activity EXCEPT ![t] = now] \in [Targets -> Nat \cup {None}]
          BY <1>1, <4>1
        <4>4. QED
          BY <4>1, <4>2, <4>3
      <3>3. clock' = [now |-> clock'.now, news |-> clock'.news, cuts |-> clock'.cuts] /\ clock'.now \in Nat
        BY <2>2 DEF Quota, Activity, FreshnessInv, TypeInv
      <3>4. QED
        BY <1>1, <3>1, <3>2, <3>3 DEF FreshnessInv, TypeInv
    <2>3. QED
      BY <2>1, <2>2
  <1>3. CASE Tick
    <2>1. now' = now + 1 /\ run.pc = "none" /\ run' = run
      BY <1>3 DEF Tick, now, FreshnessInv, TypeInv
    <2>2. ASSUME NEW t \in Targets
          PROVE  /\ TargetInv(account.targets[t], asked[t], now + 1)
                 /\ \A i \in 1 .. Len(asked[t]) : asked[t][i].at <= now + 1 /\ asked[t][i].at < account.nextWake
      <3>1. asked[t] \in Seq(Look) /\ TargetInv(account.targets[t], asked[t], now)
        BY DEF FreshnessInv, TypeInv
      <3>2. ASSUME NEW i \in 1 .. Len(asked[t])
            PROVE  asked[t][i].at <= now + 1 /\ asked[t][i].at < account.nextWake
        <4>1. asked[t][i] \in Look /\ asked[t][i].at <= now /\ asked[t][i].at < account.nextWake
          BY <3>1 DEF FreshnessInv, WakeInv
        <4>2. asked[t][i].at \in Nat
          BY <4>1 DEF Look
        <4>3. QED
          BY <1>1, <4>1, <4>2
      <3>3. QED
        BY <1>1, <3>1, <3>2, TimePasses
    <2>3. WakeInv'
      BY <1>1, <2>1, <2>2 DEF WakeInv
    <2>4. QED
      BY <1>1, <1>2, <2>1, <2>2, <2>3 DEF FreshnessInv
  <1>4. CASE now' = now
    <2>1. run' = run \/ run'.pc = "none"
      BY DEF NotRun, Crash, Tick, Quota, Activity, vars, NoRun
    <2>2. WakeInv'
      BY <1>1, <1>4, <2>1 DEF WakeInv, FreshnessInv
    <2>3. QED
      BY <1>1, <1>2, <1>4, <2>2 DEF FreshnessInv
  <1>5. QED
    BY <1>3, <1>4 DEF NotRun, Crash, Quota, Activity, vars, now, FreshnessInv, TypeInv

LEMMA FreshnessStep == Times /\ FreshnessInv /\ [Next]_vars => FreshnessInv'
  BY WakeStep, StartStep, EndStep, OtherSteps DEF Next

\* The looks of every target keep to the budget and to the back-off.
LEMMA AllRationed == Times /\ FreshnessInv => LooksAreRationed
  <1> SUFFICES ASSUME Times, FreshnessInv
               PROVE  LooksAreRationed
    OBVIOUS
  <1>1. ASSUME NEW t \in Targets
        PROVE  /\ asked[t] \in Seq(Look) /\ DOMAIN asked[t] = 1 .. Len(asked[t])
               /\ \A k \in 1 .. Len(asked[t]) : asked[t][k].at \in Nat
               /\ Rationed(asked[t])
    <2>1. asked[t] \in Seq(Look) /\ Rationed(asked[t])
      BY DEF FreshnessInv, TypeInv, TargetInv
    <2>2. \A k \in 1 .. Len(asked[t]) : asked[t][k] \in Look
      BY <2>1
    <2>3. QED
      BY <2>1, <2>2 DEF Look
  <1>2. WithinBudget
    <2>1. SUFFICES ASSUME NEW t \in Targets, NEW k \in 1 .. Len(asked[t])
                   PROVE  Cardinality({j \in 1 .. Len(asked[t]) :
                            asked[t][j].at \in asked[t][k].at .. asked[t][k].at + Window - 1}) <= Budget
      BY <1>1 DEF WithinBudget
    <2>2. InWindow(asked[t], k) = {j \in 1 .. Len(asked[t]) :
            asked[t][j].at \in asked[t][k].at .. asked[t][k].at + Window - 1}
      BY <1>1 DEF InWindow, Times
    <2>3. Cardinality(InWindow(asked[t], k)) <= Budget
      BY <1>1 DEF Rationed
    <2>4. QED
      BY <2>2, <2>3
  <1>3. FailuresBackOff
    <2>1. \A t, k : Streak(t, k) = Fruitless(asked[t], k)
      BY DEF Streak, Fruitless, Fruitful
    <2>2. QED
      BY <1>1, <2>1 DEF FailuresBackOff, Rationed
  <1>4. QED
    BY <1>2, <1>3 DEF LooksAreRationed

\* No target is looked at more often than the budget allows, nor before the back-off of what
\* failed is over, however often a look is cut off or not heard of again.
THEOREM LooksKeepToTheRation ==
  ASSUME Times
  PROVE  Spec => []LooksAreRationed
  <1>1. Init => FreshnessInv
    BY FreshnessInit
  <1>2. FreshnessInv /\ [Next]_vars => FreshnessInv'
    BY FreshnessStep
  <1>3. FreshnessInv => LooksAreRationed
    BY AllRationed
  <1>4. QED
    BY <1>1, <1>2, <1>3, PTL DEF Spec
=============================================================================
