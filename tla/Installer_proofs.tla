-------------------------- MODULE Installer_proofs --------------------------
(***************************************************************************)
(* Proofs about Installer, for any runtimes, any installations and any     *)
(* number of updates, failures and cuts.                                   *)
(*                                                                         *)
(* A process is the steps it has left: what it may not take any more, and  *)
(* what is still to come of it, is said of those.                          *)
(***************************************************************************)
EXTENDS Installer, FiniteSetTheorems, TLAPS

Conditions == {"A", "B", "none", "part"}
Versions   == {"A", "B"}

AllSteps ==
    ({"keep", "place", "drop", "back", "unmake"} \X Items)
      \cup ({"discard"} \X (Items \cup {"profile"}))
      \cup ({"bind", "profile", "wrapper", "mark", "interpreter"} \X Versions)
      \cup ({"stop", "recovery", "copy", "clear", "forget"} \X {None})
      \cup ({"pending"} \X {"applied", "files_restored"})

\* y may not come after x.
Wrong(x, y) ==
    \/ y[1] = "stop" \/ (y[1] = "recovery" /\ x[1] # "stop")
    \/ x[1] = "place" /\ y[1] = "keep" /\ y[2] = x[2]
    \/ x[1] = "bind" /\ y = <<"keep", "managed">>
    \/ x[1] = "keep" /\ y = x
    \/ x[1] \in {"bind", "pending"} /\ y[1] = "back"
    \/ x[1] \in {"pending", "discard"} /\ y[1] = "profile"
    \/ x[1] \in {"discard", "clear"} /\ y[1] = "pending"
    \/ x = <<"pending", "applied">>
    \/ x[1] = "forget"

InOrder(s)   == \A j \in 1..Len(s) : \A k \in j+1..Len(s) : ~Wrong(s[j], s[k])

\* What is dropped is brought back later on.
ComesBack(s) == \A j \in 1..Len(s) : s[j][1] = "drop" => \E k \in j+1..Len(s) : s[k] = <<"back", s[j][2]>>

WellOrdered(s) == s \in Seq(AllSteps) /\ InOrder(s) /\ ComesBack(s)
StepsOf(s)     == {s[k] : k \in 1..Len(s)}
Left           == StepsOf(proc.todo)

Moves   == {"keep", "place", "drop", "back", "unmake"}
Written == {"bind", "profile", "wrapper", "mark", "interpreter"}

\* What an operation does at all.
MayTake(op, x) ==
    \/ /\ op = "apply" /\ x[1] \in Written \cup {"stop", "recovery", "keep", "place", "copy", "pending"}
       /\ (x[1] \in Written => x[2] = "B") /\ (x[1] = "pending" => x[2] = "applied")
    \/ /\ op = "unwind" /\ x[1] \in Written \cup {"drop", "back", "unmake", "forget"}
       /\ (x[1] \in Written => x[2] = "A")
    \/ /\ op = "rollback"
       /\ x[1] \in Written \cup {"stop", "drop", "back", "unmake", "pending", "discard", "clear", "forget"}
       /\ (x[1] \in Written => x[2] = "A") /\ (x[1] = "pending" => x[2] = "files_restored")
       /\ (x[1] = "discard" => x[2] = "profile")
    \/ op = "finalize" /\ x[1] \in {"discard", "clear", "forget"}

OfDisk(was) ==
    /\ was = [now |-> was.now, kept |-> was.kept, made |-> was.made, profile |-> was.profile,
              copy |-> was.copy, wrapper |-> was.wrapper, mark |-> was.mark, interpreter |-> was.interpreter,
              recovery |-> was.recovery, pending |-> was.pending, decided |-> was.decided, claim |-> was.claim]
    /\ was.now \in [Items -> Conditions] /\ was.kept \in [Items -> Conditions]
    /\ was.recovery \in BOOLEAN /\ was.copy \in BOOLEAN
    /\ was.pending \in {None, "applied", "files_restored"} /\ was.decided \in {None, "rollback", "finalize"}

OfProc(p) ==
    /\ p = [op |-> p.op, todo |-> p.todo, mark |-> p.mark]
    /\ p.op \in {None, "apply", "unwind", "rollback", "finalize"}
    /\ WellOrdered(p.todo) /\ \A x \in StepsOf(p.todo) : MayTake(p.op, x)
    /\ p.op = None => p.todo = <<>>

OfInstallation == OfDisk(disk) /\ OfProc(proc) /\ setup \in Setups

NoneKept == \A i \in setup.had : disk.kept[i] = "none"

\* What holds whatever becomes of the operation under way: an item of A is in its place or
\* put aside, what announces the update does so as long as anything is put aside, and what
\* it says of the phase is so.
Whatever ==
    /\ disk.decided # "finalize" =>
         \A i \in setup.had : /\ disk.kept[i] \in {"none", "A"} /\ i \notin disk.made
                              /\ disk.kept[i] = "none" => disk.now[i] = "A"
    /\ disk.pending # None => disk.recovery
    /\ ~disk.recovery /\ disk.decided # "finalize" => NoneKept /\ WhollyA
    /\ disk.decided = "finalize" \/ (disk.pending = "applied" /\ disk.decided = None) => WhollyB
    /\ disk.pending = "files_restored" =>
         disk.decided = "rollback" /\ NoneKept /\ (setup.configured => disk.profile = "A")
    /\ disk.pending = "applied" /\ disk.decided # "finalize" /\ setup.configured => disk.copy
    /\ running # None => disk.now["checkout"] = running

\* Nothing moves while the profile runs.
Stopped ==
    running # None => proc.todo = <<>> \/ Head(proc.todo)[1] = "stop"
                        \/ \A x \in Left : x[1] \notin Moves

\* An update that has not begun to touch anything, and one that has: what is not yet as B
\* has it will be.
Before == proc.todo = ApplySteps \/ (proc.todo = Tail(ApplySteps) /\ running = None)
During ==
    /\ disk.recovery /\ running = None
    /\ \A x \in Left : x[1] \notin {"stop", "recovery"}
    /\ \A i \in setup.had :
         /\ <<"keep", i>> \in Left => disk.now[i] = "A"
         /\ <<"place", i>> \in Left \/ (i = "managed" /\ <<"bind", "B">> \in Left) =>
              disk.kept[i] = "A" \/ <<"keep", i>> \in Left
    /\ \A i \in setup.staged \cup {"checkout"} :
         <<"place", i>> \in Left \/ (disk.now[i] = "B" /\ <<"keep", i>> \notin Left)
    /\ <<"bind", "B">> \in Left \/ (disk.now["managed"] = "B" /\ <<"keep", "managed">> \notin Left)
    /\ setup.configured => <<"profile", "B">> \in Left \/ disk.profile = "B"
    /\ setup.configured => <<"copy", None>> \in Left \/ disk.copy
    /\ setup.sameCommand \/ disk.wrapper = "B" \/ <<"wrapper", "B">> \in Left
    /\ disk.mark = "B" \/ <<"mark", "B">> \in Left
    /\ disk.interpreter = "B" \/ <<"interpreter", "B">> \in Left

Applying ==
    proc.op = "apply" => /\ disk.decided = None /\ (disk.pending = None \/ proc.todo = <<>>)
                         /\ Before \/ During

\* On the way back, what is not yet as A has it will be, and the record of the update goes
\* after the last of it.
Restoring ==
    proc.op \in {"unwind", "rollback"} =>
      /\ proc.todo # <<>> => disk.recovery
      /\ \A i \in setup.had :
           disk.kept[i] = "none" \/ (<<"back", i>> \in Left /\ (disk.now[i] = "none" \/ <<"drop", i>> \in Left))
      /\ setup.configured =>
           disk.profile = "A" \/ (<<"profile", "A">> \in Left /\ (proc.op = "unwind" \/ disk.copy))
      /\ setup.sameCommand \/ disk.wrapper = "A" \/ <<"wrapper", "A">> \in Left
      /\ disk.mark = "A" \/ <<"mark", "A">> \in Left
      /\ disk.interpreter = "A" \/ <<"interpreter", "A">> \in Left
      /\ proc.op = "unwind" => disk.decided = None /\ disk.pending = None
      /\ proc.op = "rollback" =>
           /\ disk.decided = "rollback"
           /\ <<"discard", "profile">> \in Left =>
                disk.pending # "applied" \/ <<"pending", "files_restored">> \in Left
           /\ (disk.pending = None /\ <<"pending", "files_restored">> \notin Left) \/ <<"clear", None>> \in Left

Finalizing ==
    proc.op = "finalize" => disk.decided = "finalize" /\ (disk.pending = None \/ <<"clear", None>> \in Left)

InstallerInv == OfInstallation /\ Whatever /\ Stopped /\ Applying /\ Restoring /\ Finalizing

\* No value is taken for none.
NoneIsNothing == None \notin {"A", "B", "applied", "files_restored", "apply", "unwind", "rollback", "finalize"}

\* The runtimes are all different, and none is the checkout, the bindings or the profile.
RuntimesAreNamed ==
    /\ RuntimeOrder \in Seq(Runtimes)
    /\ \A j, k \in DOMAIN RuntimeOrder : RuntimeOrder[j] = RuntimeOrder[k] => j = k
    /\ Runtimes \cap {"checkout", "managed", "profile"} = {}

\* An installation with a profile has a checkout, and nobody rolls back what he began to
\* finalize, nor the other way round: instll/update decides once.
SetupsAreUpdates ==
    \A s \in Setups : /\ s.had \subseteq Items /\ s.staged \subseteq Runtimes
                      /\ s.configured \in BOOLEAN /\ s.sameCommand \in BOOLEAN /\ s.loyal
                      /\ s.configured => "checkout" \in s.had

\* Induction over the numbers, as a fact about sets.
LEMMA SetInduction ==
  ASSUME NEW S \in SUBSET Nat, 0 \in S, \A m \in S : m + 1 \in S
  PROVE  S = Nat
  <1> SUFFICES ASSUME NEW n \in Nat, n \notin S PROVE FALSE
    OBVIOUS
  <1> DEFINE A == {m \in S : m <= n}
  <1>1. IsFiniteSet(A)
    BY FS_BoundedSetOfNaturals
  <1>2. \A m \in A : m + 1 \in A
    OBVIOUS
  <1>3. /\ \A m \in A : m \in Nat
        /\ 0 \in A
    <2>1. \A m \in S : m \in Nat
      OBVIOUS
    <2>2. 0 <= n
      OBVIOUS
    <2>3. QED
      BY <2>1, <2>2
  <1> HIDE DEF A
  <1> DEFINE f == [m \in A |-> m + 1]
  <1>4. /\ f \in [A -> A]
        /\ \A m \in A : f[m] = m + 1
    BY <1>2
  <1> HIDE DEF f
  <1>5. /\ \A l, m \in A : f[l] = f[m] => l = m
        /\ \A m \in A : f[m] # 0
    BY <1>3, <1>4
  <1>6. f \in Injection(A, A)
    BY <1>4, <1>5 DEF Injection, IsInjective
  <1>7. f \in Surjection(A, A)
    BY <1>1, <1>6, FS_Injection
  <1>8. \E m \in A : f[m] = 0
    BY <1>3, <1>7 DEF Surjection
  <1>9. QED
    BY <1>5, <1>8

-----------------------------------------------------------------------------
(* Sequences of steps.                                                     *)

\* t goes on where s ends.
GoesOn(t, s) == Len(t) >= Len(s) /\ \A k \in 1..Len(s) : t[k] = s[k]

LEMMA GoesFurther ==
  ASSUME NEW S, NEW s \in Seq(S), NEW t \in Seq(S), NEW u \in Seq(S), GoesOn(t, s)
  PROVE  GoesOn(t \o u, s) /\ t \o u \in Seq(S)
  BY DEF GoesOn

LEMMA GoesFar ==
  ASSUME NEW S, NEW s \in Seq(S), NEW t \in Seq(S), NEW u \in Seq(S), NEW v \in Seq(S), NEW w \in Seq(S)
  PROVE  GoesOn(s \o t \o u \o v \o w, s) /\ s \o t \o u \o v \o w \in Seq(S)
  <1>1. GoesOn(s, s)
    BY DEF GoesOn
  <1>2. GoesOn(s \o t, s) /\ s \o t \in Seq(S)
    BY <1>1, GoesFurther, Zenon
  <1>3. GoesOn(s \o t \o u, s) /\ s \o t \o u \in Seq(S)
    BY <1>2, GoesFurther, Zenon
  <1>4. GoesOn(s \o t \o u \o v, s) /\ s \o t \o u \o v \in Seq(S)
    BY <1>3, GoesFurther, Zenon
  <1>5. QED
    BY <1>4, GoesFurther, Zenon

LEMMA TailFacts ==
  ASSUME NEW s \in Seq(AllSteps), s # <<>>, InOrder(s), ComesBack(s)
  PROVE  /\ Head(s) \in AllSteps /\ Tail(s) \in Seq(AllSteps) /\ InOrder(Tail(s)) /\ ComesBack(Tail(s))
         /\ StepsOf(s) = {Head(s)} \cup StepsOf(Tail(s))
         /\ \A y \in StepsOf(Tail(s)) : ~Wrong(Head(s), y)
         /\ Head(s)[1] = "drop" => <<"back", Head(s)[2]>> \in StepsOf(Tail(s))
  <1>1. /\ Len(s) \in Nat /\ Len(s) > 0 /\ Len(Tail(s)) = Len(s) - 1 /\ Head(s) = s[1]
        /\ \A k \in 1..Len(Tail(s)) : Tail(s)[k] = s[k + 1]
        /\ Head(s) \in AllSteps /\ Tail(s) \in Seq(AllSteps)
    OBVIOUS
  <1> HIDE DEF AllSteps
  <1>2. InOrder(Tail(s))
    BY <1>1 DEF InOrder
  <1>3. ASSUME NEW j \in 1..Len(Tail(s)), Tail(s)[j][1] = "drop"
        PROVE  \E k \in j+1..Len(Tail(s)) : Tail(s)[k] = <<"back", Tail(s)[j][2]>>
    <2>0. j + 1 \in 1..Len(s) /\ Tail(s)[j] = s[j + 1]
      BY <1>1
    <2>a. s[j + 1][1] = "drop"
      BY <1>3, <2>0
    <2>1. PICK k \in (j + 1) + 1..Len(s) : s[k] = <<"back", s[j + 1][2]>>
      BY <2>0, <2>a DEF ComesBack
    <2>2. k - 1 \in j+1..Len(Tail(s)) /\ Tail(s)[k - 1] = s[k] /\ Tail(s)[j] = s[j + 1]
      BY <1>1
    <2>3. QED
      BY <2>1, <2>2
  <1>4. ASSUME NEW k \in 1..Len(s)
        PROVE  s[k] = Head(s) \/ \E m \in 1..Len(Tail(s)) : Tail(s)[m] = s[k]
    <2>1. CASE k = 1
      BY <1>1, <2>1
    <2>2. CASE k # 1
      <3>1. k - 1 \in 1..Len(Tail(s)) /\ Tail(s)[k - 1] = s[k]
        BY <1>1, <2>2
      <3>2. QED
        BY <3>1
    <2>3. QED
      BY <2>1, <2>2
  <1>5. \A m \in 1..Len(Tail(s)) : m + 1 \in 1..Len(s) /\ m + 1 \in 2..Len(s) /\ Tail(s)[m] = s[m + 1]
    BY <1>1
  <1>6. StepsOf(s) = {Head(s)} \cup StepsOf(Tail(s))
    <2>1. \A y \in StepsOf(s) : y \in {Head(s)} \cup StepsOf(Tail(s))
      BY <1>4 DEF StepsOf
    <2>2. \A y \in StepsOf(Tail(s)) : y \in StepsOf(s)
      BY <1>5 DEF StepsOf
    <2>3. Head(s) \in StepsOf(s)
      BY <1>1 DEF StepsOf
    <2>4. QED
      BY <2>1, <2>2, <2>3
  <1>7. \A y \in StepsOf(Tail(s)) : ~Wrong(Head(s), y)
    <2>1. \A k \in 2..Len(s) : ~Wrong(s[1], s[k])
      BY <1>1 DEF InOrder
    <2>2. QED
      BY <1>1, <1>5, <2>1 DEF StepsOf
  <1>8. Head(s)[1] = "drop" => <<"back", Head(s)[2]>> \in StepsOf(Tail(s))
    <2>1. SUFFICES ASSUME Head(s)[1] = "drop"
                   PROVE  <<"back", Head(s)[2]>> \in StepsOf(Tail(s))
      OBVIOUS
    <2>0. 1 \in 1..Len(s) /\ s[1][1] = "drop"
      BY <1>1, <2>1
    <2>a. \E k \in 1 + 1..Len(s) : s[k] = <<"back", s[1][2]>>
      BY <2>0 DEF ComesBack
    <2>2. PICK k \in 2..Len(s) : s[k] = <<"back", s[1][2]>>
      BY <2>a
    <2>3. k - 1 \in 1..Len(Tail(s)) /\ Tail(s)[k - 1] = s[k]
      BY <1>1
    <2>4. QED
      BY <1>1, <2>2, <2>3 DEF StepsOf
  <1>9. QED
    BY <1>1, <1>2, <1>3, <1>6, <1>7, <1>8 DEF ComesBack

LEMMA ConcatFacts ==
  ASSUME NEW s \in Seq(AllSteps), NEW t \in Seq(AllSteps), InOrder(s), ComesBack(s), InOrder(t), ComesBack(t),
         \A x \in StepsOf(s), y \in StepsOf(t) : ~Wrong(x, y)
  PROVE  /\ s \o t \in Seq(AllSteps) /\ InOrder(s \o t) /\ ComesBack(s \o t)
         /\ StepsOf(s \o t) = StepsOf(s) \cup StepsOf(t)
  <1>1. /\ s \o t \in Seq(AllSteps) /\ Len(s) \in Nat /\ Len(t) \in Nat /\ Len(s \o t) = Len(s) + Len(t)
        /\ \A k \in 1..Len(s) : (s \o t)[k] = s[k]
        /\ \A k \in Len(s) + 1..Len(s) + Len(t) : (s \o t)[k] = t[k - Len(s)] /\ k - Len(s) \in 1..Len(t)
        /\ \A m \in 1..Len(t) : Len(s) + m \in 1..Len(s \o t) /\ (s \o t)[Len(s) + m] = t[m]
    OBVIOUS
  <1> HIDE DEF AllSteps
  <1> DEFINE u == s \o t
  <1>2. ASSUME NEW j \in 1..Len(u), NEW k \in j+1..Len(u)
        PROVE  ~Wrong(u[j], u[k])
    <2>1. CASE k \in 1..Len(s)
      <3>1. j \in 1..Len(s) /\ k \in j+1..Len(s)
        BY <1>1, <2>1
      <3>2. QED
        BY <1>1, <2>1, <3>1 DEF InOrder
    <2>2. CASE j \in 1..Len(s) /\ k \notin 1..Len(s)
      <3>1. k \in Len(s) + 1..Len(s) + Len(t)
        BY <1>1, <2>2
      <3>2. u[j] \in StepsOf(s) /\ u[k] \in StepsOf(t)
        BY <1>1, <2>2, <3>1 DEF StepsOf
      <3>3. QED
        BY <3>2
    <2>3. CASE j \notin 1..Len(s)
      <3>1. /\ j \in Len(s) + 1..Len(s) + Len(t) /\ k \in Len(s) + 1..Len(s) + Len(t)
            /\ k - Len(s) \in (j - Len(s)) + 1..Len(t)
        BY <1>1, <2>3
      <3>2. u[j] = t[j - Len(s)] /\ u[k] = t[k - Len(s)] /\ j - Len(s) \in 1..Len(t)
        BY <1>1, <3>1
      <3>3. QED
        BY <3>1, <3>2 DEF InOrder
    <2>4. QED
      BY <1>1, <2>1, <2>2, <2>3
  <1>3. ASSUME NEW j \in 1..Len(u), u[j][1] = "drop"
        PROVE  \E k \in j+1..Len(u) : u[k] = <<"back", u[j][2]>>
    <2>1. CASE j \in 1..Len(s)
      <3>1. PICK k \in j+1..Len(s) : s[k] = <<"back", s[j][2]>>
        BY <1>1, <1>3, <2>1 DEF ComesBack
      <3>2. k \in j+1..Len(u) /\ u[k] = s[k]
        BY <1>1
      <3>3. QED
        BY <1>1, <2>1, <3>1, <3>2
    <2>2. CASE j \notin 1..Len(s)
      <3>1. j \in Len(s) + 1..Len(s) + Len(t)
        BY <1>1, <2>2
      <3>2. u[j] = t[j - Len(s)] /\ j - Len(s) \in 1..Len(t)
        BY <1>1, <3>1
      <3>3. PICK k \in (j - Len(s)) + 1..Len(t) : t[k] = <<"back", t[j - Len(s)][2]>>
        BY <1>3, <3>2 DEF ComesBack
      <3>4. Len(s) + k \in j+1..Len(u) /\ u[Len(s) + k] = t[k]
        BY <1>1, <3>1
      <3>5. QED
        BY <3>2, <3>3, <3>4
    <2>3. QED
      BY <2>1, <2>2
  <1>4. StepsOf(u) = StepsOf(s) \cup StepsOf(t)
    <2>1. \A k \in 1..Len(u) : k \in 1..Len(s) \/ k \in Len(s) + 1..Len(s) + Len(t)
      BY <1>1
    <2>2. \A y \in StepsOf(u) : y \in StepsOf(s) \cup StepsOf(t)
      BY <1>1, <2>1 DEF StepsOf
    <2>3. \A y \in StepsOf(s) : y \in StepsOf(u)
      <3>1. \A k \in 1..Len(s) : k \in 1..Len(u)
        BY <1>1
      <3>2. QED
        BY <1>1, <3>1 DEF StepsOf
    <2>4. \A y \in StepsOf(t) : y \in StepsOf(u)
      <3>1. \A k \in 1..Len(t) : Len(s) + k \in 1..Len(u) /\ u[Len(s) + k] = t[k]
        BY <1>1
      <3>2. QED
        BY <3>1 DEF StepsOf
    <2>5. QED
      BY <2>2, <2>3, <2>4
  <1>5. QED
    BY <1>1, <1>2, <1>3, <1>4 DEF InOrder, ComesBack

Flattens(f, seqs, n) == f = [i \in 1..n |-> IF i = 1 THEN seqs[i] ELSE f[i-1] \o seqs[i]]

LEMMA FlattenExists ==
  ASSUME NEW n \in Nat, NEW seqs
  PROVE  \E f : Flattens(f, seqs, n)
  <1> DEFINE S == {k \in Nat : \E f : Flattens(f, seqs, k)}
  <1>1. 0 \in S
    <2> DEFINE f == [i \in 1..0 |-> <<>>]
    <2>1. f = [i \in 1..0 |-> IF i = 1 THEN seqs[i] ELSE f[i-1] \o seqs[i]]
      OBVIOUS
    <2>2. QED
      BY <2>1 DEF Flattens
  <1>2. ASSUME NEW k \in S PROVE k + 1 \in S
    <2>1. k \in Nat
      OBVIOUS
    <2>2. PICK f : f = [i \in 1..k |-> IF i = 1 THEN seqs[i] ELSE f[i-1] \o seqs[i]]
      BY DEF Flattens
    <2> DEFINE new == IF k + 1 = 1 THEN seqs[k + 1] ELSE f[k] \o seqs[k + 1]
               g == [i \in 1..k+1 |-> IF i = k + 1 THEN new ELSE f[i]]
    <2>3. ASSUME NEW i \in 1..k+1 PROVE g[i] = IF i = 1 THEN seqs[i] ELSE g[i-1] \o seqs[i]
      <3>1. CASE i = k + 1
        <4>1. g[i] = new
          BY <3>1
        <4>2. i # 1 => g[i - 1] = f[k]
          BY <2>1, <3>1
        <4> HIDE DEF g
        <4>3. QED
          BY <2>1, <3>1, <4>1, <4>2
      <3>2. CASE i # k + 1
        <4>1. i \in 1..k /\ g[i] = f[i] /\ (i # 1 => g[i - 1] = f[i - 1])
          BY <2>1, <3>2
        <4>2. f[i] = IF i = 1 THEN seqs[i] ELSE f[i-1] \o seqs[i]
          BY <2>2, <4>1
        <4> HIDE DEF g
        <4>3. QED
          BY <4>1, <4>2
      <3>3. QED
        BY <3>1, <3>2
    <2>4. g = [i \in 1..k+1 |-> g[i]]
      OBVIOUS
    <2> HIDE DEF g
    <2>5. g = [i \in 1..k+1 |-> IF i = 1 THEN seqs[i] ELSE g[i-1] \o seqs[i]]
      BY <2>3, <2>4
    <2>6. Flattens(g, seqs, k + 1)
      BY <2>5 DEF Flattens
    <2>7. k + 1 \in Nat
      BY <2>1
    <2>8. QED
      BY <2>6, <2>7
  <1>3. S = Nat
    <2>1. S \in SUBSET Nat
      OBVIOUS
    <2> HIDE DEF S
    <2>2. QED
      BY <1>1, <1>2, <2>1, SetInduction
  <1>4. QED
    BY <1>3

LEMMA FlattenFacts ==
  ASSUME NEW seqs \in Seq(Seq(AllSteps)),
         \A k \in DOMAIN seqs : InOrder(seqs[k]) /\ ComesBack(seqs[k]),
         \A j, k \in DOMAIN seqs : j < k => \A x \in StepsOf(seqs[j]), y \in StepsOf(seqs[k]) : ~Wrong(x, y)
  PROVE  LET s == FlattenSeq(seqs)
         IN  /\ s \in Seq(AllSteps) /\ InOrder(s) /\ ComesBack(s)
             /\ \A x : x \in StepsOf(s) <=> \E k \in DOMAIN seqs : x \in StepsOf(seqs[k])
  <1> DEFINE n == Len(seqs)
  <1>1. n \in Nat /\ DOMAIN seqs = 1..n /\ \A k \in 1..n : seqs[k] \in Seq(AllSteps)
    OBVIOUS
  <1>2. CASE n = 0
    <2>1. FlattenSeq(seqs) = seqs /\ seqs = <<>>
      BY <1>2 DEF FlattenSeq
    <2>2. <<>> \in Seq(AllSteps) /\ Len(<<>>) = 0
      OBVIOUS
    <2>3. QED
      BY <1>1, <1>2, <2>1, <2>2 DEF InOrder, ComesBack, StepsOf
  <1>3. CASE n # 0
    <2> DEFINE f == CHOOSE g : Flattens(g, seqs, n)
    <2>1. FlattenSeq(seqs) = f[n]
      BY <1>3 DEF FlattenSeq, Flattens
    <2>2. Flattens(f, seqs, n)
      BY <1>1, FlattenExists
    <2> HIDE DEF f
    <2>3. \A i \in 1..n : f[i] = IF i = 1 THEN seqs[i] ELSE f[i-1] \o seqs[i]
      <3>1. f = [i \in 1..n |-> IF i = 1 THEN seqs[i] ELSE f[i-1] \o seqs[i]]
        BY <2>2 DEF Flattens
      <3>2. QED
        BY <3>1
    <2> HIDE DEF n
    <2> DEFINE P(k) == /\ f[k] \in Seq(AllSteps) /\ InOrder(f[k]) /\ ComesBack(f[k])
                       /\ \A x : x \in StepsOf(f[k]) <=> \E j \in 1..k : x \in StepsOf(seqs[j])
               S == {k \in Nat : k + 1 \in 1..n => P(k + 1)}
    <2>4. 0 \in S
      <3>1. 1 \in 1..n /\ f[1] = seqs[1]
        BY <1>1, <1>3, <2>3
      <3>2. P(1)
        BY <1>1, <3>1
      <3>3. QED
        BY <3>2
    <2>5. ASSUME NEW k \in S PROVE k + 1 \in S
      <3>1. k \in Nat /\ (k + 1 \in 1..n => P(k + 1))
        OBVIOUS
      <3>2. SUFFICES ASSUME (k + 1) + 1 \in 1..n PROVE P((k + 1) + 1)
        BY <3>1
      <3>3. k + 1 \in 1..n /\ (k + 1) + 1 # 1 /\ ((k + 1) + 1) - 1 = k + 1
        BY <3>1, <3>2, <1>1
      <3>4. P(k + 1) /\ f[(k + 1) + 1] = f[k + 1] \o seqs[(k + 1) + 1]
        BY <3>1, <3>2, <3>3, <2>3
      <3> DEFINE m == (k + 1) + 1
      <3>5. seqs[m] \in Seq(AllSteps) /\ InOrder(seqs[m]) /\ ComesBack(seqs[m])
        BY <1>1, <3>2
      <3>6. ASSUME NEW x \in StepsOf(f[k + 1]), NEW y \in StepsOf(seqs[m]) PROVE ~Wrong(x, y)
        <4>1. PICK j \in 1..k+1 : x \in StepsOf(seqs[j])
          BY <3>4
        <4>2. j \in DOMAIN seqs /\ m \in DOMAIN seqs /\ j < m
          BY <1>1, <3>1, <3>2, <3>3
        <4>3. QED
          BY <4>1, <4>2
      <3>7. /\ f[m] \in Seq(AllSteps) /\ InOrder(f[m]) /\ ComesBack(f[m])
            /\ StepsOf(f[m]) = StepsOf(f[k + 1]) \cup StepsOf(seqs[m])
        <4> HIDE DEF P, m
        <4>1. f[k + 1] \in Seq(AllSteps) /\ InOrder(f[k + 1]) /\ ComesBack(f[k + 1])
          BY <3>4 DEF P
        <4>2. f[m] = f[k + 1] \o seqs[m]
          BY <3>4 DEF m
        <4>3. QED
          BY <4>1, <4>2, <3>5, <3>6, ConcatFacts
      <3>8. \A j : j \in 1..m <=> j \in 1..k+1 \/ j = m
        BY <3>1
      <3> HIDE DEF m
      <3>9. \A x : x \in StepsOf(f[m]) <=> \E j \in 1..m : x \in StepsOf(seqs[j])
        BY <3>4, <3>7, <3>8
      <3>10. P(m)
        BY <3>7, <3>9
      <3>11. QED
        BY <3>10 DEF m
    <2>6. S = Nat
      <3>1. S \in SUBSET Nat
        OBVIOUS
      <3> HIDE DEF S
      <3>2. QED
        BY <2>4, <2>5, <3>1, SetInduction
    <2>7. P(n)
      <3>1. n - 1 \in Nat /\ (n - 1) + 1 = n /\ n \in 1..n
        BY <1>1, <1>3
      <3>2. QED
        BY <2>6, <3>1
    <2>8. QED
      BY <1>1, <2>1, <2>7
  <1>4. QED
    BY <1>2, <1>3

\* What is done for every runtime.
LEMMA ForEachFacts ==
  ASSUME RuntimesAreNamed, NEW part \in [Runtimes -> Seq(AllSteps)],
         \A r \in Runtimes : InOrder(part[r]) /\ ComesBack(part[r]),
         \A q, r \in Runtimes : q # r => \A x \in StepsOf(part[q]), y \in StepsOf(part[r]) : ~Wrong(x, y)
  PROVE  /\ WellOrdered(ForEach(part))
         /\ \A x : x \in StepsOf(ForEach(part)) <=> \E r \in Runtimes : x \in StepsOf(part[r])
  <1> DEFINE seqs == [k \in DOMAIN RuntimeOrder |-> part[RuntimeOrder[k]]]
  <1>1. /\ \A k \in DOMAIN RuntimeOrder : RuntimeOrder[k] \in Runtimes
        /\ \A r \in Runtimes : \E k \in DOMAIN RuntimeOrder : r = RuntimeOrder[k]
        /\ DOMAIN RuntimeOrder = 1..Len(RuntimeOrder) /\ Len(RuntimeOrder) \in Nat
    BY DEF RuntimesAreNamed, Runtimes, ToSet
  <1>2. seqs \in Seq(Seq(AllSteps)) /\ DOMAIN seqs = DOMAIN RuntimeOrder /\ \A k \in DOMAIN seqs : seqs[k] = part[RuntimeOrder[k]]
    BY <1>1
  <1> HIDE DEF seqs
  <1>3. \A k \in DOMAIN seqs : InOrder(seqs[k]) /\ ComesBack(seqs[k])
    BY <1>1, <1>2
  <1>4. ASSUME NEW j \in DOMAIN seqs, NEW k \in DOMAIN seqs, j < k, NEW x \in StepsOf(seqs[j]), NEW y \in StepsOf(seqs[k])
        PROVE  ~Wrong(x, y)
    <2>1. RuntimeOrder[j] # RuntimeOrder[k]
      BY <1>1, <1>2, <1>4 DEF RuntimesAreNamed
    <2>2. QED
      BY <1>1, <1>2, <2>1
  <1>5. LET s == FlattenSeq(seqs)
        IN  /\ s \in Seq(AllSteps) /\ InOrder(s) /\ ComesBack(s)
            /\ \A x : x \in StepsOf(s) <=> \E k \in DOMAIN seqs : x \in StepsOf(seqs[k])
    BY <1>2, <1>3, <1>4, FlattenFacts
  <1>6. ForEach(part) = FlattenSeq(seqs)
    BY DEF ForEach, seqs
  <1>7. QED
    BY <1>1, <1>2, <1>5, <1>6 DEF WellOrdered

\* One step, and two.
LEMMA OneStep ==
  ASSUME NEW x \in AllSteps, x[1] # "drop"
  PROVE  WellOrdered(<<x>>) /\ StepsOf(<<x>>) = {x}
  <1> HIDE DEF AllSteps
  <1>1. <<x>> \in Seq(AllSteps) /\ Len(<<x>>) = 1 /\ <<x>>[1] = x /\ 1..1 = {1}
    OBVIOUS
  <1>2. QED
    BY <1>1 DEF WellOrdered, InOrder, ComesBack, StepsOf

LEMMA TwoSteps ==
  ASSUME NEW x \in AllSteps, NEW y \in AllSteps, ~Wrong(x, y), y[1] # "drop", x[1] = "drop" => y = <<"back", x[2]>>
  PROVE  WellOrdered(<<x, y>>) /\ StepsOf(<<x, y>>) = {x, y}
  <1> HIDE DEF AllSteps
  <1>1. <<x, y>> \in Seq(AllSteps) /\ Len(<<x, y>>) = 2 /\ <<x, y>>[1] = x /\ <<x, y>>[2] = y /\ 1..2 = {1, 2}
    OBVIOUS
  <1>2. InOrder(<<x, y>>)
    BY <1>1 DEF InOrder
  <1>3. ComesBack(<<x, y>>)
    BY <1>1 DEF ComesBack
  <1>4. QED
    BY <1>1, <1>2, <1>3 DEF WellOrdered, StepsOf

LEMMA Concat ==
  ASSUME NEW s, NEW t, WellOrdered(s), WellOrdered(t), \A x \in StepsOf(s), y \in StepsOf(t) : ~Wrong(x, y)
  PROVE  WellOrdered(s \o t) /\ StepsOf(s \o t) = StepsOf(s) \cup StepsOf(t)
  BY ConcatFacts DEF WellOrdered

LEMMA NoSteps == WellOrdered(<<>>) /\ StepsOf(<<>>) = {}
  <1>1. <<>> \in Seq(AllSteps) /\ Len(<<>>) = 0 /\ 1..0 = {}
    OBVIOUS
  <1>2. QED
    BY <1>1 DEF WellOrdered, InOrder, ComesBack, StepsOf

\* The three steps of a refresh.
LEMMA RemarkFacts ==
  ASSUME NEW v \in Versions
  PROVE  /\ WellOrdered(Remark(v))
         /\ StepsOf(Remark(v)) = {<<"wrapper", v>>, <<"mark", v>>, <<"interpreter", v>>}
  <1> DEFINE x == <<"wrapper", v>>
             y == <<"mark", v>>
             z == <<"interpreter", v>>
  <1>1. x \in AllSteps /\ y \in AllSteps /\ z \in AllSteps
    BY DEF AllSteps
  <1>2. ~Wrong(x, y) /\ ~Wrong(x, z) /\ ~Wrong(y, z)
    BY DEF Wrong
  <1>3. x[1] # "drop" /\ y[1] # "drop" /\ z[1] # "drop"
    OBVIOUS
  <1> HIDE DEF x, y, z
  <1>4. WellOrdered(<<x, y>>) /\ StepsOf(<<x, y>>) = {x, y}
    BY <1>1, <1>2, <1>3, TwoSteps
  <1>5. WellOrdered(<<z>>) /\ StepsOf(<<z>>) = {z}
    BY <1>1, <1>3, OneStep
  <1>6. Remark(v) = <<x, y>> \o <<z>>
    BY DEF Remark, x, y, z
  <1>7. WellOrdered(<<x, y>> \o <<z>>) /\ StepsOf(<<x, y>> \o <<z>>) = StepsOf(<<x, y>>) \cup StepsOf(<<z>>)
    <2>1. \A p \in StepsOf(<<x, y>>), q \in StepsOf(<<z>>) : ~Wrong(p, q)
      BY <1>2, <1>4, <1>5
    <2>2. QED
      BY <1>4, <1>5, <2>1, Concat
  <1>8. QED
    BY <1>4, <1>5, <1>6, <1>7 DEF x, y, z

LEMMA EachFacts ==
  ASSUME RuntimesAreNamed, NEW what \in {"unmake", "discard"}, NEW set \in SUBSET Runtimes
  PROVE  /\ WellOrdered(Each(what, set))
         /\ \A x : x \in StepsOf(Each(what, set)) <=> \E r \in set : x = <<what, r>>
  <1> DEFINE part == [r \in Runtimes |-> IF r \in set THEN <<<<what, r>>>> ELSE <<>>]
  <1>1. ASSUME NEW r \in Runtimes
        PROVE  <<what, r>> \in AllSteps /\ <<what, r>>[1] # "drop"
    BY DEF AllSteps, Items
  <1>2. ASSUME NEW r \in Runtimes
        PROVE  WellOrdered(part[r]) /\ StepsOf(part[r]) = IF r \in set THEN {<<what, r>>} ELSE {}
    <2>1. CASE r \in set
      <3>1. part[r] = <<<<what, r>>>>
        BY <2>1
      <3>2. QED
        BY <1>1, <2>1, <3>1, OneStep
    <2>2. CASE r \notin set
      <3>1. part[r] = <<>>
        BY <2>2
      <3>2. QED
        BY <2>2, <3>1, NoSteps
    <2>3. QED
      BY <2>1, <2>2
  <1>3. Each(what, set) = ForEach(part)
    BY DEF Each
  <1>4. part \in [Runtimes -> Seq(AllSteps)]
    <2>1. part = [r \in Runtimes |-> part[r]]
      OBVIOUS
    <2> HIDE DEF part
    <2>2. QED
      BY <1>2, <2>1 DEF WellOrdered
  <1> HIDE DEF part
  <1>5. \A q, r \in Runtimes : q # r => \A x \in StepsOf(part[q]), y \in StepsOf(part[r]) : ~Wrong(x, y)
    <2>1. \A q, r \in Runtimes : q # r => ~Wrong(<<what, q>>, <<what, r>>)
      BY DEF Wrong
    <2>2. \A q \in Runtimes : \A x \in StepsOf(part[q]) : x = <<what, q>>
      BY <1>2
    <2>3. QED
      BY <2>1, <2>2
  <1>6. /\ WellOrdered(ForEach(part))
        /\ \A x : x \in StepsOf(ForEach(part)) <=> \E r \in Runtimes : x \in StepsOf(part[r])
    BY <1>2, <1>4, <1>5, ForEachFacts DEF WellOrdered
  <1>7. QED
    BY <1>2, <1>3, <1>6

Pairs(first, second, set) == [r \in Runtimes |-> IF r \in set THEN <<<<first, r>>, <<second, r>>>> ELSE <<>>]

\* Two steps for each of some runtimes.
LEMMA PairsFacts ==
  ASSUME RuntimesAreNamed, NEW set \in SUBSET Runtimes,
         NEW first, NEW second, (first = "keep" /\ second = "place") \/ (first = "drop" /\ second = "back")
  PROVE  /\ WellOrdered(ForEach(Pairs(first, second, set)))
         /\ \A x : x \in StepsOf(ForEach(Pairs(first, second, set))) <=> \E r \in set : x = <<first, r>> \/ x = <<second, r>>
  <1> DEFINE part == Pairs(first, second, set)
  <1>0. /\ part = [r \in Runtimes |-> part[r]]
        /\ \A r \in Runtimes : part[r] = IF r \in set THEN <<<<first, r>>, <<second, r>>>> ELSE <<>>
    BY DEF Pairs
  <1> HIDE DEF part
  <1>1. ASSUME NEW r \in Runtimes
        PROVE  /\ <<first, r>> \in AllSteps /\ <<second, r>> \in AllSteps /\ <<second, r>>[1] # "drop"
               /\ ~Wrong(<<first, r>>, <<second, r>>)
               /\ <<first, r>>[1] = "drop" => <<second, r>> = <<"back", <<first, r>>[2]>>
    BY DEF AllSteps, Items, Wrong
  <1>2. ASSUME NEW r \in Runtimes
        PROVE  WellOrdered(part[r]) /\ StepsOf(part[r]) = IF r \in set THEN {<<first, r>>, <<second, r>>} ELSE {}
    <2>1. CASE r \in set
      <3>1. part[r] = <<<<first, r>>, <<second, r>>>>
        BY <1>0, <2>1
      <3>2. QED
        BY <1>1, <2>1, <3>1, TwoSteps
    <2>2. CASE r \notin set
      <3>1. part[r] = <<>>
        BY <1>0, <2>2
      <3>2. QED
        BY <2>2, <3>1, NoSteps
    <2>3. QED
      BY <2>1, <2>2
  <1>3. part \in [Runtimes -> Seq(AllSteps)]
    BY <1>0, <1>2 DEF WellOrdered
  <1>4. \A q, r \in Runtimes : q # r => \A x \in StepsOf(part[q]), y \in StepsOf(part[r]) : ~Wrong(x, y)
    <2>1. \A q, r \in Runtimes : q # r => /\ ~Wrong(<<first, q>>, <<first, r>>) /\ ~Wrong(<<first, q>>, <<second, r>>)
                                         /\ ~Wrong(<<second, q>>, <<first, r>>) /\ ~Wrong(<<second, q>>, <<second, r>>)
      BY DEF Wrong
    <2>2. \A q \in Runtimes : \A x \in StepsOf(part[q]) : x = <<first, q>> \/ x = <<second, q>>
      BY <1>2
    <2>3. ASSUME NEW q \in Runtimes, NEW r \in Runtimes, q # r, NEW x \in StepsOf(part[q]), NEW y \in StepsOf(part[r])
          PROVE  ~Wrong(x, y)
      <3>1. (x = <<first, q>> \/ x = <<second, q>>) /\ (y = <<first, r>> \/ y = <<second, r>>)
        BY <2>2, <2>3
      <3>2. QED
        BY <2>1, <2>3, <3>1
    <2>4. QED
      BY <2>3
  <1>5. /\ WellOrdered(ForEach(part))
        /\ \A x : x \in StepsOf(ForEach(part)) <=> \E r \in Runtimes : x \in StepsOf(part[r])
    BY <1>2, <1>3, <1>4, ForEachFacts DEF WellOrdered
  <1>6. \A r \in Runtimes : \A x : x \in StepsOf(part[r]) <=> r \in set /\ (x = <<first, r>> \/ x = <<second, r>>)
    BY <1>2
  <1>7. \A r \in set : r \in Runtimes
    OBVIOUS
  <1>8. ASSUME NEW x
        PROVE  (\E r \in Runtimes : x \in StepsOf(part[r])) <=> (\E r \in set : x = <<first, r>> \/ x = <<second, r>>)
    <2>1. ASSUME NEW r \in Runtimes, x \in StepsOf(part[r])
          PROVE  \E q \in set : x = <<first, q>> \/ x = <<second, q>>
      BY <1>6, <2>1
    <2>2. ASSUME NEW r \in set, x = <<first, r>> \/ x = <<second, r>>
          PROVE  \E q \in Runtimes : x \in StepsOf(part[q])
      <3>1. r \in Runtimes /\ x \in StepsOf(part[r])
        BY <1>6, <1>7, <2>2
      <3>2. QED
        BY <3>1
    <2>3. QED
      BY <2>1, <2>2
  <1>9. QED
    BY <1>5, <1>8 DEF part

\* The order in which an update does things, ...
LEMMA ApplyPlan ==
  ASSUME RuntimesAreNamed, SetupsAreUpdates, setup \in Setups
  PROVE  /\ WellOrdered(ApplySteps) /\ ApplySteps # <<>> /\ Head(ApplySteps) = <<"stop", None>>
         /\ Tail(ApplySteps) # <<>> /\ Head(Tail(ApplySteps)) = <<"recovery", None>>
         /\ \A x : x \in StepsOf(ApplySteps) <=>
              \/ x \in {<<"stop", None>>, <<"recovery", None>>, <<"keep", "managed">>, <<"keep", "checkout">>,
                        <<"place", "checkout">>, <<"bind", "B">>, <<"profile", "B">>, <<"wrapper", "B">>, <<"mark", "B">>,
                        <<"interpreter", "B">>, <<"copy", None>>, <<"pending", "applied">>}
              \/ \E r \in setup.staged : x = <<"keep", r>> \/ x = <<"place", r>>
  <1> DEFINE s1 == <<<<"stop", None>>, <<"recovery", None>>>>
             part == [r \in Runtimes |-> IF r \in setup.staged THEN <<<<"keep", r>>, <<"place", r>>>> ELSE <<>>]
             s2 == ForEach(part)
             s3 == <<<<"keep", "managed">>, <<"keep", "checkout">>, <<"place", "checkout">>, <<"bind", "B">>, <<"profile", "B">>>>
             s3a == <<<<"keep", "managed">>, <<"keep", "checkout">>>>
             s3b == <<<<"place", "checkout">>, <<"bind", "B">>>>
             s3c == <<<<"profile", "B">>>>
             s4 == Remark("B")
             s5 == <<<<"copy", None>>, <<"pending", "applied">>>>
  <1>0. setup.staged \in SUBSET Runtimes
    BY DEF SetupsAreUpdates
  <1>1. WellOrdered(s1) /\ StepsOf(s1) = {<<"stop", None>>, <<"recovery", None>>}
    BY TwoSteps DEF AllSteps, Wrong
  <1>2. WellOrdered(s2) /\ \A x : x \in StepsOf(s2) <=> \E r \in setup.staged : x = <<"keep", r>> \/ x = <<"place", r>>
    <2>1. part = Pairs("keep", "place", setup.staged)
      BY DEF Pairs
    <2> HIDE DEF part
    <2>2. QED
      BY <1>0, <2>1, PairsFacts
  <1>3. WellOrdered(s3a) /\ StepsOf(s3a) = {<<"keep", "managed">>, <<"keep", "checkout">>}
    BY TwoSteps DEF AllSteps, Wrong, Items
  <1>4. WellOrdered(s3b) /\ StepsOf(s3b) = {<<"place", "checkout">>, <<"bind", "B">>}
    BY TwoSteps DEF AllSteps, Wrong, Items, Versions
  <1>5. WellOrdered(s3c) /\ StepsOf(s3c) = {<<"profile", "B">>}
    BY OneStep DEF AllSteps, Versions
  <1>6. WellOrdered(s4) /\ StepsOf(s4) = {<<"wrapper", "B">>, <<"mark", "B">>, <<"interpreter", "B">>}
    BY RemarkFacts DEF Versions
  <1>7. WellOrdered(s5) /\ StepsOf(s5) = {<<"copy", None>>, <<"pending", "applied">>}
    BY TwoSteps DEF AllSteps, Wrong
  <1>8. s3 = (s3a \o s3b) \o s3c
    OBVIOUS
  <1>9. ApplySteps = s1 \o s2 \o s3 \o s4 \o s5
    BY DEF ApplySteps
  <1>0a. \A r \in setup.staged : r \notin {"managed", "checkout"}
    BY <1>0 DEF RuntimesAreNamed
  <1> HIDE DEF s1, s2, s3, s3a, s3b, s3c, s4, s5
  <1>10. WellOrdered(s3a \o s3b) /\ StepsOf(s3a \o s3b) = StepsOf(s3a) \cup StepsOf(s3b)
    <2>1. \A x \in StepsOf(s3a), y \in StepsOf(s3b) : ~Wrong(x, y)
      BY <1>3, <1>4 DEF Wrong
    <2>2. QED
      BY <2>1, <1>3, <1>4, Concat
  <1>11. WellOrdered(s3) /\ StepsOf(s3) = StepsOf(s3a) \cup StepsOf(s3b) \cup StepsOf(s3c)
    <2>1. \A x \in StepsOf(s3a \o s3b), y \in StepsOf(s3c) : ~Wrong(x, y)
      BY <1>3, <1>4, <1>5, <1>10 DEF Wrong
    <2>2. QED
      BY <2>1, <1>5, <1>8, <1>10, Concat
  <1>12. WellOrdered(s1 \o s2) /\ StepsOf(s1 \o s2) = StepsOf(s1) \cup StepsOf(s2)
    <2>1. \A x \in StepsOf(s1), y \in StepsOf(s2) : ~Wrong(x, y)
      BY <1>1, <1>2 DEF Wrong
    <2>2. QED
      BY <2>1, <1>1, <1>2, Concat
  <1>13. WellOrdered(s1 \o s2 \o s3) /\ StepsOf(s1 \o s2 \o s3) = StepsOf(s1) \cup StepsOf(s2) \cup StepsOf(s3)
    <2>1. ASSUME NEW x \in StepsOf(s1 \o s2), NEW y \in StepsOf(s3) PROVE ~Wrong(x, y)
      <3>1. y \in {<<"keep", "managed">>, <<"keep", "checkout">>, <<"place", "checkout">>, <<"bind", "B">>, <<"profile", "B">>}
        BY <1>3, <1>4, <1>5, <1>11
      <3>2. CASE x \in StepsOf(s1)
        BY <1>1, <3>1, <3>2 DEF Wrong
      <3>3. CASE x \in StepsOf(s2)
        <4>1. PICK r \in setup.staged : x = <<"keep", r>> \/ x = <<"place", r>>
          BY <1>2, <3>3
        <4>2. r # "managed" /\ r # "checkout"
          BY <1>0a
        <4>3. QED
          BY <3>1, <4>1, <4>2 DEF Wrong
      <3>4. QED
        BY <1>12, <3>2, <3>3
    <2>2. QED
      BY <2>1, <1>11, <1>12, Concat
  <1>14. \A x \in StepsOf(s1 \o s2 \o s3) : x[1] \in {"stop", "recovery", "keep", "place", "bind", "profile"}
    BY <1>1, <1>2, <1>3, <1>4, <1>5, <1>11, <1>13
  <1>15. WellOrdered(s1 \o s2 \o s3 \o s4) /\ StepsOf(s1 \o s2 \o s3 \o s4) = StepsOf(s1 \o s2 \o s3) \cup StepsOf(s4)
    <2>1. \A x \in StepsOf(s1 \o s2 \o s3), y \in StepsOf(s4) : ~Wrong(x, y)
      BY <1>6, <1>14 DEF Wrong
    <2>2. QED
      BY <2>1, <1>6, <1>13, Concat
  <1>16. WellOrdered(ApplySteps) /\ StepsOf(ApplySteps) = StepsOf(s1 \o s2 \o s3 \o s4) \cup StepsOf(s5)
    <2>1. \A x \in StepsOf(s1 \o s2 \o s3 \o s4) : x[1] \in {"stop", "recovery", "keep", "place", "bind", "profile", "wrapper", "mark", "interpreter"}
      BY <1>6, <1>14, <1>15
    <2>2. \A x \in StepsOf(s1 \o s2 \o s3 \o s4), y \in StepsOf(s5) : ~Wrong(x, y)
      BY <1>7, <2>1 DEF Wrong
    <2>3. QED
      BY <2>2, <1>7, <1>9, <1>15, Concat
  <1>17. \A x : x \in StepsOf(ApplySteps) <=>
              \/ x \in {<<"stop", None>>, <<"recovery", None>>, <<"keep", "managed">>, <<"keep", "checkout">>,
                        <<"place", "checkout">>, <<"bind", "B">>, <<"profile", "B">>, <<"wrapper", "B">>, <<"mark", "B">>,
                        <<"interpreter", "B">>, <<"copy", None>>, <<"pending", "applied">>}
              \/ \E r \in setup.staged : x = <<"keep", r>> \/ x = <<"place", r>>
    BY <1>1, <1>2, <1>3, <1>4, <1>5, <1>6, <1>7, <1>11, <1>13, <1>15, <1>16
  <1>18. ApplySteps # <<>> /\ Head(ApplySteps) = <<"stop", None>> /\ Tail(ApplySteps) # <<>> /\ Head(Tail(ApplySteps)) = <<"recovery", None>>
    <2> HIDE DEF AllSteps
    <2> DEFINE whole == s1 \o s2 \o s3 \o s4 \o s5
    <2>1. s1 \in Seq(AllSteps) /\ s2 \in Seq(AllSteps) /\ s3 \in Seq(AllSteps) /\ s4 \in Seq(AllSteps) /\ s5 \in Seq(AllSteps)
      BY <1>1, <1>2, <1>11, <1>6, <1>7 DEF WellOrdered
    <2>2. Len(s1) = 2 /\ s1[1] = <<"stop", None>> /\ s1[2] = <<"recovery", None>>
      BY DEF s1
    <2>3. GoesOn(whole, s1) /\ whole \in Seq(AllSteps)
      <3> HIDE DEF s1, s2, s3, s4, s5
      <3>1. QED
        BY <2>1, GoesFar, Zenon DEF whole
    <2> HIDE DEF whole
    <2>5. whole \in Seq(AllSteps) /\ Len(whole) \in Nat /\ Len(whole) >= 2 /\ whole[1] = s1[1] /\ whole[2] = s1[2]
      BY <2>2, <2>3 DEF GoesOn
    <2>6. /\ whole # <<>> /\ Head(whole) = whole[1]
          /\ Tail(whole) # <<>> /\ Head(Tail(whole)) = whole[2]
      <3>1. Tail(whole) \in Seq(AllSteps) /\ Len(Tail(whole)) = Len(whole) - 1 /\ Tail(whole)[1] = whole[2]
        BY <2>5
      <3>2. whole # <<>> /\ Head(whole) = whole[1]
        BY <2>5
      <3>3. Tail(whole) # <<>> /\ Head(Tail(whole)) = Tail(whole)[1]
        <4> DEFINE v == Tail(whole)
        <4> HIDE DEF v
        <4>1. v \in Seq(AllSteps) /\ Len(v) >= 1
          BY <2>5, <3>1 DEF v
        <4>2. v # <<>> /\ Head(v) = v[1]
          BY <4>1
        <4>3. QED
          BY <4>2 DEF v
      <3>4. QED
        BY <3>1, <3>2, <3>3
    <2>7. QED
      BY <1>9, <2>2, <2>5, <2>6 DEF whole
  <1>19. QED
    BY <1>16, <1>17, <1>18

\* ... and in which it is undone.
LEMMA RestorationFacts ==
  ASSUME RuntimesAreNamed, SetupsAreUpdates, setup \in Setups
  PROVE  /\ WellOrdered(Restoration)
         /\ \A x \in StepsOf(Restoration) :
              /\ x[1] \in {"drop", "back", "unmake", "profile"}
              /\ x[2] # "B" \/ x[1] # "profile"
         /\ \A i \in Items : <<"drop", i>> \in StepsOf(Restoration) /\ <<"back", i>> \in StepsOf(Restoration)
         /\ <<"profile", "A">> \in StepsOf(Restoration)
  <1> DEFINE s1 == <<<<"drop", "checkout">>, <<"back", "checkout">>, <<"drop", "managed">>, <<"back", "managed">>>>
             s1a == <<<<"drop", "checkout">>, <<"back", "checkout">>>>
             s1b == <<<<"drop", "managed">>, <<"back", "managed">>>>
             s2 == Each("unmake", setup.staged)
             part == [r \in Runtimes |-> <<<<"drop", r>>, <<"back", r>>>>]
             s3 == ForEach(part)
             s4 == <<<<"profile", "A">>>>
  <1>0. setup.staged \in SUBSET Runtimes
    BY DEF SetupsAreUpdates
  <1>1. WellOrdered(s1a) /\ StepsOf(s1a) = {<<"drop", "checkout">>, <<"back", "checkout">>}
    BY TwoSteps DEF AllSteps, Wrong, Items
  <1>2. WellOrdered(s1b) /\ StepsOf(s1b) = {<<"drop", "managed">>, <<"back", "managed">>}
    BY TwoSteps DEF AllSteps, Wrong, Items
  <1>3. WellOrdered(s2) /\ \A x : x \in StepsOf(s2) <=> \E r \in setup.staged : x = <<"unmake", r>>
    BY <1>0, EachFacts
  <1>4. WellOrdered(s3) /\ \A x : x \in StepsOf(s3) <=> \E r \in Runtimes : x = <<"drop", r>> \/ x = <<"back", r>>
    <2>1. part = Pairs("drop", "back", Runtimes)
      BY DEF Pairs
    <2>2. Runtimes \in SUBSET Runtimes
      OBVIOUS
    <2> HIDE DEF part
    <2>3. QED
      BY <2>1, <2>2, PairsFacts
  <1>5. WellOrdered(s4) /\ StepsOf(s4) = {<<"profile", "A">>}
    BY OneStep DEF AllSteps, Versions
  <1>6. s1 = s1a \o s1b /\ Restoration = s1 \o s2 \o s3 \o s4
    BY DEF Restoration
  <1> HIDE DEF s1, s1a, s1b, s2, s3, s4
  <1>7. WellOrdered(s1) /\ StepsOf(s1) = StepsOf(s1a) \cup StepsOf(s1b)
    <2>1. \A x \in StepsOf(s1a), y \in StepsOf(s1b) : ~Wrong(x, y)
      BY <1>1, <1>2 DEF Wrong
    <2>2. QED
      BY <2>1, <1>1, <1>2, <1>6, Concat
  <1>8. /\ \A x \in StepsOf(s1) : x[1] \in {"drop", "back"}
        /\ \A x \in StepsOf(s2) : x[1] = "unmake"
        /\ \A x \in StepsOf(s3) : x[1] \in {"drop", "back"}
        /\ \A x \in StepsOf(s4) : x = <<"profile", "A">>
    BY <1>1, <1>2, <1>3, <1>4, <1>5, <1>7
  <1>9. WellOrdered(s1 \o s2) /\ StepsOf(s1 \o s2) = StepsOf(s1) \cup StepsOf(s2)
    <2>1. \A x \in StepsOf(s1), y \in StepsOf(s2) : ~Wrong(x, y)
      BY <1>8 DEF Wrong
    <2>2. QED
      BY <2>1, <1>3, <1>7, Concat
  <1>10. WellOrdered(s1 \o s2 \o s3) /\ StepsOf(s1 \o s2 \o s3) = StepsOf(s1 \o s2) \cup StepsOf(s3)
    <2>1. \A x \in StepsOf(s1 \o s2), y \in StepsOf(s3) : ~Wrong(x, y)
      BY <1>8, <1>9 DEF Wrong
    <2>2. QED
      BY <2>1, <1>4, <1>9, Concat
  <1>11. WellOrdered(Restoration) /\ StepsOf(Restoration) = StepsOf(s1 \o s2 \o s3) \cup StepsOf(s4)
    <2>1. \A x \in StepsOf(s1 \o s2 \o s3), y \in StepsOf(s4) : ~Wrong(x, y)
      BY <1>8, <1>9, <1>10 DEF Wrong
    <2>2. QED
      BY <2>1, <1>5, <1>6, <1>10, Concat
  <1>12. StepsOf(Restoration) = StepsOf(s1a) \cup StepsOf(s1b) \cup StepsOf(s2) \cup StepsOf(s3) \cup StepsOf(s4)
    BY <1>7, <1>9, <1>10, <1>11
  <1>13. ASSUME NEW x \in StepsOf(Restoration)
         PROVE  x[1] \in {"drop", "back", "unmake", "profile"} /\ (x[2] # "B" \/ x[1] # "profile")
    BY <1>7, <1>8, <1>12
  <1>14. ASSUME NEW i \in Items
         PROVE  <<"drop", i>> \in StepsOf(Restoration) /\ <<"back", i>> \in StepsOf(Restoration)
    <2>1. CASE i \in Runtimes
      <3>1. <<"drop", i>> \in StepsOf(s3) /\ <<"back", i>> \in StepsOf(s3)
        BY <1>4, <2>1
      <3>2. QED
        BY <1>12, <3>1
    <2>2. CASE i = "checkout"
      BY <1>1, <1>12, <2>2
    <2>3. CASE i = "managed"
      BY <1>2, <1>12, <2>3
    <2>4. QED
      BY <2>1, <2>2, <2>3 DEF Items
  <1>15. QED
    BY <1>5, <1>11, <1>12, <1>13, <1>14

\* What undoes a failed step, whichever it was.
LEMMA UnwindingFacts ==
  ASSUME RuntimesAreNamed, SetupsAreUpdates, setup \in Setups
  PROVE  /\ WellOrdered(Unwinding)
         /\ \A x \in StepsOf(Unwinding) :
              x[1] \in {"drop", "back", "unmake", "profile", "bind", "wrapper", "mark", "interpreter", "forget"}
              /\ (x[1] \in {"profile", "bind", "wrapper", "mark", "interpreter"} => x[2] = "A")
         /\ \A i \in Items : <<"drop", i>> \in StepsOf(Unwinding) /\ <<"back", i>> \in StepsOf(Unwinding)
         /\ \A what \in {"profile", "wrapper", "mark", "interpreter"} : <<what, "A">> \in StepsOf(Unwinding)
  <1> DEFINE s1 == Restoration
             s2 == <<<<"bind", "A">>>>
             s3 == Remark("A")
             s4 == <<<<"forget", None>>>>
  <1>1. /\ WellOrdered(s1)
        /\ \A x \in StepsOf(s1) : x[1] \in {"drop", "back", "unmake", "profile"}
        /\ \A x \in StepsOf(s1) : x[1] = "profile" => x \in AllSteps /\ x[2] # "B"
        /\ \A i \in Items : <<"drop", i>> \in StepsOf(s1) /\ <<"back", i>> \in StepsOf(s1)
        /\ <<"profile", "A">> \in StepsOf(s1)
    <2>1. \A x \in StepsOf(s1) : x \in AllSteps
      <3>1. \A k \in 1..Len(s1) : s1[k] \in AllSteps
        BY RestorationFacts DEF WellOrdered
      <3>2. QED
        BY <3>1 DEF StepsOf
    <2>2. QED
      BY <2>1, RestorationFacts
  <1>2. WellOrdered(s2) /\ StepsOf(s2) = {<<"bind", "A">>}
    BY OneStep DEF AllSteps, Versions
  <1>3. WellOrdered(s3) /\ StepsOf(s3) = {<<"wrapper", "A">>, <<"mark", "A">>, <<"interpreter", "A">>}
    BY RemarkFacts DEF Versions
  <1>4. WellOrdered(s4) /\ StepsOf(s4) = {<<"forget", None>>}
    BY OneStep DEF AllSteps
  <1>5. Unwinding = s1 \o s2 \o s3 \o s4
    BY DEF Unwinding
  <1>6. \A x \in StepsOf(s1) : x[1] = "profile" => x[2] = "A"
    BY <1>1 DEF AllSteps, Versions
  <1> HIDE DEF s1, s2, s3, s4
  <1>7. WellOrdered(s1 \o s2) /\ StepsOf(s1 \o s2) = StepsOf(s1) \cup StepsOf(s2)
    <2>1. \A x \in StepsOf(s1), y \in StepsOf(s2) : ~Wrong(x, y)
      BY <1>1, <1>2 DEF Wrong
    <2>2. QED
      BY <2>1, <1>1, <1>2, Concat
  <1>8. WellOrdered(s1 \o s2 \o s3) /\ StepsOf(s1 \o s2 \o s3) = StepsOf(s1 \o s2) \cup StepsOf(s3)
    <2>1. \A x \in StepsOf(s1 \o s2), y \in StepsOf(s3) : ~Wrong(x, y)
      BY <1>1, <1>2, <1>3, <1>7 DEF Wrong
    <2>2. QED
      BY <2>1, <1>3, <1>7, Concat
  <1>9. WellOrdered(Unwinding) /\ StepsOf(Unwinding) = StepsOf(s1 \o s2 \o s3) \cup StepsOf(s4)
    <2>1. \A x \in StepsOf(s1 \o s2 \o s3), y \in StepsOf(s4) : ~Wrong(x, y)
      BY <1>1, <1>2, <1>3, <1>4, <1>7, <1>8 DEF Wrong
    <2>2. QED
      BY <2>1, <1>4, <1>5, <1>8, Concat
  <1>10. StepsOf(Unwinding) = StepsOf(s1) \cup StepsOf(s2) \cup StepsOf(s3) \cup StepsOf(s4)
    BY <1>7, <1>8, <1>9
  <1>11. ASSUME NEW x \in StepsOf(Unwinding)
         PROVE  /\ x[1] \in {"drop", "back", "unmake", "profile", "bind", "wrapper", "mark", "interpreter", "forget"}
                /\ x[1] \in {"profile", "bind", "wrapper", "mark", "interpreter"} => x[2] = "A"
    <2>1. CASE x \in StepsOf(s1)
      BY <1>1, <1>6, <2>1
    <2>2. CASE x \in StepsOf(s2) \cup StepsOf(s3) \cup StepsOf(s4)
      BY <1>2, <1>3, <1>4, <2>2
    <2>3. QED
      BY <1>10, <2>1, <2>2
  <1>12. QED
    BY <1>1, <1>3, <1>9, <1>10, <1>11

LEMMA UnwindPlan ==
  ASSUME RuntimesAreNamed, SetupsAreUpdates, setup \in Setups, NEW i \in Items,
         NEW s \in {<<>>, <<<<"back", i>>, <<"back", "managed">>>>}
  PROVE  /\ WellOrdered(s \o Unwinding) /\ \A x \in StepsOf(s \o Unwinding) : MayTake("unwind", x)
         /\ \A j \in Items : <<"drop", j>> \in StepsOf(s \o Unwinding) /\ <<"back", j>> \in StepsOf(s \o Unwinding)
         /\ \A what \in {"profile", "wrapper", "mark", "interpreter"} : <<what, "A">> \in StepsOf(s \o Unwinding)
  <1>1. WellOrdered(s) /\ \A x \in StepsOf(s) : x[1] = "back"
    <2>1. CASE s = <<>>
      BY <2>1, NoSteps
    <2>2. CASE s = <<<<"back", i>>, <<"back", "managed">>>>
      <3>1. <<"back", i>> \in AllSteps /\ <<"back", "managed">> \in AllSteps
        BY DEF AllSteps, Items
      <3>2. ~Wrong(<<"back", i>>, <<"back", "managed">>)
        BY DEF Wrong
      <3>3. WellOrdered(s) /\ StepsOf(s) = {<<"back", i>>, <<"back", "managed">>}
        BY <2>2, <3>1, <3>2, TwoSteps
      <3>4. QED
        BY <3>3
    <2>3. QED
      BY <2>1, <2>2
  <1>2. \A x \in StepsOf(s), y \in StepsOf(Unwinding) : ~Wrong(x, y)
    BY <1>1, UnwindingFacts DEF Wrong
  <1>3. WellOrdered(s \o Unwinding) /\ StepsOf(s \o Unwinding) = StepsOf(s) \cup StepsOf(Unwinding)
    BY <1>1, <1>2, UnwindingFacts, Concat
  <1>4. \A x \in StepsOf(s \o Unwinding) : MayTake("unwind", x)
    BY <1>1, <1>3, UnwindingFacts DEF MayTake, Written
  <1>5. QED
    BY <1>3, <1>4, UnwindingFacts

LEMMA EndOfPlan ==
  /\ WellOrdered(<<<<"discard", "profile">>, <<"clear", None>>, <<"forget", None>>>>)
  /\ StepsOf(<<<<"discard", "profile">>, <<"clear", None>>, <<"forget", None>>>>)
       = {<<"discard", "profile">>, <<"clear", None>>, <<"forget", None>>}
  <1> DEFINE s1 == <<<<"discard", "profile">>, <<"clear", None>>>>
             s2 == <<<<"forget", None>>>>
  <1>1. WellOrdered(s1) /\ StepsOf(s1) = {<<"discard", "profile">>, <<"clear", None>>}
    BY TwoSteps DEF AllSteps, Wrong
  <1>2. WellOrdered(s2) /\ StepsOf(s2) = {<<"forget", None>>}
    BY OneStep DEF AllSteps
  <1>3. <<<<"discard", "profile">>, <<"clear", None>>, <<"forget", None>>>> = s1 \o s2
    OBVIOUS
  <1> HIDE DEF s1, s2
  <1>4. \A x \in StepsOf(s1), y \in StepsOf(s2) : ~Wrong(x, y)
    BY <1>1, <1>2 DEF Wrong
  <1>5. WellOrdered(s1 \o s2) /\ StepsOf(s1 \o s2) = StepsOf(s1) \cup StepsOf(s2)
    BY <1>1, <1>2, <1>4, Concat
  <1>6. QED
    BY <1>1, <1>2, <1>3, <1>5

LEMMA RollbackPlan ==
  ASSUME RuntimesAreNamed, SetupsAreUpdates, setup \in Setups, NEW phase \in {"applied", "files_restored"}
  PROVE  LET s == RollbackSteps(phase)
         IN  /\ WellOrdered(s) /\ s # <<>> /\ \A x \in StepsOf(s) : MayTake("rollback", x)
             /\ \A what \in {"wrapper", "mark", "interpreter"} : <<what, "A">> \in StepsOf(s)
             /\ <<"clear", None>> \in StepsOf(s)
             /\ phase = "applied" =>
                  /\ \A j \in Items : <<"drop", j>> \in StepsOf(s) /\ <<"back", j>> \in StepsOf(s)
                  /\ <<"profile", "A">> \in StepsOf(s) /\ <<"pending", "files_restored">> \in StepsOf(s)
                  /\ Head(s) = <<"stop", None>>
             /\ phase = "files_restored" =>
                  \A x \in StepsOf(s) : x[1] \in {"bind", "wrapper", "mark", "interpreter", "discard", "clear", "forget"}
  <1> DEFINE s0 == <<<<"stop", None>>>>
             s1 == Restoration
             s2 == <<<<"pending", "files_restored">>>>
             s3 == <<<<"bind", "A">>>>
             s4 == Remark("A")
             s5 == <<<<"discard", "profile">>, <<"clear", None>>, <<"forget", None>>>>
             front == IF phase = "applied" THEN s0 \o s1 \o s2 ELSE <<>>
  <1>1. WellOrdered(s0) /\ StepsOf(s0) = {<<"stop", None>>}
    BY OneStep DEF AllSteps
  <1>2. /\ WellOrdered(s1)
        /\ \A x \in StepsOf(s1) : x[1] \in {"drop", "back", "unmake", "profile"} /\ (x[1] = "profile" => x[2] = "A")
        /\ \A i \in Items : <<"drop", i>> \in StepsOf(s1) /\ <<"back", i>> \in StepsOf(s1)
        /\ <<"profile", "A">> \in StepsOf(s1)
    <2>1. \A x \in StepsOf(s1) : x \in AllSteps
      <3>1. \A k \in 1..Len(s1) : s1[k] \in AllSteps
        BY RestorationFacts DEF WellOrdered
      <3>2. QED
        BY <3>1 DEF StepsOf
    <2>2. \A x \in StepsOf(s1) : x[1] = "profile" => x[2] = "A"
      <3>1. \A x \in StepsOf(s1) : x \in AllSteps /\ (x[1] = "profile" => x[2] # "B")
        BY <2>1, RestorationFacts
      <3>2. QED
        BY <3>1 DEF AllSteps, Versions
    <2>3. QED
      BY <2>2, RestorationFacts
  <1>3. WellOrdered(s2) /\ StepsOf(s2) = {<<"pending", "files_restored">>}
    BY OneStep DEF AllSteps
  <1>4. WellOrdered(s3) /\ StepsOf(s3) = {<<"bind", "A">>}
    BY OneStep DEF AllSteps, Versions
  <1>5. WellOrdered(s4) /\ StepsOf(s4) = {<<"wrapper", "A">>, <<"mark", "A">>, <<"interpreter", "A">>}
    BY RemarkFacts DEF Versions
  <1>6. WellOrdered(s5) /\ StepsOf(s5) = {<<"discard", "profile">>, <<"clear", None>>, <<"forget", None>>}
    BY EndOfPlan
  <1>7. RollbackSteps(phase) = front \o s3 \o s4 \o s5
    BY DEF RollbackSteps
  <1>0. Len(s0) = 1 /\ s0[1] = <<"stop", None>>
    OBVIOUS
  <1> HIDE DEF s0, s1, s2, s3, s4, s5
  <1>8. WellOrdered(s0 \o s1) /\ StepsOf(s0 \o s1) = StepsOf(s0) \cup StepsOf(s1)
    <2>1. \A x \in StepsOf(s0), y \in StepsOf(s1) : ~Wrong(x, y)
      BY <1>1, <1>2 DEF Wrong
    <2>2. QED
      BY <2>1, <1>1, <1>2, Concat
  <1>9. WellOrdered(s0 \o s1 \o s2) /\ StepsOf(s0 \o s1 \o s2) = StepsOf(s0 \o s1) \cup StepsOf(s2)
    <2>1. \A x \in StepsOf(s0 \o s1), y \in StepsOf(s2) : ~Wrong(x, y)
      BY <1>1, <1>2, <1>3, <1>8 DEF Wrong
    <2>2. QED
      BY <2>1, <1>3, <1>8, Concat
  <1>10. /\ WellOrdered(front)
         /\ \A x : x \in StepsOf(front) <=> phase = "applied" /\ x \in StepsOf(s0) \cup StepsOf(s1) \cup StepsOf(s2)
    BY <1>8, <1>9, NoSteps
  <1> HIDE DEF front
  <1>11. \A x \in StepsOf(front) : /\ x[1] \in {"stop", "drop", "back", "unmake", "profile", "pending"}
                                   /\ x[1] = "profile" => x[2] = "A"
                                   /\ x[1] = "pending" => x[2] = "files_restored"
    BY <1>1, <1>2, <1>3, <1>10
  <1>12. WellOrdered(front \o s3) /\ StepsOf(front \o s3) = StepsOf(front) \cup StepsOf(s3)
    <2>1. \A x \in StepsOf(front), y \in StepsOf(s3) : ~Wrong(x, y)
      <3>1. \A x \in StepsOf(front) : x # <<"pending", "applied">> /\ x[1] # "forget"
        BY <1>11
      <3>2. QED
        BY <3>1, <1>4, <1>11 DEF Wrong
    <2>2. QED
      BY <2>1, <1>4, <1>10, Concat
  <1>13. \A x \in StepsOf(front \o s3) : /\ x[1] \in {"stop", "drop", "back", "unmake", "profile", "pending", "bind"}
                                         /\ x # <<"pending", "applied">>
    BY <1>4, <1>11, <1>12
  <1>14. WellOrdered(front \o s3 \o s4) /\ StepsOf(front \o s3 \o s4) = StepsOf(front \o s3) \cup StepsOf(s4)
    <2>1. \A x \in StepsOf(front \o s3), y \in StepsOf(s4) : ~Wrong(x, y)
      BY <1>5, <1>13 DEF Wrong
    <2>2. QED
      BY <2>1, <1>5, <1>12, Concat
  <1>15. \A x \in StepsOf(front \o s3 \o s4) :
            /\ x[1] \in {"stop", "drop", "back", "unmake", "profile", "pending", "bind", "wrapper", "mark", "interpreter"}
            /\ x # <<"pending", "applied">>
    BY <1>5, <1>13, <1>14
  <1>16. WellOrdered(front \o s3 \o s4 \o s5) /\ StepsOf(front \o s3 \o s4 \o s5) = StepsOf(front \o s3 \o s4) \cup StepsOf(s5)
    <2>1. \A x \in StepsOf(front \o s3 \o s4), y \in StepsOf(s5) : ~Wrong(x, y)
      BY <1>6, <1>15 DEF Wrong
    <2>2. QED
      BY <2>1, <1>6, <1>14, Concat
  <1> DEFINE s == RollbackSteps(phase)
  <1>17. WellOrdered(s) /\ StepsOf(s) = StepsOf(front) \cup StepsOf(s3) \cup StepsOf(s4) \cup StepsOf(s5)
    BY <1>7, <1>12, <1>14, <1>16
  <1> HIDE DEF s
  <1>18. ASSUME NEW x \in StepsOf(s) PROVE MayTake("rollback", x)
    <2>1. CASE x \in StepsOf(front)
      BY <1>11, <2>1 DEF MayTake, Written
    <2>2. CASE x \in StepsOf(s3) \cup StepsOf(s4) \cup StepsOf(s5)
      BY <1>4, <1>5, <1>6, <2>2 DEF MayTake, Written
    <2>3. QED
      BY <1>17, <2>1, <2>2
  <1>19. s # <<>>
    <2>1. <<"clear", None>> \in StepsOf(s)
      BY <1>6, <1>17
    <2>2. QED
      BY <2>1, NoSteps
  <1>20. ASSUME phase = "applied" PROVE Head(s) = <<"stop", None>>
    <2> HIDE DEF AllSteps
    <2> DEFINE most == s0 \o s1 \o s2 \o s3 \o s4
    <2>1. /\ s0 \in Seq(AllSteps) /\ s1 \in Seq(AllSteps) /\ s2 \in Seq(AllSteps) /\ s3 \in Seq(AllSteps)
          /\ s4 \in Seq(AllSteps) /\ s5 \in Seq(AllSteps)
      BY <1>1, <1>2, <1>3, <1>4, <1>5, <1>6 DEF WellOrdered
    <2>2. s = most \o s5
      BY <1>7, <1>20 DEF front, s
    <2>3. GoesOn(most, s0) /\ most \in Seq(AllSteps)
      <3> HIDE DEF s0, s1, s2, s3, s4, s5
      <3>1. QED
        BY <2>1, GoesFar, Zenon DEF most
    <2>4. GoesOn(most \o s5, s0) /\ most \o s5 \in Seq(AllSteps)
      <3> HIDE DEF s0, s5, most
      <3>1. QED
        BY <2>1, <2>3, GoesFurther, Zenon
    <2>5. s \in Seq(AllSteps) /\ Len(s) >= 1 /\ s[1] = <<"stop", None>>
      <3>1. Len(s0) = 1 /\ s0[1] = <<"stop", None>>
        BY DEF s0
      <3> HIDE DEF s0, s5, most, s
      <3>2. GoesOn(s, s0) /\ s \in Seq(AllSteps)
        BY <2>2, <2>4
      <3>3. QED
        BY <3>1, <3>2 DEF GoesOn
    <2>6. Head(s) = s[1]
      BY <2>5
    <2>7. QED
      BY <2>5, <2>6
  <1>21. ASSUME phase = "applied"
         PROVE  /\ \A j \in Items : <<"drop", j>> \in StepsOf(s) /\ <<"back", j>> \in StepsOf(s)
                /\ <<"profile", "A">> \in StepsOf(s) /\ <<"pending", "files_restored">> \in StepsOf(s)
    BY <1>2, <1>3, <1>10, <1>17, <1>21
  <1>22. ASSUME phase = "files_restored", NEW x \in StepsOf(s)
         PROVE  x[1] \in {"bind", "wrapper", "mark", "interpreter", "discard", "clear", "forget"}
    <2>1. x \in StepsOf(s3) \cup StepsOf(s4) \cup StepsOf(s5)
      BY <1>10, <1>17, <1>22
    <2>2. QED
      BY <1>4, <1>5, <1>6, <2>1
  <1>23. /\ <<"clear", None>> \in StepsOf(s)
         /\ \A what \in {"wrapper", "mark", "interpreter"} : <<what, "A">> \in StepsOf(s)
    BY <1>5, <1>6, <1>17
  <1>24. QED
    BY <1>17, <1>18, <1>19, <1>20, <1>21, <1>22, <1>23 DEF s

LEMMA FinalizePlan ==
  ASSUME RuntimesAreNamed
  PROVE  /\ WellOrdered(FinalizeSteps) /\ \A x \in StepsOf(FinalizeSteps) : MayTake("finalize", x)
         /\ <<"clear", None>> \in StepsOf(FinalizeSteps)
  <1> DEFINE s1 == <<<<"discard", "checkout">>, <<"discard", "managed">>>>
             s2 == Each("discard", Runtimes)
             s3 == <<<<"discard", "profile">>, <<"clear", None>>, <<"forget", None>>>>
  <1>1. WellOrdered(s1) /\ StepsOf(s1) = {<<"discard", "checkout">>, <<"discard", "managed">>}
    BY TwoSteps DEF AllSteps, Wrong, Items
  <1>2. WellOrdered(s2) /\ \A x : x \in StepsOf(s2) <=> \E r \in Runtimes : x = <<"discard", r>>
    BY EachFacts
  <1>3. WellOrdered(s3) /\ StepsOf(s3) = {<<"discard", "profile">>, <<"clear", None>>, <<"forget", None>>}
    BY EndOfPlan
  <1>4. FinalizeSteps = s1 \o s2 \o s3
    BY DEF FinalizeSteps
  <1> HIDE DEF s1, s2, s3
  <1>5. WellOrdered(s1 \o s2) /\ StepsOf(s1 \o s2) = StepsOf(s1) \cup StepsOf(s2)
    <2>1. \A x \in StepsOf(s1), y \in StepsOf(s2) : ~Wrong(x, y)
      BY <1>1, <1>2 DEF Wrong
    <2>2. QED
      BY <2>1, <1>1, <1>2, Concat
  <1>6. \A x \in StepsOf(s1 \o s2) : x[1] = "discard"
    BY <1>1, <1>2, <1>5
  <1>7. WellOrdered(FinalizeSteps) /\ StepsOf(FinalizeSteps) = StepsOf(s1 \o s2) \cup StepsOf(s3)
    <2>1. \A x \in StepsOf(s1 \o s2), y \in StepsOf(s3) : ~Wrong(x, y)
      BY <1>3, <1>6 DEF Wrong
    <2>2. QED
      BY <2>1, <1>3, <1>4, <1>5, Concat
  <1>8. QED
    BY <1>3, <1>6, <1>7 DEF MayTake

-----------------------------------------------------------------------------
(* A step, and what is left to do after it.                                *)

Advance ==
  /\ proc.todo # <<>> /\ proc'.op = proc.op /\ proc'.todo = Tail(proc.todo)
  /\ OfProc(proc)' /\ setup' = setup
  /\ Left = {Head(proc.todo)} \cup Left'
  /\ \A y \in Left' : ~Wrong(Head(proc.todo), y)
  /\ Head(proc.todo)[1] = "drop" => <<"back", It>> \in Left'
  /\ Head(proc.todo) = <<Head(proc.todo)[1], It>> /\ Head(proc.todo) \in AllSteps
  /\ Head(proc.todo) \in Left /\ MayTake(proc.op, Head(proc.todo))

LEMMA HeadFacts ==
  ASSUME OfProc(proc), proc.todo # <<>>
  PROVE  /\ Head(proc.todo) \in AllSteps /\ WellOrdered(Tail(proc.todo))
         /\ Left = {Head(proc.todo)} \cup StepsOf(Tail(proc.todo))
         /\ \A y \in StepsOf(Tail(proc.todo)) : ~Wrong(Head(proc.todo), y)
         /\ Head(proc.todo)[1] = "drop" => <<"back", Head(proc.todo)[2]>> \in StepsOf(Tail(proc.todo))
         /\ MayTake(proc.op, Head(proc.todo)) /\ proc.op # None
         /\ Head(proc.todo) = <<Head(proc.todo)[1], It>> /\ Head(proc.todo) \in Left
  <1>1. WellOrdered(proc.todo)
    BY DEF OfProc
  <1>2. /\ Head(proc.todo) \in AllSteps /\ WellOrdered(Tail(proc.todo))
        /\ Left = {Head(proc.todo)} \cup StepsOf(Tail(proc.todo))
        /\ \A y \in StepsOf(Tail(proc.todo)) : ~Wrong(Head(proc.todo), y)
        /\ Head(proc.todo)[1] = "drop" => <<"back", Head(proc.todo)[2]>> \in StepsOf(Tail(proc.todo))
    BY <1>1, TailFacts DEF WellOrdered, Left
  <1>3. Head(proc.todo) \in Left
    BY <1>2
  <1>4. MayTake(proc.op, Head(proc.todo)) /\ proc.op # None
    BY <1>3 DEF OfProc, Left
  <1>5. Head(proc.todo) = <<Head(proc.todo)[1], It>>
    BY <1>2 DEF AllSteps, It
  <1>6. QED
    BY <1>2, <1>3, <1>4, <1>5

LEMMA Advances ==
  ASSUME OfProc(proc), proc.todo # <<>>, setup' = setup,
         \/ proc' = [proc EXCEPT !.todo = Tail(@)]
         \/ \E m : proc' = [proc EXCEPT !.todo = Tail(@), !.mark = m]
  PROVE  Advance
  <1>1. /\ proc'.op = proc.op /\ proc'.todo = Tail(proc.todo) /\ proc' = [op |-> proc'.op, todo |-> proc'.todo, mark |-> proc'.mark]
    BY DEF OfProc
  <1>2. Left' = StepsOf(Tail(proc.todo))
    BY <1>1 DEF Left
  <1>3. OfProc(proc)'
    <2>1. WellOrdered(proc'.todo) /\ proc'.op # None
      BY <1>1, HeadFacts
    <2>2. \A x \in StepsOf(proc'.todo) : MayTake(proc'.op, x)
      <3>1. \A x \in Left : MayTake(proc.op, x)
        BY DEF OfProc, Left
      <3>2. \A x \in StepsOf(Tail(proc.todo)) : x \in Left
        BY HeadFacts
      <3>3. QED
        BY <1>1, <3>1, <3>2
    <2>3. proc'.op \in {None, "apply", "unwind", "rollback", "finalize"}
      BY <1>1 DEF OfProc
    <2>4. QED
      BY <1>1, <2>1, <2>2, <2>3 DEF OfProc
  <1>4. QED
    BY <1>1, <1>2, <1>3, HeadFacts DEF Advance, It

LEMMA DoesAdvance ==
  ASSUME OfInstallation, NEW what, Does(what)
  PROVE  Advance /\ Head(proc.todo) = <<what, It>>
  BY Advances, HeadFacts DEF Does, Doing, Done, OfInstallation

LEMMA NothingLeft ==
  ASSUME OfProc(proc)', \A y : y \notin Left'
  PROVE  proc'.todo = <<>>
  <1>1. proc'.todo \in Seq(AllSteps) /\ \A k \in 1..Len(proc'.todo) : FALSE
    BY DEF OfProc, WellOrdered, Left, StepsOf
  <1> HIDE DEF AllSteps
  <1>2. Len(proc'.todo) = 0
    BY <1>1
  <1>3. QED
    BY <1>1, <1>2

-----------------------------------------------------------------------------
(* An update under way.                                                    *)

LEMMA KeepOldDuring ==
  ASSUME NoneIsNothing, RuntimesAreNamed, SetupsAreUpdates, OfInstallation, Whatever, Applying, proc.op = "apply", During, KeepOld
  PROVE  OfDisk(disk)' /\ Whatever' /\ During' /\ disk'.decided = disk.decided /\ disk'.pending = disk.pending
  <1>1. Advance /\ Head(proc.todo) = <<"keep", It>>
    BY DoesAdvance DEF KeepOld
  <1>2. It \in Items
    BY <1>1 DEF Advance, AllSteps
  <1>3. /\ disk'.now = IF disk.now[It] = "none" THEN disk.now ELSE [disk.now EXCEPT ![It] = "none"]
        /\ disk'.kept = IF disk.now[It] = "none" THEN disk.kept ELSE [disk.kept EXCEPT ![It] = disk.now[It]]
        /\ disk'.made = IF disk.now[It] = "none" THEN disk.made \cup {It} ELSE disk.made
        /\ disk'.profile = disk.profile /\ disk'.copy = disk.copy /\ disk'.wrapper = disk.wrapper
        /\ disk'.mark = disk.mark /\ disk'.interpreter = disk.interpreter /\ disk'.recovery = disk.recovery
        /\ disk'.pending = disk.pending /\ disk'.decided = disk.decided
        /\ OfDisk(disk)'
    BY <1>2 DEF KeepOld, OfInstallation, OfDisk, Conditions
  <1>4. <<"keep", It>> \in Left /\ disk.now \in [Items -> Conditions] /\ disk.kept \in [Items -> Conditions]
    BY <1>1 DEF Advance, OfInstallation, OfDisk
  <1>5. running' = running /\ setup' = setup /\ setup \in Setups
    BY <1>1 DEF KeepOld, Advance, OfInstallation
  <1>6. disk.decided = None /\ disk.pending = None /\ disk.recovery /\ running = None
    BY <1>1 DEF Applying, During, Advance
  <1>7. \A i \in setup.had : i \in Items
    BY <1>5 DEF SetupsAreUpdates
  <1>8. Whatever'
    <2>1. ASSUME NEW i \in setup.had
          PROVE  disk'.kept[i] \in {"none", "A"} /\ i \notin disk'.made /\ (disk'.kept[i] = "none" => disk'.now[i] = "A")
      <3>1. disk.kept[i] \in {"none", "A"} /\ i \notin disk.made /\ (disk.kept[i] = "none" => disk.now[i] = "A") /\ i \in Items
        BY <1>6, <1>7 DEF Whatever, NoneIsNothing
      <3>2. i = It => disk.now[i] = "A"
        BY <1>4 DEF During
      <3>3. QED
        BY <1>2, <1>3, <1>4, <3>1, <3>2
    <2>2. QED
      BY <1>3, <1>5, <1>6, <2>1 DEF Whatever, NoneIsNothing
  <1>9. During'
    <2>1. \A y : y \in Left' <=> y \in Left /\ y # <<"keep", It>>
      BY <1>1 DEF Advance, Wrong
    <2>2. /\ disk'.recovery /\ running' = None /\ \A x \in Left' : x[1] \notin {"stop", "recovery"}
      BY <1>3, <1>5, <1>6, <2>1 DEF During
    <2>3. ASSUME NEW i \in setup.had
          PROVE  /\ <<"keep", i>> \in Left' => disk'.now[i] = "A"
                 /\ <<"place", i>> \in Left' \/ (i = "managed" /\ <<"bind", "B">> \in Left') => disk'.kept[i] = "A" \/ <<"keep", i>> \in Left'
      <3>1. CASE i = It
        <4>1. disk.now[i] = "A" /\ i \in Items
          BY <1>4, <1>7, <3>1 DEF During
        <4>2. disk'.kept[i] = "A" /\ <<"keep", i>> \notin Left'
          BY <1>2, <1>3, <1>4, <2>1, <3>1, <4>1
        <4>3. QED
          BY <4>2
      <3>2. CASE i # It
        <4>1. disk'.now[i] = disk.now[i] /\ disk'.kept[i] = disk.kept[i]
          BY <1>2, <1>3, <1>4, <1>7, <3>2
        <4>2. /\ <<"keep", i>> \in Left' => disk.now[i] = "A"
              /\ <<"place", i>> \in Left' \/ (i = "managed" /\ <<"bind", "B">> \in Left') => disk.kept[i] = "A" \/ <<"keep", i>> \in Left
          BY <2>1 DEF During
        <4>3. <<"keep", i>> \in Left' <=> <<"keep", i>> \in Left
          BY <2>1, <3>2
        <4>4. QED
          BY <4>1, <4>2, <4>3
      <3>3. QED
        BY <3>1, <3>2
    <2>4. ASSUME NEW i \in setup.staged \cup {"checkout"}
          PROVE  <<"place", i>> \in Left' \/ (disk'.now[i] = "B" /\ <<"keep", i>> \notin Left')
      <3>1. <<"place", i>> \in Left \/ (disk.now[i] = "B" /\ <<"keep", i>> \notin Left)
        BY DEF During
      <3>2. CASE <<"place", i>> \in Left
        BY <2>1, <3>2
      <3>3. CASE disk.now[i] = "B" /\ <<"keep", i>> \notin Left
        <4>1. i # It /\ disk'.now[i] = disk.now[i]
          BY <1>2, <1>3, <1>4, <3>3
        <4>2. QED
          BY <2>1, <3>3, <4>1
      <3>4. QED
        BY <3>1, <3>2, <3>3
    <2>5. <<"bind", "B">> \in Left' \/ (disk'.now["managed"] = "B" /\ <<"keep", "managed">> \notin Left')
      <3>1. CASE <<"bind", "B">> \in Left
        BY <2>1, <3>1
      <3>2. CASE disk.now["managed"] = "B" /\ <<"keep", "managed">> \notin Left
        <4>1. "managed" # It /\ disk'.now["managed"] = disk.now["managed"]
          BY <1>2, <1>3, <1>4, <3>2
        <4>2. QED
          BY <2>1, <3>2, <4>1
      <3>3. QED
        BY <3>1, <3>2 DEF During
    <2>6. /\ setup.configured => <<"profile", "B">> \in Left' \/ disk'.profile = "B"
          /\ setup.configured => <<"copy", None>> \in Left' \/ disk'.copy
          /\ setup.sameCommand \/ disk'.wrapper = "B" \/ <<"wrapper", "B">> \in Left'
          /\ disk'.mark = "B" \/ <<"mark", "B">> \in Left'
          /\ disk'.interpreter = "B" \/ <<"interpreter", "B">> \in Left'
      BY <1>3, <2>1 DEF During
    <2>7. QED
      BY <1>5, <2>2, <2>3, <2>4, <2>5, <2>6 DEF During
  <1>10. QED
    BY <1>3, <1>8, <1>9

Context == /\ NoneIsNothing /\ RuntimesAreNamed /\ SetupsAreUpdates
           /\ OfInstallation /\ Whatever

\* The steps that make B: each makes one thing so that needs no making any more.
Making(x) ==
  /\ Advance /\ x = Head(proc.todo) /\ UNCHANGED running /\ OfDisk(disk)'
  /\ x[1] \in Written \cup {"place", "copy"}
  /\ disk'.kept = disk.kept /\ disk'.made = disk.made
  /\ disk'.recovery = disk.recovery /\ disk'.pending = disk.pending /\ disk'.decided = disk.decided
  /\ \/ x[1] = "place" /\ disk'.now = [disk.now EXCEPT ![x[2]] = "B"]
     \/ x[1] = "bind" /\ disk'.now = [disk.now EXCEPT !["managed"] = "B"]
     \/ x[1] \notin {"place", "bind"} /\ disk'.now = disk.now
  /\ IF x[1] = "profile" THEN setup.configured => disk'.profile = "B" ELSE disk'.profile = disk.profile
  /\ IF x[1] = "copy" THEN setup.configured => disk'.copy ELSE disk'.copy = disk.copy
  /\ IF x[1] = "wrapper" THEN disk'.wrapper = "B" ELSE disk'.wrapper = disk.wrapper
  /\ IF x[1] = "mark" THEN disk'.mark = "B" ELSE disk'.mark = disk.mark
  /\ IF x[1] = "interpreter" THEN disk'.interpreter = "B" ELSE disk'.interpreter = disk.interpreter

LEMMA MakingDuring ==
  ASSUME Context, Applying, proc.op = "apply", During, NEW x, Making(x)
  PROVE  Whatever' /\ During'
  <1> USE DEF Context
  <1>1. /\ Advance /\ x = Head(proc.todo) /\ x \in Left /\ running' = running /\ setup' = setup /\ setup \in Setups
        /\ x = <<x[1], x[2]>> /\ x \in AllSteps
    BY DEF Making, Advance, OfInstallation
  <1>2. disk.decided = None /\ disk.pending = None /\ disk.recovery /\ running = None
    BY <1>1 DEF Applying, During, Advance
  <1>3. /\ \A i \in setup.had : i \in Items
        /\ \A i \in setup.staged \cup {"checkout"} : i \in Items /\ i # "managed"
    BY <1>1 DEF SetupsAreUpdates, RuntimesAreNamed, Items
  <1>4. /\ disk.now \in [Items -> Conditions] /\ "managed" \in Items
        /\ x[1] \in Written => x[2] = "B"
        /\ x[1] = "place" => x[2] \in Items
        /\ Written \cap {"place", "copy", "keep"} = {}
    <2>1. MayTake("apply", x)
      BY <1>1 DEF Advance
    <2>2. x[1] \in Written => x[2] = "B"
      BY <2>1 DEF MayTake
    <2>3. QED
      BY <1>1, <2>2 DEF OfInstallation, OfDisk, Items, AllSteps, Written
  <1>5. \A y : y \in Left <=> y \in Left' \/ y = x
    BY <1>1 DEF Advance
  <1>6. \A y \in Left' : ~Wrong(x, y)
    BY <1>1 DEF Advance
  <1>7. \A i \in Items : disk'.now[i] = IF x = <<"place", i>> \/ (i = "managed" /\ x = <<"bind", "B">>) THEN "B" ELSE disk.now[i]
    <2>1. CASE x[1] = "place"
      BY <1>1, <1>4, <2>1 DEF Making
    <2>2. CASE x[1] = "bind"
      BY <1>1, <1>4, <2>2 DEF Making, Written
    <2>3. CASE x[1] \notin {"place", "bind"}
      BY <1>1, <2>3 DEF Making
    <2>4. QED
      BY <2>1, <2>2, <2>3
  <1>8. ASSUME NEW i \in setup.had, x = <<"place", i>> \/ (i = "managed" /\ x = <<"bind", "B">>)
        PROVE  disk.kept[i] = "A"
    <2>1. disk.kept[i] = "A" \/ <<"keep", i>> \in Left
      BY <1>1, <1>8 DEF During
    <2>2. <<"keep", i>> \notin Left'
      BY <1>6, <1>8 DEF Wrong
    <2>3. QED
      BY <1>5, <1>8, <2>1, <2>2
  <1>9. Whatever'
    <2>1. ASSUME NEW i \in setup.had
          PROVE  disk'.kept[i] \in {"none", "A"} /\ i \notin disk'.made /\ (disk'.kept[i] = "none" => disk'.now[i] = "A")
      <3>1. disk.kept[i] \in {"none", "A"} /\ i \notin disk.made /\ (disk.kept[i] = "none" => disk.now[i] = "A")
        BY <1>2 DEF Whatever, NoneIsNothing
      <3>2. disk'.kept = disk.kept /\ disk'.made = disk.made
        BY DEF Making
      <3>3. QED
        BY <1>3, <1>7, <1>8, <3>1, <3>2
    <2>2. /\ disk'.decided = None /\ disk'.pending = None /\ disk'.recovery /\ running' = None /\ setup' = setup
      BY <1>1, <1>2 DEF Making
    <2>3. QED
      BY <2>1, <2>2 DEF Whatever, NoneIsNothing
  <1>10. During'
    <2>1. /\ disk'.recovery /\ running' = None /\ \A y \in Left' : y[1] \notin {"stop", "recovery"}
      BY <1>1, <1>2, <1>5 DEF During, Making
    <2>2. ASSUME NEW i \in setup.had
          PROVE  /\ <<"keep", i>> \in Left' => disk'.now[i] = "A"
                 /\ <<"place", i>> \in Left' \/ (i = "managed" /\ <<"bind", "B">> \in Left') => disk'.kept[i] = "A" \/ <<"keep", i>> \in Left'
      <3>1. /\ <<"keep", i>> \in Left => disk.now[i] = "A"
            /\ <<"place", i>> \in Left \/ (i = "managed" /\ <<"bind", "B">> \in Left) => disk.kept[i] = "A" \/ <<"keep", i>> \in Left
        BY DEF During
      <3>2. x = <<"place", i>> \/ (i = "managed" /\ x = <<"bind", "B">>) => <<"keep", i>> \notin Left'
        BY <1>6 DEF Wrong
      <3>3. x # <<"keep", i>> /\ disk'.kept = disk.kept
        BY <1>4 DEF Making
      <3>4. QED
        BY <1>3, <1>5, <1>7, <3>1, <3>2, <3>3
    <2>3. ASSUME NEW i \in setup.staged \cup {"checkout"}
          PROVE  <<"place", i>> \in Left' \/ (disk'.now[i] = "B" /\ <<"keep", i>> \notin Left')
      <3>1. <<"place", i>> \in Left \/ (disk.now[i] = "B" /\ <<"keep", i>> \notin Left)
        BY DEF During
      <3>2. x = <<"place", i>> => <<"keep", i>> \notin Left'
        BY <1>6 DEF Wrong
      <3>3. QED
        BY <1>3, <1>5, <1>7, <3>1, <3>2
    <2>4. <<"bind", "B">> \in Left' \/ (disk'.now["managed"] = "B" /\ <<"keep", "managed">> \notin Left')
      <3>1. <<"bind", "B">> \in Left \/ (disk.now["managed"] = "B" /\ <<"keep", "managed">> \notin Left)
        BY DEF During
      <3>2. x = <<"bind", "B">> => <<"keep", "managed">> \notin Left'
        BY <1>6 DEF Wrong
      <3>3. QED
        BY <1>4, <1>5, <1>7, <3>1, <3>2
    <2>5. /\ setup.configured => <<"profile", "B">> \in Left' \/ disk'.profile = "B"
          /\ setup.configured => <<"copy", None>> \in Left' \/ disk'.copy
      BY <1>1, <1>5 DEF During, Making
    <2>6. /\ setup.sameCommand \/ disk'.wrapper = "B" \/ <<"wrapper", "B">> \in Left'
          /\ disk'.mark = "B" \/ <<"mark", "B">> \in Left'
          /\ disk'.interpreter = "B" \/ <<"interpreter", "B">> \in Left'
      BY <1>1, <1>5 DEF During, Making
    <2>7. QED
      BY <1>1, <2>1, <2>2, <2>3, <2>4, <2>5, <2>6 DEF During
  <1>11. QED
    BY <1>9, <1>10

LEMMA StepsMake ==
  ASSUME Context, proc.op = "apply",
         PlaceNew \/ Bind \/ WriteProfile \/ WriteWrapper \/ WriteMark \/ WriteInterpreter \/ CopyProfile
  PROVE  Making(Head(proc.todo))
  <1> USE DEF Context
  <1> DEFINE x == Head(proc.todo)
  <1>1. Advance
    <2>1. CASE WriteWrapper
      BY <2>1, Advances DEF WriteWrapper, Doing, OfInstallation
    <2>2. QED
      BY <2>1, DoesAdvance DEF PlaceNew, Bind, WriteProfile, WriteMark, WriteInterpreter, CopyProfile
  <1>2. /\ x = <<x[1], It>> /\ x \in AllSteps /\ MayTake("apply", x) /\ UNCHANGED running /\ OfDisk(disk) /\ setup \in Setups
    BY <1>1 DEF Advance, OfInstallation, PlaceNew, Bind, WriteProfile, WriteWrapper, WriteMark,
       WriteInterpreter, CopyProfile
  <1>3. x[1] \in Written => It = "B"
    BY <1>2 DEF MayTake
  <1>4. setup.configured \in BOOLEAN /\ "managed" \in Items
    BY <1>2 DEF SetupsAreUpdates, Items
  <1> HIDE DEF x
  <1>5. CASE PlaceNew
    <2>1. x[1] = "place" /\ It \in Items /\ disk' = [disk EXCEPT !.now[It] = "B"]
      BY <1>2, <1>5 DEF PlaceNew, Does, Doing, x, AllSteps
    <2>2. QED
      BY <1>1, <1>2, <2>1 DEF Making, OfDisk, Conditions, Written, x
  <1>6. CASE Bind
    <2>1. x[1] = "bind" /\ It = "B" /\ disk' = [disk EXCEPT !.now["managed"] = "B"]
      BY <1>3, <1>6 DEF Bind, Does, Doing, x, Written
    <2>2. QED
      BY <1>1, <1>2, <1>4, <2>1 DEF Making, OfDisk, Conditions, Written, x
  <1>7. CASE WriteProfile
    <2>1. x[1] = "profile" /\ It = "B" /\ disk' = IF ~setup.configured THEN disk ELSE [disk EXCEPT !.profile = "B"]
      BY <1>3, <1>7 DEF WriteProfile, Does, Doing, x, Written
    <2>2. QED
      BY <1>1, <1>2, <2>1 DEF Making, OfDisk, Written, x
  <1>8. CASE WriteWrapper
    <2>1. x[1] = "wrapper" /\ disk' = [disk EXCEPT !.wrapper = "B"]
      BY <1>3, <1>8 DEF WriteWrapper, Doing, x, Written
    <2>2. QED
      BY <1>1, <1>2, <2>1 DEF Making, OfDisk, Written, x
  <1>9. CASE WriteMark
    <2>1. x[1] = "mark" /\ disk' = [disk EXCEPT !.mark = "B"]
      BY <1>3, <1>9 DEF WriteMark, Does, Doing, x, Written
    <2>2. QED
      BY <1>1, <1>2, <2>1 DEF Making, OfDisk, Written, x
  <1>10. CASE WriteInterpreter
    <2>1. x[1] = "interpreter" /\ disk' = [disk EXCEPT !.interpreter = "B"]
      BY <1>3, <1>10 DEF WriteInterpreter, Does, Doing, x, Written
    <2>2. QED
      BY <1>1, <1>2, <2>1 DEF Making, OfDisk, Written, x
  <1>11. CASE CopyProfile
    <2>1. x[1] = "copy" /\ disk' = [disk EXCEPT !.copy = setup.configured]
      BY <1>11 DEF CopyProfile, Does, Doing, x
    <2>2. QED
      BY <1>1, <1>2, <1>4, <2>1 DEF Making, OfDisk, Written, x
  <1>12. QED
    BY <1>5, <1>6, <1>7, <1>8, <1>9, <1>10, <1>11 DEF x

LEMMA PendingDuring ==
  ASSUME Context, Applying, proc.op = "apply", During, SavePending
  PROVE  OfDisk(disk)' /\ Whatever' /\ During' /\ disk'.decided = disk.decided /\ proc'.todo = <<>>
  <1> USE DEF Context
  <1>1. Advance /\ Head(proc.todo) = <<"pending", It>>
    BY DoesAdvance DEF SavePending
  <1>2. Head(proc.todo) = <<"pending", "applied">>
    BY <1>1 DEF Advance, MayTake, Written
  <1>3. \A y : y \notin Left'
    BY <1>1, <1>2 DEF Advance, Wrong
  <1>4. proc'.todo = <<>>
    BY <1>1, <1>3, NothingLeft DEF Advance
  <1>5. \A y \in Left : y = <<"pending", "applied">>
    BY <1>1, <1>2, <1>3 DEF Advance
  <1>6. disk' = [disk EXCEPT !.pending = "applied"] /\ running' = running /\ setup' = setup
    BY <1>1, <1>2 DEF SavePending, Advance
  <1>7. /\ OfDisk(disk)' /\ disk'.pending = "applied"
        /\ disk'.now = disk.now /\ disk'.kept = disk.kept /\ disk'.made = disk.made /\ disk'.profile = disk.profile
        /\ disk'.copy = disk.copy /\ disk'.wrapper = disk.wrapper /\ disk'.mark = disk.mark
        /\ disk'.interpreter = disk.interpreter /\ disk'.recovery = disk.recovery /\ disk'.decided = disk.decided
    BY <1>6 DEF OfInstallation, OfDisk
  <1>8. /\ disk.recovery /\ running = None /\ disk.decided = None
        /\ \A i \in setup.staged \cup {"checkout"} : disk.now[i] = "B"
        /\ disk.now["managed"] = "B" /\ disk.mark = "B" /\ disk.interpreter = "B"
        /\ setup.sameCommand \/ disk.wrapper = "B"
        /\ setup.configured => disk.profile = "B" /\ disk.copy
    BY <1>5 DEF During, Applying
  <1>9. During'
    BY <1>3, <1>6, <1>7, <1>8 DEF During
  <1>10. WhollyB'
    BY <1>6, <1>7, <1>8 DEF WhollyB, Wholly
  <1>11. Whatever'
    <2>1. \A i \in setup.had : disk.kept[i] \in {"none", "A"} /\ i \notin disk.made /\ (disk.kept[i] = "none" => disk.now[i] = "A")
      BY <1>8 DEF Whatever, NoneIsNothing
    <2>2. QED
      BY <1>6, <1>7, <1>8, <1>10, <2>1 DEF Whatever, NoneIsNothing
  <1>12. QED
    BY <1>4, <1>7, <1>9, <1>11

\* Nothing is touched before there is a recovery.
LEMMA PrepareBefore ==
  ASSUME Context, Applying, proc.op = "apply", Before, PrepareRecovery
  PROVE  OfDisk(disk)' /\ Whatever' /\ During' /\ disk'.decided = disk.decided /\ disk'.pending = disk.pending
  <1> USE DEF Context
  <1>1. Advance /\ Head(proc.todo) = <<"recovery", It>> /\ setup \in Setups
    BY DoesAdvance DEF PrepareRecovery, OfInstallation
  <1>2. proc.todo = Tail(ApplySteps) /\ running = None
    <2>1. Head(ApplySteps)[1] # "recovery"
      BY <1>1, ApplyPlan
    <2>2. QED
      BY <1>1, <2>1 DEF Before
  <1>3. StepsOf(ApplySteps) = {<<"stop", None>>} \cup Left /\ \A y \in Left : y[1] # "stop"
    <2>1. /\ StepsOf(ApplySteps) = {Head(ApplySteps)} \cup StepsOf(Tail(ApplySteps))
          /\ \A y \in StepsOf(Tail(ApplySteps)) : ~Wrong(Head(ApplySteps), y)
      BY <1>1, ApplyPlan, TailFacts DEF WellOrdered
    <2>2. QED
      BY <1>1, <1>2, <2>1, ApplyPlan DEF Left, Wrong
  <1>4. Head(proc.todo) = <<"recovery", None>>
    BY <1>1, <1>2, ApplyPlan
  <1>5. \A y : y \in Left' <=> y \in StepsOf(ApplySteps) /\ y[1] \notin {"stop", "recovery"}
    <2>1. \A y \in Left' : y[1] \notin {"stop", "recovery"} /\ y \in Left
      BY <1>1, <1>4 DEF Advance, Wrong
    <2>2. \A y \in Left : y = <<"recovery", None>> \/ y \in Left'
      BY <1>1, <1>4 DEF Advance
    <2>3. \A y \in StepsOf(ApplySteps) : y[1] # "stop" => y \in Left
      BY <1>3
    <2>4. QED
      BY <1>3, <2>1, <2>2, <2>3
  <1>6. /\ \A y : y \in Left' <=>
              \/ y \in {<<"keep", "managed">>, <<"keep", "checkout">>, <<"place", "checkout">>, <<"bind", "B">>,
                        <<"profile", "B">>, <<"wrapper", "B">>, <<"mark", "B">>,
                        <<"interpreter", "B">>, <<"copy", None>>, <<"pending", "applied">>}
              \/ \E r \in setup.staged : y = <<"keep", r>> \/ y = <<"place", r>>
    <2>1. \A y : y \in StepsOf(ApplySteps) <=>
              \/ y \in {<<"stop", None>>, <<"recovery", None>>, <<"keep", "managed">>, <<"keep", "checkout">>,
                        <<"place", "checkout">>, <<"bind", "B">>, <<"profile", "B">>, <<"wrapper", "B">>, <<"mark", "B">>,
                        <<"interpreter", "B">>, <<"copy", None>>, <<"pending", "applied">>}
              \/ \E r \in setup.staged : y = <<"keep", r>> \/ y = <<"place", r>>
      BY <1>1, ApplyPlan
    <2>2. QED
      BY <1>5, <2>1
  <1>7. disk' = [disk EXCEPT !.recovery = TRUE] /\ ~disk.recovery /\ running' = running /\ setup' = setup
    BY <1>1 DEF PrepareRecovery, Advance
  <1>8. /\ OfDisk(disk)' /\ disk'.recovery
        /\ disk'.now = disk.now /\ disk'.kept = disk.kept /\ disk'.made = disk.made /\ disk'.decided = disk.decided
        /\ disk'.pending = disk.pending
    BY <1>7 DEF OfInstallation, OfDisk
  <1>9. disk.decided = None /\ disk.pending = None
    BY <1>1 DEF Applying, Advance
  <1>10. \A i \in setup.had : /\ disk.kept[i] \in {"none", "A"} /\ i \notin disk.made
                              /\ disk.kept[i] = "none" => disk.now[i] = "A"
                              /\ disk.now[i] = "A"
    <2>1. NoneKept
      BY <1>7, <1>9 DEF Whatever, NoneIsNothing
    <2>2. QED
      BY <1>9, <2>1 DEF Whatever, NoneIsNothing, NoneKept
  <1>11. Whatever'
    BY <1>2, <1>7, <1>8, <1>9, <1>10 DEF Whatever, NoneIsNothing
  <1>12. During'
    <2>1. ASSUME NEW i \in setup.had
          PROVE  /\ <<"keep", i>> \in Left' => disk'.now[i] = "A"
                 /\ <<"place", i>> \in Left' \/ (i = "managed" /\ <<"bind", "B">> \in Left') => disk'.kept[i] = "A" \/ <<"keep", i>> \in Left'
      BY <1>6, <1>8, <1>10
    <2>2. ASSUME NEW i \in setup.staged \cup {"checkout"}
          PROVE  <<"place", i>> \in Left'
      BY <1>6
    <2>3. /\ <<"bind", "B">> \in Left' /\ <<"profile", "B">> \in Left' /\ <<"copy", None>> \in Left'
          /\ <<"wrapper", "B">> \in Left' /\ <<"mark", "B">> \in Left' /\ <<"interpreter", "B">> \in Left'
      BY <1>6
    <2>4. \A y \in Left' : y[1] \notin {"stop", "recovery"}
      BY <1>5
    <2>5. QED
      BY <1>2, <1>7, <1>8, <2>1, <2>2, <2>3, <2>4 DEF During
  <1>13. QED
    BY <1>8, <1>11, <1>12

\* All the steps of an update.
LEMMA ApplyStep ==
  ASSUME Context, InstallerInv, proc.op = "apply", Step, ~Refuse, ~End
  PROVE  InstallerInv'
  <1> USE DEF Context
  <1>1. Stopped /\ Applying /\ setup \in Setups
    BY DEF InstallerInv, OfInstallation
  <1>0. /\ ApplySteps # <<>> /\ Head(ApplySteps) = <<"stop", None>>
        /\ Tail(ApplySteps) # <<>> /\ Head(Tail(ApplySteps)) = <<"recovery", None>>
    BY <1>1, ApplyPlan
  <1>2. ASSUME Advance, Whatever', OfDisk(disk)', During', disk'.decided = disk.decided,
               disk'.pending = disk.pending \/ proc'.todo = <<>>
        PROVE  InstallerInv'
    <2>1. proc'.op = "apply" /\ OfProc(proc)' /\ setup' = setup /\ running' = None
      BY <1>2 DEF Advance, During
    <2>2. disk.decided = None /\ (disk.pending = None \/ proc'.todo = <<>>)
      BY <1>1, <1>2 DEF Applying, Advance
    <2>3. Applying' /\ Stopped' /\ Restoring' /\ Finalizing' /\ OfInstallation'
      BY <1>1, <1>2, <2>1, <2>2 DEF Applying, Stopped, Restoring, Finalizing, OfInstallation
    <2>4. QED
      BY <1>2, <2>3 DEF InstallerInv
  <1>3. CASE During
    <2>1. CASE KeepOld
      BY <1>1, <1>2, <1>3, <2>1, KeepOldDuring, DoesAdvance DEF KeepOld
    <2>2. CASE PlaceNew \/ Bind \/ WriteProfile \/ WriteWrapper \/ WriteMark \/ WriteInterpreter \/ CopyProfile
      <3>1. Making(Head(proc.todo))
        BY <2>2, StepsMake
      <3>2. Advance /\ OfDisk(disk)' /\ disk'.decided = disk.decided /\ disk'.pending = disk.pending
        BY <3>1 DEF Making
      <3>3. QED
        BY <1>1, <1>2, <1>3, <3>1, <3>2, MakingDuring
    <2>3. CASE SavePending
      BY <1>1, <1>2, <1>3, <2>3, PendingDuring, DoesAdvance DEF SavePending
    <2>4. ASSUME Advance PROVE Head(proc.todo)[1] \in Written \cup {"keep", "place", "copy", "pending"}
      BY <1>3, <2>4 DEF Advance, MayTake, During
    <2>5. CASE \/ StopProfile \/ PrepareRecovery \/ DropNew \/ BringBack \/ Unmake \/ Discard \/ ClearPending \/ ForgetRecovery
      <3>1. Advance /\ Head(proc.todo)[1] \in {"stop", "recovery", "drop", "back", "unmake", "discard", "clear", "forget"}
        BY <2>5, DoesAdvance DEF StopProfile, PrepareRecovery, DropNew, BringBack, Unmake, Discard,
           ClearPending, ForgetRecovery
      <3>2. QED
        BY <2>4, <3>1 DEF Written
    <2>6. QED
      BY <2>1, <2>2, <2>3, <2>5 DEF Step
  <1>4. CASE Before
    <2>1. ASSUME Doing("stop") \/ Doing("recovery")
          PROVE  StopProfile \/ PrepareRecovery
      BY <2>1 DEF Step, StopProfile, PrepareRecovery, KeepOld, PlaceNew, Bind, WriteProfile,
         WriteWrapper, WriteMark,
         WriteInterpreter, CopyProfile, SavePending, DropNew, BringBack, Unmake, Discard, ClearPending,
         ForgetRecovery, Does, Doing
    <2>2. StopProfile \/ PrepareRecovery
      <3>1. Head(proc.todo)[1] \in {"stop", "recovery"} /\ proc.todo # <<>>
        BY <1>0, <1>4 DEF Before
      <3>2. QED
        BY <2>1, <3>1 DEF Doing
    <2>3. CASE PrepareRecovery
      BY <1>1, <1>2, <1>4, <2>3, PrepareBefore, DoesAdvance DEF PrepareRecovery
    <2>4. CASE StopProfile
      <3>1. Advance /\ Head(proc.todo) = <<"stop", It>> /\ disk' = disk /\ running' = None
        BY <2>4, DoesAdvance DEF StopProfile
      <3>2. proc.todo = ApplySteps
        BY <1>0, <1>4, <3>1 DEF Before
      <3>3. ApplySteps' = ApplySteps
        BY <3>1 DEF Advance, ApplySteps, Runtimes
      <3>4. Before' /\ proc'.op = "apply" /\ OfProc(proc)' /\ setup' = setup
        BY <3>1, <3>2, <3>3 DEF Before, Advance
      <3>5. Whatever'
        BY <3>1, <3>4 DEF Whatever, NoneKept, WhollyA, WhollyB, Wholly
      <3>6. disk.pending = None
        BY <1>1, <3>1 DEF Applying, Advance
      <3>7. Applying' /\ Stopped' /\ Restoring' /\ Finalizing' /\ OfInstallation'
        BY <1>1, <3>1, <3>4, <3>6 DEF Applying, Stopped, Restoring, Finalizing, OfInstallation, OfDisk
      <3>8. QED
        BY <3>5, <3>7 DEF InstallerInv
    <2>5. QED
      BY <2>2, <2>3, <2>4
  <1>5. QED
    BY <1>1, <1>3, <1>4 DEF Applying

-----------------------------------------------------------------------------
(* The way back.                                                           *)

\* What of the decision and the records a step of an unwinding or a rollback finds.
LEMMA WhileRestoring ==
  ASSUME Context, Restoring, proc.op \in {"unwind", "rollback"}, proc.todo # <<>>
  PROVE  /\ disk.recovery /\ disk.decided # "finalize"
         /\ ~(disk.decided = "finalize" \/ (disk.pending = "applied" /\ disk.decided = None))
         /\ \A i \in setup.had :
              /\ i \in Items /\ disk.kept[i] \in {"none", "A"} /\ i \notin disk.made
              /\ disk.kept[i] = "none" => disk.now[i] = "A"
              /\ disk.kept[i] = "none" \/ (<<"back", i>> \in Left /\ (disk.now[i] = "none" \/ <<"drop", i>> \in Left))
         /\ disk.pending = "files_restored" => disk.decided = "rollback" /\ NoneKept /\ (setup.configured => disk.profile = "A")
         /\ disk.pending = "applied" /\ setup.configured => disk.copy
         /\ OfDisk(disk) /\ setup \in Setups
  <1>1. disk.decided \in {None, "rollback"} /\ (disk.decided = None => disk.pending = None)
    BY DEF Context, Restoring, NoneIsNothing
  <1>2. disk.decided # "finalize" /\ ~(disk.pending = "applied" /\ disk.decided = None)
    BY <1>1 DEF Context, NoneIsNothing
  <1>3. setup \in Setups /\ \A i \in setup.had : i \in Items
    BY DEF Context, OfInstallation, SetupsAreUpdates
  <1>4. QED
    BY <1>2, <1>3 DEF Context, Whatever, Restoring, OfInstallation

\* Items are moved: dropped, brought back, unmade.
LEMMA MovesRestore ==
  ASSUME Context, Restoring, Stopped, proc.op \in {"unwind", "rollback"}, DropNew \/ BringBack \/ Unmake
  PROVE  Advance /\ OfDisk(disk)' /\ Whatever' /\ Restoring' /\ Stopped'
  <1>1. Advance /\ It \in Items /\ Head(proc.todo) \in {<<"drop", It>>, <<"back", It>>, <<"unmake", It>>} /\ setup' = setup
    <2>1. Advance /\ Head(proc.todo) \in {<<"drop", It>>, <<"back", It>>, <<"unmake", It>>}
      BY DoesAdvance DEF Context, DropNew, BringBack, Unmake
    <2>2. QED
      BY <2>1 DEF Advance, AllSteps
  <1>2. /\ disk.recovery /\ disk.decided # "finalize"
        /\ ~(disk.decided = "finalize" \/ (disk.pending = "applied" /\ disk.decided = None))
        /\ disk.pending = "files_restored" => disk.decided = "rollback" /\ NoneKept /\ (setup.configured => disk.profile = "A")
        /\ disk.pending = "applied" /\ setup.configured => disk.copy
        /\ OfDisk(disk) /\ setup \in Setups
    BY <1>1, WhileRestoring DEF Advance
  <1>3. \A i \in setup.had :
          /\ i \in Items /\ disk.kept[i] \in {"none", "A"} /\ i \notin disk.made
          /\ disk.kept[i] = "none" => disk.now[i] = "A"
          /\ disk.kept[i] = "none" \/ (<<"back", i>> \in Left /\ (disk.now[i] = "none" \/ <<"drop", i>> \in Left))
    BY <1>1, WhileRestoring DEF Advance
  <1>4. running = None /\ running' = None
    <2>1. Head(proc.todo)[1] \in Moves /\ Head(proc.todo)[1] # "stop" /\ Head(proc.todo) \in Left /\ proc.todo # <<>>
      BY <1>1 DEF Moves, Advance
    <2>2. QED
      BY <2>1 DEF Stopped, DropNew, BringBack, Unmake
  <1>5. \/ /\ DropNew /\ Head(proc.todo) = <<"drop", It>>
           /\ disk' = IF disk.kept[It] # "none" THEN [disk EXCEPT !.now[It] = "none"] ELSE disk
        \/ /\ BringBack /\ Head(proc.todo) = <<"back", It>>
           /\ disk' = IF disk.kept[It] # "none" /\ disk.now[It] = "none"
                        THEN [disk EXCEPT !.now[It] = disk.kept[It], !.kept[It] = "none"] ELSE disk
        \/ /\ Unmake /\ Head(proc.todo) = <<"unmake", It>>
           /\ disk' = IF It \in disk.made THEN [disk EXCEPT !.now[It] = "none"] ELSE disk
    BY <1>1 DEF DropNew, BringBack, Unmake, Does, Doing, Kept
  <1>6. /\ OfDisk(disk)' /\ disk'.made = disk.made /\ disk'.profile = disk.profile
        /\ disk'.copy = disk.copy /\ disk'.wrapper = disk.wrapper /\ disk'.mark = disk.mark
        /\ disk'.interpreter = disk.interpreter /\ disk'.recovery = disk.recovery
        /\ disk'.pending = disk.pending /\ disk'.decided = disk.decided
        /\ \A i \in Items : i # It => disk'.now[i] = disk.now[i] /\ disk'.kept[i] = disk.kept[i]
        /\ disk'.now[It] = disk.now[It] \/ disk'.now[It] = "none" \/ disk'.now[It] = disk.kept[It]
        /\ disk'.kept[It] = disk.kept[It] \/ disk'.kept[It] = "none"
    <2>1. CASE disk' = disk
      BY <1>2, <2>1 DEF OfDisk
    <2>2. CASE disk' = [disk EXCEPT !.now[It] = "none"]
      BY <1>1, <1>2, <2>2 DEF OfDisk, Conditions
    <2>3. CASE disk' = [disk EXCEPT !.now[It] = disk.kept[It], !.kept[It] = "none"]
      <3>1. /\ disk'.now = [disk.now EXCEPT ![It] = disk.kept[It]] /\ disk'.kept = [disk.kept EXCEPT ![It] = "none"]
            /\ disk'.made = disk.made /\ disk'.profile = disk.profile
            /\ disk'.copy = disk.copy /\ disk'.wrapper = disk.wrapper /\ disk'.mark = disk.mark
            /\ disk'.interpreter = disk.interpreter /\ disk'.recovery = disk.recovery
            /\ disk'.pending = disk.pending /\ disk'.decided = disk.decided /\ disk'.claim = disk.claim
            /\ disk' = [now |-> disk'.now, kept |-> disk'.kept, made |-> disk'.made, profile |-> disk'.profile,
               copy |-> disk'.copy, wrapper |-> disk'.wrapper, mark |-> disk'.mark, interpreter |-> disk'.interpreter,
               recovery |-> disk'.recovery, pending |-> disk'.pending, decided |-> disk'.decided, claim |-> disk'.claim]
        BY <1>2, <2>3 DEF OfDisk
      <3>2. disk.now \in [Items -> Conditions] /\ disk.kept \in [Items -> Conditions]
        BY <1>2 DEF OfDisk
      <3>3. disk'.now \in [Items -> Conditions] /\ disk'.kept \in [Items -> Conditions]
        BY <1>1, <3>1, <3>2 DEF Conditions
      <3>4. OfDisk(disk)'
        BY <1>2, <3>1, <3>3 DEF OfDisk
      <3>5. QED
        BY <1>1, <3>1, <3>2, <3>4
    <2>4. QED
      BY <1>5, <2>1, <2>2, <2>3
  <1>7. \A y : y \in Left <=> y \in Left' \/ y = Head(proc.todo)
    BY <1>1 DEF Advance
  <1>8. ASSUME NEW i \in setup.had
        PROVE  /\ disk'.kept[i] \in {"none", "A"} /\ i \notin disk'.made
               /\ disk'.kept[i] = "none" => disk'.now[i] = "A"
               /\ disk'.kept[i] = "none" \/ (<<"back", i>> \in Left' /\ (disk'.now[i] = "none" \/ <<"drop", i>> \in Left'))
    <2>1. CASE i # It
      <3>1. /\ disk'.now[i] = disk.now[i] /\ disk'.kept[i] = disk.kept[i] /\ disk'.made = disk.made
            /\ <<"back", i>> \in Left => <<"back", i>> \in Left'
            /\ <<"drop", i>> \in Left => <<"drop", i>> \in Left'
        BY <1>1, <1>3, <1>6, <1>7, <2>1
      <3>2. QED
        BY <1>3, <3>1
    <2>2. CASE i = It /\ Head(proc.todo) = <<"drop", i>>
      <3>1. <<"back", i>> \in Left'
        BY <1>1, <2>2 DEF Advance
      <3>2. disk.kept[i] = "none" => disk' = disk
        BY <1>5, <2>2
      <3>3. disk.kept[i] # "none" => disk' = [disk EXCEPT !.now[i] = "none"]
        BY <1>5, <2>2
      <3>4. disk.kept[i] # "none" => disk'.now[i] = "none" /\ disk'.kept[i] = disk.kept[i] /\ disk'.made = disk.made
        <4>1. i \in Items /\ OfDisk(disk)
          BY <1>2, <1>3 DEF OfDisk
        <4>2. QED
          BY <3>3, <4>1 DEF OfDisk
      <3>5. QED
        BY <1>3, <3>1, <3>2, <3>4
    <2>3. CASE i = It /\ Head(proc.todo) = <<"back", i>>
      <3>1. CASE disk.kept[i] # "none" /\ disk.now[i] = "none"
        <4>1. disk' = [disk EXCEPT !.now[i] = disk.kept[i], !.kept[i] = "none"]
          BY <1>5, <2>3, <3>1
        <4>2. disk'.now[i] = disk.kept[i] /\ disk'.kept[i] = "none" /\ disk'.made = disk.made
          BY <1>2, <1>3, <4>1 DEF OfDisk
        <4>3. QED
          BY <1>3, <3>1, <4>2
      <3>2. CASE ~(disk.kept[i] # "none" /\ disk.now[i] = "none")
        <4>1. disk' = disk
          BY <1>5, <2>3, <3>2
        <4>2. CASE disk.kept[i] = "none"
          BY <1>3, <4>1, <4>2
        <4>3. CASE disk.kept[i] # "none"
          <5>1. <<"drop", i>> \in Left'
            BY <1>3, <1>7, <2>3, <3>2, <4>3
          <5>2. <<"back", i>> \in Left'
            <6>1. ComesBack(proc'.todo) /\ Left' = StepsOf(proc'.todo) /\ Len(proc'.todo) \in Nat
              BY <1>1 DEF Advance, OfProc, WellOrdered, Left
            <6>2. PICK j \in 1..Len(proc'.todo) : proc'.todo[j] = <<"drop", i>>
              BY <5>1, <6>1 DEF StepsOf
            <6>a. proc'.todo[j][1] = "drop" /\ proc'.todo[j][2] = i
              BY <6>2
            <6>3. PICK k \in j+1..Len(proc'.todo) : proc'.todo[k] = <<"back", proc'.todo[j][2]>>
              BY <6>1, <6>a DEF ComesBack
            <6>4. k \in 1..Len(proc'.todo) /\ proc'.todo[k] = <<"back", i>>
              BY <6>1, <6>a, <6>3
            <6>5. QED
              BY <6>1, <6>4 DEF StepsOf
          <5>3. QED
            BY <1>3, <4>1, <5>1, <5>2
        <4>4. QED
          BY <4>2, <4>3
      <3>3. QED
        BY <3>1, <3>2
    <2>4. CASE i = It /\ Head(proc.todo) = <<"unmake", i>>
      <3>0. disk' = IF It \in disk.made THEN [disk EXCEPT !.now[It] = "none"] ELSE disk
        BY <1>5, <2>4
      <3>1. disk' = disk
        BY <1>3, <2>4, <3>0
      <3>2. /\ <<"back", i>> \in Left => <<"back", i>> \in Left'
            /\ <<"drop", i>> \in Left => <<"drop", i>> \in Left'
        BY <1>7, <2>4
      <3>3. QED
        BY <1>3, <3>1, <3>2
    <2>5. QED
      BY <1>1, <2>1, <2>2, <2>3, <2>4
  <1>9. NoneKept => NoneKept'
    <2>1. ASSUME NoneKept, NEW i \in setup.had PROVE disk'.kept[i] = "none"
      <3>1. i \in Items /\ disk.kept[i] = "none"
        BY <1>3, <2>1 DEF NoneKept
      <3>2. i # It => disk'.kept[i] = disk.kept[i]
        BY <1>6, <3>1
      <3>3. QED
        BY <1>6, <3>1, <3>2
    <2>2. setup' = setup
      BY <1>1
    <2>3. QED
      BY <2>1, <2>2 DEF NoneKept
  <1>10. Whatever'
    BY <1>1, <1>2, <1>4, <1>6, <1>8, <1>9 DEF Whatever
  <1>11. Restoring'
    <2>1. proc'.op = proc.op /\ Head(proc.todo)[1] \in {"drop", "back", "unmake"}
      BY <1>1 DEF Advance
    <2>2. \A y \in Left : y[1] \in Written \cup {"clear", "pending", "discard"} => y \in Left'
      BY <1>7, <2>1 DEF Written
    <2>3. \A y \in Left' : y \in Left
      BY <1>7
    <2>4. /\ setup.configured => disk'.profile = "A" \/ (<<"profile", "A">> \in Left' /\ (proc.op = "unwind" \/ disk'.copy))
          /\ setup.sameCommand \/ disk'.wrapper = "A" \/ <<"wrapper", "A">> \in Left'
          /\ disk'.mark = "A" \/ <<"mark", "A">> \in Left'
          /\ disk'.interpreter = "A" \/ <<"interpreter", "A">> \in Left'
      BY <1>6, <2>2 DEF Restoring, Written
    <2>5. proc.op = "unwind" => disk'.decided = None /\ disk'.pending = None
      BY <1>6 DEF Restoring
    <2>6. proc.op = "rollback" =>
           /\ disk'.decided = "rollback"
           /\ <<"discard", "profile">> \in Left' => disk'.pending # "applied" \/ <<"pending", "files_restored">> \in Left'
           /\ (disk'.pending = None /\ <<"pending", "files_restored">> \notin Left') \/ <<"clear", None>> \in Left'
      BY <1>6, <2>2, <2>3 DEF Restoring
    <2>7. QED
      BY <1>1, <1>2, <1>6, <1>8, <2>1, <2>4, <2>5, <2>6 DEF Restoring
  <1>12. QED
    BY <1>1, <1>4, <1>6, <1>10, <1>11 DEF Stopped

\* The other steps of the way back but the last: what it writes is as it was with A.
Settling(x) ==
  /\ Advance /\ x = Head(proc.todo) /\ OfDisk(disk)' /\ x[1] \in Written \cup {"stop", "pending", "discard", "clear"}
  /\ running' = IF x[1] = "stop" THEN None ELSE running
  /\ disk'.kept = disk.kept /\ disk'.made = disk.made
  /\ disk'.recovery = disk.recovery /\ disk'.decided = disk.decided
  /\ \A i \in Items : disk'.now[i] = disk.now[i] \/ (x[1] = "bind" /\ i = "managed" /\ disk.now[i] = "none")
  /\ IF x[1] = "profile"
       THEN (setup.configured => disk'.profile = "A" \/ (proc.op = "rollback" /\ ~disk.copy /\ disk'.profile = disk.profile))
       ELSE disk'.profile = disk.profile
  /\ IF x[1] = "discard" THEN TRUE ELSE disk'.copy = disk.copy
  /\ IF x[1] = "wrapper" THEN disk'.wrapper = "A" ELSE disk'.wrapper = disk.wrapper
  /\ IF x[1] = "mark" THEN disk'.mark = "A" ELSE disk'.mark = disk.mark
  /\ IF x[1] = "interpreter" THEN disk'.interpreter = "A" ELSE disk'.interpreter = disk.interpreter
  /\ disk'.pending = CASE x[1] = "pending" -> "files_restored" [] x[1] = "clear" -> None [] OTHER -> disk.pending

LEMMA SettlingRestores ==
  ASSUME Context, Restoring, Stopped, proc.op \in {"unwind", "rollback"}, NEW x, Settling(x)
  PROVE  Whatever' /\ Restoring' /\ Stopped'
  <1>1. /\ Advance /\ x = Head(proc.todo) /\ x \in Left /\ setup' = setup /\ proc'.op = proc.op
        /\ x = <<x[1], x[2]>> /\ x \in AllSteps /\ MayTake(proc.op, x) /\ proc.todo # <<>>
        /\ \A y \in Left' : ~Wrong(x, y)
        /\ \A y : y \in Left <=> y \in Left' \/ y = x
    BY DEF Settling, Advance
  <1>2. /\ disk.recovery /\ disk.decided # "finalize"
        /\ ~(disk.decided = "finalize" \/ (disk.pending = "applied" /\ disk.decided = None))
        /\ disk.pending = "files_restored" => disk.decided = "rollback" /\ NoneKept /\ (setup.configured => disk.profile = "A")
        /\ disk.pending = "applied" /\ setup.configured => disk.copy
        /\ OfDisk(disk) /\ setup \in Setups
    BY <1>1, WhileRestoring
  <1>3. \A i \in setup.had :
          /\ i \in Items /\ disk.kept[i] \in {"none", "A"} /\ i \notin disk.made
          /\ disk.kept[i] = "none" => disk.now[i] = "A"
          /\ disk.kept[i] = "none" \/ (<<"back", i>> \in Left /\ (disk.now[i] = "none" \/ <<"drop", i>> \in Left))
    BY <1>1, WhileRestoring
  <1>4. /\ x[1] = "pending" => x = <<"pending", "files_restored">> /\ proc.op = "rollback"
        /\ x[1] = "discard" => x = <<"discard", "profile">> /\ proc.op = "rollback"
        /\ x[1] = "clear" => x = <<"clear", None>> /\ proc.op = "rollback"
        /\ x[1] \in Written => x = <<x[1], "A">>
        /\ x[1] \notin {"drop", "back"}
    <2>1. x[1] \in Written \cup {"stop", "pending", "discard", "clear"}
      BY DEF Settling
    <2>2. x[1] = "clear" => x[2] = None
      BY <1>1 DEF AllSteps
    <2>3. proc.op = "unwind" \/ proc.op = "rollback"
      OBVIOUS
    <2>4. CASE proc.op = "unwind"
      BY <1>1, <2>1, <2>2, <2>4 DEF MayTake, Written
    <2>5. CASE proc.op = "rollback"
      BY <1>1, <2>1, <2>2, <2>5 DEF MayTake, Written
    <2>6. QED
      BY <2>3, <2>4, <2>5
  <1>5. x[1] \in {"bind", "pending"} => NoneKept
    <2>1. SUFFICES ASSUME x[1] \in {"bind", "pending"}, NEW i \in setup.had
                   PROVE  disk.kept[i] = "none"
      BY DEF NoneKept
    <2>2. <<"back", i>> \notin Left'
      <3>1. Wrong(x, <<"back", i>>)
        BY <2>1 DEF Wrong
      <3>2. QED
        BY <1>1, <3>1
    <2>3. x # <<"back", i>>
      BY <2>1
    <2>4. QED
      BY <1>1, <1>3, <2>1, <2>2, <2>3
  <1>6. ASSUME NEW i \in setup.had
        PROVE  disk'.now[i] = disk.now[i] /\ disk'.kept[i] = disk.kept[i] /\ disk'.made = disk.made
    <2>1. x[1] = "bind" => disk.now[i] # "none"
      BY <1>3, <1>5 DEF NoneKept
    <2>2. QED
      BY <1>3, <2>1 DEF Settling
  <1>7. /\ disk'.recovery /\ disk'.decided = disk.decided /\ (NoneKept => NoneKept')
    BY <1>1, <1>2, <1>6 DEF Settling, NoneKept
  <1>8. x[1] \in {"pending", "discard"} => (setup.configured => disk.profile = "A")
    BY <1>1, <1>4 DEF Wrong, Restoring
  <1>9. x[1] = "discard" => disk.pending # "applied"
    BY <1>1, <1>4 DEF Wrong, Restoring
  <1>10. x[1] = "pending" => disk.decided = "rollback"
    BY <1>4 DEF Restoring
  <1>11. /\ disk'.pending = "applied" => disk.pending = "applied" /\ x[1] \notin {"discard", "pending", "clear"}
         /\ disk'.pending = "files_restored" => disk.pending = "files_restored" \/ x[1] = "pending"
    BY <1>9 DEF Settling, Context, NoneIsNothing
  <1>12. Whatever'
    <2>1. ASSUME NEW i \in setup.had
          PROVE  disk'.kept[i] \in {"none", "A"} /\ i \notin disk'.made /\ (disk'.kept[i] = "none" => disk'.now[i] = "A")
      BY <1>3, <1>6
    <2>2. disk'.pending = "files_restored" => disk'.decided = "rollback" /\ NoneKept' /\ (setup.configured => disk'.profile = "A")
      <3>1. CASE x[1] = "pending"
        <4>1. disk'.profile = disk.profile
          BY <3>1 DEF Settling
        <4>2. QED
          BY <1>5, <1>7, <1>8, <1>10, <3>1, <4>1
      <3>2. CASE x[1] # "pending"
        BY <1>2, <1>7, <1>11, <3>2 DEF Settling
      <3>3. QED
        BY <3>1, <3>2
    <2>3. disk'.pending = "applied" /\ setup.configured => disk'.copy
      BY <1>2, <1>11 DEF Settling
    <2>4. running' # None => disk'.now["checkout"] = running'
      <3>1. running' # None => running' = running /\ disk.now["checkout"] = running
        BY DEF Settling, Context, Whatever
      <3>2. disk'.now["checkout"] = disk.now["checkout"]
        BY DEF Settling, Items
      <3>3. QED
        BY <3>1, <3>2
    <2>5. ~(disk'.decided = "finalize" \/ (disk'.pending = "applied" /\ disk'.decided = None))
      BY <1>2, <1>7, <1>11
    <2>6. QED
      BY <1>1, <1>7, <2>1, <2>2, <2>3, <2>4, <2>5 DEF Whatever
  <1>13. Restoring'
    <2>1. ASSUME NEW i \in setup.had
          PROVE  disk'.kept[i] = "none" \/ (<<"back", i>> \in Left' /\ (disk'.now[i] = "none" \/ <<"drop", i>> \in Left'))
      <3>1. x # <<"back", i>> /\ x # <<"drop", i>>
        BY <1>4
      <3>2. QED
        BY <1>1, <1>3, <1>6, <3>1
    <2>2. setup.configured => disk'.profile = "A" \/ (<<"profile", "A">> \in Left' /\ (proc.op = "unwind" \/ disk'.copy))
      <3>1. CASE x[1] = "profile"
        BY <1>1, <1>4, <3>1 DEF Settling, Restoring, Written
      <3>2. CASE x[1] = "discard"
        BY <1>8, <3>2 DEF Settling
      <3>3. CASE x[1] \notin {"profile", "discard"}
        <4>1. disk'.profile = disk.profile /\ disk'.copy = disk.copy /\ x # <<"profile", "A">>
          BY <3>3 DEF Settling
        <4>2. QED
          BY <1>1, <4>1 DEF Restoring
      <3>4. QED
        BY <3>1, <3>2, <3>3
    <2>3. /\ setup.sameCommand \/ disk'.wrapper = "A" \/ <<"wrapper", "A">> \in Left'
          /\ disk'.mark = "A" \/ <<"mark", "A">> \in Left'
          /\ disk'.interpreter = "A" \/ <<"interpreter", "A">> \in Left'
      BY <1>1 DEF Settling, Restoring
    <2>4. proc.op = "unwind" => disk'.decided = None /\ disk'.pending = None
      BY <1>4, <1>7 DEF Settling, Restoring
    <2>5. ASSUME proc.op = "rollback"
          PROVE  /\ disk'.decided = "rollback"
                 /\ <<"discard", "profile">> \in Left' => disk'.pending # "applied" \/ <<"pending", "files_restored">> \in Left'
      BY <1>1, <1>4, <1>7, <1>11, <2>5 DEF Restoring
    <2>6. ASSUME proc.op = "rollback"
          PROVE  (disk'.pending = None /\ <<"pending", "files_restored">> \notin Left') \/ <<"clear", None>> \in Left'
      <3>1. CASE x[1] = "clear"
        BY <1>1, <3>1 DEF Settling, Wrong
      <3>2. CASE x[1] # "clear"
        <4>1. x # <<"clear", None>>
          BY <3>2
        <4>2. (disk.pending = None /\ <<"pending", "files_restored">> \notin Left) \/ <<"clear", None>> \in Left'
          BY <1>1, <2>6, <4>1 DEF Restoring
        <4>3. <<"pending", "files_restored">> \notin Left => x[1] # "pending"
          BY <1>1, <1>4
        <4>4. disk'.pending = disk.pending \/ x[1] = "pending"
          BY <3>2 DEF Settling
        <4>5. QED
          BY <1>1, <4>2, <4>3, <4>4
      <3>3. QED
        BY <3>1, <3>2
    <2>7. QED
      BY <1>1, <1>7, <2>1, <2>2, <2>3, <2>4, <2>5, <2>6 DEF Restoring
  <1>14. Stopped'
    <2>1. running' # None => running' = running /\ x[1] # "stop"
      BY DEF Settling
    <2>2. QED
      BY <1>1, <2>1 DEF Stopped
  <1>15. QED
    BY <1>12, <1>13, <1>14

LEMMA StepsSettle ==
  ASSUME Context, proc.op \in {"unwind", "rollback"},
         \/ StopProfile \/ Bind \/ WriteProfile \/ WriteWrapper \/ WriteMark \/ WriteInterpreter
         \/ SavePending \/ Discard \/ ClearPending
  PROVE  Settling(Head(proc.todo))
  <1> DEFINE x == Head(proc.todo)
  <1>1. Advance
    <2>1. CASE WriteWrapper
      BY <2>1, Advances DEF WriteWrapper, Doing, OfInstallation, Context
    <2>2. QED
      BY <2>1, DoesAdvance DEF StopProfile, Bind, WriteProfile, WriteMark, WriteInterpreter,
         SavePending, Discard, ClearPending, Context
  <1>2. /\ x = <<x[1], It>> /\ x \in AllSteps /\ MayTake(proc.op, x) /\ OfDisk(disk) /\ setup \in Setups
    BY <1>1 DEF Advance, OfInstallation, Context
  <1>3. /\ x[1] \in Written => It = "A"
        /\ x[1] = "discard" => It = "profile"
        /\ x[1] = "pending" => It = "files_restored"
    <2>1. CASE proc.op = "unwind"
      BY <1>2, <2>1 DEF MayTake, Written
    <2>2. CASE proc.op = "rollback"
      BY <1>2, <2>2 DEF MayTake, Written
    <2>3. QED
      BY <2>1, <2>2
  <1>4. "managed" \in Items
    BY DEF Items
  <1> HIDE DEF x
  <1>5. CASE StopProfile
    <2>1. x[1] = "stop" /\ disk' = disk /\ running' = None
      BY <1>5 DEF StopProfile, Does, Doing, x
    <2>2. QED
      BY <1>1, <1>2, <2>1 DEF Settling, Written, x
  <1>6. CASE Bind
    <2>1. x[1] = "bind" /\ running' = running
          /\ disk' = IF disk.now["managed"] # "none" THEN disk ELSE [disk EXCEPT !.now["managed"] = "A"]
      BY <1>3, <1>6 DEF Bind, Does, Doing, x, Written
    <2>2. CASE disk' = disk
      BY <1>1, <1>2, <2>1, <2>2 DEF Settling, Written, x
    <2>3. CASE disk.now["managed"] = "none" /\ disk' = [disk EXCEPT !.now["managed"] = "A"]
      BY <1>1, <1>2, <1>4, <2>1, <2>3 DEF Settling, OfDisk, Conditions, Written, x
    <2>4. QED
      BY <2>1, <2>2, <2>3
  <1>7. CASE WriteProfile
    <2>1. x[1] = "profile" /\ running' = running
          /\ disk' = IF ~setup.configured \/ (proc.op = "rollback" /\ ~disk.copy) THEN disk ELSE [disk EXCEPT !.profile = "A"]
      BY <1>3, <1>7 DEF WriteProfile, Does, Doing, x, Written
    <2>2. CASE disk' = disk /\ (~setup.configured \/ (proc.op = "rollback" /\ ~disk.copy))
      BY <1>1, <1>2, <2>1, <2>2 DEF Settling, Written, x
    <2>3. CASE disk' = [disk EXCEPT !.profile = "A"]
      BY <1>1, <1>2, <2>1, <2>3 DEF Settling, OfDisk, Written, x
    <2>4. QED
      BY <2>1, <2>2, <2>3
  <1>8. CASE WriteWrapper
    <2>1. x[1] = "wrapper" /\ disk' = [disk EXCEPT !.wrapper = "A"] /\ running' = running
      BY <1>3, <1>8 DEF WriteWrapper, Doing, x, Written
    <2>2. QED
      BY <1>1, <1>2, <2>1 DEF Settling, OfDisk, Written, x
  <1>9. CASE WriteMark
    <2>1. x[1] = "mark" /\ disk' = [disk EXCEPT !.mark = "A"] /\ running' = running
      BY <1>3, <1>9 DEF WriteMark, Does, Doing, x, Written
    <2>2. QED
      BY <1>1, <1>2, <2>1 DEF Settling, OfDisk, Written, x
  <1>10. CASE WriteInterpreter
    <2>1. x[1] = "interpreter" /\ disk' = [disk EXCEPT !.interpreter = "A"] /\ running' = running
      BY <1>3, <1>10 DEF WriteInterpreter, Does, Doing, x, Written
    <2>2. QED
      BY <1>1, <1>2, <2>1 DEF Settling, OfDisk, Written, x
  <1>11. CASE SavePending
    <2>1. x[1] = "pending" /\ disk' = [disk EXCEPT !.pending = "files_restored"] /\ running' = running
      BY <1>3, <1>11 DEF SavePending, Does, Doing, x
    <2>2. QED
      BY <1>1, <1>2, <2>1 DEF Settling, OfDisk, Written, x
  <1>12. CASE Discard
    <2>1. x[1] = "discard" /\ disk' = [disk EXCEPT !.copy = FALSE] /\ running' = running
      BY <1>3, <1>12 DEF Discard, Does, Doing, x
    <2>2. QED
      BY <1>1, <1>2, <2>1 DEF Settling, OfDisk, Written, x
  <1>13. CASE ClearPending
    <2>1. x[1] = "clear" /\ disk' = [disk EXCEPT !.pending = None] /\ running' = running
      BY <1>13 DEF ClearPending, Does, Doing, x
    <2>2. QED
      BY <1>1, <1>2, <2>1 DEF Settling, OfDisk, Written, x
  <1>14. QED
    BY <1>5, <1>6, <1>7, <1>8, <1>9, <1>10, <1>11, <1>12, <1>13 DEF x

\* The last step: only the whole of A is let go of its recovery.
LEMMA ForgetRestores ==
  ASSUME Context, Restoring, Stopped, proc.op \in {"unwind", "rollback"}, ForgetRecovery
  PROVE  Advance /\ OfDisk(disk)' /\ Whatever' /\ Restoring' /\ Stopped'
  <1>1. Advance /\ Head(proc.todo) = <<"forget", It>> /\ proc.todo # <<>> /\ setup' = setup /\ proc'.op = proc.op
        /\ running' = running
    BY DoesAdvance DEF ForgetRecovery, Context, Advance
  <1>2. /\ disk.decided # "finalize"
        /\ ~(disk.decided = "finalize" \/ (disk.pending = "applied" /\ disk.decided = None))
        /\ OfDisk(disk) /\ setup \in Setups
        /\ \A i \in setup.had :
          /\ i \in Items /\ disk.kept[i] \in {"none", "A"} /\ i \notin disk.made
          /\ disk.kept[i] = "none" => disk.now[i] = "A"
          /\ disk.kept[i] = "none" \/ (<<"back", i>> \in Left /\ (disk.now[i] = "none" \/ <<"drop", i>> \in Left))
    BY <1>1, WhileRestoring
  <1>3. (\A y : y \notin Left') /\ \A y \in Left : y[1] = "forget"
    BY <1>1 DEF Advance, Wrong
  <1>4. proc'.todo = <<>>
    BY <1>1, <1>3, NothingLeft DEF Advance
  <1>5. disk' = [disk EXCEPT !.recovery = FALSE, !.claim = "restored"]
    BY DEF ForgetRecovery
  <1>6. /\ OfDisk(disk)' /\ ~disk'.recovery
        /\ disk'.now = disk.now /\ disk'.kept = disk.kept /\ disk'.made = disk.made /\ disk'.profile = disk.profile
        /\ disk'.copy = disk.copy /\ disk'.wrapper = disk.wrapper /\ disk'.mark = disk.mark
        /\ disk'.interpreter = disk.interpreter /\ disk'.pending = disk.pending /\ disk'.decided = disk.decided
    BY <1>2, <1>5 DEF OfDisk
  <1>7. disk.pending = None
    BY <1>3 DEF Restoring
  <1>8. NoneKept /\ WhollyA
    <2>1. \A i \in setup.had : disk.kept[i] = "none" /\ disk.now[i] = "A"
      BY <1>2, <1>3
    <2>2. /\ disk.mark = "A" /\ disk.interpreter = "A" /\ (setup.sameCommand \/ disk.wrapper = "A")
          /\ setup.configured => disk.profile = "A"
      BY <1>3 DEF Restoring
    <2>3. QED
      BY <2>1, <2>2 DEF NoneKept, WhollyA, Wholly
  <1>9. NoneKept' /\ WhollyA'
    BY <1>1, <1>6, <1>8 DEF NoneKept, WhollyA, Wholly
  <1>10. Whatever'
    <2>1. \A i \in setup.had : disk'.kept[i] \in {"none", "A"} /\ i \notin disk'.made /\ (disk'.kept[i] = "none" => disk'.now[i] = "A")
      BY <1>2, <1>6
    <2>2. disk'.pending = None /\ disk'.decided # "finalize" /\ running' = running /\ disk'.now = disk.now
      BY <1>1, <1>2, <1>6, <1>7
    <2>3. QED
      BY <1>1, <1>9, <2>1, <2>2 DEF Whatever, Context, NoneIsNothing
  <1>11. Restoring' /\ Stopped'
    <2>1. \A i \in setup.had : disk'.kept[i] = "none"
      BY <1>6, <1>8 DEF NoneKept
    <2>2. /\ disk'.mark = "A" /\ disk'.interpreter = "A" /\ (setup.sameCommand \/ disk'.wrapper = "A")
          /\ setup.configured => disk'.profile = "A"
      BY <1>1, <1>9 DEF WhollyA, Wholly
    <2>3. /\ proc.op = "unwind" => disk'.decided = None /\ disk'.pending = None
          /\ proc.op = "rollback" => disk'.decided = "rollback"
      BY <1>6, <1>7 DEF Restoring
    <2>4. QED
      BY <1>1, <1>3, <1>4, <1>6, <1>7, <2>1, <2>2, <2>3 DEF Restoring, Stopped
  <1>12. QED
    BY <1>1, <1>6, <1>10, <1>11

LEMMA RestoringStep ==
  ASSUME Context, InstallerInv, proc.op \in {"unwind", "rollback"}, Step, ~Refuse, ~End
  PROVE  InstallerInv'
  <1>1. Stopped /\ Restoring /\ setup \in Setups
    BY DEF InstallerInv, OfInstallation
  <1>2. ASSUME Advance, OfDisk(disk)', Whatever', Restoring', Stopped'
        PROVE  InstallerInv'
    <2>1. proc'.op = proc.op /\ OfProc(proc)' /\ setup' = setup
      BY <1>2 DEF Advance
    <2>2. Applying' /\ Finalizing' /\ OfInstallation'
      BY <1>1, <1>2, <2>1 DEF Applying, Finalizing, OfInstallation
    <2>3. QED
      BY <1>2, <2>2 DEF InstallerInv
  <1>3. CASE DropNew \/ BringBack \/ Unmake
    BY <1>1, <1>2, <1>3, MovesRestore
  <1>4. CASE \/ StopProfile \/ Bind \/ WriteProfile \/ WriteWrapper \/ WriteMark \/ WriteInterpreter
             \/ SavePending \/ Discard \/ ClearPending
    <2>1. Settling(Head(proc.todo))
      BY <1>4, StepsSettle
    <2>2. Advance /\ OfDisk(disk)'
      BY <2>1 DEF Settling
    <2>3. QED
      BY <1>1, <1>2, <2>1, <2>2, SettlingRestores
  <1>5. CASE ForgetRecovery
    BY <1>1, <1>2, <1>5, ForgetRestores
  <1>6. CASE PrepareRecovery \/ KeepOld \/ PlaceNew \/ CopyProfile
    <2>1. Advance /\ Head(proc.todo)[1] \in {"recovery", "keep", "place", "copy"}
      BY <1>6, DoesAdvance DEF Context, PrepareRecovery, KeepOld, PlaceNew, CopyProfile
    <2>2. MayTake(proc.op, Head(proc.todo))
      BY <2>1 DEF Advance
    <2>3. QED
      BY <2>1, <2>2 DEF MayTake, Written
  <1>7. QED
    BY <1>3, <1>4, <1>5, <1>6 DEF Step

-----------------------------------------------------------------------------
(* B is kept.                                                              *)

LEMMA FinalizingStep ==
  ASSUME Context, InstallerInv, proc.op = "finalize", Step, ~Refuse, ~End
  PROVE  InstallerInv'
  <1>1. Stopped /\ Finalizing /\ setup \in Setups /\ OfDisk(disk) /\ Whatever /\ disk.decided = "finalize" /\ disk.decided # None
    BY DEF InstallerInv, OfInstallation, Finalizing, Context, NoneIsNothing
  <1>2. CASE Discard \/ ClearPending \/ ForgetRecovery
    <2>1. Advance /\ running' = running /\ Head(proc.todo)[1] \in {"discard", "clear", "forget"}
      BY <1>2, DoesAdvance DEF Context, Discard, ClearPending, ForgetRecovery
    <2>2. Head(proc.todo)[1] = "discard" => It \in Items \/ It = "profile"
      BY <2>1 DEF Advance, AllSteps
    <2>3. /\ OfDisk(disk)' /\ disk'.now = disk.now /\ disk'.made = disk.made /\ disk'.profile = disk.profile
          /\ disk'.wrapper = disk.wrapper /\ disk'.mark = disk.mark
          /\ disk'.interpreter = disk.interpreter /\ disk'.decided = disk.decided
          /\ disk'.recovery = disk.recovery \/ (ForgetRecovery /\ Head(proc.todo)[1] = "forget")
          /\ (disk'.pending = disk.pending /\ Head(proc.todo)[1] # "clear") \/ disk'.pending = None
      <3>1. CASE Discard
        <4>1. Head(proc.todo)[1] = "discard"
          BY <3>1 DEF Discard, Does, Doing
        <4>2. disk' = [disk EXCEPT !.copy = FALSE] \/ (It \in Items /\ disk' = [disk EXCEPT !.kept[It] = "none"])
          BY <2>2, <3>1, <4>1 DEF Discard
        <4>3. CASE disk' = [disk EXCEPT !.copy = FALSE]
          BY <1>1, <4>1, <4>3 DEF OfDisk
        <4>4. CASE It \in Items /\ disk' = [disk EXCEPT !.kept[It] = "none"]
          BY <1>1, <4>1, <4>4 DEF OfDisk, Conditions
        <4>5. QED
          BY <4>2, <4>3, <4>4
      <3>2. CASE ClearPending
        BY <1>1, <3>2 DEF ClearPending, OfDisk
      <3>3. CASE ForgetRecovery
        <4>1. Head(proc.todo)[1] = "forget" /\ (disk' = disk \/ \E c : disk' = [disk EXCEPT !.recovery = FALSE, !.claim = c])
          BY <3>3 DEF ForgetRecovery, Does, Doing
        <4>2. QED
          BY <1>1, <3>3, <4>1 DEF OfDisk
      <3>4. QED
        BY <1>2, <3>1, <3>2, <3>3
    <2>4. proc'.op = "finalize" /\ OfProc(proc)' /\ setup' = setup
      BY <2>1 DEF Advance
    <2>5. disk'.pending = None \/ <<"clear", None>> \in Left'
      BY <1>1, <2>1, <2>3 DEF Finalizing, Advance
    <2>6. disk'.pending # None => disk'.recovery
      <3>1. CASE Head(proc.todo)[1] = "forget"
        <4>1. <<"clear", None>> \notin Left'
          BY <2>1, <3>1 DEF Advance, Wrong
        <4>2. QED
          BY <2>5, <4>1
      <3>2. CASE Head(proc.todo)[1] # "forget"
        BY <1>1, <2>3, <3>2 DEF Whatever
      <3>3. QED
        BY <3>1, <3>2
    <2>7. Whatever'
      <3>1. WhollyB'
        BY <1>1, <2>3, <2>4 DEF Whatever, WhollyB, Wholly
      <3>2. disk'.pending = "files_restored" => disk.pending = "files_restored"
        BY <2>3 DEF Context, NoneIsNothing
      <3>3. disk.pending # "files_restored"
        BY <1>1 DEF Whatever
      <3>4. QED
        BY <1>1, <2>1, <2>3, <2>6, <3>1, <3>2, <3>3 DEF Whatever
    <2>8. Stopped'
      <3>1. \A y \in Left' : y[1] \notin Moves
        <4>1. \A y \in Left' : MayTake("finalize", y)
          BY <2>4 DEF OfProc, Left
        <4>2. QED
          BY <4>1 DEF MayTake, Moves
      <3>2. QED
        BY <3>1 DEF Stopped
    <2>9. Applying' /\ Restoring' /\ Finalizing' /\ OfInstallation'
      BY <1>1, <2>3, <2>4, <2>5 DEF Applying, Restoring, Finalizing, OfInstallation
    <2>10. QED
      BY <2>7, <2>8, <2>9 DEF InstallerInv
  <1>3. CASE ~(Discard \/ ClearPending \/ ForgetRecovery)
    <2>1. Advance /\ Head(proc.todo)[1] \notin {"discard", "clear", "forget"}
      <3>1. CASE WriteWrapper
        BY <3>1, Advances DEF WriteWrapper, Doing, OfInstallation, Context
      <3>2. CASE ~WriteWrapper
        <4>1. \E what \in {"stop", "recovery", "keep", "place", "bind", "profile", "mark", "interpreter", "copy", "pending",
                           "drop", "back", "unmake"} : Does(what)
          BY <1>3, <3>2 DEF Step, StopProfile, PrepareRecovery, KeepOld, PlaceNew, Bind, WriteProfile,
             WriteMark,
             WriteInterpreter, CopyProfile, SavePending, DropNew, BringBack, Unmake
        <4>2. QED
          BY <4>1, DoesAdvance DEF Context
      <3>3. QED
        BY <3>1, <3>2
    <2>2. MayTake("finalize", Head(proc.todo))
      BY <2>1 DEF Advance
    <2>3. QED
      BY <2>1, <2>2 DEF MayTake
  <1>4. QED
    BY <1>2, <1>3

-----------------------------------------------------------------------------
(* A step that fails.                                                      *)

\* What it may leave.
Damaged ==
  /\ OfDisk(disk)' /\ setup' = setup /\ running' = running
  /\ disk'.kept = disk.kept /\ disk'.made = disk.made /\ disk'.profile = disk.profile /\ disk'.copy = disk.copy
  /\ disk'.recovery = disk.recovery /\ disk'.pending = disk.pending /\ disk'.decided = disk.decided
  /\ Head(proc.todo)[1] \notin {"mark", "interpreter"} =>
       disk'.wrapper = disk.wrapper /\ disk'.mark = disk.mark /\ disk'.interpreter = disk.interpreter
  /\ \A i \in Items :
       \/ disk'.now[i] = disk.now[i]
       \/ Head(proc.todo) = <<"drop", i>> /\ disk.kept[i] # "none"
       \/ Head(proc.todo) = <<"unmake", i>> /\ i \in disk.made
       \/ i = "managed" /\ Head(proc.todo)[1] = "bind" /\ disk.now[i] = "none"

LEMMA HalfDamages ==
  ASSUME Context, proc.todo # <<>>, Half \/ disk' = disk, UNCHANGED <<running, setup>>
  PROVE  Damaged
  <1> DEFINE x == Head(proc.todo)
  <1>1. OfDisk(disk) /\ x = <<x[1], It>> /\ x \in AllSteps /\ "managed" \in Items
    BY HeadFacts DEF Context, OfInstallation, Items
  <1> HIDE DEF x
  <1>2. CASE disk' = disk
    BY <1>1, <1>2 DEF Damaged, x
  <1>3. CASE disk' = Unrefreshed
    <2>1. CASE x[1] \in {"mark", "interpreter"}
      <3>1. disk' = [disk EXCEPT !.wrapper = proc.mark[1], !.mark = proc.mark[2], !.interpreter = proc.mark[3]]
        BY <1>3, <2>1 DEF Unrefreshed, Doing, x
      <3>2. QED
        BY <1>1, <2>1, <3>1 DEF Damaged, OfDisk, x
    <2>2. CASE x[1] \notin {"mark", "interpreter"}
      BY <1>2, <1>3, <2>2 DEF Unrefreshed, Doing, x
    <2>3. QED
      BY <2>1, <2>2
  <1>4. CASE Doing("drop") /\ Kept(It) /\ disk' = [disk EXCEPT !.now[It] = "part"]
    <2>1. x = <<"drop", It>> /\ disk.kept[It] # "none" /\ It \in Items
      BY <1>1, <1>4 DEF Doing, Kept, x, AllSteps
    <2>2. QED
      BY <1>1, <1>4, <2>1 DEF Damaged, OfDisk, Conditions, x
  <1>5. CASE Doing("unmake") /\ It \in disk.made /\ disk' = [disk EXCEPT !.now[It] = "part"]
    <2>1. x = <<"unmake", It>> /\ It \in Items
      BY <1>1, <1>5 DEF Doing, x, AllSteps
    <2>2. QED
      BY <1>1, <1>5, <2>1 DEF Damaged, OfDisk, Conditions, x
  <1>6. CASE Doing("bind") /\ disk.now["managed"] = "none" /\ disk' = [disk EXCEPT !.now["managed"] = "part"]
    <2>1. x[1] = "bind"
      BY <1>1, <1>6 DEF Doing, x
    <2>2. QED
      BY <1>1, <1>6, <2>1 DEF Damaged, OfDisk, Conditions, x
  <1>7. QED
    BY <1>2, <1>3, <1>4, <1>5, <1>6 DEF Half

\* Where a step may be that damages something.
LEMMA WhereDamage ==
  ASSUME Context, InstallerInv, proc.todo # <<>>
  PROVE  LET x == Head(proc.todo)
         IN  /\ x[1] \in {"drop", "unmake", "bind", "mark", "interpreter"} => disk.recovery /\ disk.decided # "finalize"
             /\ x[1] \in {"drop", "unmake"} => running = None
             /\ proc.op # "finalize" => ~(disk.decided = "finalize" \/ (disk.pending = "applied" /\ disk.decided = None))
             /\ proc.op \in {"apply", "unwind", "rollback", "finalize"}
             /\ proc.op = "apply" /\ x[1] \notin {"stop", "recovery"} => During
  <1> DEFINE x == Head(proc.todo)
  <1>1. OfProc(proc) /\ setup \in Setups /\ Applying /\ Restoring /\ Finalizing /\ Stopped
    BY DEF InstallerInv, OfInstallation
  <1>2. MayTake(proc.op, x) /\ x \in Left /\ proc.op # None
    BY <1>1, HeadFacts
  <1>3. proc.op \in {"apply", "unwind", "rollback", "finalize"}
    BY <1>1, <1>2 DEF OfProc
  <1> HIDE DEF x
  <1>4. proc.op = "apply" /\ x[1] \notin {"stop", "recovery"} => During
    <2>1. Head(ApplySteps) = <<"stop", None>> /\ Head(Tail(ApplySteps)) = <<"recovery", None>>
      BY <1>1, ApplyPlan DEF Context
    <2>2. Before => x = <<"stop", None>> \/ x = <<"recovery", None>>
      BY <2>1 DEF Before, x
    <2>3. Before => x[1] \in {"stop", "recovery"}
      BY <2>2
    <2>4. QED
      BY <1>1, <2>3 DEF Applying
  <1>5. x[1] \in {"drop", "unmake"} => running = None
    BY <1>1, <1>2 DEF Stopped, Moves, x
  <1>6. proc.op # "finalize" => ~(disk.decided = "finalize" \/ (disk.pending = "applied" /\ disk.decided = None))
    BY <1>1, <1>3 DEF Applying, Restoring, Context, NoneIsNothing
  <1>7. proc.op = "finalize" => x[1] \notin {"drop", "unmake", "bind", "mark", "interpreter"}
    BY <1>2 DEF MayTake
  <1>8. x[1] \in {"drop", "unmake", "bind", "mark", "interpreter"} => disk.recovery
    <2>1. CASE proc.op = "apply"
      BY <1>4, <2>1 DEF During
    <2>2. CASE proc.op \in {"unwind", "rollback"}
      BY <1>1, <2>2 DEF Restoring
    <2>3. QED
      BY <1>3, <1>7, <2>1, <2>2
  <1>9. QED
    BY <1>3, <1>4, <1>5, <1>6, <1>7, <1>8 DEF x

LEMMA DamageKeeps ==
  ASSUME Context, InstallerInv, proc.todo # <<>>, Damaged
  PROVE  Whatever'
  <1> DEFINE x == Head(proc.todo)
  <1>1. /\ x[1] \in {"drop", "unmake", "bind", "mark", "interpreter"} => disk.recovery /\ disk.decided # "finalize"
        /\ x[1] \in {"drop", "unmake"} => running = None
        /\ proc.op # "finalize" => ~(disk.decided = "finalize" \/ (disk.pending = "applied" /\ disk.decided = None))
        /\ setup \in Setups
    BY WhereDamage DEF InstallerInv, OfInstallation
  <1>2. \A i \in setup.had : i \in Items
    BY <1>1 DEF Context, SetupsAreUpdates
  <1> HIDE DEF x
  <1>3. ASSUME disk.decided # "finalize", NEW i \in setup.had
        PROVE  disk'.kept[i] \in {"none", "A"} /\ i \notin disk'.made /\ (disk'.kept[i] = "none" => disk'.now[i] = "A")
    <2>1. disk.kept[i] \in {"none", "A"} /\ i \notin disk.made /\ (disk.kept[i] = "none" => disk.now[i] = "A")
      BY <1>3 DEF Context, Whatever
    <2>2. QED
      BY <1>2, <2>1 DEF Damaged
  <1>4. ASSUME x[1] \notin {"drop", "unmake", "bind", "mark", "interpreter"}
        PROVE  /\ WhollyA => WhollyA'
               /\ WhollyB => WhollyB'
    <2>1. \A i \in Items : disk'.now[i] = disk.now[i]
      BY <1>4 DEF Damaged, x
    <2>2. \A i \in setup.staged \cup {"checkout", "managed"} : i \in Items
      BY <1>1 DEF Context, SetupsAreUpdates, Items
    <2>3. /\ disk'.wrapper = disk.wrapper /\ disk'.mark = disk.mark /\ disk'.interpreter = disk.interpreter
          /\ disk'.profile = disk.profile /\ setup' = setup
      BY <1>4 DEF Damaged, x
    <2>4. QED
      BY <1>2, <2>1, <2>2, <2>3 DEF WhollyA, WhollyB, Wholly
  <1>5. ~disk'.recovery /\ disk'.decided # "finalize" => NoneKept' /\ WhollyA'
    BY <1>1, <1>4 DEF Context, Whatever, Damaged, NoneKept
  <1>6. disk'.decided = "finalize" \/ (disk'.pending = "applied" /\ disk'.decided = None) => WhollyB'
    <2>1. CASE proc.op = "finalize"
      <3>1. x[1] \notin {"drop", "unmake", "bind", "mark", "interpreter"}
        <4>1. MayTake("finalize", x)
          BY <2>1, HeadFacts DEF Context, OfInstallation, x
        <4>2. QED
          BY <4>1 DEF MayTake
      <3>2. QED
        BY <1>4, <3>1 DEF Context, Whatever, Damaged
    <2>2. QED
      BY <1>1, <2>1 DEF Damaged
  <1>7. running' # None => disk'.now["checkout"] = running'
    <2>1. running' = running /\ (running # None => disk.now["checkout"] = running)
      BY DEF Damaged, Context, Whatever
    <2>2. running # None => x[1] \notin {"drop", "unmake"}
      BY <1>1
    <2>3. running # None => disk'.now["checkout"] = disk.now["checkout"]
      BY <2>2 DEF Damaged, Items, x
    <2>4. QED
      BY <2>1, <2>3
  <1>8. QED
    BY <1>3, <1>5, <1>6, <1>7 DEF Context, Whatever, Damaged, NoneKept

\* The operation is over, in whatever state.
LEMMA EndedKeeps ==
  ASSUME NoneIsNothing, Whatever', OfDisk(disk)', setup' \in Setups, proc' = Ended
  PROVE  InstallerInv'
  <1>1. proc' = [op |-> None, todo |-> <<>>, mark |-> None]
    BY DEF Ended
  <1>2. proc'.op = None /\ proc'.todo = <<>>
    BY <1>1
  <1>3. OfProc(proc)'
    BY <1>1, <1>2, NoSteps DEF OfProc
  <1>4. QED
    BY <1>2, <1>3 DEF InstallerInv, OfInstallation, Stopped, Applying, Restoring, Finalizing,
       NoneIsNothing

\* An update that fails is unwound.
LEMMA UnwoundKeeps ==
  ASSUME Context, InstallerInv, proc.todo # <<>>, Damaged, proc.op = "apply", ~Doing("stop"), ~Doing("recovery"),
         proc' = [proc EXCEPT !.op = "unwind",
                              !.todo = (IF Doing("place") THEN <<<<"back", It>>, <<"back", "managed">>>> ELSE <<>>) \o Unwinding]
  PROVE  InstallerInv'
  <1>1. During /\ Applying /\ setup \in Setups /\ OfProc(proc) /\ Whatever'
    BY WhereDamage, DamageKeeps DEF Doing, InstallerInv, OfInstallation
  <1> DEFINE i == IF Doing("place") THEN It ELSE "checkout"
             s == IF Doing("place") THEN <<<<"back", It>>, <<"back", "managed">>>> ELSE <<>>
  <1>2. i \in Items /\ s \in {<<>>, <<<<"back", i>>, <<"back", "managed">>>>}
    <2>1. Doing("place") => It \in Items
      BY <1>1, HeadFacts DEF Doing, AllSteps
    <2>2. QED
      BY <2>1 DEF Items
  <1> DEFINE steps == s \o Unwinding
  <1>3. proc' = [op |-> "unwind", todo |-> steps, mark |-> proc.mark]
    <2>1. proc' = [proc EXCEPT !.op = "unwind", !.todo = steps]
      OBVIOUS
    <2> HIDE DEF steps
    <2>2. QED
      BY <1>1, <2>1 DEF OfProc
  <1> HIDE DEF s, i, steps
  <1>4. proc'.op = "unwind" /\ proc'.todo = steps /\ steps = s \o Unwinding
    <2>1. proc'.op = "unwind" /\ proc'.todo = steps
      BY ONLY <1>3
    <2>2. QED
      BY <2>1 DEF steps
  <1>5. /\ WellOrdered(proc'.todo) /\ \A y \in StepsOf(proc'.todo) : MayTake("unwind", y)
        /\ \A j \in Items : <<"drop", j>> \in Left' /\ <<"back", j>> \in Left'
        /\ \A what \in {"profile", "wrapper", "mark", "interpreter"} : <<what, "A">> \in Left'
    BY <1>1, <1>2, <1>4, UnwindPlan DEF Context, Left
  <1>6. OfProc(proc)'
    BY <1>3, <1>4, <1>5 DEF OfProc, Context, NoneIsNothing
  <1>7. /\ disk'.recovery /\ running' = None /\ disk'.decided = None /\ disk'.pending = None /\ setup' = setup
    BY <1>1 DEF During, Applying, Damaged
  <1>8. Restoring'
    <2>1. \A j \in setup.had : j \in Items
      BY <1>1 DEF Context, SetupsAreUpdates
    <2>2. QED
      BY <1>4, <1>5, <1>7, <2>1 DEF Restoring
  <1>9. QED
    BY <1>1, <1>4, <1>6, <1>7, <1>8 DEF InstallerInv, OfInstallation, Stopped, Applying, Finalizing,
       Damaged

\* Some failures are passed over.
LEMMA PassedOverKeeps ==
  ASSUME Context, InstallerInv, proc.todo # <<>>, Damaged, Swallowed, proc' = [proc EXCEPT !.todo = Tail(@)]
  PROVE  InstallerInv'
  <1> DEFINE x == Head(proc.todo)
  <1>1. Advance /\ Whatever' /\ setup \in Setups /\ Stopped /\ Restoring /\ Finalizing /\ OfDisk(disk)'
    BY Advances, DamageKeeps DEF Context, InstallerInv, OfInstallation, Damaged
  <1>2. /\ x = <<x[1], It>> /\ MayTake(proc.op, x) /\ x \in Left /\ proc'.op = proc.op /\ OfProc(proc)' /\ setup' = setup
        /\ \A y : y \in Left <=> y \in Left' \/ y = x
        /\ \A y \in Left' : ~Wrong(x, y)
    BY <1>1 DEF Advance
  <1>3. x[1] \in {"unmake", "discard", "bind", "forget"} /\ (x[1] = "discard" => It # "profile") /\ (x[1] = "bind" => proc.op = "unwind")
    BY DEF Swallowed, Doing
  <1>4. proc.op \in {"unwind", "rollback", "finalize"} /\ (x[1] = "discard" => proc.op = "finalize")
    BY <1>2, <1>3 DEF MayTake, Written
  <1> HIDE DEF x
  <1>5. Stopped'
    <2>1. running' = running
      BY DEF Damaged
    <2>2. \A y \in Left' : y \in Left
      BY <1>2
    <2>3. running # None => \A y \in Left : y[1] \notin Moves
      BY <1>1, <1>3 DEF Stopped, x
    <2>4. QED
      BY <2>1, <2>2, <2>3 DEF Stopped
  <1>6. Finalizing'
    BY <1>1, <1>2, <1>3 DEF Finalizing, Damaged
  <1>7. Restoring'
    <2>1. SUFFICES ASSUME proc.op \in {"unwind", "rollback"} PROVE Restoring'
      BY <1>2 DEF Restoring
    <2>2. /\ disk.recovery
          /\ \A i \in setup.had :
              /\ i \in Items /\ disk.kept[i] \in {"none", "A"} /\ i \notin disk.made
              /\ disk.kept[i] = "none" => disk.now[i] = "A"
              /\ disk.kept[i] = "none" \/ (<<"back", i>> \in Left /\ (disk.now[i] = "none" \/ <<"drop", i>> \in Left))
      BY <1>1, <2>1, WhileRestoring
    <2>3. ASSUME NEW i \in setup.had
          PROVE  disk'.kept[i] = "none" \/ (<<"back", i>> \in Left' /\ (disk'.now[i] = "none" \/ <<"drop", i>> \in Left'))
      <3>1. x # <<"back", i>> /\ x # <<"drop", i>>
        BY <1>3
      <3>2. disk'.kept[i] = disk.kept[i]
        BY DEF Damaged
      <3>3. x[1] # "bind" => disk'.now[i] = disk.now[i]
        BY <2>2, <3>1 DEF Damaged, x
      <3>4. x[1] = "bind" => disk.kept[i] = "none"
        <4>1. x[1] = "bind" => Wrong(x, <<"back", i>>)
          BY DEF Wrong
        <4>2. QED
          BY <1>2, <2>2, <3>1, <4>1
      <3>5. QED
        BY <1>2, <2>2, <3>1, <3>2, <3>3, <3>4
    <2>4. /\ disk'.wrapper = disk.wrapper /\ disk'.mark = disk.mark /\ disk'.interpreter = disk.interpreter
          /\ disk'.profile = disk.profile /\ disk'.copy = disk.copy /\ disk'.pending = disk.pending
          /\ disk'.decided = disk.decided /\ disk'.recovery = disk.recovery
      BY <1>3 DEF Damaged, x
    <2>5. \A y \in Left : y[1] \in {"profile", "wrapper", "mark", "interpreter", "discard", "pending", "clear"} => y \in Left'
      BY <1>2, <1>3, <1>4, <2>1
    <2>6. /\ <<"profile", "A">> \in Left => <<"profile", "A">> \in Left'
          /\ <<"wrapper", "A">> \in Left => <<"wrapper", "A">> \in Left'
          /\ <<"mark", "A">> \in Left => <<"mark", "A">> \in Left'
          /\ <<"interpreter", "A">> \in Left => <<"interpreter", "A">> \in Left'
          /\ <<"pending", "files_restored">> \in Left <=> <<"pending", "files_restored">> \in Left'
          /\ <<"clear", None>> \in Left => <<"clear", None>> \in Left'
          /\ <<"discard", "profile">> \in Left' => <<"discard", "profile">> \in Left
      BY <1>2, <2>5
    <2>7. QED
      BY <1>1, <1>2, <2>2, <2>3, <2>4, <2>6 DEF Restoring
  <1>8. Applying'
    BY <1>2, <1>4 DEF Applying
  <1>9. QED
    BY <1>1, <1>2, <1>5, <1>6, <1>7, <1>8 DEF InstallerInv, OfInstallation

LEMMA FailureKeeps ==
  ASSUME Context, InstallerInv, proc.todo # <<>>, Damaged, proc' = AfterFailure
  PROVE  InstallerInv'
  <1>1. CASE Swallowed
    BY <1>1, PassedOverKeeps DEF AfterFailure
  <1>2. CASE ~Swallowed /\ proc.op = "apply" /\ ~Doing("stop") /\ ~Doing("recovery")
    BY <1>2, UnwoundKeeps DEF AfterFailure
  <1>3. CASE ~Swallowed /\ ~(proc.op = "apply" /\ ~Doing("stop") /\ ~Doing("recovery"))
    <2>1. proc' = Ended
      BY <1>3 DEF AfterFailure
    <2>2. Whatever' /\ OfDisk(disk)' /\ setup' \in Setups
      BY DamageKeeps DEF Damaged, InstallerInv, OfInstallation
    <2>3. QED
      BY <2>1, <2>2, EndedKeeps DEF Context
  <1>4. QED
    BY <1>1, <1>2, <1>3

-----------------------------------------------------------------------------
(* Where the operations begin.                                             *)

LEMMA InstallerInit ==
  ASSUME NoneIsNothing, SetupsAreUpdates, Init
  PROVE  InstallerInv
  <1>1. setup \in Setups /\ proc = Ended
    BY DEF Init
  <1>2. /\ disk = [now |-> disk.now, kept |-> disk.kept, made |-> disk.made, profile |-> disk.profile,
            copy |-> disk.copy, wrapper |-> disk.wrapper, mark |-> disk.mark, interpreter |-> disk.interpreter,
            recovery |-> disk.recovery, pending |-> disk.pending, decided |-> disk.decided, claim |-> disk.claim]
        /\ disk.now = [i \in Items |-> IF i \in setup.had THEN "A" ELSE "none"]
        /\ disk.kept = [i \in Items |-> "none"] /\ disk.made = {} /\ disk.profile = "A" /\ disk.copy = FALSE
        /\ disk.wrapper = "A" /\ disk.mark = "A" /\ disk.interpreter = "A" /\ disk.recovery = FALSE
        /\ disk.pending = None /\ disk.decided = None
    BY DEF Init
  <1>3. OfDisk(disk)
    BY <1>2 DEF OfDisk, Conditions
  <1>4. \A i \in setup.had : i \in Items /\ disk.now[i] = "A" /\ disk.kept[i] = "none"
    BY <1>1, <1>2 DEF SetupsAreUpdates
  <1>5. running # None => disk.now["checkout"] = running
    <2>1. running # None => running = "A" /\ setup.configured
      BY DEF Init
    <2>2. "checkout" \in Items /\ (setup.configured => "checkout" \in setup.had)
      BY <1>1 DEF Items, SetupsAreUpdates
    <2>3. QED
      BY <1>4, <2>1, <2>2
  <1>6. Whatever
    BY <1>2, <1>4, <1>5 DEF Whatever, NoneIsNothing, NoneKept, WhollyA, Wholly
  <1>7. proc = [op |-> None, todo |-> <<>>, mark |-> None]
    BY <1>1 DEF Ended
  <1>8. proc.op = None /\ proc.todo = <<>>
    BY <1>7
  <1>9. OfProc(proc)
    BY <1>7, <1>8, NoSteps DEF OfProc
  <1>10. QED
    BY <1>1, <1>3, <1>6, <1>8, <1>9 DEF InstallerInv, OfInstallation, Stopped, Applying, Restoring,
       Finalizing, NoneIsNothing

\* Nothing is under way.
LEMMA WhenEnded ==
  ASSUME proc = Ended
  PROVE  proc.op = None /\ proc.todo = <<>>
  BY DEF Ended

LEMMA UpdateKeeps ==
  ASSUME Context, InstallerInv, Update
  PROVE  InstallerInv'
  <1>1. /\ disk.decided # "finalize" /\ disk.pending = None /\ setup' = setup /\ running' = running /\ setup \in Setups /\ OfDisk(disk)
        /\ disk' = [disk EXCEPT !.claim = None, !.decided = None, !.made = {}]
        /\ proc' = [op |-> "apply", todo |-> ApplySteps, mark |-> None]
    BY DEF Update, Begins, InstallerInv, OfInstallation
  <1>2. /\ OfDisk(disk)' /\ disk'.made = {} /\ disk'.decided = None /\ disk'.pending = disk.pending
        /\ disk'.now = disk.now /\ disk'.kept = disk.kept /\ disk'.profile = disk.profile
        /\ disk'.copy = disk.copy /\ disk'.wrapper = disk.wrapper /\ disk'.mark = disk.mark
        /\ disk'.interpreter = disk.interpreter /\ disk'.recovery = disk.recovery
    BY <1>1 DEF OfDisk
  <1>3. proc'.op = "apply" /\ proc'.todo = ApplySteps /\ ApplySteps' = ApplySteps
    <2>1. proc'.op = "apply" /\ proc'.todo = ApplySteps
      BY ONLY <1>1
    <2>2. QED
      BY <1>1, <2>1 DEF ApplySteps
  <1>4. WellOrdered(ApplySteps) /\ Head(ApplySteps) = <<"stop", None>> /\ \A y \in StepsOf(ApplySteps) : MayTake("apply", y)
    BY <1>1, ApplyPlan DEF Context, MayTake, Written
  <1>5. OfProc(proc)'
    BY <1>1, <1>3, <1>4 DEF OfProc, Context, NoneIsNothing
  <1>6. Whatever'
    <2>1. /\ \A i \in setup.had : disk.kept[i] \in {"none", "A"} /\ (disk.kept[i] = "none" => disk.now[i] = "A")
          /\ ~disk.recovery => NoneKept /\ WhollyA
          /\ running # None => disk.now["checkout"] = running
      BY <1>1 DEF Context, Whatever
    <2>2. (NoneKept => NoneKept') /\ (WhollyA => WhollyA')
      BY <1>1, <1>2 DEF NoneKept, WhollyA, Wholly
    <2>3. QED
      BY <1>1, <1>2, <2>1, <2>2 DEF Whatever, Context, NoneIsNothing
  <1>7. Applying' /\ Stopped'
    BY <1>1, <1>2, <1>3, <1>4 DEF Applying, Before, Stopped
  <1>8. QED
    BY <1>1, <1>2, <1>3, <1>5, <1>6, <1>7 DEF InstallerInv, OfInstallation, Restoring, Finalizing

LEMMA RollBackKeeps ==
  ASSUME Context, InstallerInv, RollBack
  PROVE  InstallerInv'
  <1>1. /\ disk.pending \in {"applied", "files_restored"} /\ disk.decided \in {None, "rollback"}
        /\ setup' = setup /\ running' = running /\ setup \in Setups /\ OfDisk(disk)
        /\ disk' = [disk EXCEPT !.decided = "rollback"]
        /\ proc' = [op |-> "rollback", todo |-> RollbackSteps(disk.pending), mark |-> None]
    BY DEF RollBack, Begins, InstallerInv, OfInstallation, OfDisk, MayDecide, Context, SetupsAreUpdates
  <1>2. /\ OfDisk(disk)' /\ disk'.made = disk.made /\ disk'.decided = "rollback" /\ disk'.pending = disk.pending
        /\ disk'.now = disk.now /\ disk'.kept = disk.kept /\ disk'.profile = disk.profile
        /\ disk'.copy = disk.copy /\ disk'.wrapper = disk.wrapper /\ disk'.mark = disk.mark
        /\ disk'.interpreter = disk.interpreter /\ disk'.recovery = disk.recovery
    BY <1>1 DEF OfDisk
  <1> DEFINE s == RollbackSteps(disk.pending)
  <1>3. /\ WellOrdered(s) /\ s # <<>> /\ \A y \in StepsOf(s) : MayTake("rollback", y)
        /\ \A what \in {"wrapper", "mark", "interpreter"} : <<what, "A">> \in StepsOf(s)
        /\ <<"clear", None>> \in StepsOf(s)
        /\ disk.pending = "applied" =>
             /\ \A j \in Items : <<"drop", j>> \in StepsOf(s) /\ <<"back", j>> \in StepsOf(s)
             /\ <<"profile", "A">> \in StepsOf(s) /\ <<"pending", "files_restored">> \in StepsOf(s)
             /\ Head(s) = <<"stop", None>>
        /\ disk.pending = "files_restored" =>
             \A y \in StepsOf(s) : y[1] \in {"bind", "wrapper", "mark", "interpreter", "discard", "clear", "forget"}
    BY <1>1, RollbackPlan DEF Context
  <1>4. proc' = [op |-> "rollback", todo |-> s, mark |-> None]
    BY <1>1
  <1> HIDE DEF s
  <1>5. proc'.op = "rollback" /\ proc'.todo = s
    BY ONLY <1>4
  <1>6. Left' = StepsOf(s)
    BY <1>5 DEF Left
  <1>7. OfProc(proc)'
    BY <1>3, <1>4, <1>5 DEF OfProc, Context, NoneIsNothing
  <1>8. disk.decided # "finalize" /\ disk.recovery
    BY <1>1 DEF Context, Whatever, NoneIsNothing
  <1>9. /\ \A i \in setup.had : disk.kept[i] \in {"none", "A"} /\ i \notin disk.made /\ (disk.kept[i] = "none" => disk.now[i] = "A")
        /\ disk.pending = "files_restored" => NoneKept /\ (setup.configured => disk.profile = "A")
        /\ disk.pending = "applied" /\ setup.configured => disk.copy
        /\ running # None => disk.now["checkout"] = running
    BY <1>8 DEF Context, Whatever
  <1>10. Whatever'
    BY <1>1, <1>2, <1>8, <1>9 DEF Whatever, NoneKept, Context, NoneIsNothing
  <1>11. Stopped'
    <2>1. CASE disk.pending = "applied"
      BY <1>3, <1>5, <2>1 DEF Stopped
    <2>2. CASE disk.pending = "files_restored"
      BY <1>3, <1>6, <2>2 DEF Stopped, Moves
    <2>3. QED
      BY <1>1, <2>1, <2>2
  <1>12. Restoring'
    <2>1. \A i \in setup.had : i \in Items
      BY <1>1 DEF Context, SetupsAreUpdates
    <2>2. ASSUME NEW i \in setup.had
          PROVE  disk'.kept[i] = "none" \/ (<<"back", i>> \in Left' /\ (disk'.now[i] = "none" \/ <<"drop", i>> \in Left'))
      <3>1. CASE disk.pending = "applied"
        BY <1>3, <1>6, <2>1, <3>1
      <3>2. CASE disk.pending = "files_restored"
        BY <1>2, <1>9, <3>2 DEF NoneKept
      <3>3. QED
        BY <1>1, <3>1, <3>2
    <2>3. setup.configured => disk'.profile = "A" \/ (<<"profile", "A">> \in Left' /\ disk'.copy)
      BY <1>1, <1>2, <1>3, <1>6, <1>9
    <2>4. <<"discard", "profile">> \in Left' => disk'.pending # "applied" \/ <<"pending", "files_restored">> \in Left'
      BY <1>2, <1>3, <1>6
    <2>5. <<"wrapper", "A">> \in Left' /\ <<"mark", "A">> \in Left' /\ <<"interpreter", "A">> \in Left' /\ <<"clear", None>> \in Left'
      BY <1>3, <1>6
    <2>6. QED
      BY <1>1, <1>2, <1>5, <1>8, <2>2, <2>3, <2>4, <2>5 DEF Restoring
  <1>13. QED
    BY <1>1, <1>2, <1>5, <1>7, <1>10, <1>11, <1>12 DEF InstallerInv, OfInstallation, Applying, Finalizing

LEMMA FinalizeKeeps ==
  ASSUME Context, InstallerInv, Finalize
  PROVE  InstallerInv'
  <1>1. /\ disk.pending \in {"applied", "files_restored"} /\ disk.decided \in {None, "finalize"}
        /\ setup' = setup /\ running' = running /\ setup \in Setups /\ OfDisk(disk)
        /\ disk' = [disk EXCEPT !.decided = "finalize"]
        /\ proc' = [op |-> "finalize", todo |-> FinalizeSteps, mark |-> None]
    BY DEF Finalize, Begins, InstallerInv, OfInstallation, OfDisk, MayDecide, Context, SetupsAreUpdates
  <1>2. /\ OfDisk(disk)' /\ disk'.made = disk.made /\ disk'.decided = "finalize" /\ disk'.pending = disk.pending
        /\ disk'.now = disk.now /\ disk'.kept = disk.kept /\ disk'.profile = disk.profile
        /\ disk'.copy = disk.copy /\ disk'.wrapper = disk.wrapper /\ disk'.mark = disk.mark
        /\ disk'.interpreter = disk.interpreter /\ disk'.recovery = disk.recovery
    BY <1>1 DEF OfDisk
  <1>3. proc'.op = "finalize" /\ proc'.todo = FinalizeSteps
    BY ONLY <1>1
  <1>4. WellOrdered(FinalizeSteps) /\ (\A y \in StepsOf(FinalizeSteps) : MayTake("finalize", y)) /\ <<"clear", None>> \in StepsOf(FinalizeSteps)
    BY FinalizePlan DEF Context
  <1>5. OfProc(proc)'
    BY <1>1, <1>3, <1>4 DEF OfProc, Context, NoneIsNothing
  <1>6. disk.pending = "applied"
    BY <1>1 DEF Context, Whatever, NoneIsNothing
  <1>7. WhollyB'
    <2>1. WhollyB
      BY <1>1, <1>6 DEF Context, Whatever
    <2>2. QED
      BY <1>1, <1>2, <2>1 DEF WhollyB, Wholly
  <1>8. Whatever'
    <2>1. (disk.pending # None => disk.recovery) /\ (running # None => disk.now["checkout"] = running)
      BY DEF Context, Whatever
    <2>2. QED
      BY <1>1, <1>2, <1>6, <1>7, <2>1 DEF Whatever
  <1>9. Stopped' /\ Finalizing'
    <2>1. \A y \in Left' : y[1] \notin Moves
      BY <1>3, <1>4 DEF Left, MayTake, Moves
    <2>2. <<"clear", None>> \in Left'
      BY <1>3, <1>4 DEF Left
    <2>3. QED
      BY <1>2, <2>1, <2>2 DEF Stopped, Finalizing
  <1>10. QED
    BY <1>1, <1>2, <1>3, <1>5, <1>8, <1>9 DEF InstallerInv, OfInstallation, Applying, Restoring

-----------------------------------------------------------------------------
LEMMA InstallerStep ==
  ASSUME NoneIsNothing, RuntimesAreNamed, SetupsAreUpdates, InstallerInv, [Next]_vars
  PROVE  InstallerInv'
  <1>1. Context /\ setup \in Setups /\ OfDisk(disk) /\ OfProc(proc)
    BY DEF Context, InstallerInv, OfInstallation
  <1>2. ASSUME disk' = disk, setup' = setup, running' = running
        PROVE  Whatever' /\ OfDisk(disk)' /\ setup' \in Setups
    BY <1>1, <1>2 DEF Context, Whatever, NoneKept, WhollyA, WhollyB, Wholly, OfDisk
  <1>3. CASE UNCHANGED vars
    <2>1. disk' = disk /\ proc' = proc /\ running' = running /\ setup' = setup
      BY <1>3 DEF vars
    <2>2. Whatever' /\ OfInstallation'
      BY <1>1, <1>2, <2>1 DEF OfInstallation, OfProc
    <2>3. Left' = Left
      BY <2>1 DEF Left
    <2>4. Stopped'
      BY <2>1, <2>3 DEF InstallerInv, Stopped
    <2>5. Before => Before'
      BY <2>1 DEF Before, ApplySteps
    <2>6. During => During'
      BY <2>1, <2>3 DEF During
    <2>7. Applying'
      BY <2>1, <2>5, <2>6 DEF InstallerInv, Applying
    <2>8. Restoring'
      BY <2>1, <2>3 DEF InstallerInv, Restoring
    <2>9. Finalizing'
      BY <2>1, <2>3 DEF InstallerInv, Finalizing
    <2>10. QED
      BY <2>2, <2>4, <2>7, <2>8, <2>9 DEF InstallerInv
  <1>4. CASE Update
    BY <1>1, <1>4, UpdateKeeps
  <1>5. CASE RollBack
    BY <1>1, <1>5, RollBackKeeps
  <1>6. CASE Finalize
    BY <1>1, <1>6, FinalizeKeeps
  <1>7. CASE Start
    <2>1. disk' = disk /\ proc' = proc /\ setup' = setup /\ running' = disk.now["checkout"] /\ proc = Ended
      BY <1>7 DEF Start
    <2>2. Whatever'
      BY <1>1, <2>1 DEF Context, Whatever, NoneKept, WhollyA, WhollyB, Wholly
    <2>3. QED
      BY <1>1, <2>1, <2>2, EndedKeeps DEF Context
  <1>8. CASE End
    BY <1>1, <1>2, <1>8, EndedKeeps DEF End, Context
  <1>9. CASE Refuse
    <2>1. proc.todo # <<>> /\ disk' = disk /\ UNCHANGED <<running, setup>> /\ proc' = AfterFailure
      BY <1>9 DEF Refuse, Doing
    <2>2. QED
      BY <1>1, <2>1, HalfDamages, FailureKeeps
  <1>10. CASE Fail
    BY <1>1, <1>10, HalfDamages, FailureKeeps DEF Fail
  <1>11. CASE Cut
    <2>1. proc.todo # <<>> /\ Damaged /\ proc' = Ended
      BY <1>1, <1>11, HalfDamages DEF Cut
    <2>2. Whatever' /\ OfDisk(disk)' /\ setup' \in Setups
      BY <1>1, <2>1, DamageKeeps DEF Damaged
    <2>3. QED
      BY <1>1, <2>1, <2>2, EndedKeeps DEF Context
  <1>12. CASE Step /\ ~Refuse /\ ~End
    <2>1. proc.op # None
      <3>1. proc.todo # <<>>
        BY <1>12 DEF Step, StopProfile, PrepareRecovery, KeepOld, PlaceNew, Bind, WriteProfile,
           WriteWrapper, WriteMark,
           WriteInterpreter, CopyProfile, SavePending, DropNew, BringBack, Unmake, Discard,
           ClearPending, ForgetRecovery,
           Does, Doing
      <3>2. QED
        BY <1>1, <3>1 DEF OfProc
    <2>2. proc.op \in {"apply", "unwind", "rollback", "finalize"}
      BY <1>1, <2>1 DEF OfProc
    <2>3. QED
      BY <1>1, <1>12, <2>2, ApplyStep, RestoringStep, FinalizingStep
  <1>13. QED
    BY <1>3, <1>4, <1>5, <1>6, <1>7, <1>8, <1>9, <1>10, <1>11, <1>12 DEF Next

LEMMA AllRecoverable ==
  ASSUME NoneIsNothing, InstallerInv
  PROVE  UpdateIsRecoverable
  <1>1. Whatever
    BY DEF InstallerInv
  <1>2. OldIsThere
    BY <1>1 DEF OldIsThere, Whatever
  <1>3. NeverMixedInSilence
    BY <1>1 DEF NeverMixedInSilence, Whatever
  <1>4. RunsItsOwnCode
    BY <1>1 DEF RunsItsOwnCode, Whatever
  <1>5. QED
    BY <1>2, <1>3, <1>4 DEF UpdateIsRecoverable

\* Whatever steps of updates, rollbacks and finalizations fail or are cut off: until it is
\* decided to keep the new version every item of the old one exists, an installation that
\* announces no update is wholly one version, and no checkout is moved from under a running
\* profile.
THEOREM Recoverable ==
  ASSUME NoneIsNothing, RuntimesAreNamed, SetupsAreUpdates
  PROVE  Spec => []UpdateIsRecoverable
  <1>1. Init => InstallerInv
    BY InstallerInit
  <1>2. InstallerInv /\ [Next]_vars => InstallerInv'
    BY InstallerStep
  <1>3. InstallerInv => UpdateIsRecoverable
    BY AllRecoverable
  <1>4. QED
    BY <1>1, <1>2, <1>3, PTL DEF Spec

=============================================================================
