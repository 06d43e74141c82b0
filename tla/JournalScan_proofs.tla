------------------------- MODULE JournalScan_proofs -------------------------
(***************************************************************************)
(* Proofs about JournalScan, for every number of archives kept and every   *)
(* length of the journal: a scan that comes to its end left nothing out.   *)
(***************************************************************************)
EXTENDS JournalScan, SequenceTheorems, FiniteSetTheorems, TLAPS

\* keep_rolls is a number, and so is the last stamp.
Bounds == Keeps \subseteq Nat /\ MaxStamp \in Nat

-----------------------------------------------------------------------------
(* The paths of a listing.                                                 *)

\* Induction over the numbers, as a fact about sets.
LEMMA SetInduction ==
  ASSUME NEW S \in SUBSET Nat, 0 \in S, \A m \in S : m + 1 \in S
  PROVE  S = Nat
  <1> SUFFICES ASSUME NEW n \in Nat, n \notin S PROVE FALSE
    OBVIOUS
  <1> DEFINE A == {m \in S : m <= n}
  <1>1. IsFiniteSet(A)
    BY FS_BoundedSetOfNaturals
  <1>2. \A m \in A : m + 1 \in A
    OBVIOUS
  <1>3. /\ \A m \in A : m \in Nat
        /\ 0 \in A
    <2>1. \A m \in S : m \in Nat
      OBVIOUS
    <2>2. 0 <= n
      OBVIOUS
    <2>3. QED
      BY <2>1, <2>2
  <1> HIDE DEF A
  <1> DEFINE f == [m \in A |-> m + 1]
  <1>4. /\ f \in [A -> A]
        /\ \A m \in A : f[m] = m + 1
    BY <1>2
  <1> HIDE DEF f
  <1>5. /\ \A l, m \in A : f[l] = f[m] => l = m
        /\ \A m \in A : f[m] # 0
    BY <1>3, <1>4
  <1>6. f \in Injection(A, A)
    BY <1>4, <1>5 DEF Injection, IsInjective
  <1>7. f \in Surjection(A, A)
    BY <1>1, <1>6, FS_Injection
  <1>8. \E m \in A : f[m] = 0
    BY <1>3, <1>7 DEF Surjection
  <1>9. QED
    BY <1>5, <1>8

Enumerates(s, names) ==
    /\ s \in [1..Cardinality(names) -> names] /\ Ascending(s)
    /\ \A x \in names : \E i \in 1..Cardinality(names) : s[i] = x

LEMMA SomeEnumerates ==
  ASSUME NEW n \in Nat, NEW names \in SUBSET (0..n)
  PROVE  IsFiniteSet(names) /\ Cardinality(names) \in Nat /\ \E s : Enumerates(s, names)
  <1> DEFINE S == {m \in Nat : \A T \in SUBSET (0..m) : \E s : Enumerates(s, T)}
  <1>1. \A m \in Nat : \A T \in SUBSET (0..m) : IsFiniteSet(T) /\ Cardinality(T) \in Nat
    <2> TAKE m \in Nat
    <2> TAKE T \in SUBSET (0..m)
    <2>1. IsFiniteSet(0..m)
      BY FS_Interval
    <2>2. QED
      BY <2>1, FS_Subset, FS_CardinalityType
  <1>2. 0 \in S
    <2> SUFFICES ASSUME NEW T \in SUBSET (0..0) PROVE \E s : Enumerates(s, T)
      OBVIOUS
    <2>1. T = {} \/ T = {0}
      <3>1. \A x \in 0..0 : x = 0
        OBVIOUS
      <3>2. QED
        BY <3>1
    <2> DEFINE f == [i \in 1..Cardinality(T) |-> 0]
    <2>2. Cardinality(T) = IF T = {} THEN 0 ELSE 1
      BY <2>1, FS_EmptySet, FS_Singleton
    <2>3. f \in [1..Cardinality(T) -> T] /\ DOMAIN f = 1..Cardinality(T) /\ \A i \in 1..Cardinality(T) : f[i] = 0
      BY <2>1, <2>2
    <2>4. \A i, j \in 1..Cardinality(T) : ~(i < j)
      BY <2>1, <2>2
    <2>5. \A x \in T : x = 0 /\ 1 \in 1..Cardinality(T)
      BY <2>1, <2>2
    <2> HIDE DEF f
    <2>6. Enumerates(f, T)
      BY <2>3, <2>4, <2>5 DEF Enumerates, Ascending
    <2>7. QED
      BY <2>6
  <1>3. ASSUME NEW m \in S PROVE m + 1 \in S
    <2>1. m \in Nat /\ \A T \in SUBSET (0..m) : \E s : Enumerates(s, T)
      OBVIOUS
    <2> SUFFICES ASSUME NEW T \in SUBSET (0..m + 1) PROVE \E s : Enumerates(s, T)
      BY <2>1
    <2>2. CASE m + 1 \notin T
      <3>1. T \in SUBSET (0..m)
        BY <2>1, <2>2
      <3>2. QED
        BY <2>1, <3>1
    <2>3. CASE m + 1 \in T
      <3> DEFINE U == T \ {m + 1}
      <3>1. U \in SUBSET (0..m) /\ T = U \cup {m + 1} /\ m + 1 \notin U
        BY <2>1, <2>3
      <3>2. IsFiniteSet(U) /\ Cardinality(U) \in Nat
        BY <1>1, <2>1, <3>1
      <3>3. Cardinality(T) = Cardinality(U) + 1
        BY <3>1, <3>2, FS_AddElement
      <3> HIDE DEF U
      <3>4. PICK t : Enumerates(t, U)
        BY <2>1, <3>1
      <3> DEFINE c == Cardinality(U)
                 g == [i \in 1..c + 1 |-> IF i = c + 1 THEN m + 1 ELSE t[i]]
      <3>5. c \in Nat /\ Cardinality(T) = c + 1
        BY <3>2, <3>3
      <3>6. /\ \A i \in 1..c : t[i] \in U
            /\ \A i, j \in 1..c : i < j => t[i] < t[j]
            /\ \A x \in U : \E i \in 1..c : t[i] = x
        BY <3>4 DEF Enumerates, Ascending
      <3>7. DOMAIN g = 1..c + 1 /\ g[c + 1] = m + 1 /\ \A i \in 1..c : g[i] = t[i]
        BY <3>5
      <3>8. g = [i \in 1..c + 1 |-> g[i]]
        OBVIOUS
      <3> HIDE DEF g, c
      <3>9. \A i \in 1..c + 1 : i = c + 1 \/ i \in 1..c
        BY <3>5
      <3>10. \A i \in 1..c + 1 : g[i] \in T
        BY <3>1, <3>6, <3>7, <3>9
      <3>11. Ascending(g)
        <4> SUFFICES ASSUME NEW i \in 1..c + 1, NEW j \in 1..c + 1, i < j PROVE g[i] < g[j]
          BY <3>7 DEF Ascending
        <4>1. i \in 1..c
          BY <3>5
        <4>2. CASE j = c + 1
          <5>1. g[i] \in U /\ g[j] = m + 1
            BY <3>6, <3>7, <4>1, <4>2
          <5>2. g[i] \in 0..m
            BY <3>1, <5>1
          <5>3. QED
            BY <2>1, <5>1, <5>2
        <4>3. CASE j \in 1..c
          BY <3>6, <3>7, <4>1, <4>3
        <4>4. QED
          BY <3>9, <4>2, <4>3
      <3>12. \A x \in T : \E i \in 1..c + 1 : g[i] = x
        <4> SUFFICES ASSUME NEW x \in T PROVE \E i \in 1..c + 1 : g[i] = x
          OBVIOUS
        <4>1. CASE x = m + 1
          BY <3>5, <3>7, <4>1
        <4>2. CASE x \in U
          <5>1. PICK i \in 1..c : t[i] = x
            BY <3>6, <4>2
          <5>2. i \in 1..c + 1 /\ g[i] = x
            BY <3>5, <3>7, <5>1
          <5>3. QED
            BY <5>2
        <4>3. QED
          BY <3>1, <4>1, <4>2
      <3>13. g \in [1..c + 1 -> T]
        BY <3>8, <3>10
      <3>14. Enumerates(g, T)
        BY <3>5, <3>11, <3>12, <3>13 DEF Enumerates
      <3>15. QED
        BY <3>14
    <2>4. QED
      BY <2>2, <2>3
  <1>4. S = Nat
    <2>1. S \in SUBSET Nat
      OBVIOUS
    <2> HIDE DEF S
    <2>2. QED
      BY <1>2, <1>3, <2>1, SetInduction
  <1>5. QED
    BY <1>1, <1>4

\* The paths are the names, in order.
LEMMA PathsFacts ==
  ASSUME Bounds, NEW names \in SUBSET (1..Stream)
  PROVE  /\ Paths(names) \in Seq(1..Stream) /\ Ascending(Paths(names))
         /\ \A x : x \in names <=> \E m \in 1..Len(Paths(names)) : Paths(names)[m] = x
  <1> DEFINE c == Cardinality(names)
             s == Paths(names)
             Fits(t) == t \in [1..c -> names] /\ Ascending(t)
  <1>1. Stream \in Nat /\ \A n \in names : n \in 1..Stream /\ n \in Nat
    BY DEF Bounds, Stream
  <1>2. IsFiniteSet(names) /\ c \in Nat /\ \E t : Enumerates(t, names)
    <2>1. names \in SUBSET (0..Stream)
      BY <1>1
    <2>2. QED
      BY <1>1, <2>1, SomeEnumerates
  <1>3. \E t \in [1..c -> names] : Ascending(t)
    BY <1>2 DEF Enumerates
  <1>4. s \in [1..c -> names] /\ Ascending(s)
    BY <1>3 DEF Paths
  <1> HIDE DEF s
  <1>5. s \in Seq(names) /\ Len(s) = c
    BY <1>2, <1>4
  <1>6. \A x, y \in 1..c : x # y => s[x] # s[y]
    <2> SUFFICES ASSUME NEW x \in 1..c, NEW y \in 1..c, x # y PROVE s[x] # s[y]
      OBVIOUS
    <2>1. x < y \/ y < x
      BY <1>2
    <2>2. s[x] \in Nat /\ s[y] \in Nat
      <3>1. s[x] \in names /\ s[y] \in names
        BY <1>4
      <3>2. QED
        BY <1>1, <3>1
    <2>3. s[x] < s[y] \/ s[y] < s[x]
      BY <1>4, <2>1 DEF Ascending
    <2>4. QED
      BY <2>2, <2>3
  <1>7. IsFiniteSet(1..c) /\ Cardinality(1..c) = Cardinality(names)
    BY <1>2, FS_Interval
  <1>8. s \in Injection(1..c, names)
    BY <1>4, <1>6 DEF Injection, IsInjective
  <1>9. s \in Surjection(1..c, names)
    <2> HIDE DEF c
    <2>1. QED
      BY <1>2, <1>7, <1>8, FS_Injection
  <1>10. \A x \in names : \E i \in 1..c : s[i] = x
    BY <1>9 DEF Surjection
  <1>11. \A i \in 1..c : s[i] \in names
    BY <1>4
  <1>12. s \in Seq(1..Stream)
    <2>1. names \subseteq 1..Stream
      OBVIOUS
    <2>2. QED
      BY <1>5, <2>1, SeqMonotonic
  <1>13. QED
    BY <1>4, <1>5, <1>10, <1>11, <1>12 DEF s

-----------------------------------------------------------------------------
(* The invariant: the files.                                               *)

Line    == [id : Nat \ {0}, whole : BOOLEAN]
Archive == [name : 1..MaxStamp, file : Nat]
Disks   == [keep : Nat, archives : Seq(Archive), current : Nat, text : Seq(Seq(Line)),
            last : Nat, doubt : BOOLEAN]

Total    == Len(disk.text)
Count    == Len(confirmed)
Archived == 1..Len(disk.archives)
Rolled   == IF disk.current = 0 THEN Total ELSE Total - 1

\* How many lines of file f cannot be taken back.
Solid(f) == IF f = disk.current /\ disk.doubt THEN Len(disk.text[f]) - 1 ELSE Len(disk.text[f])

DiskShape == disk \in Disks /\ confirmed \in Seq(Nat \ {0})

\* The archives are the files just before the current one, under ascending names, and only
\* the current one may be empty or end in doubt.
FilesInv ==
  /\ disk.current # 0 => disk.current = Total /\ Len(disk.archives) <= disk.keep
  /\ Len(disk.archives) <= Rolled
  /\ \A i \in Archived : disk.archives[i].file = Rolled - Len(disk.archives) + i
  /\ \A i, j \in Archived : i < j => disk.archives[i].name < disk.archives[j].name
  /\ \A f \in 1..Total : f # disk.current => Len(disk.text[f]) > 0
  /\ disk.doubt => /\ disk.current # 0 /\ Len(disk.text[disk.current]) > 0
                   /\ disk.text[disk.current][Len(disk.text[disk.current])].id = disk.last

\* The lines of file f are those that were confirmed after the first start[f], one file after
\* another, and one in doubt is newer than all of them.
OrderInv(start) ==
  /\ start \in [1..Total -> Nat]
  /\ \A f, g \in 1..Total : f < g => start[f] + Len(disk.text[f]) <= start[g]
  /\ \A f \in 1..Total : f + 1 \in 1..Total => start[f + 1] = start[f] + Len(disk.text[f])
  /\ Total = 0 => Count = 0
  /\ Total > 0 => Count = start[Total] + Solid(Total)
  /\ \A f \in 1..Total : \A q \in 1..Solid(f) :
       /\ start[f] + q \in 1..Count /\ disk.text[f][q].id = confirmed[start[f] + q] /\ disk.text[f][q].whole
  /\ \A i, j \in 1..Count : i < j => confirmed[i] < confirmed[j]
  /\ \A i \in 1..Count : confirmed[i] <= disk.last /\ (disk.doubt => confirmed[i] < disk.last)

DiskInv(start) == DiskShape /\ FilesInv /\ OrderInv(start)

-----------------------------------------------------------------------------
(* The invariant: the scan.                                                *)

OpenFile == [name : 1..Stream, file : Nat, size : Seq(Line), first : Nat]
Scans    == [at : {"start", "list", "open", "relist", "verify", "identify", "read", "done"},
             surely : SUBSET (1..Stream), perhaps : SUBSET (1..Stream), since : Nat,
             paths : Seq(1..Stream), opened : Seq(OpenFile), k : Nat, p : Nat, got : Seq(Nat \ {0})]
Opened   == 1..Len(scan.opened)
Compared == {"verify", "identify", "read", "done"}

ScanShape ==
  /\ scan \in Scans /\ scan.since <= Count /\ Ascending(scan.paths)
  /\ Len(scan.opened) <= Len(scan.paths)
  /\ \A k \in Opened : scan.opened[k].name = scan.paths[k]
  /\ scan.at \in {"start", "list"} => scan.opened = <<>>
  /\ scan.at \in {"relist"} \cup Compared => Len(scan.opened) = Len(scan.paths)
  /\ scan.at \in {"verify", "identify", "read"} => scan.k > 0
  /\ scan.at \notin {"read", "done"} => scan.p = 0 /\ scan.got = <<>>

\* What file f was archived as, and that it was pruned.
ArchivedAs(name, f) == \E i \in Archived : disk.archives[i].name = name /\ disk.archives[i].file = f
Pruned(f)           == \A i \in Archived : f < disk.archives[i].file

\* A file that was opened holds what it held then, but for a last line in doubt; and every line
\* confirmed before the scan was in it.
OpenedAs(start, o, f) ==
  /\ f \in 1..Total
  /\ o.name # Stream => /\ f # disk.current /\ o.size = disk.text[f]
                        /\ ArchivedAs(o.name, f) \/ Pruned(f)
  /\ \A q \in 1..Len(o.size) : q < Len(o.size) => q <= Solid(f) /\ o.size[q] = disk.text[f][q]
  /\ \A q \in 1..Len(disk.text[f]) :
       start[f] + q <= scan.since => q <= Solid(f) /\ q <= Len(o.size) /\ o.size[q] = disk.text[f][q]
OpenedInv(start) ==
  \A k \in Opened :
    /\ \A o, f : o = scan.opened[k] /\ f = o.file => OpenedAs(start, o, f)
    /\ \A j \in Opened : j < k => scan.opened[j].file < scan.opened[k].file

\* The files with lines that were confirmed before the scan.
IsTarget(start, f)   == start[f] < scan.since
CurrentTarget(start) == disk.current # 0 /\ IsTarget(start, disk.current)
HasFile(f)           == \E k \in Opened : scan.opened[k].file = f

\* A file that became an archive after an opened one has a later name.
NamesInv(start) ==
  /\ \A i \in Archived : \A k \in Opened :
       /\ scan.opened[k].name # Stream /\ IsTarget(start, disk.archives[i].file)
       /\ scan.opened[k].file < disk.archives[i].file
       => scan.opened[k].name < disk.archives[i].name
  /\ CurrentTarget(start) /\ Len(disk.archives) = 0 => \A k \in Opened : scan.opened[k].name = Stream

\* What is not opened yet will be listed; what was behind an opened file is listed again.
Behind(i) == \E k \in Opened : disk.archives[i].file < scan.opened[k].file
ListInv(start) == CurrentTarget(start) => Stream \in scan.surely
OpenInv(start) ==
  CurrentTarget(start) =>
    /\ \E m \in 1..Len(scan.paths) : scan.paths[m] = Stream
    /\ \A k \in Opened : scan.opened[k].name = Stream => scan.opened[k].file = disk.current
RelistInv(start) ==
  /\ \A i \in Archived : Behind(i) => disk.archives[i].name \in scan.surely
  /\ \A i \in Archived : IsTarget(start, disk.archives[i].file) =>
       disk.archives[i].name \in scan.surely \/ HasFile(disk.archives[i].file)
  /\ CurrentTarget(start) => HasFile(disk.current)
CoveredInv(start) ==
  /\ \A i \in Archived : IsTarget(start, disk.archives[i].file) => HasFile(disk.archives[i].file)
  /\ CurrentTarget(start) => HasFile(disk.current)
VerifyInv ==
  \A i \in Archived : Behind(i) => \E m \in 1..Len(scan.paths) : scan.paths[m] = disk.archives[i].name

NameInv(start) ==
  /\ NamesInv(start)
  /\ scan.at = "list" => ListInv(start)
  /\ scan.at = "open" => OpenInv(start)
  /\ scan.at = "relist" => RelistInv(start)
  /\ scan.at \in Compared => CoveredInv(start)
  /\ scan.at = "verify" => VerifyInv

\* Files that were verified follow each other; one that has no first line had none.
Consecutive ==
  \A j \in Opened :
    j + 1 \in Opened /\ (scan.at \in {"identify", "read", "done"} \/ (scan.at = "verify" /\ j < scan.k))
    => scan.opened[j + 1].file = scan.opened[j].file + 1
Identified(start) ==
  \A j \in Opened :
    scan.at \in {"read", "done"} \/ (scan.at = "identify" /\ j < scan.k) =>
      LET o == scan.opened[j] IN
      /\ o.name # Stream => o.first # 0
      /\ o.first = 0 => \A q \in 1..Len(disk.text[o.file]) : start[o.file] + q > scan.since

\* A line is whole and not counted yet; it is not taken back.
Unconfirmed == disk.doubt /\ Last(Content).whole

\* What was read are the lines confirmed after the first Base, with at most one behind them, which
\* is whole and waits to be counted.
Base(start) == start[scan.opened[1].file]
Reading     == IF scan.at = "done" THEN Len(scan.opened) + 1 ELSE scan.k
Stray(start) ==
  LET n == Len(scan.got) IN
  Unconfirmed /\ scan.got[n] = disk.last /\ Base(start) + n = Count + 1
GotInv(start) ==
  \A q \in 1..Len(scan.got) :
    \/ Base(start) + q <= Count /\ scan.got[q] = confirmed[Base(start) + q]
    \/ q = Len(scan.got) /\ Stray(start)
ReadInv(start) ==
  /\ Len(scan.opened) = 0 => scan.got = <<>>
  /\ Reading \in Opened =>
       /\ Len(scan.got) = start[scan.opened[Reading].file] + scan.p - Base(start)
       /\ scan.opened[Reading].name # Stream => scan.p <= Len(scan.opened[Reading].size)
  /\ GotInv(start)
  /\ \A j \in Opened : j < Reading =>
       \A q \in 1..Len(disk.text[scan.opened[j].file]) :
         start[scan.opened[j].file] + q <= scan.since => start[scan.opened[j].file] + q <= Base(start) + Len(scan.got)

ScanInv(start) ==
  /\ ScanShape /\ OpenedInv(start) /\ NameInv(start) /\ Consecutive /\ Identified(start)
  /\ scan.at \in {"read", "done"} => ReadInv(start)

JournalInv(start) == DiskInv(start) /\ (scan.at \in {"changed", "damaged"} \/ ScanInv(start))

\* Where the files start is what the invariant is about and no variable says.
ScanJournalInv == \E start \in [1..Total -> Nat] : JournalInv(start)

-----------------------------------------------------------------------------
(* Their parts.                                                            *)

\* The fields of a state of the files.
LEMMA DiskFields ==
  ASSUME DiskShape
  PROVE  /\ disk.keep \in Nat /\ disk.current \in Nat /\ disk.last \in Nat /\ disk.doubt \in BOOLEAN
         /\ disk.archives \in Seq(Archive) /\ disk.text \in Seq(Seq(Line)) /\ confirmed \in Seq(Nat \ {0})
         /\ Len(disk.archives) \in Nat /\ Total \in Nat /\ Count \in Nat
         /\ \A i \in Archived : disk.archives[i].name \in 1..MaxStamp /\ disk.archives[i].file \in Nat
         /\ \A f \in 1..Total : /\ disk.text[f] \in Seq(Line) /\ Len(disk.text[f]) \in Nat
                                /\ \A q \in 1..Len(disk.text[f]) :
                                     disk.text[f][q].id \in Nat \ {0} /\ disk.text[f][q].whole \in BOOLEAN
         /\ \A f \in 1..Total : Solid(f) \in Int /\ Solid(f) <= Len(disk.text[f])
         /\ \A i \in 1..Count : confirmed[i] \in Nat \ {0}
  <1>1. /\ disk.keep \in Nat /\ disk.current \in Nat /\ disk.last \in Nat /\ disk.doubt \in BOOLEAN
        /\ disk.archives \in Seq(Archive) /\ disk.text \in Seq(Seq(Line)) /\ confirmed \in Seq(Nat \ {0})
    BY DEF DiskShape, Disks
  <1>2. Len(disk.archives) \in Nat /\ Total \in Nat /\ Count \in Nat
    BY <1>1, LenProperties DEF Total, Count
  <1>3. \A i \in Archived : disk.archives[i].name \in 1..MaxStamp /\ disk.archives[i].file \in Nat
    <2>1. \A i \in Archived : disk.archives[i] \in Archive
      BY <1>1, ElementOfSeq DEF Archived
    <2>2. QED
      BY <2>1 DEF Archive
  <1>4. \A f \in 1..Total : /\ disk.text[f] \in Seq(Line) /\ Len(disk.text[f]) \in Nat
                            /\ \A q \in 1..Len(disk.text[f]) :
                                 disk.text[f][q].id \in Nat \ {0} /\ disk.text[f][q].whole \in BOOLEAN
    <2> TAKE f \in 1..Total
    <2>1. disk.text[f] \in Seq(Line)
      BY <1>1, ElementOfSeq DEF Total
    <2>2. \A q \in 1..Len(disk.text[f]) : disk.text[f][q] \in Line
      BY <2>1, ElementOfSeq
    <2>3. QED
      BY <2>1, <2>2, LenProperties DEF Line
  <1>5. \A f \in 1..Total : Solid(f) \in Int /\ Solid(f) <= Len(disk.text[f])
    BY <1>4 DEF Solid
  <1>6. \A i \in 1..Count : confirmed[i] \in Nat \ {0}
    BY <1>1, ElementOfSeq DEF Count
  <1>7. QED
    BY <1>1, <1>2, <1>3, <1>4, <1>5, <1>6

\* The fields of a state of the scan.
LEMMA ScanFields ==
  ASSUME Bounds, scan \in Scans
  PROVE  /\ scan.at \in {"start", "list", "open", "relist", "verify", "identify", "read", "done"}
         /\ scan.surely \in SUBSET (1..Stream) /\ scan.perhaps \in SUBSET (1..Stream) /\ scan.since \in Nat
         /\ scan.paths \in Seq(1..Stream) /\ scan.opened \in Seq(OpenFile)
         /\ scan.k \in Nat /\ scan.p \in Nat /\ scan.got \in Seq(Nat \ {0})
         /\ Len(scan.paths) \in Nat /\ Len(scan.opened) \in Nat /\ Len(scan.got) \in Nat
         /\ Stream \in Nat /\ MaxStamp \in Nat /\ Stream = MaxStamp + 1
         /\ \A m \in 1..Len(scan.paths) : scan.paths[m] \in 1..Stream
         /\ \A k \in Opened : /\ scan.opened[k] \in OpenFile
                              /\ scan.opened[k].name \in 1..Stream /\ scan.opened[k].file \in Nat
                              /\ scan.opened[k].size \in Seq(Line) /\ Len(scan.opened[k].size) \in Nat
                              /\ scan.opened[k].first \in Nat
         /\ \A q \in 1..Len(scan.got) : scan.got[q] \in Nat \ {0}
  <1>1. /\ scan.at \in {"start", "list", "open", "relist", "verify", "identify", "read", "done"}
        /\ scan.surely \in SUBSET (1..Stream) /\ scan.perhaps \in SUBSET (1..Stream) /\ scan.since \in Nat
        /\ scan.paths \in Seq(1..Stream) /\ scan.opened \in Seq(OpenFile)
        /\ scan.k \in Nat /\ scan.p \in Nat /\ scan.got \in Seq(Nat \ {0})
    BY DEF Scans
  <1>2. Stream \in Nat /\ MaxStamp \in Nat /\ Stream = MaxStamp + 1
    BY DEF Stream, Bounds
  <1>3. Len(scan.paths) \in Nat /\ Len(scan.opened) \in Nat /\ Len(scan.got) \in Nat
    BY <1>1, LenProperties
  <1>4. \A m \in 1..Len(scan.paths) : scan.paths[m] \in 1..Stream
    BY <1>1, ElementOfSeq
  <1>5. \A k \in Opened : scan.opened[k] \in OpenFile
    BY <1>1, ElementOfSeq DEF Opened
  <1>6. \A q \in 1..Len(scan.got) : scan.got[q] \in Nat \ {0}
    BY <1>1, ElementOfSeq
  <1>7. \A k \in Opened : /\ scan.opened[k].name \in 1..Stream /\ scan.opened[k].file \in Nat
                          /\ scan.opened[k].size \in Seq(Line) /\ Len(scan.opened[k].size) \in Nat
                          /\ scan.opened[k].first \in Nat
    BY <1>5, LenProperties DEF OpenFile
  <1>8. QED
    BY <1>1, <1>2, <1>3, <1>4, <1>5, <1>6, <1>7

\* The archives, the current file and what is solid.
LEMMA FilesFacts ==
  ASSUME NEW start, DiskInv(start)
  PROVE  /\ disk.current \in 0..Total /\ Rolled \in Nat /\ Rolled <= Total
         /\ disk.current # 0 => disk.current = Total /\ Rolled = Total - 1 /\ Len(disk.archives) <= disk.keep
         /\ disk.current = 0 => Rolled = Total
         /\ \A i \in Archived : disk.archives[i].file \in 1..Rolled /\ disk.archives[i].file # disk.current
         /\ \A i, j \in Archived : i < j => disk.archives[i].file < disk.archives[j].file
         /\ \A i, j \in Archived : disk.archives[i].name = disk.archives[j].name \/ disk.archives[i].file = disk.archives[j].file
                                   => i = j
         /\ \A f \in 1..Total : Solid(f) \in Nat /\ (f # disk.current => Solid(f) = Len(disk.text[f]) /\ Solid(f) > 0)
         /\ \A f \in 1..Total : start[f] \in Nat /\ start[f] + Solid(f) <= Count
         /\ \A f \in 1..Total : \A q \in 1..Len(disk.text[f]) :
              q <= Solid(f) \/ (f = disk.current /\ disk.doubt /\ q = Len(disk.text[f]) /\ start[f] + q = Count + 1)
  <1>1. DiskShape /\ FilesInv /\ OrderInv(start)
    BY DEF DiskInv
  <1>2. /\ disk.current \in Nat /\ Total \in Nat /\ Len(disk.archives) \in Nat /\ disk.doubt \in BOOLEAN
        /\ \A i \in Archived : disk.archives[i].name \in 1..MaxStamp /\ disk.archives[i].file \in Nat
        /\ \A f \in 1..Total : Len(disk.text[f]) \in Nat
        /\ \A f \in 1..Total : Solid(f) \in Int /\ Solid(f) <= Len(disk.text[f])
        /\ Count \in Nat /\ disk.keep \in Nat
    BY <1>1, DiskFields
  <1>3. /\ disk.current \in 0..Total
        /\ disk.current # 0 => disk.current = Total /\ Rolled = Total - 1 /\ Len(disk.archives) <= disk.keep
        /\ disk.current = 0 => Rolled = Total
    BY <1>1, <1>2 DEF FilesInv, Rolled
  <1>4. Rolled \in Nat /\ Rolled <= Total
    BY <1>2, <1>3
  <1>5. /\ Len(disk.archives) <= Rolled
        /\ \A i \in Archived : disk.archives[i].file = Rolled - Len(disk.archives) + i
        /\ \A i, j \in Archived : i < j => disk.archives[i].name < disk.archives[j].name
    BY <1>1 DEF FilesInv
  <1>6. /\ \A i \in Archived : disk.archives[i].file \in 1..Rolled /\ disk.archives[i].file # disk.current
        /\ \A i, j \in Archived : i < j => disk.archives[i].file < disk.archives[j].file
    <2> DEFINE A == Len(disk.archives)
    <2>1. A \in Nat /\ A <= Rolled /\ \A i \in 1..A : disk.archives[i].file = Rolled - A + i
      BY <1>2, <1>5 DEF Archived
    <2> HIDE DEF A
    <2>2. \A i \in 1..A : disk.archives[i].file \in 1..Rolled
      BY <1>4, <2>1
    <2>3. \A i, j \in 1..A : i < j => disk.archives[i].file < disk.archives[j].file
      BY <1>4, <2>1
    <2>4. \A i \in 1..A : disk.archives[i].file # disk.current
      BY <1>2, <1>3, <1>4, <2>2
    <2>5. QED
      BY <2>2, <2>3, <2>4 DEF Archived, A
  <1>7. \A i, j \in Archived : disk.archives[i].name = disk.archives[j].name \/ disk.archives[i].file = disk.archives[j].file
                               => i = j
    <2> SUFFICES ASSUME NEW i \in Archived, NEW j \in Archived, i # j
                 PROVE  disk.archives[i].name # disk.archives[j].name /\ disk.archives[i].file # disk.archives[j].file
      OBVIOUS
    <2>1. i < j \/ j < i
      BY <1>2 DEF Archived
    <2>2. QED
      BY <1>2, <1>5, <1>6, <2>1
  <1>8. \A f \in 1..Total : Solid(f) \in Nat /\ (f # disk.current => Solid(f) = Len(disk.text[f]) /\ Solid(f) > 0)
    BY <1>1, <1>2 DEF FilesInv, Solid
  <1>9. \A f \in 1..Total : start[f] \in Nat
    BY <1>1 DEF OrderInv
  <1>10. Total > 0 => Count = start[Total] + Solid(Total)
    BY <1>1 DEF OrderInv
  <1>11. \A f \in 1..Total : start[f] + Solid(f) <= Count
    <2> TAKE f \in 1..Total
    <2>1. Total \in 1..Total /\ start[Total] \in Nat /\ Solid(Total) \in Nat /\ start[f] \in Nat /\ Solid(f) \in Nat
      BY <1>2, <1>8, <1>9
    <2>2. CASE f = Total
      BY <1>2, <1>10, <2>1, <2>2
    <2>3. CASE f < Total
      <3>1. start[f] + Len(disk.text[f]) <= start[Total]
        BY <1>1, <2>1, <2>3 DEF OrderInv
      <3>2. Count = start[Total] + Solid(Total) /\ Solid(f) <= Len(disk.text[f]) /\ Len(disk.text[f]) \in Nat
        BY <1>2, <1>10, <2>1
      <3>3. \A a, b, c, d, e \in Nat : a + b <= c /\ e <= b => a + e <= c + d
        OBVIOUS
      <3>4. QED
        BY <2>1, <3>1, <3>2, <3>3
    <2>4. QED
      BY <1>2, <2>2, <2>3
  <1>12. ASSUME NEW f \in 1..Total, NEW q \in 1..Len(disk.text[f]), q > Solid(f)
         PROVE  f = disk.current /\ disk.doubt /\ q = Len(disk.text[f]) /\ start[f] + q = Count + 1
    <2>1. f = disk.current /\ disk.doubt /\ Solid(f) = Len(disk.text[f]) - 1
      BY <1>2, <1>12 DEF Solid
    <2>2. f = Total /\ q = Len(disk.text[f])
      BY <1>2, <1>3, <1>12, <2>1
    <2>3. start[f] \in Nat /\ Len(disk.text[f]) \in Nat
      BY <1>2, <1>9
    <2>4. Count = start[f] + Solid(f)
      BY <1>2, <1>10, <2>2
    <2>5. start[f] + q = Count + 1
      <3>1. \A a, b, c, d \in Int : d = b - 1 /\ c = a + d => a + b = c + 1
        OBVIOUS
      <3>2. Solid(f) \in Int /\ Count \in Int
        BY <1>2
      <3>3. QED
        BY <2>1, <2>2, <2>3, <2>4, <3>1, <3>2
    <2>6. QED
      BY <2>1, <2>2, <2>5
  <1>13. QED
    BY <1>2, <1>3, <1>4, <1>6, <1>7, <1>8, <1>9, <1>11, <1>12

-----------------------------------------------------------------------------
(* What a step of the writer leaves as it was.                             *)

\* Lines that cannot be taken back stay, new ones come behind those that are confirmed, and
\* only the last line in doubt is confirmed.  s is where the files start then.
WrittenOn(start, s) ==
  /\ Total' \in Nat /\ Total' >= Total /\ Count' \in Nat /\ \A f \in 1..Total : s[f] = start[f]
  /\ \A f \in 1..Total : \A q \in 1..Solid(f) : q <= Solid(f)' /\ disk'.text[f][q] = disk.text[f][q]
  /\ \A f \in 1..Total : Len(disk'.text[f]) \in Nat
  /\ \A f \in 1..Total : \A q \in 1..Len(disk'.text[f]) : q <= Solid(f) \/ start[f] + q > Count
  /\ \A f \in 1..Total : f # disk.current => f # disk'.current /\ disk'.text[f] = disk.text[f]
  /\ \A f \in 1..Total : f # disk.current /\ Pruned(f) => Pruned(f)'
  /\ \A f \in 1..Total : \A name \in 1..MaxStamp :
       f # disk.current /\ ArchivedAs(name, f) => ArchivedAs(name, f)' \/ Pruned(f)'
  /\ \/ Count' = Count
     \/ Count' = Count + 1 /\ disk.doubt /\ ~disk'.doubt /\ confirmed'[Count + 1] = disk.last
  /\ \A i \in 1..Count : confirmed'[i] = confirmed[i]
  /\ disk'.last \in Nat /\ disk'.last >= disk.last
  /\ disk'.doubt => disk'.last = IF disk.doubt THEN disk.last ELSE disk.last + 1
  /\ Unconfirmed => Count' = Count + 1 \/ (Unconfirmed' /\ disk'.last = disk.last)

ScanStays ==
  /\ scan'.at = scan.at /\ scan'.since = scan.since /\ scan'.paths = scan.paths
  /\ scan'.opened = scan.opened /\ scan'.k = scan.k /\ scan'.p = scan.p /\ scan'.got = scan.got
  /\ scan' \in Scans
  /\ \A name \in scan.surely : name \in Listed(disk') => name \in scan'.surely

LEMMA MovesFacts ==
  ASSUME Bounds, scan \in Scans, NEW d, Moves(d), Listed(d) \subseteq 1..Stream
  PROVE  disk' = d /\ ScanStays
  <1>1. disk' = d /\ scan' = Noticed(d)
    BY DEF Moves
  <1>2. scan.surely \cap Listed(d) \in SUBSET (1..Stream) /\ scan.perhaps \cup Listed(d) \in SUBSET (1..Stream)
    BY DEF Scans
  <1>3. CASE scan.at \in {"list", "relist"}
    <2>1. scan' = [scan EXCEPT !.surely = @ \cap Listed(d), !.perhaps = @ \cup Listed(d)]
      BY <1>1, <1>3 DEF Noticed
    <2>2. /\ scan'.at = scan.at /\ scan'.since = scan.since /\ scan'.paths = scan.paths
          /\ scan'.opened = scan.opened /\ scan'.k = scan.k /\ scan'.p = scan.p /\ scan'.got = scan.got
          /\ scan'.surely = scan.surely \cap Listed(d)
      BY <2>1 DEF Scans
    <2>3. scan' \in Scans
      BY <1>2, <2>1 DEF Scans
    <2>4. QED
      BY <1>1, <2>2, <2>3 DEF ScanStays
  <1>4. CASE scan.at \notin {"list", "relist"}
    <2>1. scan' = scan
      BY <1>1, <1>4 DEF Noticed
    <2>2. QED
      BY <1>1, <2>1 DEF ScanStays
  <1>5. QED
    BY <1>3, <1>4

LEMMA StaysShape ==
  ASSUME Bounds, NEW start, NEW s, ScanShape, Count \in Nat, WrittenOn(start, s), ScanStays
  PROVE  ScanShape' /\ Consecutive' = Consecutive
  <1>1. /\ scan'.at = scan.at /\ scan'.since = scan.since /\ scan'.paths = scan.paths
        /\ scan'.opened = scan.opened /\ scan'.k = scan.k /\ scan'.p = scan.p /\ scan'.got = scan.got
        /\ scan' \in Scans
    BY DEF ScanStays
  <1>2. scan.since \in Nat /\ scan.since <= Count
    BY DEF ScanShape, Scans
  <1>3. Count' >= Count /\ Count' \in Nat
    BY DEF WrittenOn
  <1>4. scan'.since <= Count'
    BY <1>1, <1>2, <1>3
  <1>5. ScanShape'
    BY <1>1, <1>4 DEF ScanShape, Ascending, Opened, Compared
  <1>6. Opened' = Opened
    BY <1>1 DEF Opened
  <1>7. QED
    BY <1>1, <1>5, <1>6 DEF Consecutive

LEMMA StaysOpened ==
  ASSUME Bounds, NEW start, NEW s, DiskInv(start), ScanShape, OpenedInv(start), WrittenOn(start, s), ScanStays
  PROVE  OpenedInv(s)'
  <1>1. /\ scan'.since = scan.since /\ scan'.opened = scan.opened /\ Opened' = Opened
    BY DEF ScanStays, Opened
  <1>2. /\ scan.since \in Nat /\ scan.since <= Count
        /\ \A k \in Opened : /\ scan.opened[k].name \in 1..Stream /\ Len(scan.opened[k].size) \in Nat
        /\ Stream = MaxStamp + 1 /\ MaxStamp \in Nat
    BY ScanFields DEF ScanShape
  <1>3. /\ Count \in Nat /\ Total \in Nat
        /\ \A f \in 1..Total : start[f] \in Nat /\ Solid(f) \in Nat
    BY DiskFields, FilesFacts DEF DiskInv
  <1> SUFFICES ASSUME NEW k \in Opened, NEW o, o = scan.opened[k], NEW f, f = o.file
               PROVE  OpenedAs(s, o, f)'
    BY <1>1 DEF OpenedInv
  <1>4. /\ f \in 1..Total
        /\ o.name # Stream => /\ f # disk.current /\ o.size = disk.text[f]
                              /\ ArchivedAs(o.name, f) \/ Pruned(f)
        /\ \A q \in 1..Len(o.size) : q < Len(o.size) => q <= Solid(f) /\ o.size[q] = disk.text[f][q]
        /\ \A q \in 1..Len(disk.text[f]) :
             start[f] + q <= scan.since => q <= Solid(f) /\ q <= Len(o.size) /\ o.size[q] = disk.text[f][q]
    <2>1. OpenedAs(start, o, f)
      BY DEF OpenedInv
    <2>2. QED
      BY <2>1 DEF OpenedAs
  <1>5. o.name \in 1..Stream /\ Len(o.size) \in Nat
    BY <1>2
  <1>6. f \in 1..Total' /\ s[f] = start[f]
    BY <1>3, <1>4 DEF WrittenOn
  <1>7. o.name # Stream => /\ f # disk'.current /\ o.size = disk'.text[f]
                           /\ ArchivedAs(o.name, f)' \/ Pruned(f)'
    <2> SUFFICES ASSUME o.name # Stream
                 PROVE  f # disk'.current /\ o.size = disk'.text[f] /\ (ArchivedAs(o.name, f)' \/ Pruned(f)')
      OBVIOUS
    <2>1. o.name \in 1..MaxStamp
      BY <1>2, <1>5
    <2>2. f # disk'.current /\ disk'.text[f] = disk.text[f]
      BY <1>4 DEF WrittenOn
    <2>3. ArchivedAs(o.name, f)' \/ Pruned(f)'
      BY <1>4, <2>1 DEF WrittenOn
    <2>4. QED
      BY <1>4, <2>2, <2>3
  <1>8. \A q \in 1..Solid(f) : q <= Solid(f)' /\ disk'.text[f][q] = disk.text[f][q]
    BY <1>4 DEF WrittenOn
  <1>9. \A q \in 1..Len(o.size) : q < Len(o.size) => q <= Solid(f)' /\ o.size[q] = disk'.text[f][q]
    <2> TAKE q \in 1..Len(o.size)
    <2> HAVE q < Len(o.size)
    <2>1. q <= Solid(f) /\ o.size[q] = disk.text[f][q]
      BY <1>4
    <2>2. q \in 1..Solid(f)
      BY <1>3, <1>4, <1>5, <2>1
    <2>3. QED
      BY <1>8, <2>1, <2>2
  <1>10. \A q \in 1..Len(disk'.text[f]) :
           s[f] + q <= scan.since => q <= Solid(f)' /\ q <= Len(o.size) /\ o.size[q] = disk'.text[f][q]
    <2> TAKE q \in 1..Len(disk'.text[f])
    <2> HAVE s[f] + q <= scan.since
    <2>1. Len(disk'.text[f]) \in Nat /\ (q <= Solid(f) \/ start[f] + q > Count)
      BY <1>4 DEF WrittenOn
    <2>2. q \in 1..Solid(f) /\ start[f] + q <= scan.since
      <3>1. start[f] + q <= scan.since /\ q \in Nat /\ q > 0
        BY <1>6, <2>1
      <3>2. \A a, b, x, y \in Nat : a + b <= x /\ x <= y => ~(a + b > y)
        OBVIOUS
      <3>3. start[f] \in Nat /\ Solid(f) \in Nat
        BY <1>3, <1>4
      <3>4. ~(start[f] + q > Count)
        BY <1>2, <1>3, <3>1, <3>2, <3>3
      <3>5. q <= Solid(f)
        BY <2>1, <3>4
      <3>6. QED
        BY <3>1, <3>3, <3>5
    <2>3. q \in 1..Len(disk.text[f])
      <3>1. Len(disk.text[f]) \in Nat /\ Solid(f) <= Len(disk.text[f])
        BY <1>4, DiskFields DEF DiskInv
      <3>2. QED
        BY <1>3, <1>4, <2>2, <3>1
    <2>4. q <= Len(o.size) /\ o.size[q] = disk.text[f][q]
      BY <1>4, <2>2, <2>3
    <2>5. QED
      BY <1>8, <2>2, <2>4
  <1>11. QED
    BY <1>1, <1>6, <1>7, <1>9, <1>10 DEF OpenedAs

LEMMA StaysIdentified ==
  ASSUME Bounds, NEW start, NEW s, DiskInv(start), ScanShape, OpenedInv(start), Identified(start),
         WrittenOn(start, s), ScanStays
  PROVE  Identified(s)'
  <1>1. /\ scan'.since = scan.since /\ scan'.opened = scan.opened /\ Opened' = Opened
        /\ scan'.at = scan.at /\ scan'.k = scan.k
    BY DEF ScanStays, Opened
  <1>2. /\ scan.since \in Nat /\ scan.since <= Count /\ Count \in Nat
        /\ \A f \in 1..Total : start[f] \in Nat /\ Solid(f) \in Nat
    BY ScanFields, DiskFields, FilesFacts DEF ScanShape, DiskInv
  <1> SUFFICES ASSUME NEW j \in Opened,
                      scan.at \in {"read", "done"} \/ (scan.at = "identify" /\ j < scan.k),
                      NEW o, o = scan.opened[j], NEW f, f = o.file
               PROVE  /\ o.name # Stream => o.first # 0
                      /\ o.first = 0 => \A q \in 1..Len(disk'.text[f]) : s[f] + q > scan.since
    BY <1>1 DEF Identified
  <1>3. /\ o.name # Stream => o.first # 0
        /\ o.first = 0 => \A q \in 1..Len(disk.text[f]) : start[f] + q > scan.since
    BY DEF Identified
  <1>4. f \in 1..Total
    <2>1. OpenedAs(start, o, f)
      BY DEF OpenedInv
    <2>2. QED
      BY <2>1 DEF OpenedAs
  <1>5. ASSUME o.first = 0, NEW q \in 1..Len(disk'.text[f]) PROVE s[f] + q > scan.since
    <2>1. s[f] = start[f] /\ Len(disk'.text[f]) \in Nat /\ (q <= Solid(f) \/ start[f] + q > Count)
      BY <1>4 DEF WrittenOn
    <2>2. CASE q <= Solid(f)
      <3>1. Len(disk.text[f]) \in Nat /\ Solid(f) <= Len(disk.text[f])
        BY <1>4, DiskFields DEF DiskInv
      <3>2. q \in 1..Len(disk.text[f])
        BY <1>2, <1>4, <2>1, <2>2, <3>1
      <3>3. QED
        BY <1>3, <1>5, <2>1, <3>2
    <2>3. CASE start[f] + q > Count
      BY <1>2, <1>4, <2>1, <2>3
    <2>4. QED
      BY <2>1, <2>2, <2>3
  <1>6. QED
    BY <1>3, <1>5

LEMMA StaysRead ==
  ASSUME Bounds, NEW start, NEW s, DiskInv(start), ScanShape, OpenedInv(start), ReadInv(start),
         WrittenOn(start, s), ScanStays
  PROVE  ReadInv(s)'
  <1>1. /\ scan'.since = scan.since /\ scan'.opened = scan.opened /\ Opened' = Opened
        /\ scan'.at = scan.at /\ scan'.k = scan.k /\ scan'.p = scan.p /\ scan'.got = scan.got
        /\ Reading' = Reading
    BY DEF ScanStays, Opened, Reading
  <1>2. /\ scan.since \in Nat /\ scan.since <= Count /\ Count \in Nat
        /\ \A f \in 1..Total : start[f] \in Nat /\ Solid(f) \in Nat
        /\ Len(scan.opened) \in Nat /\ Len(scan.got) \in Nat
        /\ disk.last \in Nat /\ \A q \in 1..Len(scan.got) : scan.got[q] \in Nat
    BY ScanFields, DiskFields, FilesFacts DEF ScanShape, DiskInv
  <1>3. \A j \in Opened : scan.opened[j].file \in 1..Total
    <2> TAKE j \in Opened
    <2> DEFINE o == scan.opened[j]
    <2>1. OpenedAs(start, o, o.file)
      BY DEF OpenedInv
    <2>2. QED
      BY <2>1 DEF OpenedAs
  <1>4. \A j \in Opened : s[scan.opened[j].file] = start[scan.opened[j].file]
    BY <1>3 DEF WrittenOn
  <1>5. scan.opened # <<>> => 1 \in Opened
    BY <1>2, ScanFields DEF Opened, ScanShape
  <1>6. Len(scan.got) > 0 => 1 \in Opened
    BY <1>2, <1>5 DEF ReadInv, Opened
  <1>7. 1 \in Opened => Base(s)' = Base(start) /\ Base(start) \in Nat
    BY <1>1, <1>2, <1>3, <1>4 DEF Base
  <1>8. Count' >= Count /\ Count' \in Nat
    BY <1>2 DEF WrittenOn
  <1>9. Reading' \in Opened' =>
          /\ Len(scan'.got) = s[scan'.opened[Reading'].file] + scan'.p - Base(s)'
          /\ scan'.opened[Reading'].name # Stream => scan'.p <= Len(scan'.opened[Reading'].size)
    <2> SUFFICES ASSUME Reading \in Opened
                 PROVE  /\ Len(scan.got) = s[scan.opened[Reading].file] + scan.p - Base(s)'
                        /\ scan.opened[Reading].name # Stream => scan.p <= Len(scan.opened[Reading].size)
      BY <1>1
    <2>1. 1 \in Opened
      BY <1>2 DEF Opened
    <2>2. s[scan.opened[Reading].file] = start[scan.opened[Reading].file]
      BY <1>4
    <2>3. QED
      BY <1>7, <2>1, <2>2 DEF ReadInv
  <1>10. GotInv(s)'
    <2> SUFFICES ASSUME NEW q \in 1..Len(scan.got)
                 PROVE  \/ Base(s)' + q <= Count' /\ scan.got[q] = confirmed'[Base(s)' + q]
                        \/ q = Len(scan.got) /\ Stray(s)'
      BY <1>1 DEF GotInv
    <2>1. 1 \in Opened /\ Base(s)' = Base(start) /\ Base(start) \in Nat
      BY <1>2, <1>6, <1>7
    <2>2. CASE Base(start) + q <= Count /\ scan.got[q] = confirmed[Base(start) + q]
      <3>1. Base(start) + q \in 1..Count /\ Base(start) + q <= Count'
        BY <1>2, <1>8, <2>1, <2>2
      <3>2. confirmed'[Base(start) + q] = confirmed[Base(start) + q]
        BY <3>1 DEF WrittenOn
      <3>3. QED
        BY <2>1, <2>2, <3>1, <3>2
    <2>3. CASE q = Len(scan.got) /\ Stray(start)
      <3> DEFINE n == Len(scan.got)
      <3>1. Unconfirmed /\ scan.got[n] = disk.last /\ Base(start) + n = Count + 1 /\ n = q
        BY <2>3 DEF Stray
      <3> HIDE DEF n
      <3>2. CASE Count' = Count + 1
        <4>1. confirmed'[Count + 1] = disk.last
          BY <1>2, <3>2 DEF WrittenOn
        <4>2. QED
          BY <1>2, <2>1, <3>1, <3>2, <4>1
      <3>3. CASE Count' # Count + 1
        <4>1. Unconfirmed' /\ disk'.last = disk.last /\ Count' = Count
          BY <3>1, <3>3 DEF WrittenOn
        <4>2. Stray(s)'
          BY <1>1, <2>1, <3>1, <4>1 DEF Stray, n
        <4>3. QED
          BY <2>3, <4>2
      <3>4. QED
        BY <3>2, <3>3
    <2>4. QED
      BY <2>2, <2>3 DEF ReadInv, GotInv
  <1>11. \A j \in Opened' : j < Reading' =>
          \A q \in 1..Len(disk'.text[scan'.opened[j].file]) :
            s[scan'.opened[j].file] + q <= scan'.since => s[scan'.opened[j].file] + q <= Base(s)' + Len(scan'.got)
    <2> SUFFICES ASSUME NEW j \in Opened, j < Reading, NEW f, f = scan.opened[j].file,
                        NEW q \in 1..Len(disk'.text[f]), s[f] + q <= scan.since
                 PROVE  s[f] + q <= Base(s)' + Len(scan.got)
      BY <1>1
    <2>1. f \in 1..Total /\ s[f] = start[f]
      BY <1>3, <1>4
    <2>2. Len(disk'.text[f]) \in Nat /\ (q <= Solid(f) \/ start[f] + q > Count)
      BY <2>1 DEF WrittenOn
    <2>3. q <= Solid(f)
      BY <1>2, <2>1, <2>2
    <2>4. Len(disk.text[f]) \in Nat /\ Solid(f) <= Len(disk.text[f])
      BY <2>1, DiskFields DEF DiskInv
    <2>5. q \in 1..Len(disk.text[f])
      BY <1>2, <2>1, <2>2, <2>3, <2>4
    <2>6. start[f] + q <= Base(start) + Len(scan.got)
      BY <2>1, <2>5 DEF ReadInv
    <2>7. 1 \in Opened
      BY <1>2 DEF Opened
    <2>8. QED
      BY <1>7, <2>1, <2>6, <2>7
  <1>12. Len(scan'.opened) = 0 => scan'.got = <<>>
    BY <1>1 DEF ReadInv
  <1>13. QED
    BY <1>9, <1>10, <1>11, <1>12 DEF ReadInv

\* The names, where no file was rolled.
LEMMA StaysNames ==
  ASSUME Bounds, NEW start, NEW s, DiskInv(start), ScanShape, NameInv(start), WrittenOn(start, s), ScanStays,
         disk'.archives \in Seq(Archive),
         \A i \in Archived' : \E j \in Archived : disk.archives[j] = disk'.archives[i],
         CurrentTarget(s)' => disk'.current = disk.current /\ disk'.archives = disk.archives
  PROVE  NameInv(s)'
  <1>1. /\ scan'.since = scan.since /\ scan'.opened = scan.opened /\ Opened' = Opened
        /\ scan'.at = scan.at /\ scan'.paths = scan.paths
        /\ \A name \in scan.surely : name \in Listed(disk') => name \in scan'.surely
    BY DEF ScanStays, Opened
  <1>2. \A i \in Archived' : disk'.archives[i].name \in Listed(disk')
    <2>1. Archived' = DOMAIN disk'.archives
      BY DEF Archived
    <2>2. QED
      BY <2>1 DEF Listed
  <1>3. disk'.current # 0 => Stream \in Listed(disk')
    BY DEF Listed
  <1>4. ASSUME NEW i \in Archived'
        PROVE  \E j \in Archived : /\ disk.archives[j].name = disk'.archives[i].name
                                   /\ disk.archives[j].file = disk'.archives[i].file
                                   /\ s[disk.archives[j].file] = start[disk.archives[j].file]
    <2>1. PICK j \in Archived : disk.archives[j] = disk'.archives[i]
      OBVIOUS
    <2>2. disk.archives[j].file \in 1..Total
      BY FilesFacts, DiskFields DEF DiskInv
    <2>3. QED
      BY <2>1, <2>2 DEF WrittenOn
  <1>5. CurrentTarget(s)' => /\ CurrentTarget(start) /\ disk'.current = disk.current
                             /\ disk'.archives = disk.archives /\ disk'.current # 0
    <2> SUFFICES ASSUME CurrentTarget(s)' PROVE CurrentTarget(start) /\ disk'.current # 0
      OBVIOUS
    <2>1. disk'.current # 0 /\ disk'.current = disk.current /\ s[disk'.current] < scan.since
      BY <1>1 DEF CurrentTarget, IsTarget
    <2>2. disk.current \in 1..Total
      BY <2>1, FilesFacts, DiskFields DEF DiskInv
    <2>3. s[disk.current] = start[disk.current]
      BY <2>2 DEF WrittenOn
    <2>4. QED
      BY <2>1, <2>3 DEF CurrentTarget, IsTarget
  <1>6. NamesInv(s)'
    <2>1. ASSUME NEW i \in Archived', NEW k \in Opened, scan.opened[k].name # Stream,
                 s[disk'.archives[i].file] < scan.since, scan.opened[k].file < disk'.archives[i].file
          PROVE  scan.opened[k].name < disk'.archives[i].name
      <3>1. PICK j \in Archived : /\ disk.archives[j].name = disk'.archives[i].name
                                  /\ disk.archives[j].file = disk'.archives[i].file
                                  /\ s[disk.archives[j].file] = start[disk.archives[j].file]
        BY <1>4
      <3>2. QED
        BY <2>1, <3>1 DEF NameInv, NamesInv, IsTarget
    <2>2. ASSUME CurrentTarget(s)', Len(disk'.archives) = 0, NEW k \in Opened PROVE scan.opened[k].name = Stream
      BY <1>5, <2>2 DEF NameInv, NamesInv
    <2>3. QED
      BY <1>1, <2>1, <2>2 DEF NamesInv, IsTarget
  <1>7. scan'.at = "list" => ListInv(s)'
    BY <1>1, <1>3, <1>5 DEF NameInv, ListInv
  <1>8. scan'.at = "open" => OpenInv(s)'
    BY <1>1, <1>5 DEF NameInv, OpenInv
  <1>9. ASSUME NEW i \in Archived', scan.at \in {"relist", "verify"} \cup Compared
        PROVE  /\ scan.at = "relist" => /\ Behind(i)' => disk'.archives[i].name \in scan'.surely
                                        /\ s[disk'.archives[i].file] < scan.since =>
                                             disk'.archives[i].name \in scan'.surely \/ HasFile(disk'.archives[i].file)
               /\ scan.at = "verify" => (Behind(i)' => \E m \in 1..Len(scan.paths) : scan.paths[m] = disk'.archives[i].name)
               /\ scan.at \in Compared => (s[disk'.archives[i].file] < scan.since => HasFile(disk'.archives[i].file))
    <2>1. PICK j \in Archived : /\ disk.archives[j].name = disk'.archives[i].name
                                /\ disk.archives[j].file = disk'.archives[i].file
                                /\ s[disk.archives[j].file] = start[disk.archives[j].file]
      BY <1>4
    <2>2. /\ Behind(i)' <=> Behind(j)
          /\ HasFile(disk'.archives[i].file) <=> HasFile(disk.archives[j].file)
          /\ s[disk'.archives[i].file] < scan.since <=> IsTarget(start, disk.archives[j].file)
      <3>1. Behind(i)' <=> Behind(j)
        BY <1>1, <2>1 DEF Behind
      <3>2. HasFile(disk'.archives[i].file) <=> HasFile(disk.archives[j].file)
        BY <2>1
      <3>3. QED
        BY <2>1, <3>1, <3>2 DEF IsTarget
    <2>3. disk.archives[j].name \in scan.surely => disk'.archives[i].name \in scan'.surely
      BY <1>1, <1>2, <2>1
    <2>4. scan.at = "relist" => /\ Behind(j) => disk.archives[j].name \in scan.surely
                                /\ IsTarget(start, disk.archives[j].file) =>
                                     disk.archives[j].name \in scan.surely \/ HasFile(disk.archives[j].file)
      BY DEF NameInv, RelistInv
    <2>5. scan.at = "verify" => (Behind(j) => \E m \in 1..Len(scan.paths) : scan.paths[m] = disk.archives[j].name)
      BY DEF NameInv, VerifyInv
    <2>6. scan.at \in Compared => (IsTarget(start, disk.archives[j].file) => HasFile(disk.archives[j].file))
      BY DEF NameInv, CoveredInv
    <2>7. QED
      BY <2>1, <2>2, <2>3, <2>4, <2>5, <2>6
  <1>10. scan.at \in {"relist"} \cup Compared /\ CurrentTarget(s)' => HasFile(disk'.current)
    <2> SUFFICES ASSUME scan.at \in {"relist"} \cup Compared, CurrentTarget(s)' PROVE HasFile(disk'.current)
      OBVIOUS
    <2>1. HasFile(disk.current)
      BY <1>5 DEF NameInv, RelistInv, CoveredInv
    <2>2. QED
      BY <1>5, <2>1
  <1>11. scan'.at = "relist" => RelistInv(s)'
    BY <1>1, <1>9, <1>10 DEF RelistInv, IsTarget, HasFile
  <1>12. scan'.at \in Compared => CoveredInv(s)'
    BY <1>1, <1>9, <1>10 DEF CoveredInv, IsTarget, HasFile
  <1>13. scan'.at = "verify" => VerifyInv'
    BY <1>1, <1>9 DEF VerifyInv
  <1>14. QED
    BY <1>1, <1>6, <1>7, <1>8, <1>11, <1>12, <1>13 DEF NameInv, Compared

LEMMA RollsNames ==
  ASSUME Bounds, NEW start, DiskInv(start), ScanShape, OpenedInv(start), NameInv(start),
         WrittenOn(start, start), ScanStays,
         disk.current # 0, disk'.current = 0, NEW stamp \in 1..MaxStamp,
         Len(disk.archives) > 0 => stamp > disk.archives[Len(disk.archives)].name,
         disk'.archives = Append(disk.archives, [name |-> stamp, file |-> disk.current])
  PROVE  NameInv(start)'
  <1> DEFINE A == Len(disk.archives)
             c == disk.current
  <1>1. /\ scan'.since = scan.since /\ scan'.opened = scan.opened /\ Opened' = Opened
        /\ scan'.at = scan.at /\ scan'.paths = scan.paths
        /\ \A name \in scan.surely : name \in Listed(disk') => name \in scan'.surely
    BY DEF ScanStays, Opened
  <1>2. /\ A \in Nat /\ Archived = 1..A /\ disk.archives \in Seq(Archive) /\ c = Total /\ c \in 1..Total
        /\ Rolled = Total - 1 /\ Total \in Nat
        /\ \A i \in Archived : /\ disk.archives[i].name \in 1..MaxStamp
                               /\ disk.archives[i].file \in 1..Rolled
        /\ \A f \in 1..Total : start[f] \in Nat /\ Len(disk.text[f]) \in Nat
        /\ MaxStamp \in Nat
    <2>1. /\ A \in Nat /\ Archived = 1..A /\ disk.archives \in Seq(Archive) /\ Total \in Nat
          /\ \A i \in Archived : disk.archives[i].name \in 1..MaxStamp
          /\ \A f \in 1..Total : Len(disk.text[f]) \in Nat
      BY DiskFields DEF DiskInv, Archived
    <2>2. /\ c = Total /\ c \in 0..Total /\ c # 0 /\ Rolled = Total - 1
          /\ \A i \in Archived : disk.archives[i].file \in 1..Rolled
          /\ \A f \in 1..Total : start[f] \in Nat
      BY FilesFacts
    <2>3. QED
      BY <2>1, <2>2 DEF Bounds
  <1>3. /\ Archived' = 1..A + 1
        /\ \A i \in Archived : i \in Archived' /\ disk'.archives[i] = disk.archives[i]
        /\ disk'.archives[A + 1].name = stamp /\ disk'.archives[A + 1].file = c
        /\ \A i \in Archived' : i \in Archived \/ i = A + 1
    <2>1. [name |-> stamp, file |-> c] \in Archive
      BY <1>2 DEF Archive
    <2>2. Len(disk'.archives) = A + 1
      BY <1>2, <2>1, AppendProperties
    <2>3. \A i \in 1..A : disk'.archives[i] = disk.archives[i]
      BY <1>2, <2>1, AppendProperties
    <2>4. disk'.archives[A + 1] = [name |-> stamp, file |-> c]
      BY <1>2, <2>1, AppendProperties
    <2>5. QED
      BY <1>2, <2>2, <2>3, <2>4 DEF Archived
  <1>4. \A k \in Opened : scan.opened[k].file \in 1..Total /\ scan.opened[k].name \in 1..Stream
    <2> TAKE k \in Opened
    <2>1. OpenedAs(start, scan.opened[k], scan.opened[k].file)
      BY DEF OpenedInv
    <2>2. QED
      BY <2>1, ScanFields DEF OpenedAs, ScanShape
  <1>5. \A i \in Archived' : disk'.archives[i].name \in Listed(disk')
    <2>1. Archived' = DOMAIN disk'.archives
      BY DEF Archived
    <2>2. QED
      BY <2>1 DEF Listed
  <1>6. ~CurrentTarget(start)'
    BY DEF CurrentTarget
  <1> HIDE DEF A
  <1>7. ASSUME NEW k \in Opened, scan.opened[k].name # Stream, start[c] < scan.since, scan.opened[k].file < c
        PROVE  scan.opened[k].name < stamp
    <2>1. CurrentTarget(start)
      BY <1>7 DEF CurrentTarget, IsTarget
    <2>2. A # 0
      BY <1>7, <2>1 DEF NameInv, NamesInv, A
    <2>3. A \in Archived /\ disk.archives[A].name < stamp /\ disk.archives[A].name \in 1..MaxStamp
      BY <1>2, <2>2 DEF A
    <2>4. disk.archives[A].file = c - 1
      <3>1. disk.archives[A].file = Rolled - A + A
        BY <2>3 DEF DiskInv, FilesInv, A
      <3>2. QED
        BY <1>2, <3>1
    <2>5. c - 1 \in 1..Total /\ start[c - 1] < scan.since
      <3>1. c - 1 \in 1..Total
        BY <1>2, <2>3, <2>4
      <3>2. \A f, g \in 1..Total : f < g => start[f] + Len(disk.text[f]) <= start[g]
        BY DEF DiskInv, OrderInv
      <3>3. c - 1 < c
        BY <1>2
      <3>4. start[c - 1] + Len(disk.text[c - 1]) <= start[c]
        BY <1>2, <3>1, <3>2, <3>3
      <3>5. scan.since \in Nat
        BY ScanFields DEF ScanShape
      <3>6. start[c] < scan.since /\ start[c] \in Nat
        BY <1>2, <1>7
      <3>7. start[c - 1] \in Nat /\ Len(disk.text[c - 1]) \in Nat
        BY <1>2, <3>1
      <3>8. \A a, b, x, y \in Nat : a + b <= x /\ x < y => a < y
        OBVIOUS
      <3>9. QED
        BY <3>1, <3>4, <3>5, <3>6, <3>7, <3>8
    <2>6. scan.opened[k].name <= disk.archives[A].name
      <3>1. CASE scan.opened[k].file < c - 1
        <4>1. scan.opened[k].name < disk.archives[A].name
          BY <1>7, <2>3, <2>4, <2>5, <3>1 DEF NameInv, NamesInv, IsTarget
        <4>2. QED
          BY <1>2, <1>4, <2>3, <4>1
      <3>2. CASE scan.opened[k].file = c - 1
        <4>1. OpenedAs(start, scan.opened[k], c - 1)
          BY <3>2 DEF OpenedInv
        <4>2. ArchivedAs(scan.opened[k].name, c - 1) \/ Pruned(c - 1)
          BY <1>7, <4>1 DEF OpenedAs
        <4>3. ~Pruned(c - 1)
          BY <1>2, <2>3, <2>4 DEF Pruned
        <4>4. PICK i \in Archived : disk.archives[i].name = scan.opened[k].name /\ disk.archives[i].file = c - 1
          BY <4>2, <4>3 DEF ArchivedAs
        <4>5. i = A
          BY <2>3, <2>4, <4>4, FilesFacts
        <4>6. QED
          BY <1>2, <2>3, <4>4, <4>5
      <3>3. scan.opened[k].file < c - 1 \/ scan.opened[k].file = c - 1
        <4>1. c \in Nat /\ scan.opened[k].file \in Nat /\ scan.opened[k].file < c
          BY <1>2, <1>4, <1>7
        <4> HIDE DEF c
        <4>2. QED
          BY <4>1
      <3>4. QED
        BY <3>1, <3>2, <3>3
    <2>7. scan.opened[k].name \in Nat /\ disk.archives[A].name \in Nat /\ stamp \in Nat
      <3>1. scan.opened[k].name \in 1..Stream
        BY <1>7, ScanFields DEF ScanShape
      <3>2. disk.archives[A].name \in Nat
        BY <2>3
      <3>3. QED
        BY <1>2, <3>1, <3>2
    <2>8. QED
      BY <2>3, <2>6, <2>7
  <1>8. NamesInv(start)'
    <2> SUFFICES ASSUME NEW i \in Archived', NEW k \in Opened, scan.opened[k].name # Stream,
                        start[disk'.archives[i].file] < scan.since, scan.opened[k].file < disk'.archives[i].file
                 PROVE  scan.opened[k].name < disk'.archives[i].name
      BY <1>1, <1>6 DEF NamesInv, IsTarget
    <2>1. CASE i \in Archived
      <3>1. disk'.archives[i] = disk.archives[i]
        BY <1>3, <2>1
      <3>2. QED
        BY <2>1, <3>1 DEF NameInv, NamesInv, IsTarget
    <2>2. CASE i = A + 1
      <3>1. disk'.archives[i].file = c /\ disk'.archives[i].name = stamp
        BY <1>3, <2>2
      <3>2. QED
        BY <1>7, <3>1
    <2>3. QED
      BY <1>3, <2>1, <2>2
  <1>9. \A i \in Archived' : Behind(i)' =>
          i \in Archived /\ disk'.archives[i] = disk.archives[i] /\ Behind(i)
    <2> SUFFICES ASSUME NEW i \in Archived', NEW k \in Opened, disk'.archives[i].file < scan.opened[k].file
                 PROVE  i \in Archived /\ disk'.archives[i] = disk.archives[i] /\ Behind(i)
      BY <1>1 DEF Behind
    <2>1. i # A + 1
      <3>1. scan.opened[k].file <= c
        BY <1>2, <1>4
      <3>2. ~(c < scan.opened[k].file)
        BY <1>2, <1>4, <3>1
      <3>3. QED
        BY <1>3, <3>2
    <2>2. i \in Archived /\ disk'.archives[i] = disk.archives[i]
      BY <1>3, <2>1
    <2>3. QED
      BY <2>2 DEF Behind
  <1>10. \A i \in Archived' : /\ disk'.archives[i].name \in scan.surely => disk'.archives[i].name \in scan'.surely
                              /\ i \notin Archived => disk'.archives[i].file = c
    <2> TAKE i \in Archived'
    <2>1. disk'.archives[i].name \in scan.surely => disk'.archives[i].name \in scan'.surely
      BY <1>1, <1>5
    <2>2. i \notin Archived => disk'.archives[i].file = c
      BY <1>3
    <2>3. QED
      BY <2>1, <2>2
  <1>11. scan'.at = "relist" => RelistInv(start)'
    <2> SUFFICES ASSUME scan.at = "relist"
                 PROVE  /\ \A i \in Archived' : Behind(i)' => disk'.archives[i].name \in scan'.surely
                        /\ \A i \in Archived' : start[disk'.archives[i].file] < scan.since =>
                             disk'.archives[i].name \in scan'.surely \/ HasFile(disk'.archives[i].file)
      BY <1>1, <1>6 DEF RelistInv, IsTarget, HasFile
    <2>1. RelistInv(start)
      BY DEF NameInv
    <2>2. \A i \in Archived' : Behind(i)' => disk'.archives[i].name \in scan'.surely
      BY <1>9, <1>10, <2>1 DEF RelistInv
    <2>3. ASSUME NEW i \in Archived', start[disk'.archives[i].file] < scan.since
          PROVE  disk'.archives[i].name \in scan'.surely \/ HasFile(disk'.archives[i].file)
      <3>1. CASE i \in Archived
        BY <1>3, <1>10, <2>1, <2>3, <3>1 DEF RelistInv, IsTarget
      <3>2. CASE i \notin Archived
        BY <1>10, <2>1, <2>3, <3>2 DEF RelistInv, IsTarget, CurrentTarget
      <3>3. QED
        BY <3>1, <3>2
    <2>4. QED
      BY <2>2, <2>3
  <1>12. scan'.at \in Compared => CoveredInv(start)'
    <2> SUFFICES ASSUME scan.at \in Compared
                 PROVE  \A i \in Archived' : start[disk'.archives[i].file] < scan.since => HasFile(disk'.archives[i].file)
      BY <1>1, <1>6 DEF CoveredInv, IsTarget, HasFile
    <2>1. CoveredInv(start)
      BY DEF NameInv
    <2> TAKE i \in Archived'
    <2> HAVE start[disk'.archives[i].file] < scan.since
    <2>2. CASE i \in Archived
      BY <1>3, <2>1, <2>2 DEF CoveredInv, IsTarget
    <2>3. CASE i \notin Archived
      BY <1>10, <2>1, <2>3 DEF CoveredInv, IsTarget, CurrentTarget
    <2>4. QED
      BY <2>2, <2>3
  <1>13. scan'.at = "verify" => VerifyInv'
    BY <1>1, <1>9 DEF VerifyInv, NameInv
  <1>14. QED
    BY <1>1, <1>6, <1>8, <1>11, <1>12, <1>13 DEF NameInv, ListInv, OpenInv, Compared

-----------------------------------------------------------------------------
(* The steps of the writer.                                                *)

LEMMA ListedNames ==
  ASSUME Bounds, NEW d, d.archives \in Seq(Archive)
  PROVE  Listed(d) \subseteq 1..Stream
  <1>1. \A i \in DOMAIN d.archives : d.archives[i].name \in 1..MaxStamp
    <2>1. DOMAIN d.archives = 1..Len(d.archives)
      BY LenProperties
    <2>2. \A i \in 1..Len(d.archives) : d.archives[i] \in Archive
      BY ElementOfSeq
    <2>3. QED
      BY <2>1, <2>2 DEF Archive
  <1>2. MaxStamp \in Nat /\ Stream = MaxStamp + 1
    BY DEF Bounds, Stream
  <1>3. \A x \in Listed(d) : x \in 1..Stream
    BY <1>1, <1>2 DEF Listed
  <1>4. QED
    BY <1>3

\* What every step of the writer does to the invariant of the files and of the names.
NamesGoOn(start, s) == ScanShape /\ OpenedInv(start) /\ NameInv(start) => NameInv(s)'
Written(start) ==
  ScanStays /\ \E s \in [1..Total' -> Nat] : DiskInv(s)' /\ WrittenOn(start, s) /\ NamesGoOn(start, s)

\* The text of the current file becomes content: its solid lines are as they were, and there
\* is one line in doubt, or none, or it is confirmed.
ContentBecomes(start, content) ==
  /\ disk.current # 0 /\ content \in Seq(Line)
  /\ disk' \in Disks /\ disk'.keep = disk.keep /\ disk'.archives = disk.archives /\ disk'.current = disk.current
  /\ disk'.text = [disk.text EXCEPT ![disk.current] = content]
  /\ disk'.last >= disk.last
  /\ confirmed' \in Seq(Nat \ {0}) /\ \A i \in 1..Count : confirmed'[i] = confirmed[i]
  /\ \A q \in 1..Solid(disk.current) : q <= Len(content) /\ content[q] = disk.text[disk.current][q]
  /\ \/ /\ disk'.doubt /\ Len(content) = Solid(disk.current) + 1 /\ Count' = Count
        /\ content[Len(content)].id = disk'.last
        /\ disk'.last = IF disk.doubt THEN disk.last ELSE disk.last + 1
     \/ ~disk'.doubt /\ Len(content) = Solid(disk.current) /\ Count' = Count
     \/ /\ ~disk'.doubt /\ disk.doubt /\ Len(content) = Solid(disk.current) + 1 /\ Count' = Count + 1
        /\ content[Len(content)].whole /\ content[Len(content)].id = disk.last
        /\ confirmed'[Count + 1] = disk.last
  /\ Unconfirmed => Count' = Count + 1

LEMMA ContentFiles ==
  ASSUME NEW start, DiskInv(start), NEW content, ContentBecomes(start, content)
  PROVE  DiskInv(start)' /\ WrittenOn(start, start) /\ Total' = Total
  <1> SUFFICES ASSUME NEW c, c = disk.current
               PROVE  DiskInv(start)' /\ WrittenOn(start, start) /\ Total' = Total
    OBVIOUS
  <1>1. DiskShape /\ FilesInv /\ OrderInv(start)
    BY DEF DiskInv
  <1>2. /\ Total \in Nat /\ Count \in Nat /\ c = Total /\ c \in 1..Total /\ Total > 0
        /\ disk.text \in Seq(Seq(Line)) /\ disk.last \in Nat /\ disk.doubt \in BOOLEAN
        /\ Len(disk.archives) \in Nat
        /\ \A f \in 1..Total : /\ Solid(f) \in Nat /\ Len(disk.text[f]) \in Nat /\ start[f] \in Nat
                               /\ Solid(f) <= Len(disk.text[f]) /\ start[f] + Solid(f) <= Count
                               /\ f # c => Solid(f) = Len(disk.text[f])
        /\ \A i \in 1..Count : confirmed[i] \in Nat \ {0}
    <2>1. c # 0
      BY DEF ContentBecomes
    <2>2. /\ Total \in Nat /\ Count \in Nat /\ disk.text \in Seq(Seq(Line)) /\ disk.last \in Nat
          /\ disk.doubt \in BOOLEAN /\ Len(disk.archives) \in Nat
          /\ \A f \in 1..Total : Len(disk.text[f]) \in Nat /\ Solid(f) <= Len(disk.text[f])
          /\ \A i \in 1..Count : confirmed[i] \in Nat \ {0}
      BY <1>1, DiskFields
    <2>3. /\ disk.current \in 0..Total /\ (disk.current # 0 => disk.current = Total)
          /\ \A f \in 1..Total : Solid(f) \in Nat /\ (f # disk.current => Solid(f) = Len(disk.text[f]))
          /\ \A f \in 1..Total : start[f] \in Nat /\ start[f] + Solid(f) <= Count
      BY FilesFacts
    <2>4. c = Total /\ c \in 1..Total /\ Total > 0
      BY <2>1, <2>2, <2>3
    <2>5. QED
      BY <2>2, <2>3, <2>4
  <1>3. /\ disk'.keep = disk.keep /\ disk'.archives = disk.archives /\ disk'.current = c
        /\ disk'.last >= disk.last /\ disk'.last \in Nat /\ disk'.doubt \in BOOLEAN
        /\ \A i \in 1..Count : confirmed'[i] = confirmed[i]
        /\ content \in Seq(Line) /\ Len(content) \in Nat /\ confirmed' \in Seq(Nat \ {0}) /\ disk' \in Disks
    BY LenProperties DEF ContentBecomes, Disks
  <1>28. \A i \in 1..Count : confirmed'[i] = confirmed[i]
    BY DEF ContentBecomes
  <1>4. /\ Total' = Total /\ disk'.text[c] = content
        /\ \A f \in 1..Total : f # c => disk'.text[f] = disk.text[f]
    <2>1. disk'.text = [disk.text EXCEPT ![c] = content]
      BY DEF ContentBecomes
    <2>2. c \in 1..Len(disk.text)
      BY <1>2 DEF Total
    <2>3. QED
      BY <1>2, <2>1, <2>2, ExceptSeq, <1>3 DEF Total
  <1>5. Solid(c) \in Nat /\ Count = start[c] + Solid(c) /\ start[c] \in Nat
    BY <1>1, <1>2 DEF OrderInv
  <1>6. \A q \in 1..Solid(c) : q <= Len(content) /\ content[q] = disk.text[c][q]
    BY DEF ContentBecomes
  <1>7. \/ /\ disk'.doubt /\ Len(content) = Solid(c) + 1 /\ Count' = Count
           /\ content[Len(content)].id = disk'.last
           /\ disk'.last = IF disk.doubt THEN disk.last ELSE disk.last + 1
        \/ ~disk'.doubt /\ Len(content) = Solid(c) /\ Count' = Count
        \/ /\ ~disk'.doubt /\ disk.doubt /\ Len(content) = Solid(c) + 1 /\ Count' = Count + 1
           /\ content[Len(content)].whole /\ content[Len(content)].id = disk.last
           /\ confirmed'[Count + 1] = disk.last
    BY DEF ContentBecomes
  <1>8. /\ Solid(c)' = IF disk'.doubt THEN Len(content) - 1 ELSE Len(content)
        /\ \A f \in 1..Total : f # c => Solid(f)' = Solid(f)
    <2>1. Solid(c)' = IF disk'.doubt THEN Len(content) - 1 ELSE Len(content)
      BY <1>3, <1>4 DEF Solid
    <2>2. ASSUME NEW f \in 1..Total, f # c PROVE Solid(f)' = Solid(f)
      BY <1>3, <1>4, <2>2 DEF Solid
    <2>3. QED
      BY <2>1, <2>2
  <1>9. /\ Solid(c)' \in Nat /\ Count' = start[c] + Solid(c)' /\ Solid(c)' >= Solid(c) /\ Solid(c)' <= Len(content)
        /\ Count' \in Nat /\ Count' >= Count
    <2>0. \A x \in Nat : (x + 1) - 1 = x /\ x >= x /\ x <= x + 1 /\ x + 1 >= x /\ x + 1 \in Nat
      OBVIOUS
    <2>5. \A x, y \in Nat : (x + y) + 1 = x + (y + 1)
      OBVIOUS
    <2>1. CASE disk'.doubt /\ Len(content) = Solid(c) + 1 /\ Count' = Count
      <3>1. Solid(c)' = Solid(c)
        BY <1>5, <1>8, <2>0, <2>1
      <3>2. QED
        BY <1>2, <1>5, <2>0, <2>1, <3>1
    <2>2. CASE ~disk'.doubt /\ Len(content) = Solid(c) /\ Count' = Count
      <3>1. Solid(c)' = Solid(c)
        BY <1>8, <2>2
      <3>2. QED
        BY <1>2, <1>5, <2>0, <2>2, <3>1
    <2>3. CASE ~disk'.doubt /\ Len(content) = Solid(c) + 1 /\ Count' = Count + 1
      <3>1. Solid(c)' = Solid(c) + 1 /\ Solid(c) + 1 = Len(content)
        BY <1>8, <2>3
      <3>2. Solid(c) + 1 \in Nat /\ Solid(c) + 1 >= Solid(c) /\ Solid(c) + 1 <= Solid(c) + 1
        BY <1>5
      <3>3. Count + 1 = start[c] + (Solid(c) + 1)
        BY <1>5, <2>5
      <3>4. QED
        BY <1>2, <2>0, <2>3, <3>1, <3>2, <3>3
    <2>4. QED
      BY <1>7, <2>1, <2>2, <2>3
  <1>10. DiskShape'
    BY <1>3 DEF DiskShape
  <1>11. Rolled' = Rolled /\ Archived' = Archived
    BY <1>3, <1>4 DEF Rolled, Archived
  <1>12. FilesInv'
    <2>1. disk'.current # 0 => disk'.current = Total' /\ Len(disk'.archives) <= disk'.keep
      BY <1>1, <1>3, <1>4 DEF FilesInv
    <2>2. /\ Len(disk'.archives) <= Rolled'
          /\ \A i \in Archived' : disk'.archives[i].file = Rolled' - Len(disk'.archives) + i
          /\ \A i, j \in Archived' : i < j => disk'.archives[i].name < disk'.archives[j].name
      BY <1>1, <1>3, <1>11 DEF FilesInv
    <2>3. \A f \in 1..Total' : f # disk'.current => Len(disk'.text[f]) > 0
      BY <1>1, <1>3, <1>4 DEF FilesInv
    <2>4. disk'.doubt => /\ disk'.current # 0 /\ Len(disk'.text[disk'.current]) > 0
                         /\ disk'.text[disk'.current][Len(disk'.text[disk'.current])].id = disk'.last
      BY <1>2, <1>3, <1>4, <1>5, <1>7
    <2>5. QED
      BY <2>1, <2>2, <2>3, <2>4 DEF FilesInv
  <1>13. \A f \in 1..Total : f # c => Len(disk'.text[f]) = Len(disk.text[f])
    BY <1>4
  <1>14. ASSUME NEW f \in 1..Total, NEW q \in 1..Solid(f)
         PROVE  q <= Solid(f)' /\ disk'.text[f][q] = disk.text[f][q]
    <2>1. CASE f = c
      BY <1>4, <1>5, <1>6, <1>9, <2>1
    <2>2. CASE f # c
      <3>1. disk'.text[f] = disk.text[f]
        BY <1>4, <2>2
      <3>2. Solid(f)' = Solid(f)
        BY <1>8, <2>2
      <3>3. Solid(f) \in Nat
        BY <1>2
      <3>4. QED
        BY <3>1, <3>2, <3>3
    <2>3. QED
      BY <2>1, <2>2
  <1>15. /\ \A f, g \in 1..Total : f < g => start[f] + Len(disk'.text[f]) <= start[g]
         /\ \A f \in 1..Total : f + 1 \in 1..Total => start[f + 1] = start[f] + Len(disk'.text[f])
    <2>1. \A f, g \in 1..Total : f < g => f # c
      BY <1>2
    <2>2. \A f \in 1..Total : f + 1 \in 1..Total => f # c
      BY <1>2
    <2>3. /\ \A f, g \in 1..Total : f < g => start[f] + Len(disk.text[f]) <= start[g]
          /\ \A f \in 1..Total : f + 1 \in 1..Total => start[f + 1] = start[f] + Len(disk.text[f])
      BY <1>1 DEF OrderInv
    <2>4. QED
      BY <1>13, <2>1, <2>2, <2>3
  <1>16. ASSUME NEW f \in 1..Total, NEW q \in 1..Solid(f)'
         PROVE  /\ start[f] + q \in 1..Count' /\ disk'.text[f][q].id = confirmed'[start[f] + q]
                /\ disk'.text[f][q].whole
    <2>1. CASE q \in 1..Solid(f)
      <3>1. start[f] + q \in 1..Count /\ disk.text[f][q].id = confirmed[start[f] + q] /\ disk.text[f][q].whole
        BY <1>1, <2>1 DEF OrderInv
      <3>2. disk'.text[f][q] = disk.text[f][q]
        BY <1>14, <2>1
      <3>3. start[f] + q \in 1..Count' /\ confirmed'[start[f] + q] = confirmed[start[f] + q]
        <4>1. confirmed'[start[f] + q] = confirmed[start[f] + q]
          BY <1>28, <3>1
        <4>2. \A n \in 1..Count : n \in 1..Count'
          BY <1>2, <1>9
        <4>3. QED
          BY <3>1, <4>1, <4>2
      <3>4. QED
        BY <3>1, <3>2, <3>3
    <2>2. CASE q \notin 1..Solid(f)
      <3>1. f = c
        BY <1>8, <2>2
      <3>2. disk.doubt /\ q = Len(content) /\ q = Solid(c) + 1 /\ Count' = Count + 1
        BY <1>3, <1>5, <1>7, <1>8, <2>2, <3>1
      <3>3. content[q].whole /\ content[q].id = confirmed'[Count + 1]
        BY <1>2, <1>7, <3>2
      <3>4. start[f] + q = Count + 1
        BY <1>5, <3>1, <3>2
      <3>5. QED
        BY <1>2, <1>4, <3>1, <3>2, <3>3, <3>4
    <2>3. QED
      BY <2>1, <2>2
  <1>17. \A i \in 1..Count : confirmed[i] <= disk.last /\ (disk.doubt => confirmed[i] < disk.last)
    BY <1>1 DEF OrderInv
  <1>18. \A i \in 1..Count' : \/ i \in 1..Count /\ confirmed'[i] = confirmed[i]
                              \/ i = Count + 1 /\ disk.doubt /\ ~disk'.doubt /\ confirmed'[i] = disk.last
    <2> TAKE i \in 1..Count'
    <2>1. CASE i \in 1..Count
      BY <1>28, <2>1
    <2>2. CASE i \notin 1..Count
      <3>1. Count' = Count + 1 /\ disk.doubt /\ ~disk'.doubt /\ confirmed'[Count + 1] = disk.last
        BY <1>2, <1>7, <2>2
      <3>2. i = Count + 1
        BY <1>2, <2>2, <3>1
      <3>3. QED
        BY <3>1, <3>2
    <2>3. QED
      BY <2>1, <2>2
  <1>19. \A i, j \in 1..Count' : i < j => confirmed'[i] < confirmed'[j]
    <2> SUFFICES ASSUME NEW i \in 1..Count', NEW j \in 1..Count', i < j PROVE confirmed'[i] < confirmed'[j]
      OBVIOUS
    <2>1. i \in 1..Count /\ confirmed'[i] = confirmed[i]
      BY <1>2, <1>9, <1>18
    <2>2. CASE j \in 1..Count /\ confirmed'[j] = confirmed[j]
      BY <1>1, <2>1, <2>2 DEF OrderInv
    <2>3. CASE disk.doubt /\ confirmed'[j] = disk.last
      BY <1>17, <2>1, <2>3
    <2>4. QED
      BY <1>18, <2>2, <2>3
  <1>20. \A i \in 1..Count' : confirmed'[i] <= disk'.last /\ (disk'.doubt => confirmed'[i] < disk'.last)
    <2> TAKE i \in 1..Count'
    <2>1. CASE i \in 1..Count /\ confirmed'[i] = confirmed[i]
      <3>1. confirmed[i] \in Nat /\ disk.last \in Nat /\ disk'.last \in Nat
        BY <1>2, <1>3, <2>1
      <3>2. confirmed[i] <= disk.last /\ (disk.doubt => confirmed[i] < disk.last) /\ disk.last <= disk'.last
        BY <1>3, <1>17, <2>1, <3>1
      <3>3. disk'.doubt => disk'.last = IF disk.doubt THEN disk.last ELSE disk.last + 1
        BY <1>7
      <3>4. confirmed[i] <= disk'.last
        BY <3>1, <3>2
      <3>5. disk'.doubt => confirmed[i] < disk'.last
        BY <3>1, <3>2, <3>3
      <3>6. QED
        BY <2>1, <3>4, <3>5
    <2>2. CASE ~disk'.doubt /\ confirmed'[i] = disk.last
      BY <1>2, <1>3, <2>2
    <2>3. QED
      BY <1>18, <2>1, <2>2
  <1>21. OrderInv(start)'
    <2>1. start \in [1..Total' -> Nat]
      BY <1>1, <1>4 DEF OrderInv
    <2>2. Total' > 0 /\ Total' = c /\ Count' = start[c] + Solid(c)'
      BY <1>2, <1>4, <1>9
    <2>3. /\ \A f \in 1..Total' : \A q \in 1..Solid(f)' :
               /\ start[f] + q \in 1..Count' /\ disk'.text[f][q].id = confirmed'[start[f] + q]
               /\ disk'.text[f][q].whole
          /\ \A f, g \in 1..Total' : f < g => start[f] + Len(disk'.text[f]) <= start[g]
          /\ \A f \in 1..Total' : f + 1 \in 1..Total' => start[f + 1] = start[f] + Len(disk'.text[f])
      BY <1>4, <1>15, <1>16
    <2>4. Total' # 0 /\ Count' = start[Total'] + (Solid(Total))'
      BY <1>2, <2>2 DEF Solid
    <2>5. QED
      BY <1>19, <1>20, <2>1, <2>3, <2>4 DEF OrderInv
  <1>22. DiskInv(start)'
    BY <1>10, <1>12, <1>21 DEF DiskInv
  <1>23. \A f \in 1..Total : Len(disk'.text[f]) \in Nat
    BY <1>2, <1>3, <1>4, <1>13
  <1>24. ASSUME NEW f \in 1..Total, NEW q \in 1..Len(disk'.text[f]) PROVE q <= Solid(f) \/ start[f] + q > Count
    <2>1. CASE f = c
      <3>1. Len(disk'.text[f]) \in Nat
        BY <1>23
      <3>2. QED
        BY <1>5, <2>1, <3>1
    <2>2. CASE f # c
      <3>1. Len(disk'.text[f]) = Solid(f)
        BY <1>2, <1>13, <2>2
      <3>2. QED
        BY <1>2, <3>1
    <2>3. QED
      BY <2>1, <2>2
  <1>25. /\ \A f \in 1..Total : Pruned(f)' = Pruned(f)
         /\ \A f, name : ArchivedAs(name, f)' = ArchivedAs(name, f)
    BY <1>3, <1>11 DEF Pruned, ArchivedAs
  <1>26. WrittenOn(start, start)
    <2>1. /\ Total' \in Nat /\ Total' >= Total
          /\ \A f \in 1..Total : \A q \in 1..Solid(f) : q <= Solid(f)' /\ disk'.text[f][q] = disk.text[f][q]
      <3>1. Total' \in Nat /\ Total' >= Total
        BY <1>2, <1>4
      <3>2. QED
        BY <1>14, <3>1
    <2>2. \/ Count' = Count
          \/ Count' = Count + 1 /\ disk.doubt /\ ~disk'.doubt /\ confirmed'[Count + 1] = disk.last
      BY <1>7
    <2>3. disk'.doubt => disk'.last = IF disk.doubt THEN disk.last ELSE disk.last + 1
      BY <1>7
    <2>4. \A f \in 1..Total : f # disk.current => f # disk'.current /\ disk'.text[f] = disk.text[f]
      BY <1>3, <1>4
    <2>5. \A f \in 1..Total : \A name \in 1..MaxStamp :
            f # disk.current /\ ArchivedAs(name, f) => ArchivedAs(name, f)' \/ Pruned(f)'
      BY <1>25
    <2>6. \A f \in 1..Total : f # disk.current /\ Pruned(f) => Pruned(f)'
      BY <1>25
    <2>7. /\ \A i \in 1..Count : confirmed'[i] = confirmed[i]
          /\ disk'.last \in Nat /\ disk'.last >= disk.last /\ Count' \in Nat
      BY <1>3, <1>9
    <2>8. Unconfirmed => Count' = Count + 1
      BY DEF ContentBecomes
    <2>9. QED
      BY <1>23, <1>24, <2>1, <2>2, <2>3, <2>4, <2>5, <2>6, <2>7, <2>8 DEF WrittenOn
  <1>27. QED
    BY <1>4, <1>22, <1>26

LEMMA ContentWritten ==
  ASSUME Bounds, NEW start, DiskInv(start), NEW content, ContentBecomes(start, content), ScanStays
  PROVE  Written(start)
  <1>1. DiskInv(start)' /\ WrittenOn(start, start) /\ Total' = Total
    BY ContentFiles
  <1>2. disk'.archives = disk.archives /\ disk'.current = disk.current /\ disk.archives \in Seq(Archive)
    BY DiskFields DEF ContentBecomes, DiskInv
  <1>3. \A i \in Archived' : \E j \in Archived : disk.archives[j] = disk'.archives[i]
    BY <1>2 DEF Archived
  <1>4. NamesGoOn(start, start)
    <2> SUFFICES ASSUME ScanShape, NameInv(start) PROVE NameInv(start)'
      BY DEF NamesGoOn
    <2>1. disk'.archives \in Seq(Archive)
      BY <1>2
    <2>2. CurrentTarget(start)' => disk'.current = disk.current /\ disk'.archives = disk.archives
      BY <1>2
    <2>3. QED
      BY <1>1, <1>3, <2>1, <2>2, StaysNames
  <1>5. start \in [1..Total' -> Nat]
    BY <1>1 DEF DiskInv, OrderInv
  <1>6. QED
    BY <1>1, <1>4, <1>5 DEF Written

\* What the writer's content actions find.
LEMMA CurrentFacts ==
  ASSUME NEW start, DiskInv(start), disk.current # 0
  PROVE  LET text == disk.text[disk.current] IN
         /\ disk.current \in 1..Len(disk.text) /\ text \in Seq(Line) /\ Len(text) \in Nat
         /\ \A q \in 1..Len(text) : text[q] \in Line
         /\ ~disk.doubt => Solid(disk.current) = Len(text)
         /\ disk.doubt => /\ Solid(disk.current) = Len(text) - 1 /\ Len(text) > 0 /\ Len(text) \in 1..Len(text)
                          /\ text[Len(text)].id = disk.last
  <1>1. DiskShape /\ FilesInv
    BY DEF DiskInv
  <1>2. disk.current \in 1..Total
    BY <1>1, DiskFields, FilesFacts
  <1>3. /\ disk.text[disk.current] \in Seq(Line) /\ Len(disk.text[disk.current]) \in Nat
        /\ disk.doubt \in BOOLEAN
    BY <1>1, <1>2, DiskFields
  <1>4. \A q \in 1..Len(disk.text[disk.current]) : disk.text[disk.current][q] \in Line
    BY <1>3, ElementOfSeq
  <1>5. disk.doubt => /\ Len(disk.text[disk.current]) > 0
                      /\ disk.text[disk.current][Len(disk.text[disk.current])].id = disk.last
    BY <1>1 DEF FilesInv
  <1>6. QED
    BY <1>2, <1>3, <1>4, <1>5 DEF Total, Solid

LEMMA WritePartWritten ==
  ASSUME Bounds, NEW start, DiskInv(start), scan \in Scans, WritePart
  PROVE  Written(start)
  <1> DEFINE text == disk.text[disk.current]
             line == [id |-> disk.last + 1, whole |-> FALSE]
             content == Append(text, line)
             d == [disk EXCEPT !.text[disk.current] = content, !.last = @ + 1, !.doubt = TRUE]
  <1>1. disk.current # 0 /\ ~disk.doubt /\ Moves(d) /\ confirmed' = confirmed
    BY DEF WritePart
  <1>2. /\ disk \in Disks /\ disk.last \in Nat /\ disk.text \in Seq(Seq(Line)) /\ disk.archives \in Seq(Archive)
        /\ confirmed \in Seq(Nat \ {0})
    BY DiskFields DEF DiskInv, DiskShape
  <1>3. /\ disk.current \in 1..Len(disk.text) /\ text \in Seq(Line) /\ Len(text) \in Nat
        /\ Solid(disk.current) = Len(text)
    BY <1>1, CurrentFacts
  <1>4. line \in Line /\ line.id = disk.last + 1
    BY <1>2 DEF Line
  <1> HIDE DEF line
  <1>5. /\ content \in Seq(Line) /\ Len(content) = Len(text) + 1
        /\ \A q \in 1..Len(text) : content[q] = text[q]
        /\ content[Len(text) + 1] = line
    BY <1>3, <1>4, AppendProperties
  <1> HIDE DEF content
  <1>6. /\ d.text = [disk.text EXCEPT ![disk.current] = content]
        /\ d.keep = disk.keep /\ d.archives = disk.archives /\ d.current = disk.current
        /\ d.last = disk.last + 1 /\ d.doubt = TRUE
    BY <1>2 DEF Disks
  <1>7. d \in Disks
    <2>1. [disk.text EXCEPT ![disk.current] = content] \in Seq(Seq(Line))
      BY <1>2, <1>3, <1>5, ExceptSeq
    <2>2. \A t \in Seq(Seq(Line)) : \A n \in Nat : [disk EXCEPT !.text = t, !.last = n, !.doubt = TRUE] \in Disks
      BY <1>2 DEF Disks
    <2>3. d = [disk EXCEPT !.text = [disk.text EXCEPT ![disk.current] = content],
                           !.last = disk.last + 1, !.doubt = TRUE]
      OBVIOUS
    <2> HIDE DEF d
    <2>4. disk.last + 1 \in Nat
      BY <1>2
    <2>5. QED
      BY <2>1, <2>2, <2>3, <2>4
  <1> HIDE DEF d
  <1>8. disk' = d /\ ScanStays
    BY <1>1, <1>2, <1>6, ListedNames, MovesFacts
  <1>9. ContentBecomes(start, content)
    <2>1. /\ disk'.doubt /\ Len(content) = Solid(disk.current) + 1 /\ Count' = Count
          /\ content[Len(content)].id = disk'.last
          /\ disk'.last = IF disk.doubt THEN disk.last ELSE disk.last + 1
      BY <1>1, <1>3, <1>4, <1>5, <1>6, <1>8 DEF Count
    <2>2. \A q \in 1..Solid(disk.current) : q <= Len(content) /\ content[q] = text[q]
      BY <1>3, <1>5
    <2>3. /\ disk.current # 0 /\ content \in Seq(Line)
          /\ disk' \in Disks /\ disk'.keep = disk.keep /\ disk'.archives = disk.archives
          /\ disk'.current = disk.current
          /\ disk'.text = [disk.text EXCEPT ![disk.current] = content]
          /\ disk'.last >= disk.last
          /\ confirmed' \in Seq(Nat \ {0}) /\ \A i \in 1..Count : confirmed'[i] = confirmed[i]
      BY <1>1, <1>2, <1>5, <1>6, <1>7, <1>8
    <2>4. Unconfirmed => Count' = Count + 1
      BY <1>1 DEF Unconfirmed
    <2> HIDE DEF text
    <2>5. QED
      BY <2>1, <2>2, <2>3, <2>4 DEF ContentBecomes, text
  <1>10. QED
    BY <1>8, <1>9, ContentWritten

LEMMA WriteRestWritten ==
  ASSUME Bounds, NEW start, DiskInv(start), scan \in Scans, WriteRest
  PROVE  Written(start)
  <1> DEFINE text == disk.text[disk.current]
             content == [text EXCEPT ![Len(text)].whole = TRUE]
             d == [disk EXCEPT !.text[disk.current] = content]
  <1>1. disk.doubt /\ Moves(d) /\ confirmed' = confirmed
    BY DEF WriteRest, Writes, Content
  <1>2. /\ disk \in Disks /\ disk.last \in Nat /\ disk.text \in Seq(Seq(Line)) /\ disk.archives \in Seq(Archive)
        /\ confirmed \in Seq(Nat \ {0}) /\ disk.current # 0
    BY <1>1, DiskFields DEF DiskInv, DiskShape, FilesInv
  <1>3. /\ disk.current \in 1..Len(disk.text) /\ text \in Seq(Line) /\ Len(text) \in 1..Len(text)
        /\ Len(text) \in Nat /\ text[Len(text)] \in Line
        /\ Solid(disk.current) = Len(text) - 1 /\ text[Len(text)].id = disk.last
    BY <1>1, <1>2, CurrentFacts
  <1>4. /\ content \in Seq(Line) /\ Len(content) = Len(text)
        /\ \A q \in 1..Len(text) - 1 : content[q] = text[q]
        /\ content[Len(text)].id = disk.last
    <2> DEFINE line == [text[Len(text)] EXCEPT !.whole = TRUE]
    <2>1. line \in Line /\ line.id = disk.last
      BY <1>3 DEF Line
    <2>2. content = [text EXCEPT ![Len(text)] = line]
      OBVIOUS
    <2> HIDE DEF line
    <2>3. [text EXCEPT ![Len(text)] = line] \in Seq(Line)
      BY <1>3, <2>1, ExceptSeq
    <2>4. /\ Len([text EXCEPT ![Len(text)] = line]) = Len(text)
          /\ \A q \in 1..Len(text) - 1 : [text EXCEPT ![Len(text)] = line][q] = text[q]
          /\ [text EXCEPT ![Len(text)] = line][Len(text)] = line
      BY <1>3, <2>1, ExceptSeq
    <2>5. QED
      BY <2>1, <2>2, <2>3, <2>4
  <1> HIDE DEF content
  <1>5. /\ d.text = [disk.text EXCEPT ![disk.current] = content]
        /\ d.keep = disk.keep /\ d.archives = disk.archives /\ d.current = disk.current
        /\ d.last = disk.last /\ d.doubt = disk.doubt
    BY <1>2 DEF Disks
  <1>6. d \in Disks
    <2>1. [disk.text EXCEPT ![disk.current] = content] \in Seq(Seq(Line))
      BY <1>2, <1>3, <1>4, ExceptSeq
    <2>2. QED
      BY <1>2, <2>1 DEF Disks
  <1> HIDE DEF d
  <1>7. disk' = d /\ ScanStays
    BY <1>1, <1>2, <1>5, ListedNames, MovesFacts
  <1>8. ContentBecomes(start, content)
    <2>1. /\ disk'.doubt /\ Len(content) = Solid(disk.current) + 1 /\ Count' = Count
          /\ content[Len(content)].id = disk'.last
          /\ disk'.last = IF disk.doubt THEN disk.last ELSE disk.last + 1
      <3>1. disk'.doubt /\ disk'.last = disk.last
        BY <1>1, <1>5, <1>7
      <3>2. Count' = Count
        BY <1>1 DEF Count
      <3>3. Len(content) = Solid(disk.current) + 1 /\ content[Len(content)].id = disk.last
        BY <1>3, <1>4
      <3>4. QED
        BY <1>1, <3>1, <3>2, <3>3
    <2>2. \A q \in 1..Solid(disk.current) : q <= Len(content) /\ content[q] = text[q]
      BY <1>3, <1>4
    <2>3. /\ disk.current # 0 /\ content \in Seq(Line)
          /\ disk' \in Disks /\ disk'.keep = disk.keep /\ disk'.archives = disk.archives
          /\ disk'.current = disk.current
          /\ disk'.text = [disk.text EXCEPT ![disk.current] = content]
          /\ disk'.last >= disk.last
          /\ confirmed' \in Seq(Nat \ {0}) /\ \A i \in 1..Count : confirmed'[i] = confirmed[i]
      BY <1>1, <1>2, <1>4, <1>5, <1>6, <1>7
    <2>4. Unconfirmed => Count' = Count + 1
      BY DEF Unconfirmed, WriteRest
    <2> HIDE DEF text
    <2>5. QED
      BY <2>1, <2>2, <2>3, <2>4 DEF ContentBecomes, text
  <1>9. QED
    BY <1>7, <1>8, ContentWritten

LEMMA ConfirmWritten ==
  ASSUME Bounds, NEW start, DiskInv(start), scan \in Scans, Confirm
  PROVE  Written(start)
  <1> DEFINE text == disk.text[disk.current]
             d == [disk EXCEPT !.doubt = FALSE]
  <1>1. disk.doubt /\ text[Len(text)].whole /\ Moves(d) /\ confirmed' = Append(confirmed, text[Len(text)].id)
    BY DEF Confirm, Content, Last
  <1>2. /\ disk \in Disks /\ disk.last \in Nat /\ disk.text \in Seq(Seq(Line)) /\ disk.archives \in Seq(Archive)
        /\ confirmed \in Seq(Nat \ {0}) /\ disk.current # 0 /\ Count \in Nat
    BY <1>1, DiskFields DEF DiskInv, DiskShape, FilesInv
  <1>3. /\ disk.current \in 1..Len(disk.text) /\ text \in Seq(Line) /\ Len(text) \in Nat
        /\ text[Len(text)] \in Line
        /\ Solid(disk.current) = Len(text) - 1 /\ text[Len(text)].id = disk.last
    BY <1>1, <1>2, CurrentFacts
  <1>4. disk.last \in Nat \ {0}
    BY <1>3 DEF Line
  <1>5. /\ d.text = disk.text /\ d.keep = disk.keep /\ d.archives = disk.archives /\ d.current = disk.current
        /\ d.last = disk.last /\ d.doubt = FALSE /\ d \in Disks
    BY <1>2 DEF Disks
  <1> HIDE DEF d
  <1>6. disk' = d /\ ScanStays
    BY <1>1, <1>2, <1>5, ListedNames, MovesFacts
  <1>7. /\ confirmed' \in Seq(Nat \ {0}) /\ Count' = Count + 1 /\ confirmed'[Count + 1] = disk.last
        /\ \A i \in 1..Count : confirmed'[i] = confirmed[i]
    BY <1>1, <1>2, <1>3, <1>4, AppendProperties DEF Count
  <1>8. disk.text = [disk.text EXCEPT ![disk.current] = text]
    <2>1. disk.text \in [1..Len(disk.text) -> Seq(Line)]
      BY <1>2
    <2>2. QED
      BY <2>1
  <1>9. ContentBecomes(start, text)
    <2>1. /\ ~disk'.doubt /\ disk.doubt /\ Len(text) = Solid(disk.current) + 1 /\ Count' = Count + 1
          /\ text[Len(text)].whole /\ text[Len(text)].id = disk.last
          /\ confirmed'[Count + 1] = disk.last
      <3>1. ~disk'.doubt
        BY <1>5, <1>6
      <3>2. Len(text) = Solid(disk.current) + 1
        BY <1>3
      <3> HIDE DEF text
      <3>3. QED
        BY <1>1, <1>3, <1>7, <3>1, <3>2
    <2>2. \A q \in 1..Solid(disk.current) : q <= Len(text) /\ text[q] = text[q]
      BY <1>3
    <2>3. /\ disk.current # 0 /\ text \in Seq(Line)
          /\ disk' \in Disks /\ disk'.keep = disk.keep /\ disk'.archives = disk.archives
          /\ disk'.current = disk.current
          /\ disk'.text = [disk.text EXCEPT ![disk.current] = text]
          /\ disk'.last >= disk.last
          /\ confirmed' \in Seq(Nat \ {0}) /\ \A i \in 1..Count : confirmed'[i] = confirmed[i]
      <3>1. disk'.text = [disk.text EXCEPT ![disk.current] = text]
        BY <1>5, <1>6, <1>8
      <3> HIDE DEF text
      <3>2. QED
        BY <1>2, <1>3, <1>5, <1>6, <1>7, <3>1
    <2>4. Unconfirmed => Count' = Count + 1
      BY <1>7
    <2> HIDE DEF text
    <2>5. QED
      BY <2>1, <2>2, <2>3, <2>4 DEF ContentBecomes, text
  <1>10. QED
    BY <1>6, <1>9, ContentWritten

LEMMA TakeBackWritten ==
  ASSUME Bounds, NEW start, DiskInv(start), scan \in Scans, TakeBack
  PROVE  Written(start)
  <1> DEFINE text == disk.text[disk.current]
             content == SubSeq(text, 1, Len(text) - 1)
             d == [disk EXCEPT !.doubt = FALSE, !.text[disk.current] = content]
  <1>1. disk.doubt /\ Moves(d) /\ confirmed' = confirmed
    BY DEF TakeBack, Front
  <1>2. /\ disk \in Disks /\ disk.last \in Nat /\ disk.text \in Seq(Seq(Line)) /\ disk.archives \in Seq(Archive)
        /\ confirmed \in Seq(Nat \ {0}) /\ disk.current # 0
    BY <1>1, DiskFields DEF DiskInv, DiskShape, FilesInv
  <1>3. /\ disk.current \in 1..Len(disk.text) /\ text \in Seq(Line) /\ Len(text) \in Nat /\ Len(text) > 0
        /\ \A q \in 1..Len(text) : text[q] \in Line
        /\ Solid(disk.current) = Len(text) - 1
    BY <1>1, <1>2, CurrentFacts
  <1>4. /\ content \in Seq(Line) /\ Len(content) = Len(text) - 1
        /\ \A q \in 1..Len(text) - 1 : content[q] = text[q]
    BY <1>3, SubSeqProperties
  <1> HIDE DEF content
  <1>5. /\ d.text = [disk.text EXCEPT ![disk.current] = content]
        /\ d.keep = disk.keep /\ d.archives = disk.archives /\ d.current = disk.current
        /\ d.last = disk.last /\ d.doubt = FALSE
    BY <1>2 DEF Disks
  <1>6. d \in Disks
    <2>1. [disk.text EXCEPT ![disk.current] = content] \in Seq(Seq(Line))
      BY <1>2, <1>3, <1>4, ExceptSeq
    <2>2. QED
      BY <1>2, <2>1 DEF Disks
  <1> HIDE DEF d
  <1>7. disk' = d /\ ScanStays
    BY <1>1, <1>2, <1>5, ListedNames, MovesFacts
  <1>8. ContentBecomes(start, content)
    <2>1. ~disk'.doubt /\ Len(content) = Solid(disk.current) /\ Count' = Count
      BY <1>1, <1>3, <1>4, <1>5, <1>7 DEF Count
    <2>2. \A q \in 1..Solid(disk.current) : q <= Len(content) /\ content[q] = text[q]
      BY <1>3, <1>4
    <2>3. /\ disk.current # 0 /\ content \in Seq(Line)
          /\ disk' \in Disks /\ disk'.keep = disk.keep /\ disk'.archives = disk.archives
          /\ disk'.current = disk.current
          /\ disk'.text = [disk.text EXCEPT ![disk.current] = content]
          /\ disk'.last >= disk.last
          /\ confirmed' \in Seq(Nat \ {0}) /\ \A i \in 1..Count : confirmed'[i] = confirmed[i]
      BY <1>1, <1>2, <1>4, <1>5, <1>6, <1>7
    <2>4. Unconfirmed => Count' = Count + 1
      BY DEF Unconfirmed, TakeBack
    <2> HIDE DEF text
    <2>5. QED
      BY <2>1, <2>2, <2>3, <2>4 DEF ContentBecomes, text
  <1>9. QED
    BY <1>7, <1>8, ContentWritten

LEMMA CreateWritten ==
  ASSUME Bounds, NEW start, DiskInv(start), scan \in Scans, Create
  PROVE  Written(start)
  <1> DEFINE d == [disk EXCEPT !.current = Len(disk.text) + 1, !.text = Append(@, <<>>)]
  <1>1. disk.current = 0 /\ Len(disk.archives) <= disk.keep /\ Moves(d) /\ confirmed' = confirmed
    BY DEF Create
  <1>2. DiskShape /\ FilesInv /\ OrderInv(start)
    BY DEF DiskInv
  <1>3. /\ disk \in Disks /\ disk.last \in Nat /\ disk.text \in Seq(Seq(Line)) /\ disk.archives \in Seq(Archive)
        /\ confirmed \in Seq(Nat \ {0}) /\ Total \in Nat /\ Count \in Nat /\ disk.doubt \in BOOLEAN
        /\ Len(disk.archives) \in Nat /\ disk.keep \in Nat
        /\ \A f \in 1..Total : Len(disk.text[f]) \in Nat
    BY <1>2, DiskFields DEF DiskShape
  <1>4. /\ d.text = Append(disk.text, <<>>) /\ d.current = Total + 1
        /\ d.keep = disk.keep /\ d.archives = disk.archives /\ d.last = disk.last /\ d.doubt = disk.doubt
    BY <1>3 DEF Disks, Total
  <1>5. <<>> \in Seq(Line) /\ Len(<<>>) = 0
    OBVIOUS
  <1>6. /\ Append(disk.text, <<>>) \in Seq(Seq(Line)) /\ Len(Append(disk.text, <<>>)) = Total + 1
        /\ \A f \in 1..Total : Append(disk.text, <<>>)[f] = disk.text[f]
        /\ Append(disk.text, <<>>)[Total + 1] = <<>>
    BY <1>3, <1>5, AppendProperties DEF Total
  <1>7. d \in Disks
    <2>1. \A t \in Seq(Seq(Line)) : \A n \in Nat : [disk EXCEPT !.current = n, !.text = t] \in Disks
      BY <1>3 DEF Disks
    <2>2. d = [disk EXCEPT !.current = Total + 1, !.text = Append(disk.text, <<>>)]
      BY DEF Total
    <2> HIDE DEF d
    <2>3. Total + 1 \in Nat
      BY <1>3
    <2>4. QED
      BY <1>6, <2>1, <2>2, <2>3
  <1> HIDE DEF d
  <1>8. disk' = d /\ ScanStays
    BY <1>1, <1>3, <1>4, ListedNames, MovesFacts
  <1>9. /\ disk' \in Disks /\ disk'.current = Total + 1 /\ disk'.keep = disk.keep /\ disk'.archives = disk.archives
        /\ disk'.last = disk.last /\ disk'.doubt = FALSE /\ disk.doubt = FALSE
        /\ Total' = Total + 1 /\ Count' = Count /\ Archived' = Archived
    <2>1. disk.doubt = FALSE
      BY <1>1, <1>2, <1>3 DEF FilesInv
    <2>2. Total' = Total + 1 /\ Count' = Count /\ Archived' = Archived
      BY <1>1, <1>4, <1>6, <1>8 DEF Total, Count, Archived
    <2>3. QED
      BY <1>4, <1>7, <1>8, <2>1, <2>2
  <1>10. /\ \A f \in 1..Total : disk'.text[f] = disk.text[f]
         /\ disk'.text[Total + 1] = <<>>
    BY <1>4, <1>6, <1>8
  <1>11. \A f \in 1..Total : start[f] \in Nat
    BY <1>2 DEF OrderInv
  <1>12. PICK s \in [1..Total + 1 -> Nat] :
           s[Total + 1] = Count /\ \A f \in 1..Total : f \in 1..Total + 1 /\ s[f] = start[f]
    <2> DEFINE t == [f \in 1..Total + 1 |-> IF f = Total + 1 THEN Count ELSE start[f]]
    <2>1. /\ t \in [1..Total + 1 -> Nat] /\ t[Total + 1] = Count
          /\ \A f \in 1..Total : f \in 1..Total + 1 /\ t[f] = start[f]
      BY <1>3, <1>11
    <2> HIDE DEF t
    <2>2. QED
      BY <2>1
  <1>13. \A f \in 1..Total + 1 : f = Total + 1 \/ f \in 1..Total
    BY <1>3
  <1>14. \A f \in 1..Total : Solid(f) = Len(disk.text[f]) /\ (Solid(f))' = Len(disk.text[f])
    <2>1. \A f \in 1..Total : Solid(f) = Len(disk.text[f])
      BY <1>9 DEF Solid
    <2>2. \A f \in 1..Total : Solid(f)' = Len(disk.text[f])
      BY <1>9, <1>10 DEF Solid
    <2>3. QED
      BY <2>1, <2>2
  <1>15. DiskShape'
    BY <1>1, <1>3, <1>9 DEF DiskShape
  <1>16. Rolled' = Rolled /\ Rolled = Total
    BY <1>1, <1>3, <1>9 DEF Rolled
  <1>17. FilesInv'
    <2>1. \A f \in 1..Total' : f # disk'.current => Len(disk'.text[f]) > 0
      <3> SUFFICES ASSUME NEW f \in 1..Total, f # Total + 1 PROVE Len(disk'.text[f]) > 0
        BY <1>9, <1>13
      <3>1. f # disk.current
        BY <1>1, <1>3
      <3>2. QED
        BY <1>2, <1>10, <3>1 DEF FilesInv
    <2>2. QED
      BY <1>1, <1>2, <1>3, <1>9, <1>16, <2>1 DEF FilesInv
  <1>18. \A f \in 1..Total : start[f] + Len(disk.text[f]) <= Count
    BY <1>14, FilesFacts
  <1>19. /\ \A f, g \in 1..Total + 1 : f < g => s[f] + Len(disk'.text[f]) <= s[g]
         /\ \A f \in 1..Total + 1 : f + 1 \in 1..Total + 1 => s[f + 1] = s[f] + Len(disk'.text[f])
    <2>1. ASSUME NEW f \in 1..Total + 1, NEW g \in 1..Total + 1, f < g PROVE s[f] + Len(disk'.text[f]) <= s[g]
      <3>1. f \in 1..Total /\ s[f] = start[f] /\ disk'.text[f] = disk.text[f]
        BY <1>3, <1>10, <1>12, <2>1
      <3>2. CASE g = Total + 1
        BY <1>12, <1>18, <3>1, <3>2
      <3>3. CASE g \in 1..Total
        BY <1>2, <1>12, <2>1, <3>1, <3>3 DEF OrderInv
      <3>4. QED
        BY <1>13, <3>2, <3>3
    <2>2. ASSUME NEW f \in 1..Total + 1, f + 1 \in 1..Total + 1 PROVE s[f + 1] = s[f] + Len(disk'.text[f])
      <3>1. f \in 1..Total /\ s[f] = start[f] /\ disk'.text[f] = disk.text[f]
        BY <1>3, <1>10, <1>12, <2>2
      <3>2. CASE f = Total
        <4>1. Count = start[Total] + Solid(Total)
          BY <1>2, <1>3, <3>1, <3>2 DEF OrderInv
        <4>2. QED
          BY <1>12, <1>14, <3>1, <3>2, <4>1
      <3>3. CASE f + 1 \in 1..Total
        BY <1>2, <1>12, <3>1, <3>3 DEF OrderInv
      <3>4. QED
        BY <1>3, <2>2, <3>1, <3>2, <3>3
    <2>3. QED
      BY <2>1, <2>2
  <1>21. ASSUME NEW f \in 1..Total + 1, NEW q \in 1..Solid(f)'
         PROVE  /\ s[f] + q \in 1..Count /\ disk'.text[f][q].id = confirmed[s[f] + q] /\ disk'.text[f][q].whole
    <2>1. f \in 1..Total
      <3>1. CASE f = Total + 1
        <4>1. Solid(f)' = 0
          BY <1>3, <1>5, <1>9, <1>10, <3>1 DEF Solid
        <4>2. QED
          BY <4>1
      <3>2. QED
        BY <1>13, <3>1
    <2>2. q \in 1..Solid(f)
      BY <1>14, <2>1
    <2>3. QED
      BY <1>2, <1>10, <1>12, <2>1, <2>2 DEF OrderInv
  <1>22. OrderInv(s)'
    <2>1. /\ \A i, j \in 1..Count : i < j => confirmed[i] < confirmed[j]
          /\ \A i \in 1..Count : confirmed[i] <= disk.last
      BY <1>2 DEF OrderInv
    <2>2. Total' # 0
      BY <1>3, <1>9
    <2>3. Count = s[Total'] + IF Total' = disk'.current /\ disk'.doubt THEN Len(disk'.text[Total']) - 1
                                                                      ELSE Len(disk'.text[Total'])
      BY <1>3, <1>5, <1>9, <1>10, <1>12
    <2>4. /\ \A f \in 1..Total' : \A q \in 1..Solid(f)' :
               /\ s[f] + q \in 1..Count' /\ disk'.text[f][q].id = confirmed'[s[f] + q] /\ disk'.text[f][q].whole
          /\ \A f, g \in 1..Total' : f < g => s[f] + Len(disk'.text[f]) <= s[g]
          /\ \A f \in 1..Total' : f + 1 \in 1..Total' => s[f + 1] = s[f] + Len(disk'.text[f])
          /\ s \in [1..Total' -> Nat]
      BY <1>1, <1>9, <1>19, <1>21
    <2>6. /\ \A i, j \in 1..Count' : i < j => confirmed'[i] < confirmed'[j]
          /\ \A i \in 1..Count' : confirmed'[i] <= disk'.last /\ ~disk'.doubt
      BY <1>1, <1>9, <2>1
    <2>7. Count' = s[Total'] + Solid(Total)'
      BY <1>9, <2>3 DEF Solid
    <2>8. QED
      BY <2>2, <2>4, <2>6, <2>7 DEF OrderInv
  <1>23. DiskInv(s)'
    BY <1>15, <1>17, <1>22 DEF DiskInv
  <1>24. WrittenOn(start, s)
    <2>1. \A f \in 1..Total : f # disk'.current
      BY <1>3, <1>9
    <2>2. /\ \A f \in 1..Total : Pruned(f)' = Pruned(f)
          /\ \A f, name : ArchivedAs(name, f)' = ArchivedAs(name, f)
      BY <1>9 DEF Pruned, ArchivedAs
    <2>3. \A f \in 1..Total : \A q \in 1..Solid(f) : q <= Solid(f)' /\ disk'.text[f][q] = disk.text[f][q]
      <3> TAKE f \in 1..Total
      <3>1. Solid(f) = Solid(f)' /\ Solid(f) \in Nat /\ disk'.text[f] = disk.text[f]
        BY <1>3, <1>10, <1>14
      <3>2. QED
        BY <3>1
    <2>4. \A f \in 1..Total : \A q \in 1..Len(disk'.text[f]) : q <= Solid(f)
      <3> TAKE f \in 1..Total
      <3>1. Solid(f) \in Nat /\ Solid(f) = Len(disk'.text[f])
        BY <1>3, <1>10, <1>14
      <3>2. QED
        BY <3>1
    <2>5. \A i \in 1..Count : confirmed'[i] = confirmed[i]
      BY <1>1
    <2>6. \A f \in 1..Total : Len(disk'.text[f]) \in Nat
      BY <1>3, <1>10
    <2>7. Total' \in Nat /\ Total' >= Total /\ Count' \in Nat /\ disk'.last \in Nat /\ disk'.last >= disk.last
      BY <1>3, <1>9
    <2>8. ~Unconfirmed
      BY <1>9 DEF Unconfirmed
    <2>9. QED
      BY <1>9, <1>10, <1>12, <2>1, <2>2, <2>3, <2>4, <2>5, <2>6, <2>7, <2>8 DEF WrittenOn
  <1>25. NamesGoOn(start, s)
    <2> SUFFICES ASSUME ScanShape, NameInv(start) PROVE NameInv(s)'
      BY DEF NamesGoOn
    <2>1. disk'.archives \in Seq(Archive) /\ \A i \in Archived' : \E j \in Archived : disk.archives[j] = disk'.archives[i]
      BY <1>3, <1>9
    <2>2. ~CurrentTarget(s)'
      <3>1. scan.since \in Nat /\ scan.since <= Count /\ scan'.since = scan.since
        BY <1>8, ScanFields DEF ScanShape, ScanStays
      <3>2. QED
        BY <1>3, <1>9, <1>12, <3>1 DEF CurrentTarget, IsTarget
    <2>3. QED
      BY <1>8, <1>24, <2>1, <2>2, StaysNames
  <1>26. QED
    BY <1>8, <1>9, <1>12, <1>23, <1>24, <1>25 DEF Written

\* The text of no file changes, and the archives do.
LEMMA SameTexts ==
  ASSUME NEW start, DiskInv(start), disk' \in Disks, disk'.text = disk.text, disk'.last = disk.last,
         disk'.doubt = FALSE, disk.doubt = FALSE, confirmed' = confirmed,
         disk'.current # 0 => disk'.current = disk.current,
         \A f \in 1..Total : f # disk.current /\ Pruned(f) => Pruned(f)',
         \A f \in 1..Total : \A name \in 1..MaxStamp :
           f # disk.current /\ ArchivedAs(name, f) => ArchivedAs(name, f)' \/ Pruned(f)'
  PROVE  DiskShape' /\ OrderInv(start)' /\ WrittenOn(start, start) /\ Total' = Total
  <1>1. DiskShape /\ OrderInv(start)
    BY DEF DiskInv
  <1>2. Total' = Total /\ Count' = Count
    BY DEF Total, Count
  <1>3. \A f \in 1..Total : Solid(f) = Len(disk.text[f]) /\ Solid(f)' = Len(disk.text[f])
    BY DEF Solid
  <1>4. DiskShape'
    BY <1>1 DEF DiskShape
  <1>5. /\ Total \in Nat /\ Count \in Nat /\ disk.last \in Nat
        /\ \A f \in 1..Total : Len(disk.text[f]) \in Nat
    BY <1>1, DiskFields
  <1>6. Total > 0 => Count = start[Total] + Len(disk.text[Total])
    <2>1. Total > 0 => Count = start[Total] + Solid(Total)
      BY <1>1 DEF OrderInv
    <2>2. Total > 0 => Total \in 1..Total
      BY <1>5
    <2>3. QED
      BY <1>3, <2>1, <2>2
  <1>7. Total' > 0 => Count' = start[Total'] + Solid(Total)'
    BY <1>2, <1>6 DEF Solid
  <1>8. OrderInv(start)'
    <2>1. /\ start \in [1..Total' -> Nat]
          /\ \A f, g \in 1..Total' : f < g => start[f] + Len(disk'.text[f]) <= start[g]
          /\ \A f \in 1..Total' : f + 1 \in 1..Total' => start[f + 1] = start[f] + Len(disk'.text[f])
          /\ Total' = 0 => Count' = 0
      BY <1>1, <1>2 DEF OrderInv
    <2>2. \A f \in 1..Total' : \A q \in 1..Solid(f)' :
            /\ start[f] + q \in 1..Count' /\ disk'.text[f][q].id = confirmed'[start[f] + q] /\ disk'.text[f][q].whole
      <3> SUFFICES ASSUME NEW f \in 1..Total, NEW q \in 1..Solid(f)'
                   PROVE  start[f] + q \in 1..Count /\ disk.text[f][q].id = confirmed[start[f] + q] /\ disk.text[f][q].whole
        BY <1>2
      <3>1. q \in 1..Solid(f)
        BY <1>3
      <3>2. QED
        BY <1>1, <3>1 DEF OrderInv
    <2>3. /\ \A i, j \in 1..Count' : i < j => confirmed'[i] < confirmed'[j]
          /\ \A i \in 1..Count' : confirmed'[i] <= disk'.last /\ ~disk'.doubt
      BY <1>1, <1>2 DEF OrderInv
    <2>4. QED
      BY <1>7, <2>1, <2>2, <2>3 DEF OrderInv
  <1>9. WrittenOn(start, start)
    <2>1. \A f \in 1..Total : \A q \in 1..Solid(f) : q <= Solid(f)' /\ disk'.text[f][q] = disk.text[f][q]
      <3> TAKE f \in 1..Total
      <3>1. Solid(f) = Solid(f)' /\ Solid(f) \in Nat
        BY <1>3, <1>5
      <3>2. QED
        BY <3>1
    <2>2. \A f \in 1..Total : \A q \in 1..Len(disk'.text[f]) : q <= Solid(f)
      <3> TAKE f \in 1..Total
      <3>1. Solid(f) \in Nat /\ Solid(f) = Len(disk'.text[f])
        BY <1>3, <1>5
      <3>2. QED
        BY <3>1
    <2>3. \A f \in 1..Total : f # disk.current => f # disk'.current
      BY <1>5
    <2>4. ~Unconfirmed
      BY DEF Unconfirmed
    <2>5. QED
      BY <1>2, <1>5, <2>1, <2>2, <2>3, <2>4 DEF WrittenOn
  <1>10. QED
    BY <1>2, <1>4, <1>8, <1>9

LEMMA RollWritten ==
  ASSUME Bounds, NEW start, DiskInv(start), scan \in Scans, Roll
  PROVE  Written(start)
  <1>1. PICK stamp \in 1..MaxStamp :
          /\ disk.archives # <<>> => stamp > Last(disk.archives).name
          /\ Moves([disk EXCEPT !.archives = Append(@, [name |-> stamp, file |-> disk.current]), !.current = 0])
    BY DEF Roll
  <1>2. disk.current # 0 /\ ~disk.doubt /\ disk.text[disk.current] # <<>> /\ confirmed' = confirmed
    BY DEF Roll
  <1> DEFINE a == [name |-> stamp, file |-> disk.current]
             d == [disk EXCEPT !.archives = Append(@, a), !.current = 0]
             A == Len(disk.archives)
  <1>3. DiskShape /\ FilesInv /\ OrderInv(start)
    BY DEF DiskInv
  <1>4. /\ disk \in Disks /\ disk.archives \in Seq(Archive) /\ confirmed \in Seq(Nat \ {0})
        /\ Total \in Nat /\ disk.doubt \in BOOLEAN /\ A \in Nat /\ disk.keep \in Nat /\ disk.current \in Nat
        /\ disk.text \in Seq(Seq(Line)) /\ \A f \in 1..Total : Len(disk.text[f]) \in Nat
    BY <1>3, DiskFields DEF DiskShape
  <1>5. /\ disk.current = Total /\ disk.current \in 1..Total /\ Rolled = Total - 1 /\ A <= disk.keep
        /\ \A i \in Archived : disk.archives[i].file \in 1..Rolled
    <2>1. /\ disk.current \in 0..Total
          /\ disk.current # 0 => disk.current = Total /\ Rolled = Total - 1 /\ Len(disk.archives) <= disk.keep
          /\ \A i \in Archived : disk.archives[i].file \in 1..Rolled
      BY FilesFacts
    <2>2. QED
      BY <1>2, <1>4, <2>1
  <1>6. a \in Archive /\ a.name = stamp /\ a.file = disk.current
    BY <1>4 DEF Archive
  <1>7. /\ d.archives = Append(disk.archives, a) /\ d.current = 0 /\ d.text = disk.text
        /\ d.keep = disk.keep /\ d.last = disk.last /\ d.doubt = disk.doubt
    BY <1>4 DEF Disks
  <1>8. /\ Append(disk.archives, a) \in Seq(Archive) /\ Len(Append(disk.archives, a)) = A + 1
        /\ \A i \in 1..A : Append(disk.archives, a)[i] = disk.archives[i]
        /\ Append(disk.archives, a)[A + 1] = a
    BY <1>4, <1>6, AppendProperties
  <1>9. d \in Disks
    <2>1. \A t \in Seq(Archive) : [disk EXCEPT !.archives = t, !.current = 0] \in Disks
      BY <1>4 DEF Disks
    <2>2. QED
      BY <1>8, <2>1
  <1>10. Moves(d)
    BY <1>1
  <1> HIDE DEF d
  <1>11. disk' = d /\ ScanStays
    BY <1>4, <1>7, <1>8, <1>10, ListedNames, MovesFacts
  <1>12. /\ disk' \in Disks /\ disk'.text = disk.text /\ disk'.last = disk.last /\ disk'.doubt = FALSE
         /\ disk.doubt = FALSE /\ disk'.current = 0 /\ disk'.keep = disk.keep
         /\ disk'.archives = Append(disk.archives, a)
    BY <1>2, <1>4, <1>7, <1>9, <1>11
  <1>13. /\ Archived' = 1..A + 1 /\ Archived = 1..A /\ Len(disk'.archives) = A + 1
         /\ \A i \in Archived : i \in Archived' /\ disk'.archives[i] = disk.archives[i]
         /\ disk'.archives[A + 1].name = stamp /\ disk'.archives[A + 1].file = disk.current
         /\ \A i \in Archived' : i \in Archived \/ i = A + 1
    <2>1. Archived' = 1..A + 1 /\ Archived = 1..A /\ Len(disk'.archives) = A + 1
      BY <1>8, <1>12 DEF Archived
    <2>2. /\ \A i \in 1..A : disk'.archives[i] = disk.archives[i]
          /\ disk'.archives[A + 1].name = stamp /\ disk'.archives[A + 1].file = disk.current
      BY <1>6, <1>8, <1>12
    <2>3. \A i \in 1..A + 1 : i \in 1..A \/ i = A + 1
      <3>1. A \in Nat
        BY <1>4
      <3> HIDE DEF A
      <3>2. QED
        BY <3>1
    <2>4. QED
      BY <1>4, <2>1, <2>2, <2>3
  <1> HIDE DEF a
  <1>14. A > 0 => stamp > disk.archives[A].name
    <2>1. A > 0 => disk.archives # <<>>
      BY <1>4
    <2>2. QED
      BY <1>1, <2>1 DEF Last
  <1>15. ASSUME NEW f \in 1..Total, f # disk.current
         PROVE  /\ Pruned(f) => Pruned(f)'
                /\ \A name : ArchivedAs(name, f) => ArchivedAs(name, f)'
    <2>1. f < disk.current
      BY <1>4, <1>5, <1>15
    <2>2. Pruned(f) => Pruned(f)'
      BY <1>13, <2>1 DEF Pruned
    <2>3. ASSUME NEW name, ArchivedAs(name, f) PROVE ArchivedAs(name, f)'
      <3>1. PICK i \in Archived : disk.archives[i].name = name /\ disk.archives[i].file = f
        BY <2>3 DEF ArchivedAs
      <3>2. i \in Archived' /\ disk'.archives[i].name = name /\ disk'.archives[i].file = f
        BY <1>13, <3>1
      <3>3. QED
        BY <3>2 DEF ArchivedAs
    <2>4. QED
      BY <2>2, <2>3
  <1>16. DiskShape' /\ OrderInv(start)' /\ WrittenOn(start, start) /\ Total' = Total
    BY <1>2, <1>12, <1>15, SameTexts
  <1>17. Rolled' = Total
    BY <1>12, <1>16 DEF Rolled
  <1>18. FilesInv'
    <2>1. A + 1 <= Rolled'
      BY <1>3, <1>4, <1>5, <1>17 DEF FilesInv
    <2>2. \A i \in Archived' : disk'.archives[i].file = Rolled' - (A + 1) + i
      <3> TAKE i \in Archived'
      <3>1. CASE i \in Archived
        <4>1. disk.archives[i].file = Rolled - A + i /\ i \in Nat
          BY <1>3, <1>13, <3>1 DEF FilesInv
        <4>2. disk'.archives[i].file = Rolled - A + i
          BY <1>13, <3>1, <4>1
        <4>3. A \in Nat /\ Total \in Nat /\ Rolled = Total - 1 /\ Rolled' = Total
          BY <1>4, <1>5, <1>17
        <4> HIDE DEF A
        <4>4. QED
          BY <4>1, <4>2, <4>3
      <3>2. CASE i = A + 1
        BY <1>4, <1>5, <1>13, <1>17, <3>2
      <3>3. QED
        BY <1>13, <3>1, <3>2
    <2>3. \A i, j \in Archived' : i < j => disk'.archives[i].name < disk'.archives[j].name
      <3> SUFFICES ASSUME NEW i \in Archived', NEW j \in Archived', i < j
                   PROVE  disk'.archives[i].name < disk'.archives[j].name
        OBVIOUS
      <3>1. i \in Archived /\ disk'.archives[i] = disk.archives[i]
        BY <1>4, <1>13
      <3>2. CASE j \in Archived
        BY <1>3, <1>13, <3>1, <3>2 DEF FilesInv
      <3>3. CASE j = A + 1
        <4>1. A \in Archived /\ A > 0
          BY <1>4, <1>13, <3>1
        <4>2. disk.archives[i].name <= disk.archives[A].name /\ disk.archives[A].name \in Nat /\ disk.archives[i].name \in Nat
          <5>1. disk.archives[A].name \in Nat /\ disk.archives[i].name \in Nat
            <6>1. \A h \in Archived : disk.archives[h].name \in 1..MaxStamp
              BY <1>3, DiskFields
            <6>2. QED
              BY <3>1, <4>1, <6>1
          <5>2. i < A => disk.archives[i].name < disk.archives[A].name
            BY <1>3, <3>1, <4>1 DEF FilesInv
          <5>3. i < A \/ i = A
            BY <1>4, <1>13, <3>1
          <5>4. QED
            BY <5>1, <5>2, <5>3
        <4>3. disk'.archives[j].name = stamp /\ stamp > disk.archives[A].name /\ stamp \in Nat
          BY <1>13, <1>14, <3>3, <4>1
        <4>4. QED
          BY <3>1, <4>2, <4>3
      <3>4. QED
        BY <1>13, <3>2, <3>3
    <2>4. \A f \in 1..Total' : f # disk'.current => Len(disk'.text[f]) > 0
      <3> SUFFICES ASSUME NEW f \in 1..Total PROVE Len(disk.text[f]) > 0
        BY <1>12, <1>16
      <3>1. CASE f = disk.current
        <4>1. disk.text[f] \in Seq(Line) /\ disk.text[f] # <<>>
          BY <1>2, <1>3, <3>1, DiskFields
        <4>2. QED
          BY <4>1
      <3>2. CASE f # disk.current
        BY <1>3, <3>2 DEF FilesInv
      <3>3. QED
        BY <3>1, <3>2
    <2>5. QED
      BY <1>12, <1>13, <2>1, <2>2, <2>3, <2>4 DEF FilesInv
  <1>19. NamesGoOn(start, start)
    <2> SUFFICES ASSUME ScanShape, OpenedInv(start), NameInv(start) PROVE NameInv(start)'
      BY DEF NamesGoOn
    <2>1. disk'.archives = Append(disk.archives, [name |-> stamp, file |-> disk.current])
      BY <1>12 DEF a
    <2>2. QED
      BY <1>2, <1>11, <1>12, <1>14, <1>16, <2>1, RollsNames
  <1>20. start \in [1..Total' -> Nat]
    BY <1>16 DEF OrderInv
  <1>21. QED
    BY <1>11, <1>16, <1>18, <1>19, <1>20 DEF Written, DiskInv

LEMMA UnlinkWritten ==
  ASSUME Bounds, NEW start, DiskInv(start), scan \in Scans, Unlink
  PROVE  Written(start)
  <1> DEFINE d == [disk EXCEPT !.archives = Tail(@)]
             A == Len(disk.archives)
  <1>1. A > disk.keep /\ Moves(d) /\ confirmed' = confirmed
    BY DEF Unlink
  <1>2. DiskShape /\ FilesInv /\ OrderInv(start)
    BY DEF DiskInv
  <1>3. /\ disk \in Disks /\ disk.archives \in Seq(Archive) /\ disk.archives # <<>>
        /\ Total \in Nat /\ disk.doubt \in BOOLEAN /\ A \in Nat /\ disk.keep \in Nat /\ A > 0
    <2>1. /\ disk \in Disks /\ disk.archives \in Seq(Archive)
          /\ Total \in Nat /\ disk.doubt \in BOOLEAN /\ A \in Nat /\ disk.keep \in Nat
      BY <1>2, DiskFields DEF DiskShape
    <2>2. QED
      BY <1>1, <2>1
  <1>4. disk.current = 0 /\ disk.doubt = FALSE /\ Rolled = Total
    BY <1>1, <1>2, <1>3 DEF FilesInv, Rolled
  <1>5. /\ Tail(disk.archives) \in Seq(Archive) /\ Len(Tail(disk.archives)) = A - 1
        /\ \A i \in 1..A - 1 : Tail(disk.archives)[i] = disk.archives[i + 1]
    BY <1>3, HeadTailProperties
  <1>6. /\ d.archives = Tail(disk.archives) /\ d.current = disk.current /\ d.text = disk.text
        /\ d.keep = disk.keep /\ d.last = disk.last /\ d.doubt = disk.doubt
    BY <1>3 DEF Disks
  <1>7. d \in Disks
    <2>1. \A t \in Seq(Archive) : [disk EXCEPT !.archives = t] \in Disks
      BY <1>3 DEF Disks
    <2>2. QED
      BY <1>5, <2>1
  <1> HIDE DEF d
  <1>8. disk' = d /\ ScanStays
    BY <1>1, <1>3, <1>5, <1>6, ListedNames, MovesFacts
  <1>9. /\ disk' \in Disks /\ disk'.text = disk.text /\ disk'.last = disk.last /\ disk'.doubt = FALSE
        /\ disk'.current = 0 /\ disk'.keep = disk.keep /\ disk'.archives = Tail(disk.archives)
    BY <1>4, <1>6, <1>7, <1>8
  <1>10. /\ Archived' = 1..A - 1 /\ Archived = 1..A /\ Len(disk'.archives) = A - 1
         /\ \A i \in Archived' : i + 1 \in Archived /\ disk'.archives[i] = disk.archives[i + 1] /\ i \in Nat
         /\ \A i \in Archived : i = 1 \/ i - 1 \in Archived'
    <2>1. Archived' = 1..A - 1 /\ Archived = 1..A /\ Len(disk'.archives) = A - 1
      BY <1>5, <1>9 DEF Archived
    <2>2. \A i \in 1..A - 1 : disk'.archives[i] = disk.archives[i + 1]
      BY <1>5, <1>9
    <2>3. /\ \A i \in 1..A - 1 : i + 1 \in 1..A /\ i \in Nat
          /\ \A i \in 1..A : i = 1 \/ i - 1 \in 1..A - 1
      BY <1>3
    <2>4. QED
      BY <2>1, <2>2, <2>3
  <1>11. \A f \in 1..Total : Pruned(f) => Pruned(f)'
    BY <1>10 DEF Pruned
  <1>12. ASSUME NEW f \in 1..Total, NEW name \in 1..MaxStamp, ArchivedAs(name, f)
         PROVE  ArchivedAs(name, f)' \/ Pruned(f)'
    <2>1. PICK i \in Archived : disk.archives[i].name = name /\ disk.archives[i].file = f
      BY <1>12 DEF ArchivedAs
    <2>2. CASE i = 1
      <3>1. ASSUME NEW j \in Archived' PROVE f < disk'.archives[j].file
        <4>1. j + 1 \in Archived /\ disk'.archives[j] = disk.archives[j + 1] /\ i < j + 1
          BY <1>3, <1>10, <2>2
        <4>2. disk.archives[i].file < disk.archives[j + 1].file
          BY <2>1, <4>1, FilesFacts
        <4>3. QED
          BY <2>1, <4>1, <4>2
      <3>2. QED
        BY <3>1 DEF Pruned
    <2>3. CASE i - 1 \in Archived'
      <3>1. disk'.archives[i - 1] = disk.archives[i]
        <4>1. disk'.archives[i - 1] = disk.archives[(i - 1) + 1]
          BY <1>10, <2>3
        <4>2. (i - 1) + 1 = i
          BY <1>10
        <4>3. QED
          BY <4>1, <4>2
      <3>2. QED
        BY <2>1, <2>3, <3>1 DEF ArchivedAs
    <2>4. QED
      BY <1>10, <2>2, <2>3
  <1>13. DiskShape' /\ OrderInv(start)' /\ WrittenOn(start, start) /\ Total' = Total
    BY <1>1, <1>4, <1>9, <1>11, <1>12, SameTexts
  <1>14. Rolled' = Rolled
    BY <1>4, <1>9, <1>13 DEF Rolled
  <1>15. FilesInv'
    <2>1. A - 1 <= Rolled'
      BY <1>2, <1>3, <1>4, <1>14 DEF FilesInv
    <2>2. \A i \in Archived' : disk'.archives[i].file = Rolled' - (A - 1) + i
      <3> TAKE i \in Archived'
      <3>1. disk'.archives[i].file = Rolled - A + (i + 1)
        BY <1>2, <1>10 DEF FilesInv
      <3>2. QED
        BY <1>3, <1>4, <1>10, <1>14, <3>1
    <2>3. \A i, j \in Archived' : i < j => disk'.archives[i].name < disk'.archives[j].name
      <3> SUFFICES ASSUME NEW i \in Archived', NEW j \in Archived', i < j
                   PROVE  disk'.archives[i].name < disk'.archives[j].name
        OBVIOUS
      <3>1. i + 1 \in Archived /\ j + 1 \in Archived /\ i + 1 < j + 1
        BY <1>10
      <3>2. QED
        BY <1>2, <1>10, <3>1 DEF FilesInv
    <2>4. \A f \in 1..Total' : f # disk'.current => Len(disk'.text[f]) > 0
      BY <1>2, <1>4, <1>9, <1>13 DEF FilesInv
    <2>5. QED
      BY <1>9, <1>10, <2>1, <2>2, <2>3, <2>4 DEF FilesInv
  <1>16. NamesGoOn(start, start)
    <2> SUFFICES ASSUME ScanShape, NameInv(start) PROVE NameInv(start)'
      BY DEF NamesGoOn
    <2>1. disk'.archives \in Seq(Archive) /\ ~CurrentTarget(start)'
      BY <1>5, <1>9 DEF CurrentTarget
    <2>2. \A i \in Archived' : \E j \in Archived : disk.archives[j] = disk'.archives[i]
      BY <1>10
    <2>3. QED
      BY <1>8, <1>13, <2>1, <2>2, StaysNames
  <1>17. start \in [1..Total' -> Nat]
    BY <1>13 DEF OrderInv
  <1>18. QED
    BY <1>8, <1>13, <1>15, <1>16, <1>17 DEF Written, DiskInv

LEMMA WriteStep ==
  ASSUME Bounds, NEW start, JournalInv(start), Write
  PROVE  \E s \in [1..Total' -> Nat] : JournalInv(s)'
  <1>1. ~Over
    BY DEF Write, Create, Roll, Unlink, WritePart, WriteRest, Confirm, TakeBack, Writes, Moves
  <1>2. DiskInv(start) /\ ScanInv(start)
    BY <1>1 DEF JournalInv, Over
  <1>3. ScanShape /\ OpenedInv(start) /\ NameInv(start) /\ Consecutive /\ Identified(start) /\ scan \in Scans
    BY <1>2 DEF ScanInv, ScanShape
  <1>4. Written(start)
    BY <1>2, <1>3, CreateWritten, RollWritten, UnlinkWritten, WritePartWritten, WriteRestWritten,
       ConfirmWritten, TakeBackWritten DEF Write
  <1>5. PICK s \in [1..Total' -> Nat] : DiskInv(s)' /\ WrittenOn(start, s) /\ NamesGoOn(start, s) /\ ScanStays
    BY <1>4 DEF Written
  <1>6. Count \in Nat
    BY <1>2, DiskFields DEF DiskInv
  <1>7. ScanShape' /\ Consecutive'
    BY <1>3, <1>5, <1>6, StaysShape
  <1>8. OpenedInv(s)' /\ Identified(s)' /\ NameInv(s)'
    BY <1>2, <1>3, <1>5, StaysOpened, StaysIdentified DEF NamesGoOn
  <1>9. scan'.at \in {"read", "done"} => ReadInv(s)'
    <2> SUFFICES ASSUME scan.at \in {"read", "done"} PROVE ReadInv(s)'
      BY <1>5 DEF ScanStays
    <2>1. ReadInv(start)
      BY <1>2 DEF ScanInv
    <2>2. QED
      BY <1>2, <1>3, <1>5, <2>1, StaysRead
  <1>10. ScanInv(s)'
    BY <1>7, <1>8, <1>9 DEF ScanInv
  <1>11. JournalInv(s)'
    BY <1>5, <1>10 DEF JournalInv
  <1>12. QED
    BY <1>11

-----------------------------------------------------------------------------
(* The steps of the scan.                                                  *)

LEMMA DiskStays ==
  ASSUME NEW start, DiskInv(start), disk' = disk, confirmed' = confirmed
  PROVE  /\ DiskInv(start)' /\ Total' = Total /\ Count' = Count /\ Archived' = Archived
         /\ \A f : Solid(f)' = Solid(f) /\ Pruned(f)' = Pruned(f)
         /\ \A name, f : ArchivedAs(name, f)' = ArchivedAs(name, f)
  <1>1. Total' = Total /\ Count' = Count /\ Archived' = Archived
    BY DEF Total, Count, Archived
  <1>2. \A f : Solid(f)' = Solid(f) /\ Pruned(f)' = Pruned(f)
    BY <1>1 DEF Solid, Pruned
  <1>3. \A name, f : ArchivedAs(name, f)' = ArchivedAs(name, f)
    BY <1>1 DEF ArchivedAs
  <1>4. DiskShape' /\ FilesInv' /\ OrderInv(start)'
    <2>1. DiskShape /\ FilesInv /\ OrderInv(start)
      BY DEF DiskInv
    <2>2. DiskShape'
      BY <2>1 DEF DiskShape
    <2>3. FilesInv'
      BY <1>1, <2>1 DEF FilesInv, Rolled
    <2>4. OrderInv(start)'
      BY <1>1, <2>1 DEF OrderInv, Solid
    <2>5. QED
      BY <2>2, <2>3, <2>4
  <1>5. QED
    BY <1>1, <1>2, <1>3, <1>4 DEF DiskInv

\* The scan ends without a result.
LEMMA EndsStep ==
  ASSUME NEW start, DiskInv(start), scan \in Scans, NEW how \in {"changed", "damaged"}, Ends(how)
  PROVE  JournalInv(start)'
  <1>1. disk' = disk /\ confirmed' = confirmed /\ scan'.at = how
    BY DEF Ends, Step, Scans
  <1>2. QED
    BY <1>1, DiskStays DEF JournalInv

\* Opened files keep their name, their file and what they held.
SameOpened ==
  /\ disk' = disk /\ confirmed' = confirmed /\ scan'.since = scan.since /\ scan'.paths = scan.paths
  /\ Len(scan'.opened) = Len(scan.opened)
  /\ \A k \in Opened : /\ scan'.opened[k].name = scan.opened[k].name
                       /\ scan'.opened[k].file = scan.opened[k].file
                       /\ scan'.opened[k].size = scan.opened[k].size

LEMMA OpenedStays ==
  ASSUME NEW start, DiskInv(start), OpenedInv(start), NamesInv(start), SameOpened
  PROVE  /\ DiskInv(start)' /\ Opened' = Opened /\ OpenedInv(start)' /\ NamesInv(start)'
         /\ \A f : HasFile(f)' = HasFile(f)
         /\ CoveredInv(start) => CoveredInv(start)'
         /\ VerifyInv => VerifyInv'
  <1>1. /\ disk' = disk /\ confirmed' = confirmed /\ scan'.since = scan.since /\ scan'.paths = scan.paths
        /\ Opened' = Opened
        /\ \A k \in Opened : /\ scan'.opened[k].name = scan.opened[k].name
                             /\ scan'.opened[k].file = scan.opened[k].file
                             /\ scan'.opened[k].size = scan.opened[k].size
    BY DEF SameOpened, Opened
  <1>2. /\ DiskInv(start)' /\ Total' = Total /\ Count' = Count /\ Archived' = Archived
        /\ \A f : Solid(f)' = Solid(f) /\ Pruned(f)' = Pruned(f)
        /\ \A name, f : ArchivedAs(name, f)' = ArchivedAs(name, f)
    BY <1>1, DiskStays
  <1>3. OpenedInv(start)'
    <2>1. ASSUME NEW k \in Opened, NEW o, NEW f, o = scan'.opened[k], f = o.file
          PROVE  OpenedAs(start, o, f)'
      <3>1. OpenedAs(start, scan.opened[k], f)
        BY <1>1, <2>1 DEF OpenedInv
      <3>2. o.name = scan.opened[k].name /\ o.size = scan.opened[k].size
        BY <1>1, <2>1
      <3>3. /\ f \in 1..Total
            /\ o.name # Stream => /\ f # disk.current /\ o.size = disk.text[f]
                                  /\ ArchivedAs(o.name, f) \/ Pruned(f)
            /\ \A q \in 1..Len(o.size) : q < Len(o.size) => q <= Solid(f) /\ o.size[q] = disk.text[f][q]
            /\ \A q \in 1..Len(disk.text[f]) :
                 start[f] + q <= scan.since => q <= Solid(f) /\ q <= Len(o.size) /\ o.size[q] = disk.text[f][q]
        BY <3>1, <3>2 DEF OpenedAs
      <3>4. QED
        BY <1>1, <1>2, <3>3 DEF OpenedAs
    <2>2. \A k \in Opened : \A j \in Opened : j < k => scan'.opened[j].file < scan'.opened[k].file
      BY <1>1 DEF OpenedInv
    <2>3. QED
      BY <1>1, <2>1, <2>2 DEF OpenedInv
  <1>4. NamesInv(start)'
    BY <1>1, <1>2 DEF NamesInv, IsTarget, CurrentTarget
  <1>5. \A f : HasFile(f)' = HasFile(f)
    BY <1>1 DEF HasFile
  <1>6. CoveredInv(start) => CoveredInv(start)'
    BY <1>1, <1>2 DEF CoveredInv, IsTarget, CurrentTarget, HasFile
  <1>7. VerifyInv => VerifyInv'
    BY <1>1, <1>2 DEF VerifyInv, Behind
  <1>8. QED
    BY <1>1, <1>2, <1>3, <1>4, <1>5, <1>6, <1>7

\* A scan that goes on: what its invariant says at once.
Going(start) == DiskInv(start) /\ ScanInv(start) /\ Bounds

LEMMA GoingFacts ==
  ASSUME NEW start, Going(start)
  PROVE  /\ Bounds /\ DiskInv(start) /\ ScanShape /\ OpenedInv(start) /\ NameInv(start) /\ NamesInv(start)
         /\ Consecutive /\ Identified(start) /\ scan \in Scans
         /\ scan.at \in {"read", "done"} => ReadInv(start)
  BY DEF Going, ScanInv, NameInv, ScanShape

LEMMA BeginStep ==
  ASSUME NEW start, Going(start), Begin
  PROVE  JournalInv(start)'
  <1>1. /\ disk' = disk /\ confirmed' = confirmed /\ scan.at = "start"
        /\ scan' = [scan EXCEPT !.at = "list", !.surely = Listed(disk), !.perhaps = Listed(disk),
                                !.since = Len(confirmed)]
    BY DEF Begin, Step
  <1>2. /\ scan \in Scans /\ scan.opened = <<>> /\ scan.p = 0 /\ scan.got = <<>> /\ DiskInv(start)
        /\ Count \in Nat /\ disk.archives \in Seq(Archive) /\ Ascending(scan.paths) /\ Bounds
        /\ Len(scan.paths) \in Nat
    BY <1>1, GoingFacts, DiskFields, ScanFields DEF ScanShape, DiskInv
  <1>3. Listed(disk) \in SUBSET (1..Stream)
    BY <1>2, ListedNames
  <1>4. /\ scan'.at = "list" /\ scan'.surely = Listed(disk) /\ scan'.since = Count /\ scan'.opened = <<>>
        /\ scan'.paths = scan.paths /\ scan'.p = 0 /\ scan'.got = <<>>
    BY <1>1, <1>2 DEF Scans, Count
  <1>5. scan' \in Scans
    BY <1>1, <1>2, <1>3 DEF Scans, Count
  <1>6. DiskInv(start)' /\ Total' = Total /\ Count' = Count
    BY <1>1, <1>2, DiskStays
  <1>7. Opened' = {}
    BY <1>4 DEF Opened
  <1>8. ScanShape'
    <2>1. scan'.since <= Count'
      BY <1>2, <1>4, <1>6
    <2>2. Len(scan'.opened) = 0
      BY <1>4
    <2>3. QED
      BY <1>2, <1>4, <1>5, <1>7, <2>1, <2>2 DEF ScanShape, Ascending, Compared
  <1>9. OpenedInv(start)' /\ Consecutive' /\ Identified(start)'
    BY <1>7 DEF OpenedInv, Consecutive, Identified
  <1>10. NameInv(start)'
    <2>1. NamesInv(start)'
      BY <1>7 DEF NamesInv
    <2>2. ListInv(start)'
      BY <1>1, <1>4 DEF ListInv, CurrentTarget, Listed
    <2>3. QED
      BY <1>4, <2>1, <2>2 DEF NameInv, Compared
  <1>11. QED
    BY <1>4, <1>6, <1>8, <1>9, <1>10 DEF JournalInv, ScanInv

LEMMA ListEndsStep ==
  ASSUME NEW start, Going(start), ListEnds
  PROVE  JournalInv(start)'
  <1>1. PICK names \in Listings : Step([scan EXCEPT !.at = "open", !.paths = Paths(names)])
    BY DEF ListEnds
  <1>2. /\ disk' = disk /\ confirmed' = confirmed /\ scan.at = "list"
        /\ scan' = [scan EXCEPT !.at = "open", !.paths = Paths(names)]
    BY <1>1 DEF ListEnds, Step
  <1>3. /\ scan \in Scans /\ scan.opened = <<>> /\ scan.p = 0 /\ scan.got = <<>> /\ DiskInv(start) /\ Bounds
        /\ scan.surely \in SUBSET (1..Stream) /\ scan.perhaps \in SUBSET (1..Stream)
        /\ scan.since <= Count /\ ListInv(start)
    BY <1>2, GoingFacts, ScanFields DEF ScanShape, NameInv
  <1>4. names \in SUBSET (1..Stream) /\ scan.surely \subseteq names
    BY <1>3 DEF Listings
  <1>5. /\ Paths(names) \in Seq(1..Stream) /\ Ascending(Paths(names))
        /\ \A x : x \in names <=> \E m \in 1..Len(Paths(names)) : Paths(names)[m] = x
    BY <1>3, <1>4, PathsFacts
  <1> DEFINE paths == Paths(names)
  <1> HIDE DEF paths
  <1>6. /\ scan'.at = "open" /\ scan'.since = scan.since /\ scan'.opened = <<>>
        /\ scan'.paths = paths /\ scan'.p = 0 /\ scan'.got = <<>>
    BY <1>2, <1>3 DEF Scans, paths
  <1>7. scan' \in Scans
    BY <1>2, <1>3, <1>5 DEF Scans
  <1>8. DiskInv(start)' /\ Total' = Total /\ Count' = Count
    BY <1>2, <1>3, DiskStays
  <1>9. Opened' = {}
    BY <1>6 DEF Opened
  <1>10. ScanShape'
    <2>1. Len(scan'.opened) = 0 /\ Len(paths) \in Nat /\ Ascending(scan'.paths)
      BY <1>5, <1>6, LenProperties DEF paths
    <2>2. QED
      BY <1>3, <1>6, <1>7, <1>8, <1>9, <2>1 DEF ScanShape, Compared
  <1>11. OpenedInv(start)' /\ Consecutive' /\ Identified(start)'
    BY <1>9 DEF OpenedInv, Consecutive, Identified
  <1>12. NameInv(start)'
    <2>1. NamesInv(start)'
      BY <1>9 DEF NamesInv
    <2>2. CurrentTarget(start)' => CurrentTarget(start)
      BY <1>2, <1>6 DEF CurrentTarget, IsTarget
    <2>3. CurrentTarget(start) => \E m \in 1..Len(paths) : paths[m] = Stream
      BY <1>3, <1>4, <1>5 DEF ListInv, paths
    <2>4. OpenInv(start)'
      BY <1>6, <1>9, <2>2, <2>3 DEF OpenInv
    <2>5. QED
      BY <1>6, <2>1, <2>4 DEF NameInv, Compared
  <1>13. QED
    BY <1>6, <1>8, <1>10, <1>11, <1>12 DEF JournalInv, ScanInv

\* What a name leads to.
LEMMA FileAtFacts ==
  ASSUME NEW start, DiskInv(start), NEW name
  PROVE  /\ name = Stream => FileAt(disk, name) = disk.current
         /\ name # Stream /\ FileAt(disk, name) # 0 => ArchivedAs(name, FileAt(disk, name))
         /\ \A f : name # Stream /\ ArchivedAs(name, f) => FileAt(disk, name) = f
  <1>1. Archived = DOMAIN disk.archives
    BY DiskFields, LenProperties DEF Archived, DiskInv
  <1> DEFINE of == {i \in DOMAIN disk.archives : disk.archives[i].name = name}
             one == CHOOSE i \in of : TRUE
  <1>2. name # Stream => FileAt(disk, name) = IF of = {} THEN 0 ELSE disk.archives[one].file
    BY DEF FileAt
  <1>3. of # {} => one \in of
    OBVIOUS
  <1>4. \A i \in of : i \in Archived /\ disk.archives[i].name = name
    BY <1>1
  <1>5. \A i \in Archived : disk.archives[i].name = name => i \in of
    BY <1>1
  <1> HIDE DEF of, one
  <1>6. name # Stream /\ FileAt(disk, name) # 0 => ArchivedAs(name, FileAt(disk, name))
    BY <1>2, <1>3, <1>4 DEF ArchivedAs
  <1>7. ASSUME NEW f, name # Stream, ArchivedAs(name, f) PROVE FileAt(disk, name) = f
    <2>1. PICK i \in Archived : disk.archives[i].name = name /\ disk.archives[i].file = f
      BY <1>7 DEF ArchivedAs
    <2>2. one \in Archived /\ disk.archives[one].name = name /\ of # {}
      BY <1>3, <1>4, <1>5, <2>1
    <2>3. one = i
      BY <2>1, <2>2, FilesFacts
    <2>4. QED
      BY <1>2, <1>7, <2>1, <2>2, <2>3
  <1>8. name = Stream => FileAt(disk, name) = disk.current
    BY DEF FileAt
  <1>9. QED
    BY <1>6, <1>7, <1>8

\* A file that was archived is before the current one.
LEMMA ArchivedFacts ==
  ASSUME NEW start, DiskInv(start), NEW name, NEW f, ArchivedAs(name, f)
  PROVE  f \in 1..Total /\ f # disk.current /\ ~Pruned(f) /\ name \in 1..MaxStamp
  <1>1. PICK i \in Archived : disk.archives[i].name = name /\ disk.archives[i].file = f
    BY DEF ArchivedAs
  <1>2. /\ f \in 1..Rolled /\ f # disk.current /\ Rolled \in Nat /\ Rolled <= Total
    BY <1>1, FilesFacts
  <1>3. Total \in Nat /\ name \in 1..MaxStamp
    BY <1>1, DiskFields DEF DiskInv
  <1>4. ~Pruned(f)
    BY <1>1, <1>2 DEF Pruned
  <1>5. QED
    BY <1>2, <1>3, <1>4

\* Of two archives the one with the later name is the later file.
LEMMA ArchivedInOrder ==
  ASSUME NEW start, DiskInv(start), NEW m, NEW n, NEW f, NEW g, ArchivedAs(m, f), ArchivedAs(n, g)
  PROVE  /\ m < n <=> f < g
         /\ m = n <=> f = g
  <1>1. PICK i \in Archived : disk.archives[i].name = m /\ disk.archives[i].file = f
    BY DEF ArchivedAs
  <1>2. PICK j \in Archived : disk.archives[j].name = n /\ disk.archives[j].file = g
    BY DEF ArchivedAs
  <1>3. m \in Nat /\ n \in Nat /\ f \in Nat /\ g \in Nat
    <2>1. \A h \in Archived : disk.archives[h].name \in 1..MaxStamp /\ disk.archives[h].file \in Nat
      BY DiskFields DEF DiskInv
    <2>2. QED
      BY <1>1, <1>2, <2>1
  <1>4. i < j => m < n /\ f < g
    BY <1>1, <1>2, FilesFacts DEF DiskInv, FilesInv
  <1>5. j < i => n < m /\ g < f
    BY <1>1, <1>2, FilesFacts DEF DiskInv, FilesInv
  <1>6. i < j \/ j < i \/ i = j
    BY DiskFields DEF Archived, DiskInv
  <1>7. QED
    BY <1>1, <1>2, <1>3, <1>4, <1>5, <1>6

LEMMA OpenStep ==
  ASSUME NEW start, Going(start), Open
  PROVE  JournalInv(start)'
  <1>1. /\ Bounds /\ DiskInv(start) /\ ScanShape /\ OpenedInv(start) /\ NameInv(start) /\ NamesInv(start) /\ scan \in Scans
    BY GoingFacts
  <1>2. scan.at = "open" /\ Len(scan.opened) < Len(scan.paths)
    BY DEF Open
  <1> SUFFICES ASSUME NEW n, n = Len(scan.opened) + 1, NEW name, name = scan.paths[n],
                      NEW file, file = FileAt(disk, name)
               PROVE  JournalInv(start)'
    OBVIOUS
  <1> DEFINE o == [name |-> name, file |-> file, size |-> disk.text[file], first |-> 0]
  <1>3. IF file = 0 THEN Ends("changed") ELSE Step([scan EXCEPT !.opened = Append(@, o)])
    BY DEF Open
  <1>4. CASE file = 0
    BY <1>1, <1>3, <1>4, EndsStep
  <1>5. CASE file # 0
    <2>1. disk' = disk /\ confirmed' = confirmed /\ scan' = [scan EXCEPT !.opened = Append(@, o)]
      BY <1>3, <1>5 DEF Step
    <2>2. /\ scan.paths \in Seq(1..Stream) /\ scan.opened \in Seq(OpenFile)
          /\ Len(scan.paths) \in Nat /\ Len(scan.opened) \in Nat /\ Stream = MaxStamp + 1 /\ MaxStamp \in Nat
          /\ \A m \in 1..Len(scan.paths) : scan.paths[m] \in 1..Stream
          /\ \A k \in Opened : scan.opened[k].name \in 1..Stream /\ scan.opened[k].file \in Nat
          /\ Opened = 1..Len(scan.opened)
      BY <1>1, ScanFields DEF Opened
    <2>3. n \in 1..Len(scan.paths) /\ name \in 1..Stream
      BY <1>2, <2>2
    <2>4. /\ name = Stream => file = disk.current
          /\ name # Stream => ArchivedAs(name, file)
      BY <1>1, <1>5, FileAtFacts
    <2>5. /\ Total \in Nat /\ Count \in Nat /\ disk.current \in 0..Total /\ (disk.current # 0 => disk.current = Total)
          /\ \A f \in 1..Total : /\ disk.text[f] \in Seq(Line) /\ Len(disk.text[f]) \in Nat
                                 /\ start[f] \in Nat /\ Solid(f) \in Nat
          /\ \A f \in 1..Total : \A q \in 1..Len(disk.text[f]) :
               q <= Solid(f) \/ (q = Len(disk.text[f]) /\ start[f] + q = Count + 1)
      BY <1>1, FilesFacts, DiskFields DEF DiskInv
    <2>6. file \in 1..Total /\ (name # Stream => file # disk.current)
      <3>1. CASE name = Stream
        BY <1>5, <2>4, <2>5, <3>1
      <3>2. CASE name # Stream
        BY <1>1, <2>4, <3>2, ArchivedFacts
      <3>3. QED
        BY <3>1, <3>2
    <2>7. o \in OpenFile /\ o.name = name /\ o.file = file /\ o.size = disk.text[file]
      BY <2>3, <2>5, <2>6 DEF OpenFile
    <2> HIDE DEF o
    <2>8. /\ Append(scan.opened, o) \in Seq(OpenFile) /\ Len(Append(scan.opened, o)) = n
          /\ \A k \in 1..Len(scan.opened) : Append(scan.opened, o)[k] = scan.opened[k]
          /\ Append(scan.opened, o)[n] = o
      BY <2>2, <2>7, AppendProperties
    <2>9. /\ scan'.at = "open" /\ scan'.since = scan.since /\ scan'.opened = Append(scan.opened, o)
          /\ scan'.paths = scan.paths /\ scan'.p = scan.p /\ scan'.got = scan.got
      BY <1>1, <1>2, <2>1 DEF Scans
    <2>10. scan' \in Scans
      BY <1>1, <2>1, <2>8 DEF Scans
    <2>11. /\ Opened' = 1..n /\ scan'.opened[n] = o
           /\ \A k \in Opened : k \in Opened' /\ k < n /\ scan'.opened[k] = scan.opened[k]
           /\ \A k \in Opened' : k = n \/ k \in Opened
      <3>1. Opened' = 1..n
        BY <2>8, <2>9 DEF Opened
      <3>2. \A k \in 1..n : k = n \/ k \in 1..Len(scan.opened)
        BY <2>2
      <3>3. \A k \in 1..Len(scan.opened) : k \in 1..n /\ k < n
        BY <2>2
      <3>4. QED
        BY <2>2, <2>8, <2>9, <3>1, <3>2, <3>3
    <2>12. /\ DiskInv(start)' /\ Total' = Total /\ Count' = Count /\ Archived' = Archived
           /\ \A f : Solid(f)' = Solid(f) /\ Pruned(f)' = Pruned(f)
           /\ \A m, f : ArchivedAs(m, f)' = ArchivedAs(m, f)
      BY <1>1, <2>1, DiskStays
    <2>13. ScanShape'
      <3>1. \A k \in Opened' : scan'.opened[k].name = scan'.paths[k]
        BY <1>1, <2>7, <2>9, <2>11 DEF ScanShape
      <3>2. Len(scan'.opened) <= Len(scan'.paths) /\ Ascending(scan'.paths) /\ scan'.since <= Count'
        BY <1>1, <2>3, <2>8, <2>9, <2>12 DEF ScanShape
      <3>3. scan'.p = 0 /\ scan'.got = <<>>
        BY <1>1, <1>2, <2>9 DEF ScanShape
      <3>4. QED
        BY <2>9, <2>10, <3>1, <3>2, <3>3 DEF ScanShape, Compared
    <2>14. \A x, f : OpenedAs(start, x, f) => OpenedAs(start, x, f)'
      BY <2>1, <2>9, <2>12 DEF OpenedAs
    <2>15. OpenedAs(start, o, file)
      <3>1. ASSUME NEW q \in 1..Len(disk.text[file]), q < Len(disk.text[file]) PROVE q <= Solid(file)
        BY <2>5, <2>6, <3>1
      <3>2. ASSUME NEW q \in 1..Len(disk.text[file]), start[file] + q <= scan.since PROVE q <= Solid(file)
        <4>1. scan.since <= Count /\ scan.since \in Nat
          BY <1>1, ScanFields DEF ScanShape
        <4>2. start[file] + q \in Nat /\ start[file] + q # Count + 1
          BY <2>5, <2>6, <3>2, <4>1
        <4>3. QED
          BY <2>5, <2>6, <4>2
      <3>3. \A q \in 1..Len(disk.text[file]) : q <= Len(disk.text[file])
        BY <2>5, <2>6
      <3>4. QED
        BY <2>4, <2>6, <2>7, <3>1, <3>2, <3>3 DEF OpenedAs
    <2>16. ASSUME NEW j \in Opened PROVE scan.opened[j].file < file /\ scan.opened[j].name # Stream
      <3>1. scan.opened[j].name = scan.paths[j] /\ j \in 1..Len(scan.paths) /\ j < n
        BY <1>1, <1>2, <2>2, <2>11 DEF ScanShape
      <3>2. scan.opened[j].name < name
        BY <1>1, <2>3, <3>1 DEF ScanShape, Ascending
      <3>3. scan.opened[j].name # Stream /\ scan.opened[j].name \in Nat
        <4>1. scan.opened[j].name \in Nat /\ name \in Nat /\ name <= Stream /\ Stream \in Nat
          <5>1. scan.opened[j].name \in 1..Stream /\ Stream \in Nat
            BY <2>2
          <5>2. name \in 1..Stream
            BY <2>3
          <5>3. QED
            BY <5>1, <5>2
        <4>2. \A x, y, z \in Nat : x < y /\ y <= z => x # z
          OBVIOUS
        <4>3. QED
          BY <3>2, <4>1, <4>2
      <3>4. OpenedAs(start, scan.opened[j], scan.opened[j].file)
        BY <1>1 DEF OpenedInv
      <3>5. /\ scan.opened[j].file \in 1..Total /\ scan.opened[j].file # disk.current
            /\ ArchivedAs(scan.opened[j].name, scan.opened[j].file) \/ Pruned(scan.opened[j].file)
        BY <3>3, <3>4 DEF OpenedAs
      <3>6. CASE file = disk.current
        BY <2>5, <2>6, <3>3, <3>5, <3>6
      <3>7. CASE file # disk.current
        <4>1. ArchivedAs(name, file)
          BY <2>4, <3>7
        <4>2. CASE ArchivedAs(scan.opened[j].name, scan.opened[j].file)
          BY <1>1, <3>2, <3>3, <4>1, <4>2, ArchivedInOrder
        <4>3. CASE Pruned(scan.opened[j].file)
          BY <3>3, <4>1, <4>3 DEF Pruned, ArchivedAs
        <4>4. QED
          BY <3>5, <4>2, <4>3
      <3>8. QED
        BY <3>6, <3>7
    <2>17. OpenedInv(start)'
      <3>1. ASSUME NEW k \in Opened', NEW x, NEW f, x = scan'.opened[k], f = x.file PROVE OpenedAs(start, x, f)'
        <4>1. CASE k = n
          BY <2>7, <2>11, <2>14, <2>15, <3>1, <4>1
        <4>2. CASE k \in Opened
          <5>1. OpenedAs(start, x, f)
            BY <1>1, <2>11, <3>1, <4>2 DEF OpenedInv
          <5>2. QED
            BY <2>14, <5>1
        <4>3. QED
          BY <2>11, <4>1, <4>2
      <3>2. ASSUME NEW k \in Opened', NEW j \in Opened', j < k PROVE scan'.opened[j].file < scan'.opened[k].file
        <4>1. j \in Opened
          BY <2>2, <2>11, <3>2
        <4>2. CASE k = n
          BY <2>7, <2>11, <2>16, <4>1, <4>2
        <4>3. CASE k \in Opened
          BY <1>1, <2>11, <3>2, <4>1, <4>3 DEF OpenedInv
        <4>4. QED
          BY <2>11, <4>2, <4>3
      <3>3. QED
        BY <3>1, <3>2 DEF OpenedInv
    <2>18. NameInv(start)'
      <3>1. ASSUME NEW i \in Archived, NEW k \in Opened', scan'.opened[k].name # Stream,
                   IsTarget(start, disk.archives[i].file), scan'.opened[k].file < disk.archives[i].file
            PROVE  scan'.opened[k].name < disk.archives[i].name
        <4>1. CASE k \in Opened
          BY <1>1, <2>11, <3>1, <4>1 DEF NamesInv
        <4>2. CASE k = n
          <5>1. scan'.opened[k].name = name /\ scan'.opened[k].file = file
            BY <2>7, <2>11, <4>2
          <5>2. ArchivedAs(name, file) /\ ArchivedAs(disk.archives[i].name, disk.archives[i].file)
            BY <2>4, <3>1, <5>1 DEF ArchivedAs
          <5>3. QED
            BY <1>1, <3>1, <5>1, <5>2, ArchivedInOrder
        <4>3. QED
          BY <2>11, <4>1, <4>2
      <3>2. ASSUME CurrentTarget(start), Len(disk.archives) = 0, NEW k \in Opened'
            PROVE  scan'.opened[k].name = Stream
        <4>1. CASE k \in Opened
          BY <1>1, <2>11, <3>2, <4>1 DEF NamesInv
        <4>2. CASE k = n
          <5>1. Archived = {}
            BY <3>2 DEF Archived
          <5>2. name = Stream
            BY <2>4, <5>1 DEF ArchivedAs
          <5>3. QED
            BY <2>7, <2>11, <4>2, <5>2
        <4>3. QED
          BY <2>11, <4>1, <4>2
      <3>3. NamesInv(start)'
        BY <2>1, <2>9, <2>12, <3>1, <3>2 DEF NamesInv, CurrentTarget, IsTarget
      <3>4. OpenInv(start)
        BY <1>1, <1>2 DEF NameInv
      <3>5. OpenInv(start)'
        <4> SUFFICES ASSUME CurrentTarget(start)
                     PROVE  /\ \E m \in 1..Len(scan.paths) : scan.paths[m] = Stream
                            /\ \A k \in Opened' : scan'.opened[k].name = Stream => scan'.opened[k].file = disk.current
          BY <2>1, <2>9 DEF OpenInv, CurrentTarget, IsTarget
        <4>1. \A k \in Opened' : scan'.opened[k].name = Stream => scan'.opened[k].file = disk.current
          BY <2>4, <2>7, <2>11, <3>4 DEF OpenInv
        <4>2. QED
          BY <3>4, <4>1 DEF OpenInv
      <3>6. QED
        BY <2>9, <3>3, <3>5 DEF NameInv, Compared
    <2>19. Consecutive' /\ Identified(start)'
      BY <2>9 DEF Consecutive, Identified
    <2>20. QED
      BY <2>9, <2>12, <2>13, <2>17, <2>18, <2>19 DEF JournalInv, ScanInv
  <1>6. QED
    BY <1>4, <1>5


\* A step after which the opened files are what they were.
LEMMA ShapeStays ==
  ASSUME NEW start, Going(start), SameOpened, scan' \in Scans, Len(scan.opened) = Len(scan.paths),
         scan'.at \in {"relist"} \cup Compared, scan'.at \in {"verify", "identify", "read"} => scan'.k > 0,
         scan'.at \notin {"read", "done"} => scan'.p = 0 /\ scan'.got = <<>>
  PROVE  ScanShape'
  <1>1. ScanShape /\ DiskInv(start)
    BY GoingFacts
  <1>2. Opened' = Opened /\ Count' = Count /\ Opened = 1..Len(scan.opened)
    BY DEF SameOpened, Opened, Count
  <1>3. /\ scan'.since <= Count' /\ Ascending(scan'.paths) /\ Len(scan'.opened) = Len(scan'.paths)
        /\ \A k \in Opened' : scan'.opened[k].name = scan'.paths[k]
    BY <1>1, <1>2 DEF SameOpened, ScanShape
  <1>4. Len(scan'.opened) <= Len(scan'.paths)
    <2>1. Len(scan'.paths) \in Nat
      BY LenProperties DEF Scans
    <2>2. QED
      BY <1>3, <2>1
  <1>5. scan'.at \notin {"start", "list"}
    BY DEF Compared
  <1>6. QED
    BY <1>3, <1>4, <1>5 DEF ScanShape, Compared

LEMMA ListAgainStep ==
  ASSUME NEW start, Going(start), ListAgain
  PROVE  JournalInv(start)'
  <1>1. /\ disk' = disk /\ confirmed' = confirmed /\ scan.at = "open" /\ Len(scan.opened) = Len(scan.paths)
        /\ scan' = [scan EXCEPT !.at = "relist", !.surely = Listed(disk), !.perhaps = Listed(disk)]
    BY DEF ListAgain, List, Step
  <1>2. /\ Bounds /\ DiskInv(start) /\ ScanShape /\ OpenedInv(start) /\ NameInv(start) /\ NamesInv(start)
        /\ scan \in Scans /\ disk.archives \in Seq(Archive)
    BY GoingFacts, DiskFields DEF DiskInv
  <1>3. Listed(disk) \in SUBSET (1..Stream)
    BY <1>2, ListedNames
  <1>4. /\ scan'.at = "relist" /\ scan'.surely = Listed(disk) /\ scan'.since = scan.since
        /\ scan'.opened = scan.opened /\ scan'.paths = scan.paths /\ scan'.p = scan.p /\ scan'.got = scan.got
    BY <1>1, <1>2 DEF Scans
  <1>5. scan' \in Scans
    BY <1>1, <1>2, <1>3 DEF Scans
  <1>6. SameOpened
    BY <1>1, <1>4 DEF SameOpened
  <1>7. /\ DiskInv(start)' /\ OpenedInv(start)' /\ NamesInv(start)'
        /\ \A f : HasFile(f)' = HasFile(f)
    BY <1>2, <1>6, OpenedStays
  <1>8. ScanShape'
    <2>1. scan'.p = 0 /\ scan'.got = <<>>
      BY <1>1, <1>2, <1>4 DEF ScanShape
    <2>2. QED
      BY <1>1, <1>4, <1>5, <1>6, <2>1, ShapeStays
  <1>9. Archived' = Archived /\ Archived = DOMAIN disk.archives
    BY <1>1, <1>2, LenProperties DEF Archived
  <1>10. \A i \in Archived : disk.archives[i].name \in Listed(disk)
    BY <1>9 DEF Listed
  <1>11. CurrentTarget(start) => HasFile(disk.current)
    <2> SUFFICES ASSUME CurrentTarget(start) PROVE HasFile(disk.current)
      OBVIOUS
    <2>1. OpenInv(start)
      BY <1>1, <1>2 DEF NameInv
    <2>2. PICK m \in 1..Len(scan.paths) : scan.paths[m] = Stream
      BY <2>1 DEF OpenInv
    <2>3. m \in Opened /\ scan.opened[m].name = Stream
      BY <1>1, <1>2, <2>2 DEF ScanShape, Opened
    <2>4. QED
      BY <2>1, <2>3 DEF OpenInv, HasFile
  <1>12. RelistInv(start)'
    <2>1. \A i \in Archived' : disk'.archives[i].name \in scan'.surely
      BY <1>1, <1>4, <1>9, <1>10
    <2>2. CurrentTarget(start)' => HasFile(disk.current)'
      BY <1>1, <1>4, <1>7, <1>11 DEF CurrentTarget, IsTarget
    <2>3. QED
      BY <2>1, <2>2 DEF RelistInv
  <1>13. NameInv(start)'
    BY <1>4, <1>7, <1>12 DEF NameInv, Compared
  <1>14. Consecutive' /\ Identified(start)'
    BY <1>4 DEF Consecutive, Identified
  <1>15. QED
    BY <1>4, <1>7, <1>8, <1>13, <1>14 DEF JournalInv, ScanInv

LEMMA SameNamesStep ==
  ASSUME NEW start, Going(start), SameNames
  PROVE  JournalInv(start)'
  <1>1. PICK names \in Listings :
          IF Paths(names) = scan.paths THEN Step([scan EXCEPT !.at = "verify", !.k = 1])
          ELSE Ends("changed")
    BY DEF SameNames
  <1>2. /\ Bounds /\ DiskInv(start) /\ ScanShape /\ OpenedInv(start) /\ NameInv(start) /\ NamesInv(start)
        /\ scan \in Scans /\ scan.at = "relist"
    BY GoingFacts DEF SameNames
  <1>3. CASE Paths(names) # scan.paths
    BY <1>1, <1>2, <1>3, EndsStep
  <1>4. CASE Paths(names) = scan.paths
    <2>1. /\ disk' = disk /\ confirmed' = confirmed /\ scan' = [scan EXCEPT !.at = "verify", !.k = 1]
      BY <1>1, <1>4 DEF Step
    <2>2. /\ scan'.at = "verify" /\ scan'.k = 1 /\ scan'.since = scan.since
          /\ scan'.opened = scan.opened /\ scan'.paths = scan.paths /\ scan'.p = scan.p /\ scan'.got = scan.got
      BY <1>2, <2>1 DEF Scans
    <2>3. scan' \in Scans
      BY <1>2, <2>1 DEF Scans
    <2>4. SameOpened
      BY <2>1, <2>2 DEF SameOpened
    <2>5. /\ DiskInv(start)' /\ OpenedInv(start)' /\ NamesInv(start)'
          /\ CoveredInv(start) => CoveredInv(start)'
          /\ VerifyInv => VerifyInv'
      BY <1>2, <2>4, OpenedStays
    <2>6. ScanShape'
      <3>1. scan'.p = 0 /\ scan'.got = <<>> /\ Len(scan.opened) = Len(scan.paths)
        BY <1>2, <2>2 DEF ScanShape
      <3>2. scan'.k > 0 /\ scan'.at \in {"relist"} \cup Compared
        BY <2>2 DEF Compared
      <3>3. QED
        BY <2>3, <2>4, <3>1, <3>2, ShapeStays
    <2>7. \A x \in scan.surely : \E m \in 1..Len(scan.paths) : scan.paths[m] = x
      <3>1. names \in SUBSET (1..Stream) /\ scan.surely \subseteq names
        BY <1>2, ScanFields DEF Listings
      <3>2. \A x : x \in names => \E m \in 1..Len(scan.paths) : scan.paths[m] = x
        BY <1>2, <1>4, <3>1, PathsFacts
      <3>3. QED
        BY <3>1, <3>2
    <2>8. RelistInv(start)
      BY <1>2 DEF NameInv
    <2>9. VerifyInv
      BY <2>7, <2>8 DEF VerifyInv, RelistInv
    <2>10. ASSUME NEW i \in Archived, IsTarget(start, disk.archives[i].file)
           PROVE  HasFile(disk.archives[i].file)
      <3>1. CASE HasFile(disk.archives[i].file)
        BY <3>1
      <3>2. CASE disk.archives[i].name \in scan.surely
        <4> SUFFICES ASSUME NEW name, name = disk.archives[i].name, NEW f, f = disk.archives[i].file
                     PROVE  HasFile(f)
          OBVIOUS
        <4>1. ArchivedAs(name, f)
          BY DEF ArchivedAs
        <4>2. name # Stream /\ name \in Nat
          BY <1>2, <4>1, ArchivedFacts DEF Stream, Bounds
        <4>3. PICK m \in 1..Len(scan.paths) : scan.paths[m] = name
          BY <2>7, <3>2
        <4>4. m \in Opened /\ scan.opened[m].name = name
          BY <1>2, <4>3 DEF ScanShape, Opened
        <4> SUFFICES ASSUME NEW g, g = scan.opened[m].file PROVE HasFile(f)
          OBVIOUS
        <4>5. OpenedAs(start, scan.opened[m], g)
          BY <1>2, <4>4 DEF OpenedInv
        <4>6. ArchivedAs(name, g) \/ Pruned(g)
          BY <4>2, <4>4, <4>5 DEF OpenedAs
        <4>7. CASE ArchivedAs(name, g)
          <5>1. f = g
            BY <1>2, <4>1, <4>7, ArchivedInOrder
          <5>2. QED
            BY <4>4, <5>1 DEF HasFile
        <4>8. CASE Pruned(g)
          <5>1. g < f
            BY <4>8 DEF Pruned
          <5>2. name < name
            BY <1>2, <2>10, <4>2, <4>4, <5>1 DEF NamesInv
          <5>3. QED
            BY <4>2, <5>2
        <4>9. QED
          BY <4>6, <4>7, <4>8
      <3>3. QED
        BY <2>8, <2>10, <3>1, <3>2 DEF RelistInv
    <2>11. CoveredInv(start)
      BY <2>8, <2>10 DEF CoveredInv, RelistInv
    <2>12. NameInv(start)'
      BY <2>2, <2>5, <2>9, <2>11 DEF NameInv, Compared
    <2>13. Consecutive' /\ Identified(start)'
      <3>1. \A j \in Opened' : ~(j < 1)
        BY DEF Opened
      <3>2. QED
        BY <2>2, <3>1 DEF Consecutive, Identified
    <2>14. QED
      BY <2>2, <2>5, <2>6, <2>12, <2>13 DEF JournalInv, ScanInv
  <1>5. QED
    BY <1>3, <1>4

LEMMA VerifyStep ==
  ASSUME NEW start, Going(start), Verify
  PROVE  JournalInv(start)'
  <1>1. /\ Bounds /\ DiskInv(start) /\ ScanShape /\ OpenedInv(start) /\ NameInv(start) /\ NamesInv(start)
        /\ Consecutive /\ scan \in Scans /\ scan.at = "verify" /\ scan.k <= Len(scan.opened)
    BY GoingFacts DEF Verify
  <1>2. /\ scan.k \in Nat /\ scan.k > 0 /\ Len(scan.opened) \in Nat /\ Len(scan.opened) = Len(scan.paths)
        /\ Opened = 1..Len(scan.opened) /\ Stream = MaxStamp + 1 /\ MaxStamp \in Nat
        /\ \A m \in 1..Len(scan.paths) : scan.paths[m] \in 1..Stream
    BY <1>1, ScanFields DEF ScanShape, Compared, Opened
  <1> SUFFICES ASSUME NEW k, k = scan.k, NEW o, o = scan.opened[k] PROVE JournalInv(start)'
    OBVIOUS
  <1>3. Ends("changed") \/ (FileAt(disk, o.name) = o.file /\ Step([scan EXCEPT !.k = k + 1]))
    BY DEF Verify
  <1>4. CASE Ends("changed")
    BY <1>1, <1>4, EndsStep
  <1>5. CASE FileAt(disk, o.name) = o.file /\ Step([scan EXCEPT !.k = k + 1])
    <2>1. disk' = disk /\ confirmed' = confirmed /\ scan' = [scan EXCEPT !.k = k + 1]
      BY <1>5 DEF Step
    <2>2. /\ scan'.at = "verify" /\ scan'.k = k + 1 /\ scan'.since = scan.since
          /\ scan'.opened = scan.opened /\ scan'.paths = scan.paths /\ scan'.p = scan.p /\ scan'.got = scan.got
      BY <1>1, <2>1 DEF Scans
    <2>3. scan' \in Scans
      <3>1. k + 1 \in Nat
        BY <1>2
      <3>2. QED
        BY <1>1, <2>1, <3>1 DEF Scans
    <2>4. SameOpened
      BY <2>1, <2>2 DEF SameOpened
    <2>5. /\ DiskInv(start)' /\ OpenedInv(start)' /\ NamesInv(start)' /\ Opened' = Opened
          /\ CoveredInv(start) => CoveredInv(start)'
          /\ VerifyInv => VerifyInv'
      BY <1>1, <2>4, OpenedStays
    <2>6. ScanShape'
      <3>1. scan'.p = 0 /\ scan'.got = <<>>
        BY <1>1, <2>2 DEF ScanShape
      <3>2. scan'.k > 0 /\ scan'.at \in {"relist"} \cup Compared
        BY <1>2, <2>2 DEF Compared
      <3>3. QED
        BY <1>2, <2>3, <2>4, <3>1, <3>2, ShapeStays
    <2>7. CoveredInv(start) /\ VerifyInv
      BY <1>1 DEF NameInv, Compared
    <2>8. NameInv(start)'
      BY <2>2, <2>5, <2>7 DEF NameInv, Compared
    <2>9. ASSUME k + 1 \in Opened PROVE scan.opened[k + 1].file = o.file + 1
      <3> SUFFICES ASSUME NEW l, l = k + 1, NEW q, q = scan.opened[l], NEW f, f = o.file, NEW g, g = q.file
                   PROVE  g = f + 1
        OBVIOUS
      <3>1. k \in Opened /\ l \in Opened /\ k < l /\ k \in Nat /\ l \in Nat
        BY <1>1, <1>2, <2>9
      <3>2. OpenedAs(start, o, f) /\ OpenedAs(start, q, g) /\ f < g
        BY <1>1, <3>1 DEF OpenedInv
      <3>3. o.name = scan.paths[k] /\ q.name = scan.paths[l] /\ o.name < q.name
        BY <1>1, <1>2, <3>1 DEF ScanShape, Ascending
      <3>4. o.name \in 1..Stream /\ q.name \in 1..Stream
        BY <1>2, <3>1, <3>3
      <3>5. f \in 1..Total /\ g \in 1..Total /\ Total \in Nat
        BY <1>1, <3>2, DiskFields DEF OpenedAs, DiskInv
      <3>6. ArchivedAs(o.name, f)
        <4>1. o.name # Stream
          BY <1>2, <3>3, <3>4
        <4>2. FileAt(disk, o.name) = f /\ f # 0
          BY <1>5, <3>5
        <4>3. QED
          BY <1>1, <4>1, <4>2, FileAtFacts
      <3>7. ASSUME f + 1 < g PROVE FALSE
        <4>1. PICK i \in Archived : disk.archives[i].name = o.name /\ disk.archives[i].file = f
          BY <3>6 DEF ArchivedAs
        <4>2. /\ Rolled \in Nat /\ (Rolled = Total \/ Rolled = Total - 1) /\ Len(disk.archives) \in Nat
              /\ \A j \in Archived : disk.archives[j].file = Rolled - Len(disk.archives) + j
              /\ Archived = 1..Len(disk.archives)
          BY <1>1, FilesFacts, DiskFields DEF DiskInv, FilesInv, Rolled, Archived
        <4>3. i + 1 \in Archived /\ disk.archives[i + 1].file = f + 1
          <5> SUFFICES ASSUME NEW a, a = Len(disk.archives) PROVE i + 1 \in 1..a /\ disk.archives[i + 1].file = f + 1
            BY <4>2
          <5>1. i \in 1..a /\ a \in Nat /\ f = Rolled - a + i
            BY <4>1, <4>2
          <5>2. i + 1 \in 1..a
            <6>1. f + 1 <= Total - 1
              BY <3>5, <3>7
            <6>2. f + 1 <= Rolled /\ Rolled \in Nat
              BY <3>5, <4>2, <6>1
            <6> HIDE DEF Rolled
            <6>3. QED
              BY <5>1, <6>2
          <5>3. disk.archives[i + 1].file = Rolled - a + (i + 1)
            BY <4>2, <5>2
          <5>4. QED
            BY <4>2, <5>1, <5>2, <5>3
        <4> SUFFICES ASSUME NEW name, name = disk.archives[i + 1].name PROVE FALSE
          OBVIOUS
        <4>4. ArchivedAs(name, f + 1)
          BY <4>3 DEF ArchivedAs
        <4>5. name \in 1..MaxStamp /\ o.name < name
          <5>1. f < f + 1
            BY <3>5
          <5>2. QED
            BY <1>1, <3>6, <4>4, <5>1, ArchivedFacts, ArchivedInOrder
        <4>6. Behind(i + 1)
          BY <3>1, <3>7, <4>3 DEF Behind
        <4>7. PICK m \in 1..Len(scan.paths) : scan.paths[m] = name
          BY <2>7, <4>3, <4>6 DEF VerifyInv
        <4>8. m > k
          <5>1. CASE m = k
            BY <1>2, <3>3, <3>4, <4>5, <4>7, <5>1
          <5>2. CASE m < k
            <6>1. scan.paths[m] < scan.paths[k]
              BY <1>1, <1>2, <3>1, <5>2 DEF ScanShape, Ascending
            <6>2. QED
              BY <1>2, <3>3, <3>4, <4>5, <4>7, <6>1
          <5>3. QED
            BY <3>1, <5>1, <5>2
        <4>9. q.name <= name
          <5>1. CASE m = l
            BY <1>2, <3>3, <4>5, <4>7, <5>1
          <5>2. CASE l < m
            <6>1. scan.paths[l] < scan.paths[m]
              BY <1>1, <1>2, <3>1, <5>2 DEF ScanShape, Ascending
            <6>2. QED
              BY <1>2, <3>3, <3>4, <4>5, <4>7, <6>1
          <5>3. QED
            BY <3>1, <4>8, <5>1, <5>2
        <4>10. q.name # Stream
          BY <1>2, <3>4, <4>5, <4>9
        <4>11. ArchivedAs(q.name, g) \/ Pruned(g)
          BY <3>2, <4>10 DEF OpenedAs
        <4>12. CASE ArchivedAs(q.name, g)
          <5>1. name < q.name
            BY <1>1, <3>7, <4>4, <4>12, ArchivedInOrder
          <5>2. QED
            BY <1>2, <3>4, <4>5, <4>9, <5>1
        <4>13. CASE Pruned(g)
          BY <3>2, <3>5, <4>1, <4>13 DEF Pruned
        <4>14. QED
          BY <4>11, <4>12, <4>13
      <3>8. QED
        BY <3>2, <3>5, <3>7
    <2>10. Consecutive'
      <3> SUFFICES ASSUME NEW j \in Opened, j + 1 \in Opened, j < k + 1
                   PROVE  scan.opened[j + 1].file = scan.opened[j].file + 1
        BY <2>2, <2>5 DEF Consecutive
      <3>1. CASE j = k
        BY <2>9, <3>1
      <3>2. CASE j < k
        BY <1>1, <3>2 DEF Consecutive
      <3>3. QED
        BY <1>2, <3>1, <3>2
    <2>11. Identified(start)'
      BY <2>2 DEF Identified
    <2>12. QED
      BY <2>2, <2>5, <2>6, <2>8, <2>10, <2>11 DEF JournalInv, ScanInv
  <1>6. QED
    BY <1>3, <1>4, <1>5

\* From one part of the scan to the next.
LEMMA TurnStays ==
  ASSUME NEW start, Going(start), NEW at \in {"verify", "identify", "read"},
         NEW next \in {"identify", "read", "done"}, Turn(at, next), next = "identify" => at = "verify"
  PROVE  /\ scan'.at = next /\ scan'.opened = scan.opened /\ scan'.p = scan.p /\ scan'.got = scan.got
         /\ scan'.k = 1 /\ scan'.since = scan.since /\ disk' = disk /\ confirmed' = confirmed
         /\ scan.at = at /\ Len(scan.opened) < scan.k /\ scan.k \in Nat /\ Len(scan.opened) \in Nat
         /\ Opened' = Opened /\ (at # "read" => scan.p = 0 /\ scan.got = <<>>)
         /\ next \in {"read", "done"} \/ scan.p = 0
         /\ DiskInv(start)' /\ ScanShape' /\ OpenedInv(start)' /\ NameInv(start)'
  <1>1. /\ Bounds /\ DiskInv(start) /\ ScanShape /\ OpenedInv(start) /\ NameInv(start) /\ NamesInv(start)
        /\ scan \in Scans /\ scan.at = at /\ scan.k > Len(scan.opened) /\ Len(scan.opened) = Len(scan.paths)
    BY GoingFacts DEF Turn, ScanShape, Compared
  <1>2. disk' = disk /\ confirmed' = confirmed /\ scan' = [scan EXCEPT !.at = next, !.k = 1]
    BY DEF Turn, Step
  <1>3. /\ scan'.at = next /\ scan'.k = 1 /\ scan'.since = scan.since
        /\ scan'.opened = scan.opened /\ scan'.paths = scan.paths /\ scan'.p = scan.p /\ scan'.got = scan.got
    BY <1>1, <1>2 DEF Scans
  <1>4. scan' \in Scans
    BY <1>1, <1>2 DEF Scans
  <1>5. SameOpened
    BY <1>2, <1>3 DEF SameOpened
  <1>6. /\ DiskInv(start)' /\ OpenedInv(start)' /\ NamesInv(start)' /\ Opened' = Opened
        /\ CoveredInv(start) => CoveredInv(start)'
    BY <1>1, <1>5, OpenedStays
  <1>7. at # "read" => scan.p = 0 /\ scan.got = <<>>
    BY <1>1 DEF ScanShape
  <1>8. ScanShape'
    <2>1. scan'.at \notin {"read", "done"} => scan'.p = 0 /\ scan'.got = <<>>
      BY <1>3, <1>7
    <2>2. scan'.k > 0 /\ scan'.at \in {"relist"} \cup Compared
      BY <1>3 DEF Compared
    <2>3. QED
      BY <1>1, <1>4, <1>5, <2>1, <2>2, ShapeStays
  <1>9. NameInv(start)'
    <2>1. CoveredInv(start)
      BY <1>1 DEF NameInv, Compared
    <2>2. QED
      BY <1>3, <1>6, <2>1 DEF NameInv
  <1>10. scan.k \in Nat /\ Len(scan.opened) \in Nat
    BY <1>1, ScanFields
  <1>11. QED
    BY <1>1, <1>2, <1>3, <1>6, <1>7, <1>8, <1>9, <1>10

LEMMA TurnStep ==
  ASSUME NEW start, Going(start),
         Turn("verify", "identify") \/ Turn("identify", "read") \/ Turn("read", "done")
  PROVE  JournalInv(start)'
  <1>1. Consecutive /\ Identified(start) /\ DiskInv(start) /\ OpenedInv(start)
    BY GoingFacts
  <1>2. CASE Turn("verify", "identify")
    <2>1. /\ scan'.at = "identify" /\ scan'.opened = scan.opened /\ scan'.k = 1 /\ Opened' = Opened
          /\ scan.at = "verify" /\ Len(scan.opened) < scan.k /\ scan.k \in Nat /\ Len(scan.opened) \in Nat
          /\ DiskInv(start)' /\ ScanShape' /\ OpenedInv(start)' /\ NameInv(start)'
      BY <1>2, TurnStays
    <2>2. \A j \in Opened : j < scan.k /\ ~(j < 1)
      BY <2>1 DEF Opened
    <2>3. Consecutive' /\ Identified(start)'
      BY <1>1, <2>1, <2>2 DEF Consecutive, Identified
    <2>4. QED
      BY <2>1, <2>3 DEF JournalInv, ScanInv
  <1>3. CASE Turn("identify", "read")
    <2>1. /\ scan'.at = "read" /\ scan'.opened = scan.opened /\ scan'.k = 1 /\ Opened' = Opened
          /\ scan'.p = 0 /\ scan'.got = <<>> /\ disk' = disk /\ scan'.since = scan.since
          /\ scan.at = "identify" /\ Len(scan.opened) < scan.k /\ scan.k \in Nat /\ Len(scan.opened) \in Nat
          /\ DiskInv(start)' /\ ScanShape' /\ OpenedInv(start)' /\ NameInv(start)'
      BY <1>3, TurnStays
    <2>2. \A j \in Opened : j < scan.k /\ ~(j < 1)
      BY <2>1 DEF Opened
    <2>3. Consecutive' /\ Identified(start)'
      BY <1>1, <2>1, <2>2 DEF Consecutive, Identified
    <2>4. ReadInv(start)'
      <3>1. Reading' = 1
        BY <2>1 DEF Reading
      <3>2. ASSUME 1 \in Opened PROVE 0 = start[scan.opened[1].file] + 0 - Base(start) /\ 0 <= Len(scan.opened[1].size)
        <4>1. OpenedAs(start, scan.opened[1], scan.opened[1].file) /\ scan \in Scans /\ Bounds
          BY <1>1, <3>2, GoingFacts DEF OpenedInv
        <4>2. start[scan.opened[1].file] \in Nat
          BY <1>1, <4>1, FilesFacts DEF OpenedAs
        <4>3. Len(scan.opened[1].size) \in Nat
          BY <3>2, <4>1, ScanFields
        <4>4. QED
          BY <4>2, <4>3 DEF Base
      <3>3. Base(start)' = Base(start) /\ Len(scan'.got) = 0
        BY <2>1 DEF Base
      <3>4. GotInv(start)'
        BY <3>3 DEF GotInv
      <3>5. QED
        BY <2>1, <2>2, <3>1, <3>2, <3>3, <3>4 DEF ReadInv
    <2>5. QED
      BY <2>1, <2>3, <2>4 DEF JournalInv, ScanInv
  <1>4. CASE Turn("read", "done")
    <2>1. /\ scan'.at = "done" /\ scan'.opened = scan.opened /\ scan'.k = 1 /\ Opened' = Opened
          /\ scan'.p = scan.p /\ scan'.got = scan.got /\ disk' = disk /\ scan'.since = scan.since
          /\ confirmed' = confirmed
          /\ scan.at = "read" /\ Len(scan.opened) < scan.k /\ scan.k \in Nat /\ Len(scan.opened) \in Nat
          /\ DiskInv(start)' /\ ScanShape' /\ OpenedInv(start)' /\ NameInv(start)'
      BY <1>4, TurnStays
    <2>2. ReadInv(start)
      BY <2>1, GoingFacts
    <2>3. Consecutive' /\ Identified(start)'
      BY <1>1, <2>1 DEF Consecutive, Identified
    <2>4. Reading = scan.k /\ Reading' = Len(scan.opened) + 1
      BY <2>1 DEF Reading
    <2>5. Reading \notin Opened /\ Reading' \notin Opened /\ \A j \in Opened : j < Reading /\ j < Reading'
      BY <2>1, <2>4 DEF Opened
    <2>6. ReadInv(start)'
      <3>1. Base(start)' = Base(start) /\ Count' = Count
        BY <2>1 DEF Base, Count
      <3>2. Stray(start) => Stray(start)'
        BY <2>1, <3>1 DEF Stray, Unconfirmed, Content
      <3>3. GotInv(start)'
        BY <2>1, <2>2, <3>1, <3>2 DEF ReadInv, GotInv
      <3>4. QED
        BY <2>1, <2>2, <2>5, <3>1, <3>3 DEF ReadInv
    <2>7. QED
      BY <2>1, <2>3, <2>6 DEF JournalInv, ScanInv
  <1>5. QED
    BY <1>2, <1>3, <1>4

\* What the next line of an opened file turns out to be.
Meets(start, o, f, p, line) ==
  /\ f = o.file /\ OpenedAs(start, o, f) /\ o.size \in Seq(Line) /\ p \in Nat
  /\ line \in LineOf(o, p) /\ line.is \notin {"changed", "damaged"}

Told(start, o, f, p, line) ==
  /\ line.is = "end" =>
       /\ line.id = 0
       /\ o.name # Stream => p >= Len(o.size)
       /\ \A r \in 1..Len(disk.text[f]) : start[f] + r <= scan.since => r <= p
  /\ line.is # "end" =>
       /\ o.name # Stream => p < Len(o.size)
       /\ p < Len(disk.text[f]) /\ disk.text[f][p + 1].whole
       /\ line.id = disk.text[f][p + 1].id /\ line.id \in Nat \ {0}

LEMMA LineFacts ==
  ASSUME NEW start, DiskInv(start), scan.since \in Nat,
         NEW o, NEW f, NEW p, NEW line, Meets(start, o, f, p, line)
  PROVE  Told(start, o, f, p, line)
  <1> SUFFICES ASSUME NEW now, now = disk.text[f], NEW q, q = p + 1, NEW n, n = Len(o.size)
               PROVE  /\ line.is = "end" =>
                           /\ line.id = 0
                           /\ o.name # Stream => p >= n
                           /\ \A r \in 1..Len(now) : start[f] + r <= scan.since => r <= p
                      /\ line.is # "end" =>
                           /\ o.name # Stream => p < n
                           /\ p < Len(now) /\ now[q].whole
                           /\ line.id = now[q].id /\ line.id \in Nat \ {0}
    BY DEF Told
  <1>0. /\ f = o.file /\ OpenedAs(start, o, f) /\ o.size \in Seq(Line) /\ p \in Nat
        /\ line \in LineOf(o, p) /\ line.is \notin {"changed", "damaged"}
    BY DEF Meets
  <1>1. /\ f \in 1..Total
        /\ o.name # Stream => f # disk.current /\ o.size = now
        /\ \A r \in 1..n : r < n => r <= Solid(f) /\ o.size[r] = now[r]
        /\ \A r \in 1..Len(now) : start[f] + r <= scan.since => r <= Solid(f) /\ r <= n /\ o.size[r] = now[r]
    BY <1>0 DEF OpenedAs
  <1>2. /\ Len(now) \in Nat /\ n \in Nat /\ q \in Nat /\ q > 0 /\ Solid(f) \in Nat /\ Solid(f) <= Len(now)
        /\ \A r \in 1..Len(now) : now[r].id \in Nat \ {0}
    <2>1. /\ Len(disk.text[f]) \in Nat
          /\ \A r \in 1..Len(disk.text[f]) : disk.text[f][r].id \in Nat \ {0}
      BY <1>1, DiskFields DEF DiskInv
    <2>2. n \in Nat
      BY <1>0, LenProperties
    <2>3. Solid(f) \in Nat /\ Solid(f) <= Len(disk.text[f])
      BY <1>1, FilesFacts, DiskFields DEF DiskInv
    <2>4. QED
      BY <1>0, <2>1, <2>2, <2>3
  <1>3. \A r \in 1..Solid(f) : now[r].whole
    BY <1>1 DEF DiskInv, OrderInv
  <1> DEFINE torn == n > 0 /\ ~o.size[n].whole
             gone == torn /\ (Len(now) < n \/ now[n].id # o.size[n].id)
             fits == p < n /\ ~(torn /\ q = n)
             next == {[is |-> "line", id |-> now[q].id]}
             cut  == Says(IF o.name = Stream THEN "end" ELSE "damaged")
  <1>4. LineOf(o, p) =
          IF ~fits /\ ~gone THEN IF p < n THEN cut ELSE Says("end")
          ELSE IF p >= Len(now) THEN Says("changed") \cup (IF p < n THEN {} ELSE Says("end"))
          ELSE (IF fits THEN {} ELSE cut) \cup (IF now[q].whole THEN next ELSE Says("damaged"))
    BY <1>0 DEF LineOf
  <1>5. /\ \A l \in Says("end") : l.is = "end" /\ l.id = 0
        /\ \A l \in Says("changed") : l.is = "changed"
        /\ \A l \in Says("damaged") : l.is = "damaged"
        /\ \A l \in next : l.is = "line" /\ l.id = now[q].id
        /\ \A l \in cut : l.is = "damaged" \/ (o.name = Stream /\ l.is = "end" /\ l.id = 0)
    BY DEF Says
  <1> HIDE DEF next, cut
  <1>6. o.name # Stream => ~torn
    <2> SUFFICES ASSUME o.name # Stream, n > 0 PROVE o.size[n].whole
      OBVIOUS
    <2>1. o.size = now /\ n = Len(now) /\ Solid(f) = Len(now)
      BY <1>1 DEF Solid
    <2>2. n \in 1..Solid(f)
      BY <1>2, <2>1
    <2>3. QED
      BY <1>3, <2>1, <2>2
  <1>7. line \notin Says("changed") /\ line \notin Says("damaged")
    BY <1>0, <1>5
  <1>8. line.is # "end" => line \in next /\ p < Len(now) /\ now[q].whole /\ (fits \/ gone)
    <2> SUFFICES ASSUME line.is # "end"
                 PROVE  line \in next /\ p < Len(now) /\ now[q].whole /\ (fits \/ gone)
      OBVIOUS
    <2>1. line \notin Says("end") /\ line \notin cut
      BY <1>0, <1>5
    <2> HIDE DEF fits, gone
    <2>2. (fits \/ gone) /\ ~(p >= Len(now)) /\ now[q].whole /\ line \in next
      BY <1>0, <1>4, <1>7, <2>1
    <2>3. QED
      BY <1>0, <1>2, <2>2
  <1>9. line.is = "end" => line.id = 0 /\ ~fits
    <2> SUFFICES ASSUME line.is = "end" PROVE line.id = 0 /\ ~fits
      OBVIOUS
    <2>1. line \notin next
      BY <1>5
    <2>2. ~fits /\ (line \in Says("end") \/ line \in cut)
      BY <1>0, <1>4, <1>7, <2>1
    <2>3. QED
      BY <1>5, <2>2
  <1>10. line.is = "end" => p >= n \/ (torn /\ q = n)
    BY <1>0, <1>2, <1>9
  <1>11. line.is # "end" /\ o.name # Stream => p < n
    BY <1>6, <1>8
  <1> HIDE DEF gone, fits
  <1>12. ASSUME line.is = "end", NEW r \in 1..Len(now), start[f] + r <= scan.since PROVE r <= p
    <2>1. r <= n /\ r \in 1..Solid(f) /\ o.size[r] = now[r] /\ r \in Nat
      BY <1>1, <1>2, <1>12
    <2>2. CASE p >= n
      BY <1>0, <1>2, <2>1, <2>2
    <2>3. CASE torn /\ q = n
      <3>1. r # n
        BY <1>3, <2>1, <2>3
      <3>2. QED
        BY <1>0, <1>2, <2>1, <2>3, <3>1
    <2>4. QED
      BY <1>10, <1>12, <2>2, <2>3
  <1>13. line.is # "end" => line.id = now[q].id /\ now[q].id \in Nat \ {0}
    <2> SUFFICES ASSUME line.is # "end" PROVE line.id = now[q].id /\ now[q].id \in Nat \ {0}
      OBVIOUS
    <2>1. q \in 1..Len(now)
      BY <1>0, <1>2, <1>8
    <2>2. QED
      BY <1>2, <1>5, <1>8, <2>1
  <1>14. QED
    BY <1>6, <1>8, <1>9, <1>10, <1>11, <1>12, <1>13

\* A step that only notes the first line of the file it looks at.
LEMMA IdentifyStep ==
  ASSUME NEW start, Going(start), Identify
  PROVE  JournalInv(start)'
  <1>1. /\ Bounds /\ DiskInv(start) /\ ScanShape /\ OpenedInv(start) /\ NameInv(start) /\ NamesInv(start)
        /\ Consecutive /\ Identified(start) /\ scan \in Scans /\ scan.at = "identify" /\ scan.k <= Len(scan.opened)
    BY GoingFacts DEF Identify
  <1>2. /\ scan.k \in Nat /\ scan.k > 0 /\ Len(scan.opened) \in Nat /\ Len(scan.opened) = Len(scan.paths)
        /\ Opened = 1..Len(scan.opened) /\ scan.since \in Nat /\ scan.opened \in Seq(OpenFile)
        /\ \A k \in Opened : /\ scan.opened[k] \in OpenFile /\ scan.opened[k].size \in Seq(Line)
                             /\ Len(scan.opened[k].size) \in Nat
    BY <1>1, ScanFields DEF ScanShape, Compared, Opened
  <1> SUFFICES ASSUME NEW k, k = scan.k, NEW o, o = scan.opened[k], NEW f, f = o.file PROVE JournalInv(start)'
    OBVIOUS
  <1>3. PICK line \in LineOf(o, 0) :
          IF line.is \in {"changed", "damaged"} THEN Ends(line.is)
          ELSE Step([scan EXCEPT !.k = @ + 1, !.opened[k].first = line.id])
    BY DEF Identify
  <1>4. CASE line.is \in {"changed", "damaged"}
    BY <1>1, <1>3, <1>4, EndsStep
  <1>5. CASE line.is \notin {"changed", "damaged"}
    <2>1. /\ disk' = disk /\ confirmed' = confirmed
          /\ scan' = [scan EXCEPT !.k = @ + 1, !.opened[k].first = line.id]
      BY <1>3, <1>5 DEF Step
    <2>2. k \in Opened /\ OpenedAs(start, o, f) /\ o.size \in Seq(Line) /\ Len(o.size) \in Nat
      BY <1>1, <1>2 DEF OpenedInv
    <2>3. /\ line.is = "end" =>
               /\ line.id = 0
               /\ o.name # Stream => 0 >= Len(o.size)
               /\ \A r \in 1..Len(disk.text[f]) : start[f] + r <= scan.since => r <= 0
          /\ line.is # "end" => line.id \in Nat \ {0}
      <3>0. SUFFICES ASSUME NEW p, p = 0
                   PROVE  /\ line.is = "end" =>
                               /\ line.id = 0
                               /\ o.name # Stream => p >= Len(o.size)
                               /\ \A r \in 1..Len(disk.text[f]) : start[f] + r <= scan.since => r <= p
                          /\ line.is # "end" => line.id \in Nat \ {0}
        OBVIOUS
      <3>1. line \in LineOf(o, p) /\ p \in Nat
        BY <1>3, <3>0
      <3>2. Meets(start, o, f, p, line) /\ DiskInv(start) /\ scan.since \in Nat
        BY <1>1, <1>2, <1>5, <2>2, <3>1 DEF Meets
      <3>3. QED
        BY <3>2, LineFacts DEF Told
    <2>4. line.id \in Nat
      BY <2>3
    <2> DEFINE opened == [scan.opened EXCEPT ![k].first = line.id]
    <2>5. /\ opened \in Seq(OpenFile) /\ Len(opened) = Len(scan.opened)
          /\ \A j \in Opened : /\ opened[j].name = scan.opened[j].name /\ opened[j].file = scan.opened[j].file
                               /\ opened[j].size = scan.opened[j].size
                               /\ (j # k => opened[j].first = scan.opened[j].first)
          /\ opened[k].first = line.id
      <3>1. DOMAIN scan.opened = 1..Len(scan.opened) /\ k \in 1..Len(scan.opened)
        BY <1>2, <2>2, LenProperties
      <3>2. \A x \in OpenFile : [x EXCEPT !.first = line.id] \in OpenFile
        BY <2>4 DEF OpenFile
      <3>3. /\ opened = [j \in 1..Len(scan.opened) |->
                           IF j = k THEN [scan.opened[k] EXCEPT !.first = line.id] ELSE scan.opened[j]]
        BY <3>1
      <3>4. [scan.opened[k] EXCEPT !.first = line.id] \in OpenFile
        BY <1>2, <2>2, <3>2
      <3> HIDE DEF opened
      <3>5. opened \in [1..Len(scan.opened) -> OpenFile]
        BY <1>2, <3>3, <3>4
      <3>6. opened \in Seq(OpenFile) /\ Len(opened) = Len(scan.opened)
        BY <1>2, <3>5
      <3>7. \A j \in Opened : opened[j] = IF j = k THEN [scan.opened[k] EXCEPT !.first = line.id] ELSE scan.opened[j]
        BY <1>2, <3>3
      <3>8. \A x \in OpenFile : LET y == [x EXCEPT !.first = line.id]
                                IN  y.name = x.name /\ y.file = x.file /\ y.size = x.size /\ y.first = line.id
        BY DEF OpenFile
      <3>9. /\ opened[k].name = scan.opened[k].name /\ opened[k].file = scan.opened[k].file
            /\ opened[k].size = scan.opened[k].size /\ opened[k].first = line.id
        <4>1. opened[k] = [scan.opened[k] EXCEPT !.first = line.id] /\ scan.opened[k] \in OpenFile
          BY <1>2, <2>2, <3>7
        <4>2. QED
          BY <3>8, <4>1
      <3>10. \A j \in Opened : j # k => opened[j] = scan.opened[j]
        BY <3>7
      <3>11. QED
        BY <3>6, <3>9, <3>10
    <2>6. /\ scan'.at = "identify" /\ scan'.k = k + 1 /\ scan'.since = scan.since /\ scan'.opened = opened
          /\ scan'.paths = scan.paths /\ scan'.p = scan.p /\ scan'.got = scan.got
      BY <1>1, <2>1 DEF Scans
    <2>7. scan' \in Scans
      <3>1. k + 1 \in Nat
        BY <1>2
      <3>2. scan' = [scan EXCEPT !.k = k + 1, !.opened = opened]
        BY <1>1, <2>1 DEF Scans
      <3> HIDE DEF opened
      <3>3. QED
        BY <1>1, <2>5, <3>1, <3>2 DEF Scans
    <2> HIDE DEF opened
    <2>8. SameOpened
      BY <2>1, <2>5, <2>6 DEF SameOpened
    <2>9. /\ DiskInv(start)' /\ OpenedInv(start)' /\ NamesInv(start)' /\ Opened' = Opened
          /\ CoveredInv(start) => CoveredInv(start)'
      BY <1>1, <2>8, OpenedStays
    <2>10. ScanShape'
      <3>1. scan'.p = 0 /\ scan'.got = <<>>
        BY <1>1, <2>6 DEF ScanShape
      <3>2. scan'.k > 0 /\ scan'.at \in {"relist"} \cup Compared
        BY <1>2, <2>6 DEF Compared
      <3>3. QED
        BY <1>2, <2>7, <2>8, <3>1, <3>2, ShapeStays
    <2>11. NameInv(start)'
      <3>1. CoveredInv(start)
        BY <1>1 DEF NameInv, Compared
      <3>2. QED
        BY <2>6, <2>9, <3>1 DEF NameInv, Compared
    <2>12. Consecutive'
      BY <1>1, <2>5, <2>6, <2>9 DEF Consecutive
    <2>13. o.name # Stream => line.id # 0
      <3> SUFFICES ASSUME o.name # Stream PROVE line.is # "end"
        BY <2>3
      <3>1. o.size = disk.text[f] /\ f # disk.current /\ f \in 1..Total
        BY <2>2 DEF OpenedAs
      <3>2. Len(disk.text[f]) > 0
        BY <1>1, <3>1, FilesFacts
      <3>3. QED
        BY <2>2, <2>3, <3>1, <3>2
    <2>14. ASSUME line.id = 0, NEW q \in 1..Len(disk.text[f]) PROVE start[f] + q > scan.since
      <3>1. f \in 1..Total /\ start[f] \in Nat /\ Len(disk.text[f]) \in Nat
        BY <1>1, <2>2, FilesFacts, DiskFields DEF OpenedAs, DiskInv
      <3>2. line.is = "end"
        BY <2>3, <2>14
      <3>3. start[f] + q <= scan.since => q <= 0
        BY <2>3, <3>2
      <3> SUFFICES ASSUME NEW s, s = start[f], s + q <= scan.since PROVE FALSE
        BY <1>2, <3>1
      <3>4. QED
        BY <3>1, <3>3
    <2>15. Identified(start)'
      <3> SUFFICES ASSUME NEW j \in Opened, j < k + 1
                   PROVE  /\ opened[j].name # Stream => opened[j].first # 0
                          /\ opened[j].first = 0 =>
                               \A q \in 1..Len(disk.text[opened[j].file]) : start[opened[j].file] + q > scan.since
        BY <2>1, <2>6, <2>9 DEF Identified
      <3>1. CASE j = k
        BY <2>2, <2>5, <2>13, <2>14, <3>1
      <3>2. CASE j < k
        <4>1. /\ scan.opened[j].name # Stream => scan.opened[j].first # 0
              /\ scan.opened[j].first = 0 =>
                   \A q \in 1..Len(disk.text[scan.opened[j].file]) : start[scan.opened[j].file] + q > scan.since
          BY <1>1, <3>2 DEF Identified
        <4>2. j # k
          BY <1>2, <3>2
        <4>3. /\ opened[j].name = scan.opened[j].name /\ opened[j].file = scan.opened[j].file
              /\ opened[j].first = scan.opened[j].first
          BY <2>5, <4>2
        <4>4. QED
          BY <4>1, <4>3
      <3>3. QED
        BY <1>2, <3>1, <3>2
    <2>16. QED
      BY <2>6, <2>9, <2>10, <2>11, <2>12, <2>15 DEF JournalInv, ScanInv
  <1>6. QED
    BY <1>4, <1>5

\* On to the next file: all that was confirmed before the scan in this one was read.
LEMMA NextFileStep ==
  ASSUME NEW start, Going(start), scan.at = "read", NEW k, k = scan.k, k \in Opened, NEW o, o = scan.opened[k],
         NEW f, f = o.file, NextFile, o.name = Stream \/ Len(o.size) <= scan.p,
         \A q \in 1..Len(disk.text[f]) : start[f] + q <= scan.since => q <= scan.p
  PROVE  JournalInv(start)'
  <1>1. /\ Bounds /\ DiskInv(start) /\ ScanShape /\ OpenedInv(start) /\ NameInv(start) /\ NamesInv(start)
        /\ Consecutive /\ Identified(start) /\ scan \in Scans /\ ReadInv(start)
    BY GoingFacts
  <1>2. /\ scan.k \in Nat /\ scan.k > 0 /\ Len(scan.opened) \in Nat /\ Len(scan.opened) = Len(scan.paths)
        /\ Opened = 1..Len(scan.opened) /\ scan.since \in Nat /\ scan.p \in Nat /\ Len(scan.got) \in Nat
        /\ \A m \in 1..Len(scan.paths) : scan.paths[m] \in 1..Stream
    BY <1>1, ScanFields DEF ScanShape, Compared, Opened
  <1>3. disk' = disk /\ confirmed' = confirmed /\ scan' = [scan EXCEPT !.k = k + 1, !.p = 0]
    BY DEF NextFile, Step
  <1>4. /\ scan'.at = "read" /\ scan'.k = k + 1 /\ scan'.since = scan.since /\ scan'.opened = scan.opened
        /\ scan'.paths = scan.paths /\ scan'.p = 0 /\ scan'.got = scan.got
    BY <1>1, <1>3 DEF Scans
  <1>5. scan' \in Scans
    <2>1. k + 1 \in Nat
      BY <1>2
    <2>2. QED
      BY <1>1, <1>3, <2>1 DEF Scans
  <1>6. SameOpened
    BY <1>3, <1>4 DEF SameOpened
  <1>7. /\ DiskInv(start)' /\ OpenedInv(start)' /\ NamesInv(start)' /\ Opened' = Opened
        /\ CoveredInv(start) => CoveredInv(start)'
    BY <1>1, <1>6, OpenedStays
  <1>8. ScanShape'
    <2>1. scan'.k > 0 /\ scan'.at \in {"relist"} \cup Compared /\ scan'.at \in {"read", "done"}
      BY <1>2, <1>4 DEF Compared
    <2>2. QED
      BY <1>2, <1>5, <1>6, <2>1, ShapeStays
  <1>9. NameInv(start)'
    <2>1. CoveredInv(start)
      BY <1>1 DEF NameInv, Compared
    <2>2. QED
      BY <1>4, <1>7, <2>1 DEF NameInv, Compared
  <1>10. Consecutive' /\ Identified(start)'
    BY <1>1, <1>3, <1>4, <1>7 DEF Consecutive, Identified
  <1>11. Reading = k /\ Reading' = k + 1 /\ Base(start)' = Base(start) /\ Count' = Count
    BY <1>3, <1>4 DEF Reading, Base, Count
  <1>12. /\ OpenedAs(start, o, f) /\ f \in 1..Total /\ start[f] \in Nat /\ Len(disk.text[f]) \in Nat
         /\ Len(o.size) \in Nat
         /\ Len(scan.got) = start[f] + scan.p - Base(start)
         /\ o.name # Stream => scan.p <= Len(o.size)
    <2>1. OpenedAs(start, o, f)
      BY <1>1 DEF OpenedInv
    <2>2. f \in 1..Total
      BY <2>1 DEF OpenedAs
    <2>3. start[f] \in Nat /\ Len(disk.text[f]) \in Nat
      BY <1>1, <2>2, FilesFacts, DiskFields DEF DiskInv
    <2>4. Len(o.size) \in Nat
      BY <1>1, ScanFields
    <2>5. /\ Len(scan.got) = start[f] + scan.p - Base(start)
          /\ o.name # Stream => scan.p <= Len(o.size)
      BY <1>1, <1>11 DEF ReadInv
    <2>6. QED
      BY <2>1, <2>2, <2>3, <2>4, <2>5
  <1>13. Base(start) \in Nat
    <2>1. 1 \in Opened
      BY <1>2
    <2>2. OpenedAs(start, scan.opened[1], scan.opened[1].file)
      BY <1>1, <2>1 DEF OpenedInv
    <2>3. QED
      BY <1>1, <2>2, FilesFacts DEF Base, OpenedAs
  <1>14. ASSUME k + 1 \in Opened
         PROVE  /\ Len(scan.got) = start[scan.opened[k + 1].file] + 0 - Base(start)
                /\ 0 <= Len(scan.opened[k + 1].size)
    <2>1. o.name < scan.opened[k + 1].name /\ o.name \in Nat /\ scan.opened[k + 1].name \in 1..Stream
      <3>1. k < k + 1
        BY <1>2
      <3>2. o.name = scan.paths[k] /\ scan.opened[k + 1].name = scan.paths[k + 1]
        BY <1>1, <1>14 DEF ScanShape
      <3>3. QED
        BY <1>1, <1>2, <1>14, <3>1, <3>2 DEF ScanShape, Ascending
    <2>2. o.name # Stream
      BY <2>1
    <2>3. o.size = disk.text[f] /\ scan.p = Len(disk.text[f])
      <3>1. o.size = disk.text[f]
        BY <1>12, <2>2 DEF OpenedAs
      <3>2. Len(o.size) <= scan.p
        BY <2>2
      <3>3. scan.p <= Len(o.size) /\ Len(o.size) \in Nat /\ scan.p \in Nat
        BY <1>2, <1>12, <2>2
      <3>4. scan.p = Len(o.size)
        BY <3>2, <3>3
      <3>5. QED
        BY <3>1, <3>4
    <2>4. scan.opened[k + 1].file = f + 1
      BY <1>1, <1>14 DEF Consecutive
    <2>5. OpenedAs(start, scan.opened[k + 1], f + 1)
      BY <1>1, <1>14, <2>4 DEF OpenedInv
    <2>6. f + 1 \in 1..Total
      BY <2>5 DEF OpenedAs
    <2>7. start[f + 1] = start[f] + Len(disk.text[f])
      BY <1>1, <1>12, <2>6 DEF DiskInv, OrderInv
    <2>8. Len(scan.opened[k + 1].size) \in Nat
      BY <1>1, <1>14, ScanFields
    <2> SUFFICES ASSUME NEW g, g = f + 1 PROVE Len(scan.got) = start[g] + 0 - Base(start)
      BY <2>4, <2>8
    <2>9. start[g] = start[f] + Len(disk.text[f])
      BY <2>7
    <2>10. \A x, y, z \in Nat : x + y - z = (x + y) + 0 - z
      OBVIOUS
    <2>11. start[g] = start[f] + scan.p /\ start[g] \in Nat
      BY <1>1, <2>3, <2>6, <2>9, FilesFacts
    <2>12. start[f] \in Nat /\ scan.p \in Nat /\ Len(scan.got) \in Nat /\ Len(scan.got) = start[f] + scan.p - Base(start)
      BY <1>2, <1>12
    <2>13. start[f] + scan.p - Base(start) = (start[f] + scan.p) + 0 - Base(start)
      BY <1>13, <2>10, <2>12
    <2>14. QED
      BY <2>11, <2>12, <2>13
  <1>15. GotInv(start)'
    <2>1. GotInv(start)
      BY <1>1 DEF ReadInv
    <2>2. Stray(start) => Stray(start)'
      BY <1>3, <1>4, <1>11 DEF Stray, Unconfirmed, Content
    <2>3. QED
      BY <1>3, <1>4, <1>11, <2>1, <2>2 DEF GotInv
  <1>16. ASSUME NEW j \in Opened, j < k + 1, NEW q \in 1..Len(disk.text[scan.opened[j].file]),
                start[scan.opened[j].file] + q <= scan.since
         PROVE  start[scan.opened[j].file] + q <= Base(start) + Len(scan.got)
    <2>1. CASE j = k
      <3>1. q \in 1..Len(disk.text[f]) /\ start[f] + q <= scan.since
        BY <1>16, <2>1
      <3>2. q <= scan.p
        BY <3>1
      <3>3. start[f] + q <= Base(start) + Len(scan.got)
        <4>1. \A s, b, n, p, x \in Nat : n = s + p - b /\ x <= p => s + x <= b + n
          OBVIOUS
        <4>2. q \in Nat
          BY <1>12, <3>1
        <4>3. QED
          BY <1>2, <1>12, <1>13, <3>2, <4>1, <4>2
      <3>4. QED
        BY <2>1, <3>3
    <2>2. CASE j < k
      BY <1>1, <1>11, <1>16, <2>2 DEF ReadInv
    <2>3. QED
      BY <1>2, <1>16, <2>1, <2>2
  <1>17. ReadInv(start)'
    <2>1. Len(scan.opened) # 0
      BY <1>2
    <2>2. QED
      BY <1>3, <1>4, <1>7, <1>11, <1>14, <1>15, <1>16, <2>1 DEF ReadInv
  <1>18. QED
    BY <1>4, <1>7, <1>8, <1>9, <1>10, <1>17 DEF JournalInv, ScanInv

\* One more line is given out.
Gives(id) == Step([scan EXCEPT !.p = @ + 1, !.got = Append(@, id)])
Given(o, f, p, id) ==
  /\ scan.at = "read" /\ scan.k \in Opened /\ o = scan.opened[scan.k] /\ f = o.file /\ p = scan.p
  /\ id \in Nat \ {0} /\ Gives(id)
  /\ o.name # Stream => p < Len(o.size)
  /\ p < Len(disk.text[f]) /\ disk.text[f][p + 1].whole /\ id = disk.text[f][p + 1].id

LEMMA LineStep ==
  ASSUME NEW start, Going(start), NEW o, NEW f, NEW p, NEW id, Given(o, f, p, id)
  PROVE  JournalInv(start)'
  <1>0. /\ scan.at = "read" /\ scan.k \in Opened /\ o = scan.opened[scan.k] /\ f = o.file /\ p = scan.p
        /\ id \in Nat \ {0} /\ p < Len(disk.text[f]) /\ (o.name # Stream => p < Len(o.size))
        /\ disk' = disk /\ confirmed' = confirmed
    BY DEF Given, Gives, Step
  <1>1. /\ Bounds /\ DiskInv(start) /\ ScanShape /\ OpenedInv(start) /\ NameInv(start) /\ NamesInv(start)
        /\ Consecutive /\ Identified(start) /\ scan \in Scans /\ ReadInv(start)
    BY <1>0, GoingFacts
  <1>2. /\ scan.k \in Nat /\ scan.k > 0 /\ Len(scan.opened) \in Nat /\ Len(scan.opened) = Len(scan.paths)
        /\ Opened = 1..Len(scan.opened) /\ scan.since \in Nat /\ p \in Nat /\ scan.got \in Seq(Nat \ {0})
        /\ Len(scan.got) \in Nat /\ scan.since <= Count /\ Count \in Nat
    BY <1>0, <1>1, ScanFields, DiskFields DEF ScanShape, Compared, Opened, DiskInv
  <1>3. SUFFICES ASSUME NEW k, k = scan.k, NEW n, n = Len(scan.got), NEW b, b = Base(start), NEW q, q = p + 1
                 PROVE  JournalInv(start)'
    OBVIOUS
  <1>4. /\ Append(scan.got, id) \in Seq(Nat \ {0}) /\ Len(Append(scan.got, id)) = n + 1
        /\ \A i \in 1..n : Append(scan.got, id)[i] = scan.got[i]
        /\ Append(scan.got, id)[n + 1] = id
    BY <1>0, <1>3, <1>2, AppendProperties
  <1>5. /\ scan'.at = "read" /\ scan'.k = k /\ scan'.since = scan.since /\ scan'.opened = scan.opened
        /\ scan'.paths = scan.paths /\ scan'.p = q /\ scan'.got = Append(scan.got, id)
    <2>1. scan' = [scan EXCEPT !.p = @ + 1, !.got = Append(@, id)] /\ scan.p = p
      BY DEF Given, Gives, Step
    <2>2. QED
      BY <1>0, <1>1, <1>3, <2>1 DEF Scans
  <1>6. scan' \in Scans
    <2>1. q \in Nat
      BY <1>0, <1>3, <1>2
    <2>2. scan' = [scan EXCEPT !.p = @ + 1, !.got = Append(@, id)] /\ scan.p = p
      BY DEF Given, Gives, Step
    <2>3. scan' = [scan EXCEPT !.p = q, !.got = Append(scan.got, id)]
      BY <1>1, <1>3, <2>2 DEF Scans
    <2>4. QED
      BY <1>1, <1>4, <2>1, <2>3 DEF Scans
  <1>7. SameOpened
    BY <1>0, <1>3, <1>5 DEF SameOpened
  <1>8. /\ DiskInv(start)' /\ OpenedInv(start)' /\ NamesInv(start)' /\ Opened' = Opened
        /\ CoveredInv(start) => CoveredInv(start)'
    BY <1>0, <1>3, <1>1, <1>7, OpenedStays
  <1>9. ScanShape'
    <2>1. scan'.k > 0 /\ scan'.at \in {"relist"} \cup Compared /\ scan'.at \in {"read", "done"}
      BY <1>0, <1>3, <1>2, <1>5 DEF Compared
    <2>2. QED
      BY <1>0, <1>3, <1>2, <1>6, <1>7, <2>1, ShapeStays
  <1>10. NameInv(start)'
    <2>1. CoveredInv(start)
      BY <1>0, <1>3, <1>1 DEF NameInv, Compared
    <2>2. QED
      BY <1>0, <1>3, <1>5, <1>8, <2>1 DEF NameInv, Compared
  <1>11. Consecutive' /\ Identified(start)'
    BY <1>0, <1>3, <1>1, <1>5, <1>8 DEF Consecutive, Identified
  <1>12. Reading = k /\ Reading' = k /\ Base(start)' = b /\ Count' = Count
    BY <1>0, <1>3, <1>5 DEF Reading, Base, Count
  <1>13. /\ OpenedAs(start, o, f) /\ f \in 1..Total /\ start[f] \in Nat /\ Len(disk.text[f]) \in Nat
         /\ Len(o.size) \in Nat /\ n = start[f] + p - b
    <2>1. OpenedAs(start, o, f)
      BY <1>0, <1>3, <1>1 DEF OpenedInv
    <2>2. f \in 1..Total
      BY <2>1 DEF OpenedAs
    <2>3. start[f] \in Nat /\ Len(disk.text[f]) \in Nat
      BY <1>0, <1>3, <1>1, <2>2, FilesFacts, DiskFields DEF DiskInv
    <2>4. Len(o.size) \in Nat
      BY <1>0, <1>3, <1>1, ScanFields
    <2>5. n = start[f] + p - b
      BY <1>0, <1>3, <1>1, <1>12 DEF ReadInv
    <2>6. QED
      BY <2>1, <2>2, <2>3, <2>4, <2>5
  <1>14. b \in Nat
    <2>1. 1 \in Opened
      BY <1>0, <1>3, <1>2
    <2>2. OpenedAs(start, scan.opened[1], scan.opened[1].file)
      BY <1>0, <1>3, <1>1, <2>1 DEF OpenedInv
    <2>3. QED
      BY <1>0, <1>3, <1>1, <2>2, FilesFacts DEF Base, OpenedAs
  <1>nat. n \in Nat /\ p \in Nat /\ q \in Nat /\ q = p + 1 /\ n = Len(scan.got)
    BY <1>2, <1>3
  <1>same. disk' = disk /\ confirmed' = confirmed
    BY <1>0
  <1>15. b + (n + 1) = start[f] + q /\ n + 1 = start[f] + q - b
    <2>1. \A s, t, m, r, x \in Nat : m = s + r - t /\ x = r + 1 => t + (m + 1) = s + x /\ m + 1 = s + x - t
      OBVIOUS
    <2>2. QED
      BY <1>13, <1>14, <1>nat, <2>1
  <1>16. q \in 1..Len(disk.text[f]) /\ (o.name # Stream => q <= Len(o.size))
    <2>1. p < Len(disk.text[f])
      BY <1>0
    <2>2. \A x \in Nat : p < x => p + 1 \in 1..x
      BY <1>nat
    <2>3. o.name # Stream => p < Len(o.size)
      BY <1>0
    <2>4. QED
      BY <1>13, <1>nat, <2>1, <2>2, <2>3
  <1>17. ASSUME NEW i \in 1..n PROVE b + i <= Count /\ scan.got[i] = confirmed[b + i]
    <2>1. ~Stray(start)
      <3>1. SUFFICES ASSUME b + n = Count + 1 PROVE FALSE
        BY <1>3 DEF Stray
      <3>2. start[f] + p = Count + 1
        <4>1. \A x, y, u, v \in Nat : u = x + y - v => v + u = x + y
          OBVIOUS
        <4>2. QED
          BY <1>13, <1>14, <1>nat, <3>1, <4>1
      <3>3. start[f] + q <= Count + 1
        <4>1. CASE q <= Solid(f)
          <5>1. q \in 1..Solid(f)
            BY <1>1, <1>13, <1>16, <1>nat, <4>1, FilesFacts
          <5>2. start[f] + q \in 1..Count
            BY <1>1, <1>13, <5>1 DEF DiskInv, OrderInv
          <5>3. QED
            BY <1>2, <5>2
        <4>2. CASE ~(q <= Solid(f))
          <5>1. start[f] + q = Count + 1
            BY <1>1, <1>13, <1>16, <4>2, FilesFacts
          <5>2. QED
            BY <1>2, <5>1
        <4>3. QED
          BY <4>1, <4>2
      <3>4. \A x, y, u \in Nat : x + y = u + 1 => ~(x + (y + 1) <= u + 1)
        OBVIOUS
      <3>5. QED
        BY <1>2, <1>13, <1>nat, <3>2, <3>3, <3>4
    <2>2. QED
      BY <1>0, <1>3, <1>1, <1>17, <2>1 DEF ReadInv, GotInv
  <1>18. \A i \in 1..n + 1 : i \in 1..n \/ i = n + 1
    BY <1>0, <1>3, <1>2
  <1>19. ASSUME q <= Solid(f) PROVE GotInv(start)'
    <2>1. start[f] + q \in 1..Count /\ id = confirmed[start[f] + q]
      <3>1. q \in 1..Solid(f)
        <4>1. Solid(f) \in Nat
          BY <1>1, <1>13, FilesFacts
        <4>2. q \in Nat /\ q > 0
          BY <1>nat
        <4>3. QED
          BY <1>19, <4>1, <4>2
      <3>2. disk.text[f][q].id = id
        BY <1>3 DEF Given
      <3>3. QED
        BY <1>1, <1>13, <3>1, <3>2 DEF DiskInv, OrderInv
    <2>2. b + (n + 1) <= Count /\ id = confirmed[b + (n + 1)]
      <3>1. b + (n + 1) = start[f] + q
        BY <1>15
      <3>2. start[f] + q <= Count
        BY <2>1
      <3>3. QED
        BY <2>1, <3>1, <3>2
    <2>3. \A i \in 1..n + 1 : b + i <= Count /\ Append(scan.got, id)[i] = confirmed[b + i]
      BY <1>0, <1>3, <1>4, <1>17, <1>18, <2>2
    <2>4. Len(scan'.got) = n + 1 /\ \A i \in 1..n + 1 : b + i <= Count' /\ scan'.got[i] = confirmed'[b + i]
      BY <1>4, <1>5, <1>12, <1>same, <2>3
    <2>5. QED
      BY <1>12, <2>4 DEF GotInv
  <1>20. ASSUME ~(q <= Solid(f)) PROVE GotInv(start)'
    <2>1. f = disk.current /\ disk.doubt /\ q = Len(disk.text[f]) /\ start[f] + q = Count + 1
      BY <1>0, <1>3, <1>1, <1>13, <1>16, <1>20, FilesFacts
    <2>2. id = disk.last
      <3>1. disk.text[f][q].id = id
        BY <1>3 DEF Given
      <3>2. QED
        BY <1>1, <2>1, <3>1 DEF DiskInv, FilesInv
    <2>3. Unconfirmed
      <3>1. disk.text[f][q].whole
        BY <1>3 DEF Given
      <3>2. QED
        BY <2>1, <3>1 DEF Unconfirmed, Content, Last
    <2>4. b + (n + 1) = Count + 1
      BY <1>15, <2>1
    <2>5. Unconfirmed'
      BY <1>same, <2>3 DEF Unconfirmed, Content
    <2>7. Stray(start)'
      BY <1>4, <1>5, <1>12, <1>same, <2>2, <2>4, <2>5 DEF Stray
    <2>8. \A i \in 1..n + 1 : i = n + 1 \/ (b + i <= Count /\ Append(scan.got, id)[i] = confirmed[b + i])
      BY <1>0, <1>3, <1>4, <1>17, <1>18
    <2>9. /\ Len(scan'.got) = n + 1
          /\ \A i \in 1..n + 1 : i = n + 1 \/ (b + i <= Count' /\ scan'.got[i] = confirmed'[b + i])
      BY <1>4, <1>5, <1>12, <1>same, <2>8
    <2>10. QED
      BY <1>12, <2>7, <2>9 DEF GotInv
  <1>21. GotInv(start)'
    BY <1>19, <1>20
  <1>22. ASSUME NEW j \in Opened, j < k, NEW r \in 1..Len(disk.text[scan.opened[j].file]),
                start[scan.opened[j].file] + r <= scan.since
         PROVE  start[scan.opened[j].file] + r <= b + (n + 1)
    <2>1. start[scan.opened[j].file] + r <= b + n
      BY <1>0, <1>3, <1>1, <1>12, <1>22 DEF ReadInv
    <2>2. start[scan.opened[j].file] \in Nat /\ r \in Nat
      <3>1. OpenedAs(start, scan.opened[j], scan.opened[j].file)
        BY <1>0, <1>3, <1>1, <1>22 DEF OpenedInv
      <3>2. scan.opened[j].file \in 1..Total
        BY <3>1 DEF OpenedAs
      <3>3. start[scan.opened[j].file] \in Nat /\ Len(disk.text[scan.opened[j].file]) \in Nat
        BY <1>1, <3>2, FilesFacts, DiskFields DEF DiskInv
      <3>4. QED
        BY <1>22, <3>3
    <2>3. \A x, y, u, v \in Nat : x + y <= u + v => x + y <= u + (v + 1)
      OBVIOUS
    <2>4. QED
      BY <1>0, <1>3, <1>2, <1>14, <2>1, <2>2, <2>3
  <1>23. ReadInv(start)'
    <2>1. Len(scan.opened) # 0
      BY <1>0, <1>3, <1>2
    <2>2. Len(scan'.got) = n + 1 /\ (o.name # Stream => q <= Len(o.size))
      BY <1>4, <1>5, <1>16
    <2>3. QED
      BY <1>0, <1>3, <1>5, <1>8, <1>12, <1>15, <1>21, <1>22, <2>1, <2>2 DEF ReadInv
  <1>24. QED
    BY <1>0, <1>3, <1>5, <1>8, <1>9, <1>10, <1>11, <1>23 DEF JournalInv, ScanInv

LEMMA ReadStep ==
  ASSUME NEW start, Going(start), Read
  PROVE  JournalInv(start)'
  <1>1. /\ Bounds /\ DiskInv(start) /\ ScanShape /\ OpenedInv(start) /\ Identified(start) /\ scan \in Scans
        /\ scan.at = "read" /\ scan.k <= Len(scan.opened) /\ ReadInv(start)
    BY GoingFacts DEF Read
  <1>2. /\ scan.k \in Nat /\ scan.k > 0 /\ Opened = 1..Len(scan.opened) /\ Len(scan.opened) \in Nat
        /\ scan.since \in Nat /\ scan.p \in Nat
        /\ \A j \in Opened : scan.opened[j].size \in Seq(Line) /\ Len(scan.opened[j].size) \in Nat
    BY <1>1, ScanFields DEF ScanShape, Compared, Opened
  <1> SUFFICES ASSUME NEW k, k = scan.k, NEW o, o = scan.opened[k], NEW f, f = o.file, NEW p, p = scan.p
               PROVE  JournalInv(start)'
    OBVIOUS
  <1>3. k \in Opened /\ OpenedAs(start, o, f) /\ o.size \in Seq(Line) /\ Len(o.size) \in Nat
    BY <1>1, <1>2 DEF OpenedInv
  <1>4. f \in 1..Total /\ start[f] \in Nat /\ Len(disk.text[f]) \in Nat
    BY <1>1, <1>3, FilesFacts, DiskFields DEF OpenedAs, DiskInv
  <1>5. CASE o.first = 0
    <2>1. NextFile
      BY <1>5 DEF Read
    <2>2. o.name = Stream
      BY <1>1, <1>3, <1>5 DEF Identified
    <2>3. \A q \in 1..Len(disk.text[f]) : start[f] + q > scan.since
      BY <1>1, <1>3, <1>5 DEF Identified
    <2>4. \A q \in 1..Len(disk.text[f]) : start[f] + q <= scan.since => q <= scan.p
      <3>1. \A x, y \in Nat : x > y => ~(x <= y)
        OBVIOUS
      <3>2. \A q \in 1..Len(disk.text[f]) : start[f] + q \in Nat
        BY <1>4
      <3>3. QED
        BY <1>2, <2>3, <3>1, <3>2
    <2>5. QED
      BY <1>1, <1>3, <2>1, <2>2, <2>4, NextFileStep
  <1>6. CASE o.first # 0
    <2>1. PICK line \in LineOf(o, p) :
            \/ line.is \in {"changed", "damaged"} /\ Ends(line.is)
            \/ line.is = "end" /\ NextFile
            \/ line.is = "line" /\ p = 0 /\ line.id # o.first /\ Ends("changed")
            \/ line.is = "line" /\ Gives(line.id)
      BY <1>6 DEF Read, Gives
    <2>2. CASE line.is \in {"changed", "damaged"}
      <3>1. Ends(line.is)
        BY <2>1, <2>2
      <3>2. QED
        BY <1>1, <2>2, <3>1, EndsStep
    <2>3. CASE line.is \notin {"changed", "damaged"}
      <3>1. Meets(start, o, f, p, line)
        BY <1>2, <1>3, <2>1, <2>3 DEF Meets
      <3>2. /\ line.is = "end" =>
                 /\ o.name # Stream => p >= Len(o.size)
                 /\ \A r \in 1..Len(disk.text[f]) : start[f] + r <= scan.since => r <= p
            /\ line.is # "end" =>
                 /\ o.name # Stream => p < Len(o.size)
                 /\ p < Len(disk.text[f]) /\ disk.text[f][p + 1].whole
                 /\ line.id = disk.text[f][p + 1].id /\ line.id \in Nat \ {0}
        <4>1. DiskInv(start) /\ scan.since \in Nat
          BY <1>1, <1>2
        <4>2. Told(start, o, f, p, line)
          BY <3>1, <4>1, LineFacts
        <4>3. QED
          BY <4>2 DEF Told
      <3>3. CASE line.is = "end"
        <4>1. NextFile
          BY <2>1, <2>3, <3>3
        <4>2. o.name = Stream \/ Len(o.size) <= scan.p
          BY <1>2, <1>3, <3>2, <3>3
        <4>3. \A q \in 1..Len(disk.text[f]) : start[f] + q <= scan.since => q <= scan.p
          BY <3>2, <3>3
        <4>4. QED
          BY <1>1, <1>3, <4>1, <4>2, <4>3, NextFileStep
      <3>4. CASE Ends("changed")
        BY <1>1, <3>4, EndsStep
      <3>5. CASE line.is = "line" /\ Gives(line.id)
        <4> SUFFICES ASSUME NEW id, id = line.id PROVE JournalInv(start)'
          OBVIOUS
        <4>2. Gives(id)
          BY <3>5
        <4>3. /\ id \in Nat \ {0} /\ (o.name # Stream => p < Len(o.size))
              /\ p < Len(disk.text[f]) /\ disk.text[f][p + 1].whole
              /\ id = disk.text[f][p + 1].id
          BY <3>2, <3>5
        <4>4. Given(o, f, p, id)
          BY <1>1, <1>3, <4>2, <4>3 DEF Given
        <4>5. QED
          BY <4>4, LineStep
      <3>6. QED
        BY <2>1, <2>3, <3>3, <3>4, <3>5
    <2>4. QED
      BY <2>2, <2>3
  <1>7. QED
    BY <1>5, <1>6

-----------------------------------------------------------------------------
(* Every step, and what a scan that is done gave out.                      *)

LEMMA ScanStep ==
  ASSUME NEW start, Bounds, JournalInv(start), Scan
  PROVE  JournalInv(start)'
  <1>1. scan.at \notin {"changed", "damaged"}
    BY DEF Scan, Begin, ListEnds, Open, ListAgain, List, SameNames, Verify, Turn, Identify, Read
  <1>2. Going(start)
    BY <1>1 DEF Going, JournalInv
  <1>3. CASE Begin
    BY <1>2, <1>3, BeginStep
  <1>4. CASE ListEnds
    BY <1>2, <1>4, ListEndsStep
  <1>5. CASE Open
    BY <1>2, <1>5, OpenStep
  <1>6. CASE ListAgain
    BY <1>2, <1>6, ListAgainStep
  <1>7. CASE SameNames
    BY <1>2, <1>7, SameNamesStep
  <1>8. CASE Verify
    BY <1>2, <1>8, VerifyStep
  <1>9. CASE Turn("verify", "identify") \/ Turn("identify", "read") \/ Turn("read", "done")
    BY <1>2, <1>9, TurnStep
  <1>10. CASE Identify
    BY <1>2, <1>10, IdentifyStep
  <1>11. CASE Read
    BY <1>2, <1>11, ReadStep
  <1>12. QED
    BY <1>3, <1>4, <1>5, <1>6, <1>7, <1>8, <1>9, <1>10, <1>11 DEF Scan

LEMMA InitHolds ==
  ASSUME Bounds, Init
  PROVE  ScanJournalInv
  <1> DEFINE start == [f \in 1..0 |-> 0]
  <1>1. PICK keep \in Keeps :
          disk = [keep |-> keep, archives |-> <<>>, current |-> 0, text |-> <<>>, last |-> 0, doubt |-> FALSE]
    BY DEF Init
  <1>2. /\ scan = [at |-> "start", surely |-> {}, perhaps |-> {}, since |-> 0, paths |-> <<>>,
                   opened |-> <<>>, k |-> 0, p |-> 0, got |-> <<>>]
        /\ confirmed = <<>>
    BY DEF Init
  <1>3. Total = 0 /\ Count = 0 /\ Archived = {} /\ Opened = {} /\ Rolled = 0
    BY <1>1, <1>2 DEF Total, Count, Archived, Opened, Rolled
  <1>4. DiskShape
    BY <1>1, <1>2 DEF DiskShape, Disks, Bounds
  <1>5. FilesInv
    BY <1>1, <1>3 DEF FilesInv
  <1>6. OrderInv(start) /\ start \in [1..Total -> Nat]
    BY <1>1, <1>3 DEF OrderInv
  <1> HIDE DEF start
  <1>7. scan \in Scans /\ scan.at = "start"
    BY <1>2 DEF Scans
  <1>8. ScanShape
    BY <1>2, <1>3, <1>7 DEF ScanShape, Compared, Ascending
  <1>9. OpenedInv(start) /\ NamesInv(start) /\ Consecutive /\ Identified(start)
    BY <1>3 DEF OpenedInv, NamesInv, Consecutive, Identified
  <1>10. NameInv(start)
    BY <1>7, <1>9 DEF NameInv, Compared
  <1>11. JournalInv(start)
    BY <1>4, <1>5, <1>6, <1>7, <1>8, <1>9, <1>10 DEF JournalInv, DiskInv, ScanInv
  <1>12. QED
    BY <1>6, <1>11 DEF ScanJournalInv

LEMMA Stutter ==
  ASSUME ScanJournalInv, UNCHANGED vars
  PROVE  ScanJournalInv'
  <1>1. PICK start \in [1..Total -> Nat] : JournalInv(start)
    BY DEF ScanJournalInv
  <1>2. disk' = disk /\ scan' = scan /\ confirmed' = confirmed
    BY DEF vars
  <1>3. DiskInv(start)' /\ Total' = Total
    BY <1>1, <1>2, DiskStays DEF JournalInv
  <1>4. ScanInv(start) => ScanInv(start)'
    <2>1. ScanShape => ScanShape'
      BY <1>2 DEF ScanShape, Opened, Count
    <2>2. OpenedInv(start) => OpenedInv(start)'
      <3>1. /\ \A f : Solid(f)' = Solid(f) /\ Pruned(f)' = Pruned(f)
            /\ \A name, f : ArchivedAs(name, f)' = ArchivedAs(name, f)
        BY <1>1, <1>2, DiskStays DEF JournalInv
      <3>2. \A o, f : OpenedAs(start, o, f) => OpenedAs(start, o, f)'
        BY <1>2, <1>3, <3>1 DEF OpenedAs
      <3>3. QED
        BY <1>2, <3>2 DEF OpenedInv, Opened
    <2>3. NamesInv(start) => NamesInv(start)'
      BY <1>2 DEF NamesInv, Archived, Opened, IsTarget, CurrentTarget
    <2>4. ListInv(start) => ListInv(start)'
      BY <1>2 DEF ListInv, CurrentTarget, IsTarget
    <2>5. OpenInv(start) => OpenInv(start)'
      BY <1>2 DEF OpenInv, CurrentTarget, IsTarget, Opened
    <2>6. RelistInv(start) => RelistInv(start)'
      BY <1>2 DEF RelistInv, CurrentTarget, IsTarget, Opened, Archived, Behind, HasFile
    <2>7. CoveredInv(start) => CoveredInv(start)'
      BY <1>2 DEF CoveredInv, CurrentTarget, IsTarget, Opened, Archived, HasFile
    <2>8. VerifyInv => VerifyInv'
      BY <1>2 DEF VerifyInv, Opened, Archived, Behind
    <2>9. NameInv(start) => NameInv(start)'
      BY <1>2, <2>3, <2>4, <2>5, <2>6, <2>7, <2>8 DEF NameInv
    <2>10. Consecutive /\ Identified(start) => Consecutive' /\ Identified(start)'
      BY <1>2 DEF Consecutive, Identified, Opened
    <2>11. ReadInv(start) => ReadInv(start)'
      <3>1. Reading' = Reading /\ Base(start)' = Base(start) /\ Count' = Count /\ Opened' = Opened
        BY <1>2 DEF Reading, Base, Count, Opened
      <3>2. Stray(start) => Stray(start)'
        BY <1>2, <3>1 DEF Stray, Unconfirmed, Content
      <3>3. GotInv(start) => GotInv(start)'
        BY <1>2, <3>1, <3>2 DEF GotInv
      <3>4. QED
        BY <1>2, <3>1, <3>3 DEF ReadInv
    <2>12. QED
      BY <1>2, <2>1, <2>2, <2>9, <2>10, <2>11 DEF ScanInv
  <1>5. JournalInv(start)'
    BY <1>1, <1>2, <1>3, <1>4 DEF JournalInv
  <1>6. QED
    BY <1>1, <1>3, <1>5 DEF ScanJournalInv

LEMMA NextHolds ==
  ASSUME Bounds, ScanJournalInv, [Next]_vars
  PROVE  ScanJournalInv'
  <1>1. CASE Write
    <2>1. PICK start \in [1..Total -> Nat] : JournalInv(start)
      BY DEF ScanJournalInv
    <2>2. \E s \in [1..Total' -> Nat] : JournalInv(s)'
      BY <1>1, <2>1, WriteStep
    <2>3. QED
      BY <2>2 DEF ScanJournalInv
  <1>2. CASE Scan
    <2>1. PICK start \in [1..Total -> Nat] : JournalInv(start)
      BY DEF ScanJournalInv
    <2>2. JournalInv(start)'
      BY <1>2, <2>1, ScanStep
    <2>3. start \in [1..Total' -> Nat]
      BY <2>2 DEF JournalInv, DiskInv, OrderInv
    <2>4. QED
      BY <2>2, <2>3 DEF ScanJournalInv
  <1>3. CASE UNCHANGED vars
    BY <1>3, Stutter
  <1>4. QED
    BY <1>1, <1>2, <1>3 DEF Next

\* A sequence that agrees with the confirmed lines from one on is a run of them.
LEMMA RunFacts ==
  ASSUME NEW s \in Seq(Nat \ {0}), confirmed \in Seq(Nat \ {0}), NEW b \in Nat,
         \A q \in 1..Len(s) : b + q <= Count /\ s[q] = confirmed[b + q]
  PROVE  Run(s)
  <1>1. Len(s) \in Nat /\ Count \in Nat
    BY LenProperties DEF Count
  <1>2. CASE Len(s) = 0
    <2>1. s = <<>> /\ SubSeq(confirmed, 1, 0) = <<>>
      BY <1>2, EmptySeq, SubSeqProperties
    <2>2. 1 \in 1..(Len(confirmed) + 1) /\ 0 \in (1 - 1)..Len(confirmed)
      BY <1>1 DEF Count
    <2>3. QED
      BY <2>1, <2>2 DEF Run
  <1>3. CASE Len(s) > 0
    <2> SUFFICES ASSUME NEW n, n = Len(s), NEW i, i = b + 1, NEW j, j = b + n
                 PROVE  \E x \in 1..(Count + 1) : \E y \in (x - 1)..Count : s = SubSeq(confirmed, x, y)
      BY DEF Run, Count
    <2>1. n \in Nat /\ n > 0 /\ b + n <= Count
      BY <1>1, <1>3
    <2>2. i \in 1..(Count + 1) /\ j \in (i - 1)..Count
      BY <1>1, <2>1
    <2>3. /\ SubSeq(confirmed, i, j) \in Seq(Nat \ {0}) /\ Len(SubSeq(confirmed, i, j)) = n
          /\ \A q \in 1..n : SubSeq(confirmed, i, j)[q] = confirmed[b + q]
      <3>1. SubSeq(confirmed, i, j) = [q \in 1..n |-> confirmed[b + q]]
        <4>1. SubSeq(confirmed, i, j) = [q \in 1..(j - i + 1) |-> confirmed[i + q - 1]]
          OBVIOUS
        <4>2. j - i + 1 = n /\ \A q \in 1..n : i + q - 1 = b + q
          BY <1>1, <2>1
        <4>3. QED
          BY <4>1, <4>2
      <3>2. \A q \in 1..n : confirmed[b + q] \in Nat \ {0}
        <4>1. \A q \in 1..n : b + q \in 1..Len(confirmed)
          BY <1>1, <2>1 DEF Count
        <4>2. QED
          BY <4>1, ElementOfSeq
      <3> DEFINE t == SubSeq(confirmed, i, j)
      <3> HIDE DEF t
      <3>3. t = [q \in 1..n |-> confirmed[b + q]]
        BY <3>1 DEF t
      <3>4. t \in [1..n -> Nat \ {0}]
        BY <3>2, <3>3
      <3>5. t \in Seq(Nat \ {0}) /\ Len(t) = n
        BY <2>1, <3>4
      <3>6. QED
        BY <3>3, <3>5 DEF t
    <2>4. s = SubSeq(confirmed, i, j)
      BY <2>3, SeqEqual
    <2>5. QED
      BY <2>2, <2>4
  <1>4. QED
    BY <1>1, <1>2, <1>3

LEMMA DoneHolds ==
  ASSUME NEW start, Bounds, JournalInv(start)
  PROVE  ScanLeavesNothingOut
  <1> SUFFICES ASSUME scan.at = "done"
               PROVE  /\ \/ Run(scan.got)
                         \/ scan.got # <<>> /\ Last(scan.got) \notin ToSet(confirmed) /\ Run(Front(scan.got))
                      /\ \A m \in 1..scan.since :
                           (\E line \in Kept : line.id = confirmed[m]) => confirmed[m] \in ToSet(scan.got)
    BY DEF ScanLeavesNothingOut
  <1>1. Going(start)
    BY DEF JournalInv, Going
  <1>2. /\ DiskInv(start) /\ ScanShape /\ OpenedInv(start) /\ NameInv(start) /\ scan \in Scans /\ ReadInv(start)
    BY <1>1, GoingFacts
  <1>3. /\ scan.got \in Seq(Nat \ {0}) /\ Len(scan.got) \in Nat /\ Len(scan.opened) \in Nat
        /\ Opened = 1..Len(scan.opened) /\ confirmed \in Seq(Nat \ {0}) /\ Count \in Nat
        /\ scan.since \in Nat /\ scan.since <= Count
    BY <1>2, ScanFields, DiskFields DEF Opened, DiskInv, ScanShape
  <1>4. ASSUME Opened # {} PROVE Base(start) \in Nat /\ 1 \in Opened /\ scan.opened[1].file \in 1..Total
    <2>1. 1 \in Opened
      BY <1>3, <1>4
    <2>2. OpenedAs(start, scan.opened[1], scan.opened[1].file)
      BY <1>2, <2>1 DEF OpenedInv
    <2>3. QED
      BY <1>2, <2>1, <2>2, FilesFacts DEF Base, OpenedAs
  <1>5. Opened = {} => scan.got = <<>>
    BY <1>2, <1>3 DEF ReadInv
  <1> DEFINE n == Len(scan.got)
             b == Base(start)
  <1>6. GotInv(start)
    BY <1>2 DEF ReadInv
  <1>7. \/ Run(scan.got)
        \/ scan.got # <<>> /\ Last(scan.got) \notin ToSet(confirmed) /\ Run(Front(scan.got))
    <2>1. CASE scan.got = <<>>
      <3>1. \A q \in 1..Len(scan.got) : 0 + q <= Count /\ scan.got[q] = confirmed[0 + q]
        BY <2>1
      <3>2. QED
        BY <1>3, <3>1, RunFacts
    <2>2. CASE scan.got # <<>> /\ ~Stray(start)
      <3>1. b \in Nat
        BY <1>4, <1>5, <2>2
      <3>2. \A q \in 1..Len(scan.got) : b + q <= Count /\ scan.got[q] = confirmed[b + q]
        BY <1>6, <2>2 DEF GotInv
      <3> HIDE DEF b
      <3>3. QED
        BY <1>3, <3>1, <3>2, RunFacts
    <2>3. CASE scan.got # <<>> /\ Stray(start)
      <3>1. b \in Nat
        BY <1>4, <1>5, <2>3
      <3>2. n \in Nat /\ n > 0
        BY <1>3, <2>3, EmptySeq
      <3>3. Last(scan.got) \notin ToSet(confirmed)
        <4>1. \A i \in 1..Count : confirmed[i] # scan.got[n]
          <5>1. disk.doubt /\ scan.got[n] = disk.last
            BY <2>3 DEF Stray, Unconfirmed
          <5>2. \A i \in 1..Count : confirmed[i] \in Nat /\ confirmed[i] < disk.last
            BY <1>2, <5>1, DiskFields DEF DiskInv, OrderInv
          <5>3. disk.last \in Nat
            BY <1>2, DiskFields DEF DiskInv
          <5>4. \A x, y \in Nat : x < y => x # y
            OBVIOUS
          <5>5. QED
            BY <5>1, <5>2, <5>3, <5>4
        <4>2. Last(scan.got) = scan.got[n]
          BY DEF Last
        <4>3. ToSet(confirmed) = {confirmed[i] : i \in 1..Count}
          BY <1>3, LenProperties DEF ToSet, Count
        <4>4. QED
          BY <4>1, <4>2, <4>3
      <3> DEFINE front == Front(scan.got)
      <3>4. front \in Seq(Nat \ {0}) /\ Len(front) = n - 1 /\ \A q \in 1..n - 1 : front[q] = scan.got[q]
        <4>1. front = SubSeq(scan.got, 1, n - 1)
          BY DEF Front
        <4>2. 1 \in 1..n + 1 /\ n - 1 \in (1 - 1)..n
          BY <3>2
        <4>3. front = [q \in 1..n - 1 |-> scan.got[q]]
          BY <3>2, <4>1
        <4>4. \A q \in 1..n - 1 : scan.got[q] \in Nat \ {0}
          BY <1>3, <3>2, ElementOfSeq
        <4>5. QED
          BY <3>2, <4>3, <4>4
      <3>5. \A q \in 1..n - 1 : b + q <= Count /\ scan.got[q] = confirmed[b + q]
        <4>1. \A q \in 1..n - 1 : q \in 1..n /\ q # n
          BY <3>2
        <4>2. QED
          BY <1>6, <4>1 DEF GotInv
      <3> HIDE DEF b, front
      <3>6. \A q \in 1..Len(front) : b + q <= Count /\ front[q] = confirmed[b + q]
        BY <3>4, <3>5
      <3>7. Run(front)
        BY <1>3, <3>1, <3>4, <3>6, RunFacts
      <3>8. QED
        BY <2>3, <3>3, <3>7 DEF front
    <2>4. QED
      BY <2>1, <2>2, <2>3
  <1>8. ASSUME NEW m \in 1..scan.since, NEW line \in Kept, line.id = confirmed[m] PROVE confirmed[m] \in ToSet(scan.got)
    <2>1. PICK name \in Listed(disk) : line \in ToSet(disk.text[FileAt(disk, name)])
      BY <1>8 DEF Kept
    <2> SUFFICES ASSUME NEW f, f = FileAt(disk, name) PROVE confirmed[m] \in ToSet(scan.got)
      OBVIOUS
    <2>2. \/ \E i \in Archived : disk.archives[i].file = f
          \/ f = disk.current /\ f # 0
      <3>1. CASE name = Stream /\ disk.current # 0
        BY <1>2, <3>1, FileAtFacts
      <3>2. CASE \E i \in DOMAIN disk.archives : disk.archives[i].name = name
        <4>1. PICK i \in Archived : disk.archives[i].name = name
          BY <1>2, <3>2, DiskFields, LenProperties DEF Archived, DiskInv
        <4>2. ArchivedAs(name, disk.archives[i].file)
          BY <4>1 DEF ArchivedAs
        <4>3. name # Stream
          BY <1>2, <4>2, ArchivedFacts DEF Stream, Bounds
        <4>4. f = disk.archives[i].file
          BY <1>2, <4>2, <4>3, FileAtFacts
        <4>5. QED
          BY <4>4
      <3>3. QED
        BY <2>1, <3>1, <3>2 DEF Listed
    <2>3. f \in 1..Total /\ start[f] \in Nat /\ Solid(f) \in Nat /\ Len(disk.text[f]) \in Nat /\ Total \in Nat
      <3>1. f \in 1..Total /\ Total \in Nat
        BY <1>2, <2>2, FilesFacts, DiskFields DEF DiskInv
      <3>2. QED
        BY <1>2, <3>1, FilesFacts, DiskFields DEF DiskInv
    <2>4. PICK q \in 1..Len(disk.text[f]) : disk.text[f][q] = line
      <3>1. disk.text[f] \in Seq(Line)
        BY <1>2, <2>3, DiskFields DEF DiskInv
      <3>2. QED
        BY <2>1, <3>1, LenProperties DEF ToSet
    <2>5. m \in 1..Count /\ \A i \in 1..Count : confirmed[i] \in Nat
      <3>1. \A i \in 1..Count : confirmed[i] \in Nat
        BY <1>2, DiskFields DEF DiskInv
      <3>2. m \in 1..Count
        BY <1>3
      <3>3. QED
        BY <3>1, <3>2
    <2>id. line.id = confirmed[m] /\ confirmed[m] \in Nat
      BY <1>8, <2>5
    <2>6. q \in 1..Solid(f)
      <3>1. CASE q <= Solid(f)
        BY <2>3, <3>1
      <3>2. CASE f = disk.current /\ disk.doubt /\ q = Len(disk.text[f])
        <4>1. line.id = disk.last /\ confirmed[m] < disk.last
          BY <1>2, <2>4, <2>5, <3>2 DEF DiskInv, FilesInv, OrderInv
        <4>2. QED
          <5>1. \A x, y \in Nat : x < y => x # y
            OBVIOUS
          <5>2. disk.last \in Nat
            BY <1>2, DiskFields DEF DiskInv
          <5>3. QED
            BY <2>id, <4>1, <5>1, <5>2
      <3>3. QED
        BY <1>2, <2>3, <3>1, <3>2, FilesFacts
    <2>7. start[f] + q \in 1..Count /\ line.id = confirmed[start[f] + q]
      BY <1>2, <2>3, <2>4, <2>6 DEF DiskInv, OrderInv
    <2>8. start[f] + q = m
      <3>1. \A i, j \in 1..Count : i < j => confirmed[i] < confirmed[j]
        BY <1>2 DEF DiskInv, OrderInv
      <3>2. ~(start[f] + q < m) /\ ~(m < start[f] + q)
        <4>1. \A x, y \in Nat : x < y => x # y
          OBVIOUS
        <4>2. confirmed[start[f] + q] = confirmed[m]
          BY <2>id, <2>7
        <4>3. QED
          BY <2>5, <2>7, <2>id, <3>1, <4>1, <4>2
      <3>3. QED
        BY <2>5, <2>7, <3>2
    <2>9. start[f] < scan.since /\ start[f] < m
      BY <1>3, <2>3, <2>8
    <2>10. HasFile(f)
      <3>1. CoveredInv(start)
        BY <1>2 DEF NameInv, Compared
      <3>2. QED
        BY <2>2, <2>9, <3>1 DEF CoveredInv, IsTarget, CurrentTarget
    <2>11. PICK k \in Opened : scan.opened[k].file = f
      BY <2>10 DEF HasFile
    <2>12. b \in Nat /\ 1 \in Opened /\ scan.opened[1].file \in 1..Total
      BY <1>4, <2>11
    <2>13. m <= b + n
      <3>1. k < Reading
        BY <1>3, <2>11 DEF Reading
      <3>2. start[f] + q <= scan.since
        BY <2>8
      <3>3. start[f] + q <= b + n
        BY <1>2, <2>4, <2>11, <3>1, <3>2 DEF ReadInv
      <3>4. QED
        BY <2>8, <3>3
    <2>14. b <= start[f]
      <3>1. CASE k = 1
        BY <2>3, <2>11, <3>1 DEF Base
      <3>2. CASE 1 < k
        <4> SUFFICES ASSUME NEW g, g = scan.opened[1].file PROVE start[g] <= start[f]
          BY DEF Base
        <4>1. g < f
          BY <1>2, <2>11, <2>12, <3>2 DEF OpenedInv
        <4>2. start[g] + Len(disk.text[g]) <= start[f]
          BY <1>2, <2>3, <2>12, <4>1 DEF DiskInv, OrderInv
        <4>3. start[g] \in Nat /\ Len(disk.text[g]) \in Nat
          BY <1>2, <2>12, FilesFacts, DiskFields DEF DiskInv
        <4>4. \A x, y, z \in Nat : x + y <= z => x <= z
          OBVIOUS
        <4>5. QED
          BY <2>3, <4>2, <4>3, <4>4
      <3>3. QED
        BY <1>3, <3>1, <3>2
    <2> HIDE DEF n, b
    <2>15. PICK x \in 1..n : b + x = m
      <3>1. n \in Nat
        BY <1>3 DEF n
      <3>2. m - b \in 1..n /\ b + (m - b) = m
        BY <2>3, <2>9, <2>12, <2>13, <2>14, <3>1
      <3>3. QED
        BY <3>2
    <2>16. scan.got[x] = confirmed[m]
      <3>1. \/ scan.got[x] = confirmed[b + x]
            \/ x = n /\ b + n = Count + 1
        BY <1>6 DEF GotInv, Stray, n, b
      <3>2. ~(x = n /\ b + n = Count + 1)
        BY <1>3, <2>15
      <3>3. QED
        BY <2>15, <3>1, <3>2
    <2>17. x \in DOMAIN scan.got
      BY <1>3, LenProperties DEF n
    <2>18. QED
      BY <2>16, <2>17 DEF ToSet
  <1>9. QED
    BY <1>7, <1>8

THEOREM ScanInvariant ==
  ASSUME Bounds
  PROVE  Spec => []ScanJournalInv
  <1>1. Init => ScanJournalInv
    BY InitHolds
  <1>2. ScanJournalInv /\ [Next]_vars => ScanJournalInv'
    BY NextHolds
  <1>3. QED
    BY <1>1, <1>2, PTL DEF Spec

\* A scan that comes to its end left nothing out, for every number of archives kept, every number
\* of files and every length of the journal.
THEOREM LeavesNothingOut ==
  ASSUME Bounds
  PROVE  Spec => []ScanLeavesNothingOut
  <1>1. ScanJournalInv => ScanLeavesNothingOut
    BY DoneHolds DEF ScanJournalInv
  <1>2. QED
    BY <1>1, ScanInvariant, PTL
=============================================================================
