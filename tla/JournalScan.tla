---------------------------- MODULE JournalScan ----------------------------
(***************************************************************************)
(* Journal.scan (journal.py): the snapshot of the capture directory that   *)
(* every reader starts from, taken without a lock while the writer         *)
(* (capture.py) appends, takes lines back, rotates and prunes.  Readers    *)
(* takes a scan for one step; this module is about that step.              *)
(*                                                                         *)
(* A file is its number (its inode), whatever its name is.  The name of an *)
(* archive is its stamp, and stream.jsonl is a name after all stamps.      *)
(***************************************************************************)
EXTENDS Naturals, Sequences, FiniteSets, SequencesExt

CONSTANTS Keeps,         \* values of keep_rolls
          MaxLines, MaxStamp

(* disk: the archives, oldest first, the file called stream.jsonl (0: none)*)
(* what every file holds, and whether its last line may be taken back.     *)
(* scan: how far it is, what it listed, opened and read.  confirmed: every *)
(* line that was ever written and counted, in order.                       *)
VARIABLES disk, scan, confirmed

vars == <<disk, scan, confirmed>>

Stream == MaxStamp + 1
Listed(d) == {d.archives[i].name : i \in DOMAIN d.archives}
               \cup (IF d.current = 0 THEN {} ELSE {Stream})
FileAt(d, name) ==
    IF name = Stream THEN d.current
    ELSE LET of == {i \in DOMAIN d.archives : d.archives[i].name = name}
         IN  IF of = {} THEN 0 ELSE d.archives[CHOOSE i \in of : TRUE].file

Over == scan.at \in {"done", "changed", "damaged"}

-----------------------------------------------------------------------------
(* The writer.  A listing that is under way while names come and go may    *)
(* have met them or not.                                                   *)
Noticed(d) ==
    IF scan.at \in {"list", "relist"}
    THEN [scan EXCEPT !.surely = @ \cap Listed(d), !.perhaps = @ \cup Listed(d)]
    ELSE scan

Moves(d) == ~Over /\ disk' = d /\ scan' = Noticed(d)

Create ==
    /\ disk.current = 0 /\ Len(disk.archives) <= disk.keep
    /\ Moves([disk EXCEPT !.current = Len(disk.text) + 1, !.text = Append(@, <<>>)])
    /\ UNCHANGED confirmed

Roll ==
    /\ disk.current # 0 /\ ~disk.doubt /\ disk.text[disk.current] # <<>>
    /\ \E stamp \in 1..MaxStamp :
         /\ disk.archives # <<>> => stamp > Last(disk.archives).name
         /\ Moves([disk EXCEPT !.archives = Append(@, [name |-> stamp, file |-> disk.current]),
                               !.current = 0])
    /\ UNCHANGED confirmed

Unlink ==
    /\ Len(disk.archives) > disk.keep
    /\ Moves([disk EXCEPT !.archives = Tail(@)])
    /\ UNCHANGED confirmed

Content == disk.text[disk.current]
Writes(content) == Moves([disk EXCEPT !.text[disk.current] = content])

WritePart ==
    /\ disk.current # 0 /\ ~disk.doubt /\ disk.last < MaxLines
    /\ Moves([disk EXCEPT !.text[disk.current] = Append(@, [id |-> disk.last + 1, whole |-> FALSE]),
                          !.last = @ + 1, !.doubt = TRUE])
    /\ UNCHANGED confirmed

WriteRest ==
    /\ disk.doubt /\ ~Last(Content).whole
    /\ Writes([Content EXCEPT ![Len(Content)].whole = TRUE])
    /\ UNCHANGED confirmed

(* It is counted; or a writer that starts again finds it whole.            *)
Confirm ==
    /\ disk.doubt /\ Last(Content).whole
    /\ Moves([disk EXCEPT !.doubt = FALSE])
    /\ confirmed' = Append(confirmed, Last(Content).id)

(* The append failed; or a writer that starts again finds it unfinished.   *)
(* Not after the last byte was accepted: write() makes no call then that   *)
(* could fail, and a repair keeps what is whole.                           *)
TakeBack ==
    /\ disk.doubt /\ ~Last(Content).whole
    /\ Moves([disk EXCEPT !.doubt = FALSE, !.text[disk.current] = Front(@)])
    /\ UNCHANGED confirmed

-----------------------------------------------------------------------------
(* The scan.                                                               *)
Step(s) == scan' = s /\ UNCHANGED <<disk, confirmed>>
Ends(how) == Step([scan EXCEPT !.at = how])

List(at, next) ==
    scan.at = at /\ Step([scan EXCEPT !.at = next, !.surely = Listed(disk), !.perhaps = Listed(disk)])

Begin ==
    /\ scan.at = "start"
    /\ Step([scan EXCEPT !.at = "list", !.surely = Listed(disk), !.perhaps = Listed(disk),
                         !.since = Len(confirmed)])

Ascending(s) == \A i, j \in DOMAIN s : i < j => s[i] < s[j]
Paths(names) == CHOOSE s \in [1..Cardinality(names) -> names] : Ascending(s)
Listings == {scan.surely \cup more : more \in SUBSET (scan.perhaps \ scan.surely)}

ListEnds ==
    /\ scan.at = "list"
    /\ \E names \in Listings : Step([scan EXCEPT !.at = "open", !.paths = Paths(names)])

(* Opening a file, and taking its size, pins it under the name it has now. *)
Open ==
    /\ scan.at = "open" /\ Len(scan.opened) < Len(scan.paths)
    /\ LET name == scan.paths[Len(scan.opened) + 1]
           file == FileAt(disk, name)
       IN  IF file = 0 THEN Ends("changed")
           ELSE Step([scan EXCEPT !.opened =
                        Append(@, [name |-> name, file |-> file, size |-> disk.text[file], first |-> 0])])

ListAgain == Len(scan.opened) = Len(scan.paths) /\ List("open", "relist")

(* Mutant: the names are not compared with what they were.                 *)
SameNamesUnasked == scan.at = "relist" /\ Step([scan EXCEPT !.at = "verify", !.k = 1])

SameNames ==
    /\ scan.at = "relist"
    /\ \E names \in Listings :
         IF Paths(names) = scan.paths THEN Step([scan EXCEPT !.at = "verify", !.k = 1])
         ELSE Ends("changed")

(* The name still leads to the file that was opened, and to no file twice. *)
Verify ==
    /\ scan.at = "verify" /\ scan.k <= Len(scan.opened)
    /\ LET o == scan.opened[scan.k]
       IN  IF FileAt(disk, o.name) # o.file \/ \E j \in 1..(scan.k - 1) : scan.opened[j].file = o.file
           THEN Ends("changed")
           ELSE Step([scan EXCEPT !.k = @ + 1])

Turn(at, next) ==
    scan.at = at /\ scan.k > Len(scan.opened) /\ Step([scan EXCEPT !.at = next, !.k = 1])

(* lines(): what the next line of an opened file may turn out to be, up to *)
(* the bytes it had.  They end inside a line where the last one was not    *)
(* finished; if that was taken back since, they reach into shorter lines   *)
(* or end sooner in a longer one.                                          *)
Says(what) == {[is |-> what, id |-> 0]}

LineOf(o, p) ==
    LET now  == disk.text[o.file]
        n    == Len(o.size)
        torn == n > 0 /\ ~o.size[n].whole
        gone == torn /\ (Len(now) < n \/ now[n].id # o.size[n].id)
        fits == p < n /\ ~(torn /\ p + 1 = n)
        cut  == Says(IF o.name = Stream THEN "end" ELSE "damaged")
    IN  IF ~fits /\ ~gone THEN IF p < n THEN cut ELSE Says("end")
        ELSE IF p >= Len(now) THEN Says("changed") \cup (IF p < n THEN {} ELSE Says("end"))
        ELSE (IF fits THEN {} ELSE cut)
               \cup (IF now[p + 1].whole THEN {[is |-> "line", id |-> now[p + 1].id]} ELSE Says("damaged"))

(* Every segment is known by its first line before any line is given out.  *)
Identify ==
    /\ scan.at = "identify" /\ scan.k <= Len(scan.opened)
    /\ \E line \in LineOf(scan.opened[scan.k], 0) :
         IF line.is \in {"changed", "damaged"} THEN Ends(line.is)
         ELSE Step([scan EXCEPT !.k = @ + 1, !.opened[scan.k].first = line.id])

NextFile == Step([scan EXCEPT !.k = @ + 1, !.p = 0])

Read ==
    /\ scan.at = "read" /\ scan.k <= Len(scan.opened)
    /\ LET o == scan.opened[scan.k]
       IN  IF o.first = 0 THEN NextFile
           ELSE \E line \in LineOf(o, scan.p) :
                  \/ line.is \in {"changed", "damaged"} /\ Ends(line.is)
                  \/ line.is = "end" /\ NextFile
                  \/ line.is = "line" /\ scan.p = 0 /\ line.id # o.first /\ Ends("changed")
                  \/ /\ line.is = "line" /\ (scan.p = 0 => line.id = o.first)
                     /\ Step([scan EXCEPT !.p = @ + 1, !.got = Append(@, line.id)])

-----------------------------------------------------------------------------
Init ==
    /\ \E keep \in Keeps :
         disk = [keep |-> keep, archives |-> <<>>, current |-> 0, text |-> <<>>, last |-> 0, doubt |-> FALSE]
    /\ scan = [at |-> "start", surely |-> {}, perhaps |-> {}, since |-> 0, paths |-> <<>>,
               opened |-> <<>>, k |-> 0, p |-> 0, got |-> <<>>]
    /\ confirmed = <<>>

Write == Create \/ Roll \/ Unlink \/ WritePart \/ WriteRest \/ Confirm \/ TakeBack

Scan ==
    \/ Begin \/ ListEnds \/ Open \/ ListAgain \/ SameNames \/ Verify \/ Turn("verify", "identify")
    \/ Identify \/ Turn("identify", "read") \/ Read \/ Turn("read", "done")

Next == Write \/ Scan

Spec == Init /\ [][Next]_vars

-----------------------------------------------------------------------------
(* A scan that comes to its end gave out consecutive lines of the journal, *)
(* with at most one behind them that was not confirmed, and none of those  *)
(* that were confirmed before it began and are still there is missing,     *)
(* whatever was rotated, pruned and taken back meanwhile.                  *)
Kept == UNION {ToSet(disk.text[f]) : f \in {FileAt(disk, name) : name \in Listed(disk)}}

Run(s) == \E i \in 1..(Len(confirmed) + 1) : \E j \in (i - 1)..Len(confirmed) : s = SubSeq(confirmed, i, j)

ScanLeavesNothingOut ==
    scan.at = "done" =>
      /\ Run(scan.got) \/ (scan.got # <<>> /\ Last(scan.got) \notin ToSet(confirmed) /\ Run(Front(scan.got)))
      /\ \A n \in 1..scan.since :
           (\E line \in Kept : line.id = confirmed[n]) => confirmed[n] \in ToSet(scan.got)
=============================================================================
