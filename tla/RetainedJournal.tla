--------------------------- MODULE RetainedJournal ---------------------------
(***************************************************************************)
(* What the capture writer promises to whoever reads the journal           *)
(* (docs/capture-recovery.md): one ordered sequence of complete lines that *)
(* grows at its end, one line at a time, and is forgotten from its         *)
(* beginning.  A line may be taken back only while its append is in doubt, *)
(* that is before it is confirmed, and then it is still the last one.      *)
(***************************************************************************)
EXTENDS Naturals, Sequences

CONSTANT Ids   \* the records, numbered in submission order

VARIABLES
  journal,     \* the lines a reader can find, oldest first
  inDoubt      \* the last line is not confirmed yet

Init == journal = <<>> /\ inDoubt = FALSE

Confirmed == Len(journal) - (IF inDoubt THEN 1 ELSE 0)

Extend(id) ==
  /\ ~inDoubt /\ inDoubt' = TRUE
  /\ \A i \in 1..Len(journal) : journal[i] < id
  /\ journal' = Append(journal, id)

Confirm == inDoubt /\ inDoubt' = FALSE /\ UNCHANGED journal

\* Retention takes the n oldest lines, never the one in doubt.
Forget(n) == journal' = SubSeq(journal, n + 1, Len(journal)) /\ UNCHANGED inDoubt

\* The append in doubt is rolled back; retention may act in the same step.
Retract(n) ==
  /\ inDoubt /\ inDoubt' = FALSE
  /\ journal' = SubSeq(journal, n + 1, Len(journal) - 1)

Next ==
  \/ \E id \in Ids : Extend(id)
  \/ Confirm
  \/ \E n \in 0..Confirmed : Forget(n) \/ Retract(n)

Spec == Init /\ [][Next]_<<journal, inDoubt>>
=============================================================================
