------------------------------ MODULE Installer ------------------------------
(***************************************************************************)
(* The in-place update of an installation from A to B (instll/ownership.py *)
(* and the script instll/update around it): apply_checkout with its own    *)
(* restoration, rollback_update and finalize_update.  Each takes the       *)
(* install and profile locks, so one runs at a time; what they leave when  *)
(* a step of theirs fails, or when they are cut off, is what the next one  *)
(* finds.                                                                  *)
(*                                                                         *)
(* A process is the sequence of steps it has still to take.  A step is a   *)
(* pair: what is done, and to which item or for which version.             *)
(***************************************************************************)
EXTENDS Naturals, Sequences, SequencesExt

CONSTANTS None,
          RuntimeOrder,  \* the runtimes an update may replace, in the order it does
          Files,         \* those that are single files
          Setups         \* what is updated and what befalls it, as records:
                         \*   had         the items A has
                         \*   staged      the runtimes B brings
                         \*   configured  there is a profile
                         \*   sameCommand A and B have their interpreter at the same path
                         \*   loyal       who began to finalize does not roll back, nor
                         \*               the other way round
                         \*   updates, fails, cuts  how often each may happen

VARIABLES disk, proc, running, setup, used

vars == <<disk, proc, running, setup, used>>

Runtimes == ToSet(RuntimeOrder)
Items    == Runtimes \cup {"checkout", "managed"}
Ended    == [op |-> None, todo |-> <<>>, mark |-> None]

-----------------------------------------------------------------------------
(* The operations, as their steps.                                         *)

ForEach(steps) == FlattenSeq([k \in DOMAIN RuntimeOrder |-> steps[RuntimeOrder[k]]])
Each(what, set) == ForEach([r \in Runtimes |-> IF r \in set THEN <<<<what, r>>>> ELSE <<>>])

(* refresh(): the command, then the record, then the interpreter.          *)
Remark(version) == <<<<"wrapper", version>>, <<"mark", version>>, <<"interpreter", version>>>>

ApplySteps ==
    <<<<"stop", None>>, <<"recovery", None>>>>
      \o ForEach([r \in Runtimes |->
           IF r \in setup.staged THEN <<<<"keep", r>>, <<"place", r>>>> ELSE <<>>])
      \o <<<<"keep", "managed">>, <<"keep", "checkout">>, <<"place", "checkout">>,
           <<"bind", "B">>, <<"profile", "B">>>>
      \o Remark("B") \o <<<<"copy", None>>, <<"pending", "applied">>>>

(* Every item that was put aside goes back where it was, and the runtimes  *)
(* that only B has go.                                                     *)
Restoration ==
    <<<<"drop", "checkout">>, <<"back", "checkout">>, <<"drop", "managed">>, <<"back", "managed">>>>
      \o Each("unmake", setup.staged)
      \o ForEach([r \in Runtimes |-> <<<<"drop", r>>, <<"back", r>>>>])
      \o <<<<"profile", "A">>>>

(* What apply_checkout does about a failure of its own.                    *)
Unwinding == Restoration \o <<<<"bind", "A">>>> \o Remark("A") \o <<<<"forget", None>>>>

(* Mutant: the new phase is saved before there is anything to it.          *)
RollbackPhaseFirst(phase) ==
    (IF phase = "applied"
       THEN <<<<"stop", None>>, <<"pending", "files_restored">>>> \o Restoration
       ELSE <<>>)
      \o <<<<"bind", "A">>>> \o Remark("A")
      \o <<<<"discard", "profile">>, <<"clear", None>>, <<"forget", None>>>>

RollbackSteps(phase) ==
    (IF phase = "applied"
       THEN <<<<"stop", None>>>> \o Restoration \o <<<<"pending", "files_restored">>>>
       ELSE <<>>)
      \o <<<<"bind", "A">>>> \o Remark("A")
      \o <<<<"discard", "profile">>, <<"clear", None>>, <<"forget", None>>>>

FinalizeSteps ==
    <<<<"discard", "checkout">>, <<"discard", "managed">>>> \o Each("discard", Runtimes)
      \o <<<<"discard", "profile">>, <<"clear", None>>, <<"forget", None>>>>

-----------------------------------------------------------------------------
Spends(what) == used[what] < setup[what] /\ used' = [used EXCEPT ![what] = @ + 1]

Begins(op, steps) == proc' = [op |-> op, todo |-> steps, mark |-> None]

Doing(what) == proc.todo # <<>> /\ Head(proc.todo)[1] = what
It   == Head(proc.todo)[2]
Kept(i) == disk.kept[i] # "none"
Done == proc' = [proc EXCEPT !.todo = Tail(@)]
Does(what) == Doing(what) /\ Done /\ UNCHANGED <<setup, used>>

(* verify_owned(): the command is the one the record has the hash of.      *)
Owned == setup.sameCommand \/ disk.wrapper = disk.mark

(* `update' begins with an installation that is owned and has no pending   *)
(* update; `update-recovery' may be in its way later on.  (The update that *)
(* follows once B is kept is another story of A and B.)                    *)
Update ==
    /\ proc = Ended /\ Spends("updates") /\ disk.decided # "finalize"
    /\ Owned /\ disk.pending = None
    /\ Begins("apply", ApplySteps)
    /\ disk' = [disk EXCEPT !.claim = None, !.decided = None, !.made = {}]
    /\ UNCHANGED <<running, setup>>

MayDecide(op) == setup.loyal => disk.decided \in {None, op}

(* B did not start, or an earlier rollback reported that it failed.        *)
RollBack ==
    /\ proc = Ended /\ disk.pending # None /\ MayDecide("rollback")
    /\ Begins("rollback", RollbackSteps(disk.pending))
    /\ disk' = [disk EXCEPT !.decided = "rollback"]
    /\ UNCHANGED <<running, setup, used>>

(* B started, or was not to be started.                                    *)
Finalize ==
    /\ proc = Ended /\ disk.pending # None /\ MayDecide("finalize")
    /\ Begins("finalize", FinalizeSteps)
    /\ disk' = [disk EXCEPT !.decided = "finalize"]
    /\ UNCHANGED <<running, setup, used>>

(* `tap on' takes the profile lock, and nothing tells it of an update that *)
(* is not over.                                                            *)
Start ==
    /\ proc = Ended /\ running = None /\ setup.configured
    /\ disk.now["checkout"] \in {"A", "B"}
    /\ running' = disk.now["checkout"]
    /\ UNCHANGED <<disk, proc, setup, used>>

-----------------------------------------------------------------------------
(* The steps.                                                              *)

StopProfile == Does("stop") /\ running' = None /\ UNCHANGED disk

PrepareRecovery ==
    /\ Does("recovery") /\ ~disk.recovery
    /\ disk' = [disk EXCEPT !.recovery = TRUE] /\ UNCHANGED running

(* _promote_staged, and the moves of the checkout and the bindings: what   *)
(* is there is put aside, what is not will have been made by B.            *)
KeepOld ==
    /\ Does("keep") /\ UNCHANGED running
    /\ disk' = IF disk.now[It] = "none" THEN [disk EXCEPT !.made = @ \cup {It}]
               ELSE [disk EXCEPT !.now[It] = "none", !.kept[It] = disk.now[It]]

PlaceNew == Does("place") /\ disk' = [disk EXCEPT !.now[It] = "B"] /\ UNCHANGED running

(* write_managed; for A only when nothing is there.                        *)
Bind ==
    /\ Does("bind") /\ UNCHANGED running
    /\ disk' = IF It = "A" /\ disk.now["managed"] # "none" THEN disk
               ELSE [disk EXCEPT !.now["managed"] = It]

(* _propagate_profile; rollback has A's profile from the copy alone.       *)
WriteProfile ==
    /\ Does("profile") /\ UNCHANGED running
    /\ disk' = IF ~setup.configured \/ (proc.op = "rollback" /\ ~disk.copy) THEN disk
               ELSE [disk EXCEPT !.profile = It]

WriteWrapper ==
    /\ Doing("wrapper") /\ Owned
    /\ proc' = [proc EXCEPT !.todo = Tail(@), !.mark = <<disk.wrapper, disk.mark, disk.interpreter>>]
    /\ disk' = [disk EXCEPT !.wrapper = It]
    /\ UNCHANGED <<running, setup, used>>

WriteMark == Does("mark") /\ disk' = [disk EXCEPT !.mark = It] /\ UNCHANGED running

WriteInterpreter ==
    Does("interpreter") /\ disk' = [disk EXCEPT !.interpreter = It] /\ UNCHANGED running

CopyProfile ==
    Does("copy") /\ disk' = [disk EXCEPT !.copy = setup.configured] /\ UNCHANGED running

SavePending == Does("pending") /\ disk' = [disk EXCEPT !.pending = It] /\ UNCHANGED running

(* Mutant: it is removed without a look at its backup.                     *)
DropAlways ==
    Does("drop") /\ disk' = [disk EXCEPT !.now[It] = "none"] /\ UNCHANGED running

(* The new one is removed only where the old one can go back.              *)
DropNew ==
    /\ Does("drop") /\ UNCHANGED running
    /\ disk' = IF Kept(It) THEN [disk EXCEPT !.now[It] = "none"] ELSE disk

BringBack ==
    /\ Does("back") /\ UNCHANGED running
    /\ disk' = IF Kept(It) /\ disk.now[It] = "none"
                 THEN [disk EXCEPT !.now[It] = disk.kept[It], !.kept[It] = "none"] ELSE disk

Unmake ==
    /\ Does("unmake") /\ UNCHANGED running
    /\ disk' = IF It \in disk.made THEN [disk EXCEPT !.now[It] = "none"] ELSE disk

Discard ==
    /\ Does("discard") /\ UNCHANGED running
    /\ disk' = IF It = "profile" THEN [disk EXCEPT !.copy = FALSE]
               ELSE [disk EXCEPT !.kept[It] = "none"]

ClearPending == Does("clear") /\ disk' = [disk EXCEPT !.pending = None] /\ UNCHANGED running

(* The last step of all three; finalize finds a checkout it could not      *)
(* discard and complains instead.                                          *)
ForgetRecovery ==
    /\ Does("forget") /\ UNCHANGED running
    /\ disk' = IF proc.op = "finalize" /\ Kept("checkout") THEN disk
               ELSE [disk EXCEPT !.recovery = FALSE,
                                 !.claim = IF proc.op = "finalize" THEN "updated" ELSE "restored"]

End == proc # Ended /\ proc.todo = <<>> /\ proc' = Ended /\ UNCHANGED <<disk, running, setup, used>>

-----------------------------------------------------------------------------
(* A step fails, and the operation with it, in its own way.                *)

(* refresh() puts back what it has written.                                *)
Unrefreshed ==
    IF Doing("mark") \/ Doing("interpreter")
      THEN [disk EXCEPT !.wrapper = proc.mark[1], !.mark = proc.mark[2], !.interpreter = proc.mark[3]]
      ELSE disk

(* Errors that the code swallows: rmtree of a directory that goes, and the *)
(* bindings that an unwinding rebuilds.                                    *)
Swallowed ==
    \/ (Doing("unmake") \/ Doing("discard")) /\ It \notin Files \cup {"profile"}
    \/ Doing("bind") /\ proc.op = "unwind"
    \/ Doing("forget")

(* Mutant: an unwinding removes its recovery whatever became of refresh.   *)
AfterFailureForgetful ==
    CASE Swallowed -> [proc EXCEPT !.todo = Tail(@)]
      [] ~Swallowed /\ proc.op = "apply" /\ ~Doing("stop") /\ ~Doing("recovery") ->
           [proc EXCEPT !.op = "unwind", !.todo = Unwinding]
      [] ~Swallowed /\ proc.op = "unwind" -> [proc EXCEPT !.todo = <<<<"forget", None>>>>]
      [] OTHER -> Ended

(* An apply that fails puts its own move right first and then everything   *)
(* else; the other operations stop where they are.                         *)
AfterFailure ==
    CASE Swallowed -> [proc EXCEPT !.todo = Tail(@)]
      [] ~Swallowed /\ proc.op = "apply" /\ ~Doing("stop") /\ ~Doing("recovery") ->
           [proc EXCEPT !.op = "unwind",
                        !.todo = (IF Doing("place")
                                    THEN <<<<"back", It>>, <<"back", "managed">>>> ELSE <<>>) \o Unwinding]
      [] OTHER -> Ended

(* What a step that was not finished may leave.                            *)
Half ==
    \/ disk' = Unrefreshed
    \/ /\ Doing("drop") /\ Kept(It) /\ disk.now[It] # "none"
       /\ disk' = [disk EXCEPT !.now[It] = "part"]
    \/ /\ Doing("unmake") /\ It \in disk.made /\ disk.now[It] # "none"
       /\ disk' = [disk EXCEPT !.now[It] = "part"]
    \/ /\ Doing("bind") /\ disk.now["managed"] = "none"
       /\ disk' = [disk EXCEPT !.now["managed"] = "part"]

Fail ==
    /\ proc.todo # <<>> /\ Spends("fails")
    /\ proc' = AfterFailure
    /\ Half
    /\ UNCHANGED <<running, setup>>

(* What it finds fails it: a recovery in the way, a command it doesn't own.*)
Refuse ==
    /\ \/ Doing("recovery") /\ disk.recovery
       \/ Doing("wrapper") /\ ~Owned
    /\ proc' = AfterFailure
    /\ UNCHANGED <<disk, running, setup, used>>

(* The process is killed, or the handler of its failure fails too.         *)
Cut ==
    /\ proc.todo # <<>> /\ Spends("cuts")
    /\ proc' = Ended
    /\ Half \/ UNCHANGED disk
    /\ UNCHANGED <<running, setup>>

-----------------------------------------------------------------------------
Init ==
    /\ setup \in Setups
    /\ disk = [now |-> [i \in Items |-> IF i \in setup.had THEN "A" ELSE "none"], kept |-> [i \in Items |-> "none"], made |-> {},
               profile |-> "A", copy |-> FALSE, wrapper |-> "A", mark |-> "A", interpreter |-> "A",
               recovery |-> FALSE, pending |-> None, decided |-> None, claim |-> None]
    /\ proc = Ended
    /\ running \in IF setup.configured THEN {"A", None} ELSE {None}
    /\ used = [updates |-> 0, fails |-> 0, cuts |-> 0]

Step ==
    \/ StopProfile \/ PrepareRecovery \/ KeepOld \/ PlaceNew \/ Bind \/ WriteProfile
    \/ WriteWrapper \/ WriteMark \/ WriteInterpreter \/ CopyProfile \/ SavePending
    \/ DropNew \/ BringBack \/ Unmake \/ Discard \/ ClearPending \/ ForgetRecovery
    \/ Refuse \/ End

Next == Update \/ RollBack \/ Finalize \/ Start \/ Step \/ Fail \/ Cut

Spec == Init /\ [][Next]_vars

(* Operations go on, and a rollback that failed is run again.              *)
Fairness ==
    /\ WF_vars(Step)
    /\ WF_vars(RollBack /\ disk.decided = "rollback")
-----------------------------------------------------------------------------
Wholly(version, items) ==
    /\ \A i \in items : disk.now[i] = version
    /\ disk.mark = version /\ disk.interpreter = version
    /\ setup.sameCommand \/ disk.wrapper = version
    /\ setup.configured => disk.profile = version

WhollyA == Wholly("A", setup.had)
WhollyB == Wholly("B", setup.staged \cup {"checkout", "managed"})

(* Until it is decided to keep B, every item of A exists, whole, in its    *)
(* place or beside it.                                                     *)
OldIsThere ==
    disk.decided # "finalize" => \A i \in setup.had : disk.now[i] = "A" \/ disk.kept[i] = "A"

(* Half an update announces itself: an installation without a pending      *)
(* record and a recovery directory is wholly A or wholly B.                *)
NeverMixedInSilence ==
    proc = Ended /\ disk.pending = None /\ ~disk.recovery => WhollyA \/ WhollyB

(* No checkout is moved from under a running profile.                      *)
RunsItsOwnCode == running # None => disk.now["checkout"] = running

UpdateIsRecoverable == OldIsThere /\ NeverMixedInSilence /\ RunsItsOwnCode

(* Steps may fail, but a rollback that is run again and again ends with A, *)
(* as long as nothing cuts it off.                                         *)
RollbackConverges == (disk.decided = "rollback" /\ setup.cuts = 0) ~> WhollyA

(* "a failed rollback is nonzero and does not claim restore"               *)
(* (docs/install.md).                                                      *)
ClaimedRestorationIsOne == disk.claim = "restored" => disk.now["checkout"] = "A"
=============================================================================
