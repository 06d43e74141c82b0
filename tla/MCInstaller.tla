----------------------------- MODULE MCInstaller -----------------------------
(***************************************************************************)
(* Small instances of Installer.                                           *)
(***************************************************************************)
EXTENDS Installer

CONSTANTS python, bun

PythonThenBun == <<python, bun>>
OnlyBun       == {bun}

Whole == [had |-> {"checkout", "managed", python, bun}, staged |-> {python, bun},
          configured |-> TRUE, sameCommand |-> FALSE, loyal |-> TRUE,
          updates |-> 2, fails |-> 2, cuts |-> 1]

(* The first managed runtimes and bindings come with B.                    *)
Bare == [Whole EXCEPT !.had = {"checkout", bun}, !.staged = {python}]

Updates == {Whole, Bare, [Whole EXCEPT !.sameCommand = TRUE], [Whole EXCEPT !.cuts = 0]}
Changes == {[Whole EXCEPT !.loyal = FALSE, !.updates = 1, !.fails = 1, !.cuts = 0]}
=============================================================================
