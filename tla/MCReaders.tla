------------------------------ MODULE MCReaders ------------------------------
(***************************************************************************)
(* Small instances of Readers for TLC.                                     *)
(***************************************************************************)
EXTENDS Readers

AllLines    == Ids
AllButFirst == Ids \ {1}
AllButTwo   == Ids \ {2}
=============================================================================
