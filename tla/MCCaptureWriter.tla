--------------------------- MODULE MCCaptureWriter ---------------------------
(***************************************************************************)
(* Small instances of CaptureWriter for TLC.                               *)
(***************************************************************************)
EXTENDS CaptureWriter

\* A short line, a long one that fills a segment alone, one no reader would accept.
AllShapes == {[size |-> 2, len |-> 2], [size |-> 3, len |-> 5], [size |-> 3, len |-> 9]}
=============================================================================
