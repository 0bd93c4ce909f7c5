------------------------------ MODULE MCSegments ------------------------------
(***************************************************************************)
(* Segments for TLC: two records, one tracked member, two workers,         *)
(* three days, one edit and one failure.                                   *)
(***************************************************************************)
EXTENDS Segments

CONSTANTS r1, r2, w1, w2
=============================================================================
