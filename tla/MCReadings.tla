------------------------------ MODULE MCReadings ------------------------------
(***************************************************************************)
(* Readings for TLC: a call, with or without words, and an email; the      *)
(* nightly job and one request at a time beside it.                        *)
(***************************************************************************)
EXTENDS Readings

CONSTANTS k1, e1, w1, night
=============================================================================
