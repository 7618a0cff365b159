---------------------------- MODULE MCFlintBlock ----------------------------
(* Instantiates FlintBlock for TLC. *)
EXTENDS FlintBlock

\* SEQ_START_POINT in flint_table.cc.
MCSeqStart == -10
=============================================================================
