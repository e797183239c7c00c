---------------------------- MODULE MCAccounting ----------------------------
(* Small instances of the byte counters for TLC. *)
EXTENDS Accounting, TLC

Symmetry == Permutations(Threads) \cup Permutations(Blocks)
=============================================================================
