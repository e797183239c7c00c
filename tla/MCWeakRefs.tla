----------------------------- MODULE MCWeakRefs -----------------------------
(* Small instances of the weak references for TLC. *)
EXTENDS WeakRefs, TLC

Symmetry == Permutations(Threads) \cup Permutations(Handles)
=============================================================================
