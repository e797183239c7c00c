----------------------------- MODULE MCMarkSweep -----------------------------
(* A heap of three blocks for TLC, payloads of two, one and no whole words. *)
EXTENDS MarkSweep

MCBegins == {2, 8, 13}
MCSize == [b \in MCBegins |-> CASE b = 2 -> 4 [] b = 8 -> 3 [] b = 13 -> 1]
==============================================================================
