----------------------------- MODULE MCCollector -----------------------------
(* A small instance of the managed heap for TLC. *)
EXTENDS Collector, TLC

Symmetry == Permutations(Threads) \cup Permutations(Blocks)

InUse(s) == leases[s] > 0 \/ slot[s] # NoBlock

\* Bound: while a slot is in use it is the only one, and only one address is in
\* use.  A state outside the bound is still checked, but not its successors.
GraphOrSlot ==
    \/ \A s \in Slots : ~InUse(s)
    \/ /\ \A r, s \in Slots : InUse(r) /\ InUse(s) => r = s
       /\ \E b \in Blocks : \A c \in Blocks \ {b} : status[c] = "free" /\ c \notin severed
==============================================================================
