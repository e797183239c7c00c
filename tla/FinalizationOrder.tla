--------------------------- MODULE FinalizationOrder ---------------------------
(***************************************************************************)
(* The order in which dead blocks are finalized and freed:                 *)
(* order_blocks_for_finalization_locked (called by sweep_locked and        *)
(* detach_all_blocks_locked) and destroy_blocks.                           *)
(*                                                                         *)
(* The blocks arrive in address order, so a block is its index, and the    *)
(* priority queue that prefers the higher address prefers the higher index.*)
(***************************************************************************)
EXTENDS Integers, Sequences, FiniteSets

CONSTANT MaxBlocks  \* bound: blocks that die in one collection

ASSUME MaxBlocksAssumption == MaxBlocks \in Nat

Indices == 1..MaxBlocks

VARIABLES
    count,      \* blocks.size()
    refs,       \* the blocks each block's payload points into
    phase,
    edges,      \* edges, as a set of targets for each source
    indegree,
    ready,      \* the priority queue
    ordered,    \* the result
    rest,       \* how many indices the last loop has not looked at
    finalized,  \* how many of ordered have been finalized
    freed       \* blocks given back to the system allocator

vars == <<count, refs, phase, edges, indegree, ready, ordered, rest, finalized, freed>>

Blocks == 1..count
Emitted == {ordered[k] : k \in 1..Len(ordered)}

TypeOK ==
    /\ count \in 0..MaxBlocks
    /\ refs \in [Blocks -> SUBSET Blocks]
    /\ phase \in {"edges", "emit", "rest", "finalize", "free", "done"}
    /\ edges \in [Blocks -> SUBSET Blocks]
    /\ indegree \in [Blocks -> 0..MaxBlocks]
    /\ ready \in SUBSET Blocks
    /\ ordered \in Seq(Blocks)
    /\ rest \in 0..MaxBlocks
    /\ finalized \in 0..Len(ordered)
    /\ freed \in SUBSET Blocks

Init ==
    /\ count \in 0..MaxBlocks
    /\ refs \in [Blocks -> SUBSET Blocks]
    /\ phase = "edges"
    /\ edges = [b \in Blocks |-> {}]
    /\ indegree = [b \in Blocks |-> 0]
    /\ ready = {}
    /\ ordered = <<>>
    /\ rest = 0
    /\ finalized = 0
    /\ freed = {}

-------------------------------------------------------------------------------
\* No block, or one: nothing to order.
OrderFew ==
    /\ phase = "edges"
    /\ count <= 1
    /\ ordered' = [k \in Blocks |-> k]
    /\ phase' = "finalize"
    /\ UNCHANGED <<count, refs, edges, indegree, ready, rest, finalized, freed>>

\* Edges from the words of the payloads: a block's pointers to itself do not
\* count, and several pointers to one block count once.
Outgoing(b) == refs[b] \ {b}

BuildEdges ==
    /\ phase = "edges"
    /\ count > 1
    /\ edges' = [b \in Blocks |-> Outgoing(b)]
    /\ indegree' = [b \in Blocks |-> Cardinality({c \in Blocks : b \in Outgoing(c)})]
    /\ ready' = {b \in Blocks : indegree'[b] = 0}
    /\ phase' = "emit"
    /\ UNCHANGED <<count, refs, ordered, rest, finalized, freed>>

\* Forgets to wait until indegree is zero.
ReadyTooEarly(b) == edges[b] \ Emitted

\* The blocks that nothing points to any more once b is emitted.
BecomeReady(b) == {c \in edges[b] : indegree[c] = 1}

\* Pop the highest ready block, emit it, and count it off at its targets; the
\* ones that reach zero become ready.

Emit ==
    /\ phase = "emit"
    /\ \E b \in ready :
          /\ \A c \in ready : c <= b
          /\ ordered' = Append(ordered, b)
          /\ indegree' = [c \in Blocks |-> IF c \in edges[b] /\ indegree[c] > 0
                                           THEN indegree[c] - 1 ELSE indegree[c]]
          /\ ready' = (ready \ {b}) \cup BecomeReady(b)
    /\ UNCHANGED <<count, refs, phase, edges, rest, finalized, freed>>

EmitDone ==
    /\ phase = "emit"
    /\ ready = {}
    /\ phase' = "rest"
    /\ rest' = count
    /\ UNCHANGED <<count, refs, edges, indegree, ready, ordered, finalized, freed>>

\* What is left is on a cycle or behind one: highest address first.
AppendRest ==
    /\ phase = "rest"
    /\ rest > 0
    /\ ordered' = IF rest \notin Emitted THEN Append(ordered, rest) ELSE ordered
    /\ rest' = rest - 1
    /\ UNCHANGED <<count, refs, phase, edges, indegree, ready, finalized, freed>>

\* The loop stops one index short.
RestDoneEarly ==
    /\ phase = "rest"
    /\ rest <= 1
    /\ phase' = "finalize"
    /\ UNCHANGED <<count, refs, edges, indegree, ready, ordered, rest, finalized, freed>>

RestDone ==
    /\ phase = "rest"
    /\ rest = 0
    /\ phase' = "finalize"
    /\ UNCHANGED <<count, refs, edges, indegree, ready, ordered, rest, finalized, freed>>

\* destroy_blocks that frees each block right after its finalizer.
FinalizeAndFree ==
    /\ phase = "finalize"
    /\ finalized < Len(ordered)
    /\ finalized' = finalized + 1
    /\ freed' = freed \cup {ordered[finalized + 1]}
    /\ UNCHANGED <<count, refs, phase, edges, indegree, ready, ordered, rest>>

\* destroy_blocks runs every finalizer,
Finalize ==
    /\ phase = "finalize"
    /\ finalized < Len(ordered)
    /\ finalized' = finalized + 1
    /\ UNCHANGED <<count, refs, phase, edges, indegree, ready, ordered, rest, freed>>

FinalizersDone ==
    /\ phase = "finalize"
    /\ finalized = Len(ordered)
    /\ phase' = "free"
    /\ UNCHANGED <<count, refs, edges, indegree, ready, ordered, rest, finalized, freed>>

\* and only then frees the blocks.
Free ==
    /\ phase = "free"
    /\ freed' = Emitted
    /\ phase' = "done"
    /\ UNCHANGED <<count, refs, edges, indegree, ready, ordered, rest, finalized>>

Next ==
    \/ OrderFew \/ BuildEdges
    \/ Emit \/ EmitDone \/ AppendRest \/ RestDone
    \/ Finalize \/ FinalizersDone \/ Free

Spec == Init /\ [][Next]_vars

-------------------------------------------------------------------------------
(* Properties *)

DependsOn(b) == refs[b] \ {b}

\* The blocks reachable from b along at least one pointer to another block.
Downstream(b) ==
    {c \in Blocks :
        \A S \in SUBSET Blocks :
            DependsOn(b) \subseteq S /\ (\A d \in S : DependsOn(d) \subseteq S) => c \in S}

OnCycle(b) == b \in Downstream(b)

Before(b, c) ==
    \E i, j \in 1..Len(ordered) : ordered[i] = b /\ ordered[j] = c /\ i < j

\* The two loops of order_blocks_for_finalization_locked emit every dead block
\* exactly once: no finalizer is skipped (a leak) and none runs twice.
EachBlockOnce ==
    phase = "finalize" =>
        /\ Len(ordered) = count
        /\ Emitted = Blocks

\* A finalizer finds the blocks its own block points to not yet finalized, as
\* long as those are not on a cycle or behind one.
DependenciesIntact ==
    phase = "finalize" /\ finalized = 0 =>
        \A b \in Blocks : \A c \in DependsOn(b) :
            (\A d \in Blocks : OnCycle(d) => c \notin Downstream(d)) => Before(b, c)

\* Even in a cycle the blocks a finalizer can reach still have their memory: no
\* block is freed while a finalizer is left to run.
FinalizerSeesMemory ==
    phase = "finalize" /\ finalized < Len(ordered) =>
        refs[ordered[finalized + 1]] \cap freed = {}

\* README, "Lifetime and Finalization": the order is determined by acyclic
\* dependencies, and only objects of the same cycle are without one.  Stated of
\* the code: whenever b points to c and c does not lead back to b, b comes first.
AcyclicDependenciesOrdered ==
    phase = "finalize" /\ finalized = 0 =>
        \A b \in Blocks : \A c \in DependsOn(b) :
            b \notin Downstream(c) => Before(b, c)
===============================================================================
