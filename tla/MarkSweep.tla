------------------------------- MODULE MarkSweep -------------------------------
(***************************************************************************)
(* One collection of GC_Manager, word by word: clear_marks_locked, the     *)
(* root scan, drain_mark_worklist_locked and sweep_locked.  The world is   *)
(* stopped (module StopTheWorld), so nothing else runs.                    *)
(*                                                                         *)
(* allocations_ is keyed by payload address.  A word is a number; it keeps *)
(* a block alive when it lies anywhere in the block's payload.             *)
(***************************************************************************)
EXTENDS Integers, Sequences, FiniteSets

CONSTANTS
    Begins,     \* payload_begin of the registered blocks
    Size,       \* their payload sizes in bytes
    WordSize,   \* sizeof(std::uintptr_t)
    Words,      \* the words that roots and payloads may contain
    MaxRoots    \* bound: words found on stacks, in registers, globals and ranges

End(b) == b + Size[b]

ASSUME LayoutAssumption ==
    /\ Begins \subseteq Nat
    /\ IsFiniteSet(Begins)
    /\ Size \in [Begins -> Nat \ {0}]
    /\ WordSize \in Nat \ {0}
    /\ \A b, c \in Begins : b < c => End(b) <= c
    /\ Words \subseteq Nat
    /\ MaxRoots \in Nat

\* No address of a block: the end iterator, nullptr.
None == -1

VARIABLES
    payload,      \* the aligned words of each payload
    roots,        \* the root words in the order they are scanned
    pinned,       \* blocks with BlockRecord::constructing
    marked,       \* blocks whose header has the mark bit
    worklist,     \* the vector of blocks still to be scanned, used as a stack
    scanning,     \* the block scan_payload_locked works on, or None
    next,         \* the next word of roots, or of the payload being scanned
    allocations,  \* keys of allocations_
    unreachable,  \* the blocks sweep_locked hands to the finalizers
    phase

vars == <<payload, roots, pinned, marked, worklist, scanning, next, allocations,
          unreachable, phase>>
heap == <<payload, roots, pinned>>

Phases == {"clear", "pinned", "roots", "drain", "sweep", "done"}

\* scan_payload_locked's loop stops when less than a word is left.
WordCount(b) == Size[b] \div WordSize

Payloads == [Begins -> UNION {[1..WordCount(b) -> Words] : b \in Begins}]

TypeOK ==
    /\ payload \in [Begins -> Seq(Words)]
    /\ roots \in Seq(Words)
    /\ pinned \in SUBSET Begins
    /\ marked \in SUBSET Begins
    /\ worklist \in Seq(Begins)
    /\ scanning \in Begins \cup {None}
    /\ next \in Nat \ {0}
    /\ allocations \in SUBSET Begins
    /\ unreachable \in SUBSET Begins
    /\ phase \in Phases

\* Marks may be left over: a collection that failed half way does not clear them.
Init ==
    /\ payload \in {p \in Payloads : \A b \in Begins : Len(p[b]) = WordCount(b)}
    /\ roots \in UNION {[1..n -> Words] : n \in 0..MaxRoots}
    /\ pinned \in SUBSET Begins
    /\ marked \in SUBSET Begins
    /\ worklist = <<>>
    /\ scanning = None
    /\ next = 1
    /\ allocations = Begins
    /\ unreachable = {}
    /\ phase = "clear"

-------------------------------------------------------------------------------
\* The block before upper_bound(address), if the address lies in its payload.
find_block_locked(address) ==
    LET below == {b \in allocations : b <= address}
    IN  IF below = {} THEN None
        ELSE LET b == CHOOSE x \in below : \A y \in below : y <= x
             IN  IF address < End(b) THEN b ELSE None

\* mark_candidate_locked that forgets to look at the mark bit.
MarkAgain(word) ==
    LET b == find_block_locked(word)
    IN  IF b # None
        THEN marked' = marked \cup {b} /\ worklist' = Append(worklist, b)
        ELSE UNCHANGED <<marked, worklist>>

\* The magic number is not modelled: malloc_internal sets that of every block
\* before it enters allocations_, so the test of it never fails for a block found.
mark_candidate_locked(word) ==
    LET b == find_block_locked(word)
    IN  IF b # None /\ b \notin marked
        THEN marked' = marked \cup {b} /\ worklist' = Append(worklist, b)
        ELSE UNCHANGED <<marked, worklist>>

\* Trusts that every sweep has left all marks clear.
KeepMarks ==
    /\ phase = "clear"
    /\ phase' = "pinned"
    /\ UNCHANGED <<heap, marked, worklist, scanning, next, allocations, unreachable>>

clear_marks_locked ==
    /\ phase = "clear"
    /\ marked' = {}
    /\ phase' = "pinned"
    /\ UNCHANGED <<heap, worklist, scanning, next, allocations, unreachable>>

\* collect: the blocks under construction are roots, taken in address order;
\* one that is marked already needs no visit.
MarkPinned ==
    /\ phase = "pinned"
    /\ \E b \in pinned \ marked :
          /\ \A c \in pinned \ marked : b <= c
          /\ mark_candidate_locked(b)
    /\ UNCHANGED <<heap, scanning, next, allocations, unreachable, phase>>

PinnedDone ==
    /\ phase = "pinned"
    /\ pinned \subseteq marked
    /\ phase' = "roots"
    /\ UNCHANGED <<heap, marked, worklist, scanning, next, allocations, unreachable>>

\* scan_registered_threads_locked and scan_registered_roots_locked.
ScanRootWord ==
    /\ phase = "roots"
    /\ next <= Len(roots)
    /\ mark_candidate_locked(roots[next])
    /\ next' = next + 1
    /\ UNCHANGED <<heap, scanning, allocations, unreachable, phase>>

RootsDone ==
    /\ phase = "roots"
    /\ next > Len(roots)
    /\ phase' = "drain"
    /\ next' = 1
    /\ UNCHANGED <<heap, marked, worklist, scanning, allocations, unreachable>>

\* back() without pop_back().
PeekBlock ==
    /\ phase = "drain" /\ scanning = None
    /\ worklist # <<>>
    /\ scanning' = worklist[Len(worklist)]
    /\ next' = 1
    /\ UNCHANGED <<heap, marked, worklist, allocations, unreachable, phase>>

\* drain_mark_worklist_locked takes the last block.
PopBlock ==
    /\ phase = "drain" /\ scanning = None
    /\ worklist # <<>>
    /\ scanning' = worklist[Len(worklist)]
    /\ worklist' = SubSeq(worklist, 1, Len(worklist) - 1)
    /\ next' = 1
    /\ UNCHANGED <<heap, marked, allocations, unreachable, phase>>

scan_payload_locked ==
    /\ phase = "drain" /\ scanning # None
    /\ next <= Len(payload[scanning])
    /\ mark_candidate_locked(payload[scanning][next])
    /\ next' = next + 1
    /\ UNCHANGED <<heap, scanning, allocations, unreachable, phase>>

\* The loop condition one word too strict.
PayloadDoneEarly ==
    /\ phase = "drain" /\ scanning # None
    /\ next >= Len(payload[scanning])
    /\ scanning' = None
    /\ UNCHANGED <<heap, marked, worklist, next, allocations, unreachable, phase>>

PayloadDone ==
    /\ phase = "drain" /\ scanning # None
    /\ next > Len(payload[scanning])
    /\ scanning' = None
    /\ UNCHANGED <<heap, marked, worklist, next, allocations, unreachable, phase>>

DrainDone ==
    /\ phase = "drain" /\ scanning = None
    /\ worklist = <<>>
    /\ phase' = "sweep"
    /\ UNCHANGED <<heap, marked, worklist, scanning, next, allocations, unreachable>>

\* Leaves the survivors marked.
SweepKeepingMarks ==
    /\ phase = "sweep"
    /\ unreachable' = allocations \ marked
    /\ allocations' = allocations \cap marked
    /\ phase' = "done"
    /\ UNCHANGED <<heap, marked, worklist, scanning, next>>

\* Detach what is not marked and clear the survivors' marks.
sweep_locked ==
    /\ phase = "sweep"
    /\ unreachable' = allocations \ marked
    /\ allocations' = allocations \cap marked
    /\ marked' = {}
    /\ phase' = "done"
    /\ UNCHANGED <<heap, worklist, scanning, next>>

Next ==
    \/ clear_marks_locked
    \/ MarkPinned \/ PinnedDone
    \/ ScanRootWord \/ RootsDone
    \/ PopBlock \/ scan_payload_locked \/ PayloadDone \/ DrainDone
    \/ sweep_locked

Spec == Init /\ [][Next]_vars
FairSpec == Spec /\ WF_vars(Next)

-------------------------------------------------------------------------------
(* What a collection must keep, defined without reference to how it looks  *)
(* for it: least set of blocks that contains every block a root word points*)
(* into and is closed under payload words.                                 *)

PointsInto(word, b) == b <= word /\ word < End(b)

RootBlocks ==
    pinned \cup {b \in Begins : \E i \in 1..Len(roots) : PointsInto(roots[i], b)}

Successors(b) ==
    {c \in Begins : \E i \in 1..Len(payload[b]) : PointsInto(payload[b][i], c)}

Closed(S) == RootBlocks \subseteq S /\ \A b \in S : Successors(b) \subseteq S

Reachable == {b \in Begins : \A S \in SUBSET Begins : Closed(S) => b \in S}

\* When marking ends the marked blocks are exactly the reachable ones: nothing
\* the program can still use is lost, whatever marks an earlier, failed
\* collection left behind, and no garbage survives, cycles included.
MarkingIsExact == phase = "sweep" => marked = Reachable

\* After the sweep allocations_ holds the reachable blocks and only them, every
\* block is either kept or handed to the finalizers, and no mark is left.
SweepIsExact ==
    phase = "done" =>
        /\ allocations = Reachable
        /\ unreachable = Begins \ Reachable
        /\ marked = {}

\* worklist.reserve(allocations_.size()) is enough: a block is pushed at most
\* once per collection, so marking never reallocates the worklist.
WorklistFits ==
    /\ Len(worklist) <= Cardinality(Begins)
    /\ \A i, j \in 1..Len(worklist) : worklist[i] = worklist[j] => i = j

\* Marking terminates, on cyclic heaps too.
Terminates == <>(phase = "done")
===============================================================================
