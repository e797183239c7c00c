------------------------------ MODULE Accounting ------------------------------
(***************************************************************************)
(* Byte counters, statistics and the collection threshold of GC_Manager.   *)
(*                                                                         *)
(* Everything is size_t: numbers up to MaxWord, with sums that are checked,*)
(* sums that saturate and sums that wrap, as in the code.  A stop of the   *)
(* world is one variable, the thread that runs it (module StopTheWorld     *)
(* shows why that is enough); which unfinished-with blocks die in a        *)
(* collection is arbitrary (module Collector says which).                  *)
(***************************************************************************)
EXTENDS FiniteSetsExt

CONSTANTS
    Threads, NoThread,
    Blocks,
    MaxWord,     \* numeric_limits<size_t>::max()
    Offset,      \* payload_offset of every block
    Sizes,       \* payload sizes
    Thresholds   \* arguments of set_collection_threshold_bytes

ASSUME AccountingAssumption ==
    /\ NoThread \notin Threads /\ IsFiniteSet(Blocks)
    /\ MaxWord \in Nat /\ Offset \in 1..MaxWord
    /\ Sizes \subseteq 1..(MaxWord - Offset)
    /\ Thresholds \subseteq 0..MaxWord

VARIABLES
    stage,      \* of a block: "free", "raw", "building", "nested" (building, in a
                \* finalizer), "live" or "dead"
    size,       \* ChunkHeader::size
    managed,    \* managed_bytes_
    reserved,   \* reserved_bytes_
    stats,      \* stats_
    threshold,  \* collection_threshold_bytes_
    collecting, \* the thread that has stopped the world, or NoThread
    pc,         \* what a thread is about to do, or has stopped the world for
    request,    \* the payload size it wants
    owed,       \* (history) threads that decided to collect, and no collection
                \* has marked the heap since
    abandoned   \* (history) bytes of failed constructions since shutdown, up to
                \* MaxWord

vars == <<stage, size, managed, reserved, stats, threshold, collecting, pc,
          request, owed, abandoned>>

In(s) == {b \in Blocks : stage[b] = s}
Constructing == {"building", "nested"}
allocations == {b \in Blocks : stage[b] \in Constructing \cup {"live"}}
block_allocation_size(n) == Offset + n

\* What the blocks of S add up to, without and with their headers.
Sum(f, S) == FoldFunctionOnSet(+, 0, f, S)
Bytes(S) == Sum(size, S)
BlockBytes(S) == Sum([b \in Blocks |-> block_allocation_size(size[b])], S)

NoStats == [total_allocations |-> 0, bytes_allocated_total |-> 0, peak_live_bytes |-> 0,
            peak_live_blocks |-> 0, bytes_reclaimed_total |-> 0]

Word == 0..MaxWord

TypeOK ==
    /\ stage \in [Blocks -> {"free", "raw", "building", "nested", "live", "dead"}]
    /\ size \in [Blocks -> Sizes \cup {0}]
    /\ managed \in Word /\ reserved \in Word /\ threshold \in Word
    /\ stats \in [total_allocations : Word, bytes_allocated_total : Word, peak_live_bytes : Word,
                  peak_live_blocks : Word, bytes_reclaimed_total : Word]
    /\ collecting \in Threads \cup {NoThread}
    /\ pc \in [Threads -> {"idle", "threshold", "new", "emergency", "again", "raw",
                           "collect", "shutdown", "snapshot"}]
    /\ request \in [Threads -> Sizes \cup {0}]
    /\ owed \in SUBSET Threads
    /\ abandoned \in Word

Init ==
    /\ stage = [b \in Blocks |-> "free"]
    /\ size = [b \in Blocks |-> 0]
    /\ managed = 0 /\ reserved = 0
    /\ stats = NoStats
    /\ threshold \in Thresholds
    /\ collecting = NoThread
    /\ pc = [t \in Threads |-> "idle"]
    /\ request = [t \in Threads |-> 0]
    /\ owed = {}
    /\ abandoned = 0

\* Off by one.
AddWouldReachLimit(lhs, rhs) == lhs > (MaxWord - rhs) + 1

add_would_overflow(lhs, rhs) == lhs > MaxWord - rhs
saturating_add(lhs, rhs) == IF add_would_overflow(lhs, rhs) THEN MaxWord ELSE lhs + rhs
Plus(lhs, rhs) == (lhs + rhs) % (MaxWord + 1)
Minus(lhs, rhs) == (lhs - rhs) % (MaxWord + 1)

\* cooperate lets everyone through between stops, and the collector (its
\* finalizers) during one.
Passes(t) == collecting \in {NoThread, t}

Goto(t, place) == pc' = [pc EXCEPT ![t] = place]

\* The allocation is over, one way or the other.
ForgetRequest(t) == request' = [request EXCEPT ![t] = 0]

Freed(S) == size' = [b \in Blocks |-> IF b \in S THEN 0 ELSE size[b]]

-------------------------------------------------------------------------------
(* Allocation *)

\* gc_new and construct_array begin here.  A thread in its own stop, that is in a
\* finalizer, does not collect: see FinalizerAllocates.
collect_if_needed(t, n) ==
    /\ pc[t] = "idle" /\ collecting = NoThread
    /\ request' = [request EXCEPT ![t] = n]
    /\ IF saturating_add(managed, n) >= threshold
       THEN Goto(t, "threshold") /\ owed' = owed \cup {t}
       ELSE Goto(t, "new") /\ UNCHANGED owed
    /\ UNCHANGED <<stage, size, managed, reserved, stats, threshold, collecting, abandoned>>

operator_new(t, b) ==
    /\ pc[t] \in {"new", "again"} /\ Passes(t)
    /\ stage[b] = "free"
    /\ stage' = [stage EXCEPT ![b] = "raw"]
    /\ size' = [size EXCEPT ![b] = request[t]]
    /\ Goto(t, "raw")
    /\ UNCHANGED <<managed, reserved, stats, threshold, collecting, request, owed, abandoned>>

\* The first failure leads to a collection and a second try, the second throws.
NewFails(t) ==
    /\ Passes(t)
    /\ \/ pc[t] = "new" /\ Goto(t, "emergency") /\ UNCHANGED request
       \/ pc[t] = "again" /\ Goto(t, "idle") /\ ForgetRequest(t)
    /\ UNCHANGED <<stage, size, managed, reserved, stats, threshold, collecting, owed,
                   abandoned>>

Fits(n) ==
    /\ ~add_would_overflow(managed, n)
    /\ ~add_would_overflow(reserved, block_allocation_size(n))

\* Peaks taken before the new block is counted.
EnterPeakFirst(b, n) ==
    /\ managed' = Plus(managed, n)
    /\ reserved' = Plus(reserved, block_allocation_size(n))
    /\ stats' = [stats EXCEPT
          !.total_allocations = saturating_add(@, 1),
          !.bytes_allocated_total = saturating_add(@, n),
          !.peak_live_bytes = Max({@, managed}),
          !.peak_live_blocks = Max({@, Cardinality(allocations)})]

\* register_block_locked
Enter(b, n) ==
    /\ managed' = Plus(managed, n)
    /\ reserved' = Plus(reserved, block_allocation_size(n))
    /\ stats' = [stats EXCEPT
          !.total_allocations = saturating_add(@, 1),
          !.bytes_allocated_total = saturating_add(@, n),
          !.peak_live_bytes = Max({@, managed'}),
          !.peak_live_blocks = Max({@, Cardinality(allocations \cup {b})})]

\* The second critical section of malloc_internal.  If the counters would
\* overflow or allocations_ cannot grow, the memory goes back and bad_alloc is
\* thrown.
malloc_internal(t, b) ==
    /\ pc[t] = "raw" /\ stage[b] = "raw" /\ size[b] = request[t] /\ Passes(t)
    /\ \/ /\ Fits(size[b])
          /\ stage' = [stage EXCEPT ![b] = "building"]
          /\ Enter(b, size[b])
          /\ UNCHANGED size
       \/ /\ stage' = [stage EXCEPT ![b] = "free"]
          /\ Freed({b})
          /\ UNCHANGED <<managed, reserved, stats>>
    /\ Goto(t, "idle") /\ ForgetRequest(t)
    /\ UNCHANGED <<threshold, collecting, owed, abandoned>>

\* A finalizer begins to build an object while everyone else is parked: no
\* collection, neither for the threshold nor in an emergency.
FinalizerAllocates(t, b, n) ==
    /\ collecting = t /\ pc[t] # "snapshot"
    /\ stage[b] = "free" /\ Fits(n)
    /\ stage' = [stage EXCEPT ![b] = "nested"]
    /\ size' = [size EXCEPT ![b] = n]
    /\ Enter(b, n)
    /\ UNCHANGED <<threshold, collecting, pc, request, owed, abandoned>>

\* Who builds b gets past cooperate: between stops, or because he is the
\* collector, in a finalizer.
BuilderPasses(b) ==
    \/ stage[b] = "building" /\ collecting = NoThread
    \/ stage[b] = "nested"

finish_construction(b) ==
    /\ BuilderPasses(b)
    /\ stage' = [stage EXCEPT ![b] = "live"]
    /\ UNCHANGED <<size, managed, reserved, stats, threshold, collecting, pc, request,
                   owed, abandoned>>

release_unconstructed(b) ==
    /\ BuilderPasses(b)
    /\ stage' = [stage EXCEPT ![b] = "free"]
    /\ managed' = Minus(managed, size[b])
    /\ reserved' = Minus(reserved, block_allocation_size(size[b]))
    /\ abandoned' = saturating_add(abandoned, size[b])
    /\ Freed({b})
    /\ UNCHANGED <<stats, threshold, collecting, pc, request, owed>>

-------------------------------------------------------------------------------
(* Collection *)

Wanted == {"threshold", "emergency", "collect"}
After(place) ==
    CASE place = "threshold" -> "new" [] place = "emergency" -> "again" [] OTHER -> "idle"

Request(t) ==
    /\ pc[t] = "idle" /\ collecting = NoThread
    /\ Goto(t, "collect")
    /\ UNCHANGED <<stage, size, managed, reserved, stats, threshold, collecting, request,
                   owed, abandoned>>

\* A reclaimed total that forgets earlier collections.
SweepForgets(t, dying) ==
    /\ pc[t] \in Wanted /\ collecting = NoThread
    /\ collecting' = t
    /\ stage' = [b \in Blocks |-> IF b \in dying THEN "dead" ELSE stage[b]]
    /\ managed' = Minus(managed, Bytes(dying))
    /\ reserved' = Minus(reserved, BlockBytes(dying))
    /\ stats' = [stats EXCEPT !.bytes_reclaimed_total = Bytes(dying)]
    /\ owed' = {}
    /\ UNCHANGED <<size, threshold, pc, request, abandoned>>

\* sweep_locked and collect's statistics, then the finalizers begin.
Sweep(t, dying) ==
    /\ pc[t] \in Wanted /\ collecting = NoThread
    /\ collecting' = t
    /\ stage' = [b \in Blocks |-> IF b \in dying THEN "dead" ELSE stage[b]]
    /\ managed' = Minus(managed, Bytes(dying))
    /\ reserved' = Minus(reserved, BlockBytes(dying))
    /\ stats' = [stats EXCEPT !.bytes_reclaimed_total = Plus(@, Bytes(dying))]
    /\ owed' = {}
    /\ UNCHANGED <<size, threshold, pc, request, abandoned>>

\* collect that does not wait for somebody else's stop before it looks at
\* collecting_.
CollectUnlessCollecting(t) ==
    \/ \E dying \in SUBSET In("live") : Sweep(t, dying)
    \/ /\ pc[t] \in Wanted /\ collecting \notin {NoThread, t}
       /\ Goto(t, After(pc[t]))
       /\ UNCHANGED <<stage, size, managed, reserved, stats, threshold, collecting, request,
                      owed, abandoned>>

collect(t) == \E dying \in SUBSET In("live") : Sweep(t, dying)

\* Out of memory before anything is detached: the caller gets bad_alloc.
CollectThrows(t) ==
    /\ pc[t] \in Wanted /\ collecting = NoThread
    /\ Goto(t, "idle") /\ ForgetRequest(t)
    /\ owed' = owed \ {t}
    /\ UNCHANGED <<stage, size, managed, reserved, stats, threshold, collecting, abandoned>>

\* live_objects and object_info stop the world as well.
Snapshot(t) ==
    /\ pc[t] = "idle" /\ collecting = NoThread
    /\ collecting' = t
    /\ Goto(t, "snapshot")
    /\ UNCHANGED <<stage, size, managed, reserved, stats, threshold, request, owed, abandoned>>

shutdown(t) ==
    /\ pc[t] = "idle" /\ collecting = NoThread
    /\ In("building") = {}
    /\ collecting' = t
    /\ Goto(t, "shutdown")
    /\ stage' = [b \in Blocks |-> IF b \in allocations THEN "dead" ELSE stage[b]]
    /\ managed' = 0 /\ reserved' = 0
    /\ stats' = NoStats
    /\ abandoned' = 0
    /\ UNCHANGED <<size, threshold, request, owed>>

\* The finalizers have returned, and what they built is finished.  destroy_blocks
\* frees what it has finalized; the world goes on.
release_stop_the_world(t) ==
    /\ collecting = t /\ In("nested") = {}
    /\ collecting' = NoThread
    /\ stage' = [b \in Blocks |-> IF stage[b] = "dead" THEN "free" ELSE stage[b]]
    /\ Freed(In("dead"))
    /\ Goto(t, After(pc[t]))
    /\ UNCHANGED <<managed, reserved, stats, threshold, request, owed, abandoned>>

set_collection_threshold_bytes(n) ==
    /\ collecting = NoThread
    /\ threshold' = n
    /\ UNCHANGED <<stage, size, managed, reserved, stats, collecting, pc, request, owed,
                   abandoned>>

-------------------------------------------------------------------------------
Next ==
    \/ \E t \in Threads :
          \/ \E n \in Sizes : collect_if_needed(t, n)
          \/ \E b \in Blocks : operator_new(t, b) \/ malloc_internal(t, b)
          \/ \E b \in Blocks, n \in Sizes : FinalizerAllocates(t, b, n)
          \/ NewFails(t)
          \/ Request(t) \/ collect(t) \/ CollectThrows(t)
          \/ Snapshot(t) \/ shutdown(t) \/ release_stop_the_world(t)
    \/ \E b \in Blocks : finish_construction(b) \/ release_unconstructed(b)
    \/ \E n \in Thresholds : set_collection_threshold_bytes(n)

Spec == Init /\ [][Next]_vars

-------------------------------------------------------------------------------
(* Properties *)

\* The counters are the true sums over allocations_: no check lets a sum wrap,
\* and no path that takes a block away (sweep, failed construction, shutdown)
\* forgets or repeats a subtraction.
CountersExact ==
    /\ managed = Bytes(allocations)
    /\ reserved = BlockBytes(allocations)

\* Peaks bound what is live from above and what was ever allocated from below,
\* also after shutdown has reset the history and finalizers have allocated.
PeaksBound ==
    /\ managed <= stats.peak_live_bytes
    /\ stats.peak_live_bytes <= stats.bytes_allocated_total
    /\ Cardinality(allocations) <= stats.peak_live_blocks
    /\ stats.peak_live_blocks <= stats.total_allocations

\* Until the total saturates, every byte ever allocated is live, reclaimed by a
\* collection, or was given back by a failed construction.
BytesConserved ==
    stats.bytes_allocated_total < MaxWord =>
        stats.bytes_allocated_total = managed + stats.bytes_reclaimed_total + abandoned

\* collect_if_needed decides under one lock and collects under another.  An
\* allocation that was found to reach the threshold still does not go ahead
\* before a collection (its own or another thread's) has run after the decision.
ThresholdHonoured ==
    \A t \in Threads : pc[t] \in {"new", "emergency", "again", "raw"} => t \notin owed
===============================================================================
