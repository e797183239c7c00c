----------------------------- MODULE Construction -----------------------------
(***************************************************************************)
(* Building and destroying the elements of a managed object or array:      *)
(* gc_new, construct_array and the array functions over it, the nothrow    *)
(* forms, and the destructors the collector calls later.                   *)
(*                                                                         *)
(* A call in progress and the block it obtains share a name.  Calls        *)
(* interleave freely, as they do on several threads or when the            *)
(* constructor of an element allocates in turn, and a collection may come  *)
(* between any two elements, because constructors reach safepoints.  An    *)
(* element that is destroyed twice, or was never built, is "corrupt".  A   *)
(* destructor that throws ends the process, so it has no action.           *)
(***************************************************************************)
EXTENDS Naturals

CONSTANTS
    Calls,    \* calls in progress, and the blocks they obtain
    MaxCount  \* most elements in an array

ASSUME ConstructionAssumption == MaxCount \in Nat \ {0}

VARIABLES
    pc,          \* where the call is; "result" while the caller keeps the pointer
    kind,        \* "object" or "array", and how a failure is reported
    count,       \* elements asked for
    constructed, \* the local variable: elements built
    prefix,      \* the count stored in the payload
    elem,        \* the elements
    block,       \* the block: none, constructing, live or detached
    cursor,      \* elements a destructor loop still has to visit
    registered   \* calls whose thread is registered

vars == <<pc, kind, count, constructed, prefix, elem, block, cursor, registered>>

Kinds == [array : BOOLEAN, nothrow : BOOLEAN]
Index == 1..MaxCount
Raw == [i \in Index |-> "raw"]

Init ==
    /\ pc = [c \in Calls |-> "idle"]
    /\ kind \in [Calls -> Kinds]
    /\ count = [c \in Calls |-> 0]
    /\ constructed = [c \in Calls |-> 0]
    /\ prefix = [c \in Calls |-> 0]
    /\ elem = [c \in Calls |-> Raw]
    /\ block = [c \in Calls |-> "none"]
    /\ cursor = [c \in Calls |-> 0]
    /\ registered = Calls

-------------------------------------------------------------------------------
(* The call *)

\* The nothrow forms catch everything.
Failed(c) == IF kind[c].nothrow THEN "null" ELSE "threw"

\* No array for no elements, and no allocation.
EmptyArray(c) ==
    /\ pc[c] = "idle" /\ kind[c].array
    /\ pc' = [pc EXCEPT ![c] = "null"]
    /\ UNCHANGED <<kind, count, constructed, prefix, elem, block, cursor, registered>>

\* malloc_internal fails: no memory, or the thread is not registered.
AllocationFails(c) ==
    /\ pc[c] = "idle"
    /\ pc' = [pc EXCEPT ![c] = Failed(c)]
    /\ UNCHANGED <<kind, count, constructed, prefix, elem, block, cursor, registered>>

\* The block is in allocations_, flagged constructing and cleared, and *prefix
\* is zero.
Allocate(c, n) ==
    /\ pc[c] = "idle" /\ block[c] = "none" /\ c \in registered
    /\ kind[c].array \/ n = 1
    /\ pc' = [pc EXCEPT ![c] = "loop"]
    /\ block' = [block EXCEPT ![c] = "constructing"]
    /\ count' = [count EXCEPT ![c] = n]
    /\ constructed' = [constructed EXCEPT ![c] = 0]
    /\ prefix' = [prefix EXCEPT ![c] = 0]
    /\ elem' = [elem EXCEPT ![c] = Raw]
    /\ UNCHANGED <<kind, cursor, registered>>

\* What becomes of an element on which a constructor runs to its end.
BuildElement(e) == IF e = "raw" THEN "built" ELSE "corrupt"

\* *prefix is written before the element exists.
ConstructCountsFirst(c) ==
    /\ pc[c] = "loop" /\ constructed[c] < count[c]
    /\ IF kind[c].array /\ prefix[c] = constructed[c]
       THEN /\ prefix' = [prefix EXCEPT ![c] = constructed[c] + 1]
            /\ UNCHANGED <<elem, constructed>>
       ELSE /\ elem' = [elem EXCEPT ![c][constructed[c] + 1] = BuildElement(@)]
            /\ constructed' = [constructed EXCEPT ![c] = @ + 1]
            /\ UNCHANGED prefix
    /\ UNCHANGED <<pc, kind, count, block, cursor, registered>>

\* construct(element, constructed); *prefix = constructed + 1
Construct(c) ==
    /\ pc[c] = "loop" /\ constructed[c] < count[c]
    /\ elem' = [elem EXCEPT ![c][constructed[c] + 1] = BuildElement(@)]
    /\ constructed' = [constructed EXCEPT ![c] = @ + 1]
    /\ prefix' = IF kind[c].array THEN [prefix EXCEPT ![c] = constructed[c] + 1] ELSE prefix
    /\ UNCHANGED <<pc, kind, count, block, cursor, registered>>

\* The failed array goes straight back to the allocator.
ConstructThrowsNoCleanup(c) ==
    /\ pc[c] = "loop" /\ constructed[c] < count[c]
    /\ pc' = [pc EXCEPT ![c] = "release"]
    /\ UNCHANGED <<kind, count, constructed, prefix, elem, block, cursor, registered>>

\* The constructor of the next element throws.  An array enters
\* ArrayDestructor::destroy, which reads the stored count; an object has
\* nothing to destroy.
ConstructThrows(c) ==
    /\ pc[c] = "loop" /\ constructed[c] < count[c]
    /\ pc' = [pc EXCEPT ![c] = IF kind[c].array THEN "cleanup" ELSE "release"]
    /\ cursor' = IF kind[c].array THEN [cursor EXCEPT ![c] = prefix[c]] ELSE cursor
    /\ UNCHANGED <<kind, count, constructed, prefix, elem, block, registered>>

\* Destroying from the front.
DestroyForward(c) ==
    /\ cursor[c] > 0
    /\ LET i == IF kind[c].array THEN prefix[c] - cursor[c] + 1 ELSE 1
       IN  elem' = [elem EXCEPT ![c][i] = IF @ = "built" THEN "gone" ELSE "corrupt"]
    /\ cursor' = [cursor EXCEPT ![c] = @ - 1]
    /\ UNCHANGED <<kind, count, constructed, prefix, registered>>

\* elems[i - 1].~T() for i from the stored count down to 1.
DestroyElement(c) ==
    /\ cursor[c] > 0
    /\ elem' = [elem EXCEPT ![c][cursor[c]] = IF @ = "built" THEN "gone" ELSE "corrupt"]
    /\ cursor' = [cursor EXCEPT ![c] = @ - 1]
    /\ UNCHANGED <<kind, count, constructed, prefix, registered>>

Cleanup(c) ==
    /\ pc[c] = "cleanup"
    /\ IF cursor[c] > 0
       THEN DestroyElement(c) /\ UNCHANGED <<pc, block>>
       ELSE /\ pc' = [pc EXCEPT ![c] = "release"]
            /\ UNCHANGED <<kind, count, constructed, prefix, elem, block, cursor, registered>>

\* Taken out of allocations_ and freed.  If a constructor has unregistered the
\* thread this throws instead, and the block stays behind, constructing for ever.
release_unconstructed(c) ==
    /\ pc[c] = "release"
    /\ pc' = [pc EXCEPT ![c] = Failed(c)]
    /\ block' = IF c \in registered THEN [block EXCEPT ![c] = "none"] ELSE block
    /\ UNCHANGED <<kind, count, constructed, prefix, elem, cursor, registered>>

\* Published before the last element is built.
FinishEarly(c) ==
    /\ pc[c] = "loop" /\ constructed[c] + 1 = count[c]
    /\ block' = [block EXCEPT ![c] = "live"]
    /\ pc' = [pc EXCEPT ![c] = "result"]
    /\ UNCHANGED <<kind, count, constructed, prefix, elem, cursor, registered>>

finish_construction(c) ==
    /\ pc[c] = "loop" /\ constructed[c] = count[c]
    /\ block' = [block EXCEPT ![c] = "live"]
    /\ pc' = [pc EXCEPT ![c] = "result"]
    /\ UNCHANGED <<kind, count, constructed, prefix, elem, cursor, registered>>

\* The caller drops the pointer or handles the failure, and may call again
\* in any form.
Return(c) ==
    /\ pc[c] \in {"result", "null", "threw"}
    /\ pc' = [pc EXCEPT ![c] = "idle"]
    /\ \E k \in Kinds : kind' = IF block[c] = "none" THEN [kind EXCEPT ![c] = k] ELSE kind
    /\ UNCHANGED <<count, constructed, prefix, elem, block, cursor, registered>>

\* A constructor may unregister its own thread, and its caller register it again.
ToggleRegistration(c) ==
    /\ pc[c] \in {"loop", "idle"}
    /\ registered' = IF c \in registered THEN registered \ {c} ELSE registered \cup {c}
    /\ UNCHANGED <<pc, kind, count, constructed, prefix, elem, block, cursor>>

-------------------------------------------------------------------------------
(* The collector *)

\* Every block of S leaves allocations_ and its destructor starts.
Detach(S) ==
    /\ block' = [c \in Calls |-> IF c \in S THEN "detached" ELSE block[c]]
    /\ cursor' = [c \in Calls |-> IF c \notin S THEN cursor[c]
                                  ELSE IF kind[c].array THEN prefix[c] ELSE 1]
    /\ UNCHANGED <<pc, kind, count, constructed, prefix, elem, registered>>

\* Sweeping whatever nobody points to.
CollectConstructing ==
    LET dead == {c \in Calls : block[c] \in {"live", "constructing"} /\ pc[c] # "result"}
    IN  dead # {} /\ Detach(dead)

\* A block under construction counts as marked.
collect ==
    LET dead == {c \in Calls : block[c] = "live" /\ pc[c] # "result"}
    IN  dead # {} /\ Detach(dead)

\* Refused while anything is under construction; otherwise everything goes,
\* whether the caller still has the pointer or not.
shutdown ==
    LET all == {c \in Calls : block[c] = "live"}
    IN  /\ \A c \in Calls : block[c] # "constructing"
        /\ all # {} /\ Detach(all)

\* destroy_object or ArrayDestructor::destroy, one element at a time, then the
\* memory.
Finalize(c) ==
    /\ block[c] = "detached"
    /\ IF cursor[c] > 0
       THEN DestroyElement(c) /\ UNCHANGED <<pc, block>>
       ELSE /\ block' = [block EXCEPT ![c] = "none"]
            /\ UNCHANGED <<pc, kind, count, constructed, prefix, elem, cursor, registered>>

-------------------------------------------------------------------------------
Call(c) ==
    \/ EmptyArray(c) \/ AllocationFails(c) \/ \E n \in Index : Allocate(c, n)
    \/ Construct(c) \/ ConstructThrows(c) \/ Cleanup(c)
    \/ release_unconstructed(c) \/ finish_construction(c)
    \/ Return(c) \/ ToggleRegistration(c)

Next == (\E c \in Calls : Call(c) \/ Finalize(c)) \/ collect \/ shutdown

Spec == Init /\ [][Next]_vars

-------------------------------------------------------------------------------
(* Properties *)

Built(c) == {i \in Index : elem[c][i] = "built"}

TypeOK ==
    /\ pc \in [Calls -> {"idle", "loop", "cleanup", "release", "result", "null", "threw"}]
    /\ kind \in [Calls -> Kinds]
    /\ count \in [Calls -> 0..MaxCount] /\ constructed \in [Calls -> 0..MaxCount]
    /\ prefix \in [Calls -> 0..MaxCount] /\ cursor \in [Calls -> 0..MaxCount]
    /\ elem \in [Calls -> [Index -> {"raw", "built", "gone", "corrupt"}]]
    /\ block \in [Calls -> {"none", "constructing", "live", "detached"}]
    /\ registered \subseteq Calls

\* A destructor runs only on an element whose constructor finished, and only
\* once; a constructor never runs over an element.  The element whose
\* constructor threw is not destroyed.
NoElementCorrupted == \A c \in Calls, i \in Index : elem[c][i] # "corrupt"

\* Elements go in the reverse of the order they came in: what exists is always
\* an initial part of the array.
ReverseOrder == \A c \in Calls : \E k \in 0..MaxCount : Built(c) = 1..k

\* No element outlives its memory: memory goes back to the allocator, or is left
\* behind by a failed call, only when everything built in it was destroyed.
NothingLeaked ==
    \A c \in Calls :
        \/ block[c] = "none"
        \/ block[c] = "constructing" /\ pc[c] \in {"null", "threw", "idle"}
        => Built(c) = {}

\* What the caller was given is complete, until shutdown takes it.
ResultComplete ==
    \A c \in Calls : pc[c] = "result" /\ block[c] = "live" => Built(c) = 1..count[c]
===============================================================================
