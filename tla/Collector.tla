------------------------------- MODULE Collector -------------------------------
(***************************************************************************)
(* The managed heap of GC_Manager, its mutators and its collections, on top*)
(* of the stop-the-world protocol (module StopTheWorld).                   *)
(*                                                                         *)
(* A block stands for an address the system allocator can hand out, so a   *)
(* freed block may come back as a new object.  A word is a block: what     *)
(* conservative scanning makes of integers and interior addresses is the   *)
(* matter of find_block_locked and RootScanner, not of this module.        *)
(*                                                                         *)
(* The application is part of the model, limited by the contract of the    *)
(* README: a thread registers before it touches managed objects and keeps  *)
(* no managed pointer when it unregisters; a throwing constructor has not  *)
(* published its object; a finalizer does not resurrect.                   *)
(***************************************************************************)
EXTENDS StopTheWorld, Naturals

CONSTANTS
    Blocks,    \* addresses
    NoBlock,   \* nullptr
    Slots,     \* pointer-sized memory outside the managed heap and the stacks
    Globals,   \* the slots in a writable segment that scan_globals visits
    Handles,   \* gc_weak_ptr objects
    MaxRanges  \* bound: registrations of one root range at a time

ASSUME HeapAssumption ==
    /\ NoBlock \notin Blocks
    /\ Globals \subseteq Slots
    /\ MaxRanges \in Nat \ {0}

\* "use" is any operation whose whole body comes after cooperate (which one,
\* and with which arguments, is chosen when the body runs); "root" is
\* register_root_range, which does its work before it cooperates.
ASSUME HeapOpsAssumption == UseOps = {"use", "root"}

VARIABLES
    status,   \* the state of each address, see below
    builder,  \* the thread that allocates or constructs a block
    points,   \* blocks the words of a block's payload point to
    held,     \* blocks a thread's stack and registers point to
    parked,   \* what ThreadState publishes: parked stack and register_spill
    slot,     \* the word in each slot
    ranges,   \* entries for each slot in registered_root_ranges_
    leases,   \* (history) registrations the slot's owners have not given up
    weak,     \* the target of each handle's entry in weak_refs_, or NoBlock
    severed   \* (history) blocks shutdown destroyed although in use

heapVars == <<status, builder, points, held, parked, slot, ranges, leases,
              weak, severed>>
vars == <<registered, paused, requested, collecting, collector, pc, pending,
          asleep, status, builder, points, held, parked, slot, ranges, leases,
          weak, severed>>

(***************************************************************************)
(* "free"      belongs to the system allocator                             *)
(* "raw"       malloc_internal has the memory, allocations_ does not       *)
(* "building"  in allocations_ with BlockRecord::constructing              *)
(* "live"      in allocations_                                             *)
(* "dead"      detached, in the list that destroy_blocks works through     *)
(***************************************************************************)
Stages == {"free", "raw", "building", "live", "dead"}

In(stage) == {b \in Blocks : status[b] = stage}
allocations == {b \in Blocks : status[b] \in {"building", "live"}}

HeapTypeOK ==
    /\ TypeOK
    /\ status \in [Blocks -> Stages]
    /\ builder \in [Blocks -> Threads \cup {NoThread}]
    /\ points \in [Blocks -> SUBSET Blocks]
    /\ held \in [Threads -> SUBSET Blocks]
    /\ parked \in [Threads -> SUBSET Blocks]
    /\ slot \in [Slots -> Blocks \cup {NoBlock}]
    /\ ranges \in [Slots -> 0..MaxRanges]
    /\ leases \in [Slots -> 0..MaxRanges]
    /\ weak \in [Handles -> Blocks \cup {NoBlock}]
    /\ severed \in SUBSET Blocks

HeapInit ==
    /\ Init
    /\ status = [b \in Blocks |-> "free"]
    /\ builder = [b \in Blocks |-> NoThread]
    /\ points = [b \in Blocks |-> {}]
    /\ held = [t \in Threads |-> {}]
    /\ parked = [t \in Threads |-> {}]
    /\ slot = [s \in Slots |-> NoBlock]
    /\ ranges = [s \in Slots |-> 0]
    /\ leases = [s \in Slots |-> 0]
    /\ weak = [h \in Handles |-> NoBlock]
    /\ severed = {}

\* t is inside malloc_internal, between its two critical sections.
Allocating(t) == \E b \in Blocks : status[b] = "raw" /\ builder[b] = t

-------------------------------------------------------------------------------
(* Entering, waiting and parking *)

\* A thread that holds raw memory goes on to the second half of malloc_internal
\* and to nothing else.
MayCall(t, op) == op # "root" /\ (Allocating(t) => op = "use")

Cooperate(t) ==
    /\ \/ \E op \in Ops : MayCall(t, op) /\ BlockUnregistered(t, op)
       \/ \E op \in Ops : MayCall(t, op) /\ CaptureRegisters(t, op)
       \/ WaitAgain(t)
    /\ UNCHANGED heapVars

\* The words on the stack below stack_marker and in the jmp_buf become visible
\* to the collector.
ParkPublishing(t) ==
    /\ Park(t)
    /\ parked' = [parked EXCEPT ![t] = held[t]]
    /\ UNCHANGED <<status, builder, points, held, slot, ranges, leases, weak, severed>>

\* cooperate clears parked_stack_top and register_spill before it returns.
Unparked(t) == parked' = [parked EXCEPT ![t] = {}]

\* Become the collector, or find that someone (this thread) already is.
Stop(t) ==
    /\ ~Allocating(t)
    /\ \E op \in StopOps : BeginStop(t, op) \/ ReturnEarly(t, op)
    /\ Unparked(t)
    /\ UNCHANGED <<status, builder, points, held, slot, ranges, leases, weak, severed>>

\* Every operation that leaves the heap as it is: safepoint, the accessors and
\* queries, an operation that throws for want of registration, and the return
\* of a register_root_range call that had to wait.
Return(t) ==
    /\ \/ Use(t, "use") /\ ~Allocating(t)
       \/ Use(t, "root") /\ pc[t] # "run"
    /\ Unparked(t)
    /\ UNCHANGED <<status, builder, points, held, slot, ranges, leases, weak, severed>>

Register(t) ==
    /\ ~Allocating(t)
    /\ register_stack_bottom(t)
    /\ Unparked(t)
    /\ UNCHANGED <<status, builder, points, held, slot, ranges, leases, weak, severed>>

\* The contract: ScopedThreadRegistration outlives the thread's managed
\* pointers and constructions.
Unregister(t) ==
    /\ held[t] = {}
    /\ \A b \in Blocks : builder[b] # t
    /\ unregister_current_thread(t)
    /\ Unparked(t)
    /\ UNCHANGED <<status, builder, points, held, slot, ranges, leases, weak, severed>>

-------------------------------------------------------------------------------
(* Allocation: gc_new and construct_array over malloc_internal *)

\* First critical section, then operator new.  (If that fails once, malloc_internal
\* collects and tries again: Stop ... release, then this action.)  The payload
\* holds what its former owners left there: at worst, words that look like
\* pointers to every block.
malloc_internal(t, b) ==
    /\ Use(t, "use")
    /\ t \in registered
    /\ ~Allocating(t)
    /\ status[b] = "free"
    /\ status' = [status EXCEPT ![b] = "raw"]
    /\ builder' = [builder EXCEPT ![b] = t]
    /\ points' = [points EXCEPT ![b] = Blocks]
    /\ Unparked(t)
    /\ UNCHANGED <<held, slot, ranges, leases, weak, severed>>

\* Second critical section: zero the payload, enter the block in allocations_
\* and mark it constructing.
register_block_locked(t, b) ==
    /\ Use(t, "use")
    /\ status[b] = "raw" /\ builder[b] = t
    /\ status' = [status EXCEPT ![b] = "building"]
    /\ points' = [points EXCEPT ![b] = {}]
    /\ severed' = severed \ {b}
    /\ Unparked(t)
    /\ UNCHANGED <<builder, held, slot, ranges, leases, weak>>

\* The byte counts would overflow or allocations_ cannot grow: free and throw.
RegisterFails(t, b) ==
    /\ Use(t, "use")
    /\ status[b] = "raw" /\ builder[b] = t
    /\ status' = [status EXCEPT ![b] = "free"]
    /\ builder' = [builder EXCEPT ![b] = NoThread]
    /\ points' = [points EXCEPT ![b] = {}]
    /\ Unparked(t)
    /\ UNCHANGED <<held, slot, ranges, leases, weak, severed>>

\* The constructor has returned; gc_new hands out the pointer.
finish_construction(t, b) ==
    /\ Use(t, "use")
    /\ ~Allocating(t)
    /\ status[b] = "building" /\ builder[b] = t
    /\ status' = [status EXCEPT ![b] = "live"]
    /\ builder' = [builder EXCEPT ![b] = NoThread]
    /\ held' = [held EXCEPT ![t] = @ \cup {b}]
    /\ Unparked(t)
    /\ UNCHANGED <<points, slot, ranges, leases, weak, severed>>

\* invalidate_weak_refs_for_block_locked left out.
NotInvalidated(dying) == weak

\* The entries of weak_refs_ whose target lies in one of the blocks are erased.
Invalidated(dying) ==
    [h \in Handles |-> IF weak[h] \in dying THEN NoBlock ELSE weak[h]]

\* The constructor let nobody else see the object it failed to build.
Unpublished(t, b) ==
    /\ \A u \in Threads \ {t} : b \notin held[u]
    /\ \A c \in allocations \ {b} : b \notin points[c]
    /\ \A s \in Slots : slot[s] # b

\* The constructor threw: leave allocations_, expire the weak references it
\* made to itself, give the memory back.
release_unconstructed(t, b) ==
    /\ Use(t, "use")
    /\ ~Allocating(t)
    /\ t \in registered
    /\ status[b] = "building" /\ builder[b] = t
    /\ Unpublished(t, b)
    /\ status' = [status EXCEPT ![b] = "free"]
    /\ builder' = [builder EXCEPT ![b] = NoThread]
    /\ points' = [points EXCEPT ![b] = {}]
    /\ held' = [held EXCEPT ![t] = @ \ {b}]
    /\ weak' = Invalidated({b})
    /\ Unparked(t)
    /\ UNCHANGED <<slot, ranges, leases, severed>>

-------------------------------------------------------------------------------
(* Root ranges *)

\* The order malloc_internal and the others use: cooperate, then push.
RegisterRootAfterParking(t, s, w, moved) ==
    /\ ~Allocating(t) /\ pc[t] = "run"
    /\ w \in held[t] \cup {slot[s]}
    /\ leases[s] < MaxRanges
    /\ slot' = [slot EXCEPT ![s] = w]
    /\ leases' = [leases EXCEPT ![s] = @ + 1]
    /\ held' = IF moved THEN [held EXCEPT ![t] = @ \ {w}] ELSE held
    /\ \/ Use(t, "root") /\ ranges' = [ranges EXCEPT ![s] = @ + 1]
       \/ CaptureRegisters(t, "root") /\ UNCHANGED ranges
    /\ UNCHANGED <<status, builder, points, parked, weak, severed>>

\* The range is pushed first; then the thread, registered or not, cooperates.  The
\* storage (the value of a gc_root, say) has a pointer the thread holds, of which it
\* may from here on be the only copy, or what it had (new storage is null).
register_root_range(t, s, w, moved) ==
    /\ ~Allocating(t) /\ pc[t] = "run"
    /\ w \in held[t] \cup {slot[s]}
    /\ leases[s] < MaxRanges
    /\ slot' = [slot EXCEPT ![s] = w]
    /\ leases' = [leases EXCEPT ![s] = @ + 1]
    /\ ranges' = [ranges EXCEPT ![s] = @ + 1]
    /\ held' = IF moved THEN [held EXCEPT ![t] = @ \ {w}] ELSE held
    /\ Use(t, "root") \/ CaptureRegisters(t, "root") \/ BlockUnregistered(t, "root")
    /\ UNCHANGED <<status, builder, points, parked, weak, severed>>

\* Erase the first entry that is equal to the range, and no other.  The owner
\* that gives up the last registration gives up the storage.
unregister_root_range(t, s) ==
    /\ Use(t, "use")
    /\ ~Allocating(t)
    /\ leases[s] > 0
    /\ leases' = [leases EXCEPT ![s] = @ - 1]
    /\ ranges' = [ranges EXCEPT ![s] = IF @ > 0 THEN @ - 1 ELSE @]
    /\ slot' = IF leases[s] = 1 /\ s \notin Globals
               THEN [slot EXCEPT ![s] = NoBlock] ELSE slot
    /\ Unparked(t)
    /\ UNCHANGED <<status, builder, points, held, weak, severed>>

-------------------------------------------------------------------------------
(* Weak references *)

\* A gc_weak_ptr is made from a pointer the thread holds.  A target that is in
\* no registered block (shutdown has destroyed it) makes an expired handle.
register_weak_ref(t, h, b) ==
    /\ Use(t, "use")
    /\ ~Allocating(t) /\ t \in registered
    /\ b \in held[t]
    /\ weak[h] = NoBlock
    /\ weak' = [weak EXCEPT ![h] = IF b \in allocations THEN b ELSE NoBlock]
    /\ Unparked(t)
    /\ UNCHANGED <<status, builder, points, held, slot, ranges, leases, severed>>

\* lock(): the target is read after cooperating, and held when the lock is
\* given up.
read_weak_ref(t, h) ==
    /\ Use(t, "use")
    /\ ~Allocating(t) /\ t \in registered
    /\ weak[h] # NoBlock
    /\ held' = [held EXCEPT ![t] = @ \cup {weak[h]}]
    /\ Unparked(t)
    /\ UNCHANGED <<status, builder, points, slot, ranges, leases, weak, severed>>

unregister_weak_ref(t, h) ==
    /\ Use(t, "use")
    /\ ~Allocating(t)
    /\ weak[h] # NoBlock
    /\ weak' = [weak EXCEPT ![h] = NoBlock]
    /\ Unparked(t)
    /\ UNCHANGED <<status, builder, points, held, slot, ranges, leases, severed>>

-------------------------------------------------------------------------------
(* Application code between two calls (no lock held) *)

Running(t) == t \in registered /\ pc[t] = "run" /\ ~Allocating(t)

\* Read a pointer from an object, from a slot, or take `this` in a constructor.
Load(t, c) ==
    /\ Running(t)
    /\ c \notin held[t]
    /\ \/ \E b \in held[t] \cap allocations : c \in points[b]
       \/ \E s \in Slots : slot[s] = c /\ (s \in Globals \/ leases[s] > 0)
       \/ status[c] = "building" /\ builder[c] = t
    /\ held' = [held EXCEPT ![t] = @ \cup {c}]
    /\ UNCHANGED protocolVars
    /\ UNCHANGED <<status, builder, points, parked, slot, ranges, leases, weak, severed>>

\* Assign a gc_ptr member of an object: a pointer is added, one is dropped.
Store(t, b, new) ==
    /\ Running(t)
    /\ b \in held[t] \cap allocations
    /\ new \subseteq points[b] \cup held[t]
    /\ points' = [points EXCEPT ![b] = new]
    /\ UNCHANGED protocolVars
    /\ UNCHANGED <<status, builder, held, parked, slot, ranges, leases, weak, severed>>

\* A local variable dies.
Drop(t, b) ==
    /\ Running(t)
    /\ b \in held[t]
    /\ held' = [held EXCEPT ![t] = @ \ {b}]
    /\ UNCHANGED protocolVars
    /\ UNCHANGED <<status, builder, points, parked, slot, ranges, leases, weak, severed>>

\* Assign a global, or the value of a registered root.
Assign(t, s, w) ==
    /\ Running(t)
    /\ s \in Globals \/ leases[s] > 0
    /\ w \in held[t] \cup {NoBlock}
    /\ slot' = [slot EXCEPT ![s] = w]
    /\ UNCHANGED protocolVars
    /\ UNCHANGED <<status, builder, points, held, parked, ranges, leases, weak, severed>>

-------------------------------------------------------------------------------
(* Collections *)

\* Forgets the blocks under construction.
UnpinnedRoots(t) ==
    held[t]
    \cup (UNION {parked[u] : u \in registered \ {t}})
    \cup {slot[s] : s \in Globals \cup {r \in Slots : ranges[r] > 0}}

\* The root words of a collection by thread t: pinned constructions, the
\* collector's own stack, registers and the globals (RootScanner::scan), what
\* the other threads published, and the registered ranges.
Roots(t) ==
    In("building")
    \cup held[t]
    \cup (UNION {parked[u] : u \in registered \ {t}})
    \cup {slot[s] : s \in Globals \cup {r \in Slots : ranges[r] > 0}}

\* The fixed point of marking: the least set of registered blocks that has the
\* root words' blocks and is closed under payload words.
ClosedUnder(S) == \A b \in S : points[b] \cap allocations \subseteq S

Marked(t) ==
    {b \in allocations :
        \A S \in SUBSET allocations :
            Roots(t) \cap allocations \subseteq S /\ ClosedUnder(S) => b \in S}

\* collect: mark, then sweep_locked detaches what is unmarked and expires the
\* weak references to it.
collect(t) ==
    /\ Detach(t)
    /\ pending[t] = "collect"
    /\ LET dying == allocations \ Marked(t)
       IN  /\ status' = [b \in Blocks |-> IF b \in dying THEN "dead" ELSE status[b]]
           /\ weak' = Invalidated(dying)
    /\ UNCHANGED <<builder, points, held, parked, slot, ranges, leases, severed>>

\* shutdown: detach every block, reachable or not, unless one is under
\* construction.
shutdown(t) ==
    /\ Detach(t)
    /\ pending[t] = "shutdown"
    /\ In("building") = {}
    /\ status' = [b \in Blocks |-> IF b \in allocations THEN "dead" ELSE status[b]]
    /\ weak' = [h \in Handles |-> NoBlock]
    /\ severed' = severed \cup allocations
    /\ UNCHANGED <<builder, points, held, parked, slot, ranges, leases>>

\* A snapshot was taken; or collect or shutdown failed before anything was
\* detached (out of memory, a block under construction).
Abandon(t) ==
    /\ Unwind(t)
    /\ UNCHANGED heapVars

\* destroy_blocks has run the finalizers (the collector's steps since) and
\* frees the blocks; then the world goes on.
destroy_blocks(t) ==
    /\ release_stop_the_world(t)
    /\ ~Allocating(t)
    /\ status' = [b \in Blocks |-> IF status[b] = "dead" THEN "free" ELSE status[b]]
    /\ points' = [b \in Blocks |-> IF status[b] = "dead" THEN {} ELSE points[b]]
    /\ UNCHANGED <<builder, held, parked, slot, ranges, leases, weak, severed>>

-------------------------------------------------------------------------------
Manager(t) ==
    \/ Cooperate(t)
    \/ ParkPublishing(t)
    \/ Stop(t)
    \/ Return(t)
    \/ Register(t)
    \/ Unregister(t)
    \/ \E b \in Blocks : malloc_internal(t, b)
    \/ \E b \in Blocks : register_block_locked(t, b)
    \/ \E b \in Blocks : RegisterFails(t, b)
    \/ \E b \in Blocks : finish_construction(t, b)
    \/ \E b \in Blocks : release_unconstructed(t, b)
    \/ \E s \in Slots, w \in Blocks \cup {NoBlock}, moved \in BOOLEAN :
          register_root_range(t, s, w, moved)
    \/ \E s \in Slots : unregister_root_range(t, s)
    \/ \E h \in Handles, b \in Blocks : register_weak_ref(t, h, b)
    \/ \E h \in Handles : read_weak_ref(t, h)
    \/ \E h \in Handles : unregister_weak_ref(t, h)
    \/ collect(t)
    \/ shutdown(t)
    \/ Abandon(t)
    \/ destroy_blocks(t)

Application(t) ==
    \/ \E c \in Blocks : Load(t, c)
    \/ \E b \in Blocks, new \in SUBSET Blocks : Store(t, b, new)
    \/ \E b \in Blocks : Drop(t, b)
    \/ \E s \in Slots, w \in Blocks \cup {NoBlock} : Assign(t, s, w)

HeapNext == \E t \in Threads : Manager(t) \/ Application(t)

HeapSpec == HeapInit /\ [][HeapNext]_vars

-------------------------------------------------------------------------------
(* Properties *)

\* No pointer the application can follow leads to memory that a collection, a
\* failed construction or a finished stop has taken away: not from the stack of
\* a registered thread, not from a payload, not from a global or a root range
\* whose owner has registered it.  (shutdown alone may leave such pointers.)
NoDangling ==
    /\ \A t \in registered : held[t] \subseteq allocations \cup severed
    /\ \A b \in allocations : points[b] \subseteq allocations \cup severed
    /\ \A s \in Slots : (s \in Globals \/ leases[s] > 0) =>
          slot[s] \in allocations \cup severed \cup {NoBlock}

\* A weak reference that has not expired leads to a block in allocations_, also
\* when the block's address has been freed and handed out again in between.
WeakIsLive ==
    \A h \in Handles : weak[h] # NoBlock => weak[h] \in allocations

\* A block under construction is never detached for finalization, neither by a
\* collection its own constructor runs nor by another thread's shutdown.
ConstructionPinned ==
    [][\A b \in Blocks : status[b] = "building" => status'[b] # "dead"]_vars
===============================================================================
