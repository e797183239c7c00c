# GC-Lib in TLA+

A verification project for GC-Lib, a conservative, non-moving mark-sweep collector
for C++20. The modules model the manager (`src/src/GCManager.cpp` and the headers
under `src/include/gc/`) from its source; TLC checks them on small instances and
TLAPS proves the main results for every instance. `PROJECT.json` lists the runs,
the mutants that show each property can fail, the source lines behind every
definition, the hazards and the theorems.

## The system

| Component | State | Operations | What makes it correct |
|---|---|---|---|
| Stop-the-world protocol | `threads_` (`ThreadState`: stack bottom, parked stack top, register spill, paused flag), `stop_the_world_requested_`, `collecting_`, `collector_thread_`, `mutex_`, `stop_the_world_cv_` | register/unregister a thread, `cooperate_with_stop_the_world_locked` at the head of every operation, `wait_for_other_threads_to_pause_locked`, `release_stop_the_world` | no mutator runs from the scan to the release; no lost wakeup; stops end |
| Managed heap | `allocations_` (`BlockRecord`, `constructing`), payload contents | `malloc_internal`, `finish_construction`, `release_unconstructed`, `collect`, `shutdown` | nothing reachable is reclaimed; unfinished objects are pinned |
| Marking and sweeping | mark bits, worklist | `clear_marks_locked`, `mark_candidate_locked`, `find_block_locked`, `drain_mark_worklist_locked`, `scan_payload_locked`, `sweep_locked` | marked = reachable; bounded worklist; termination |
| Finalization order | edges, indegrees, priority queue | `order_blocks_for_finalization_locked`, `destroy_blocks` | every finalizer once, dependants first, memory freed last |
| Root ranges and RAII roots | `registered_root_ranges_`; `ScopedRootRange`, `ScopedRootObject`, `gc_root`, `gc_vector` | register, unregister, copy, move, grow | a registration protects until it is given up |
| Weak references | `weak_refs_`, `encoded_ptr_` of each `gc_weak_ptr` | register, read, copy, move, unregister, invalidate | an unexpired handle leads to a registered block |
| Allocation layout and accounting | `ChunkHeader`, `managed_bytes_`, `reserved_bytes_`, threshold, `GCStats` | rounding, overflow checks, `collect_if_needed` | no wrap-around; counters equal the sum of the blocks |
| Object and array construction | count prefix, elements built so far | `gc_new`, `construct_array` | a failed construction destroys exactly what was built |
| Root scanner | none | stack, registers, globals, ranges, word by word | every aligned root word is seen, nothing else is read, exceptions get out |
| Heap inspection | none | `live_objects`, `object_info`, `dump_heap` | reads a stopped world |

Every public operation takes `mutex_`, cooperates with a stop in progress and then
runs its body under the lock. A collection is started by any registered thread; it
becomes the collector, waits for all other registered threads to park inside
`cooperate`, scans and sweeps under the lock, then runs finalizers *without* the lock
but with the world still stopped, so finalizers call back into the manager.
What is hard here: the interleavings of threads that register, park and leave while
a stop begins, ends and begins again; the register capture outside the lock; the
single condition variable for three kinds of waiters; words that are protected only
by what a parked thread has published; and callbacks from constructors and finalizers.

## Modules

**`StopTheWorld`** is the protocol. One action is one stretch of code that runs
without giving up `mutex_`; the lock is given up around `setjmp`, in a wait and on
return. `pc[t]` says where a thread is (`run`, `setjmp`, `parked`, `blocked`, `gather`,
`release`), `pending[t]` which operation it is in. `asleep` holds the threads that
wait on `stop_the_world_cv_` and have not been notified since, so a forgotten
`notify_all` shows as a thread that sleeps although its predicate holds. `BeginStop` ..
`Detach` .. `release_stop_the_world` is a collection or a shutdown; `Unwind` is the end of
a snapshot and of an operation that throws. `ReturnEarly` is the recursive call from a
finalizer and the unregistered caller's exception. Operations whose body does not touch
the protocol's state are `Use`.
The scan is an action of its own although, when everyone is paused already, it
shares a critical section with `BeginStop`: what others can do in between commutes with it.
Spurious wakeups are not modelled: they only add a `WaitAgain`.

**`Collector`** extends it by the heap; each of its manager actions conjoins a
protocol action with what that operation does to the heap, so the composition is exact
(theorem `HeapImplementsProtocol`). A block is an address, which can be freed and handed
out again; a word is a block. `status` follows a block from `operator new` (`raw`)
through construction to `dead` (detached, finalizers running) and back to `free`.
`held[t]` are the words on a thread's stack and in its registers, `parked[t]` what
`ThreadState` publishes of them: collections see only the latter. `ranges` counts entries
of `registered_root_ranges_`; the history variable `leases` counts the registrations the
owners rely on, which differ for as long as a registration is not yet, or no longer,
effective. `severed` is the history of blocks that `shutdown` destroyed although the
application still had pointers to them, which is what `shutdown` is for.
`malloc_internal` is two actions because a collection can run between its critical
sections; its emergency collection is an ordinary collection followed by the allocation.
`register_root_range` is the one operation that works *before* it cooperates, and any thread,
registered or not, may call it; it is modelled so. Mutators are `Load`, `Store`, `Drop` and `Assign`, limited by the contract that
the repository's README states. A nested construction that a finalizer begins may outlive
the stop in the model, which the code cannot do; this only adds behaviours.

**`MarkSweep`** looks into one collection of a stopped world, word by word, with
addresses as numbers: `find_block_locked` steps back from `upper_bound`, `worklist` is the
vector used as a stack, `next` is the scan's cursor. The initial marks are arbitrary, as a
collection that threw leaves them. `Reachable`, the reference, is the least closed set, the
same definition `Collector` uses for its atomic collection. The test of the magic number in
`mark_candidate_locked` is left out, as it cannot fail for a block in `allocations_`.

**`FinalizationOrder`** is Kahn's algorithm with the priority queue that prefers high
addresses, the loop for the rest, and `destroy_blocks`. Blocks come in address order, so a
block is its index.

**`WeakRefs`** is `gc_weak_ptr` over the registry. A member function is a sequence of calls
(`todo`); a call is `Test`, the part outside the lock that reads and copies encoded words, and
a body under the lock, with collections and shutdowns in between (a shutdown only while no
call has a strong pointer as its argument: `shutdown` leaves such pointers invalid and the
repository's README has the client reset them first). That is the only
window a registered thread has (it parks when it enters the manager); for an unregistered
one the model takes its unlocked accesses of a word to be atomic. Assignments construct the
replacement the code constructs and move it in, so a registration that throws ends
them early. Handles obey the usual rule for shared objects: many readers or one writer.
`weak_refs_` is a set: `RegistryAgrees` says that no entry is pushed for storage that has one,
so the order of the vector and its swap-and-pop do not matter. Words are numbers modulo
`Modulus` and the collection reads the words of handles as it reads any others.
**`WeakHandles`** is what this has to implement: handles that change at once, that are
empty or point into an existing object, and that keep nothing alive. The refinement
mapping reads each handle's pointer off its entry.

**`Accounting`** is the bytes of the same operations: sums that are checked, that saturate and
that wrap are told apart, with `MaxWord` standing for the end of `size_t`. A stop is a single
variable and the victims of a collection are arbitrary. A finalizer allocates and constructs
during its own stop (`nested`), and such a construction may fail too. The history variable `owed` remembers
who decided in `collect_if_needed` to collect before any collection has run since, and
`abandoned` the bytes of failed constructions, without which the books do not balance.

**`Layout`** follows one allocation from `gc_new` or `construct_array` through `malloc_internal`
into the fields of `ChunkHeader` and back out of them. `operator new` failing is in
`Accounting`; here the address is any aligned one at which the block fits.

**`Construction`** is the elements: the loop of `construct_array`, the stored count, cleanup
after a throwing constructor, and the destructors the collector calls. Element states make
undefined behaviour visible: destroying what is not there yields `corrupt`. Calls interleave
with collections and with each other more freely than the stopped world allows. A constructor
may unregister its thread, and then a failing call leaves its block behind, which the module
keeps in play.

**`RootScopes`** is `registered_root_ranges_` under its RAII owners, with each call of the manager
a step; a `reset` is two. It also has nested `ScopedThreadRegistration`s, destroyed in the
reverse order of construction, with direct registration only outside them.

**`RootVector`** is `gc_root` and `gc_vector`. An operation is a plan: roots to build, the state of
the vector after that, roots to destroy. Every registration can throw, which undoes what was
built, and a collection can run between any two steps. The stack scan is left out, since exact
roots must do without it. `std::vector` is external: growth copies (the move constructor of
`gc_root` is not `noexcept`) and may build the new element before or after the old ones.
Arguments and initial contents include null pointers.
**`PointerVectors`** is what it implements: vectors of pointers, with one call in progress at a
time. A call that may throw fixes its outcome (`goal`) when it is made; it ends with `Succeed`,
which shows exactly that outcome, or with `Fail`, which leaves every vector as it was, and
between calls and during one nothing else changes. The one exception is in the code, too: copy
assignment within the capacity overwrites the common prefix first (`CopyInPlace`). The
refinement mapping reads `goal` off the plan (`Outcome`) and `phase` off `pc`.

**`RootScanner`** reads ranges word by word over addresses that wrap. `expected` is computed in
plain arithmetic when a scan begins. ASan's poisoned words and fake frames are constants.

`MCCollector`, `MCMarkSweep`, `MCWeakRefs`, `MCAccounting`, `MCRootScopes`, `MCRootVector`
and `MCRootScanner` give TLC its symmetry sets and the sample layouts, endpoints and segments.
`CollectorProofs` (with the protocol), `MarkSweepProofs` (with the root scanner),
`ConstructionProofs` (with the layout), `FinalizationOrderProofs`, `WeakRefsProofs`,
`AccountingProofs`, `RootScopesProofs` and `RootVectorProofs` hold the theorems. `Layout` and
`RootScanner` name their specifications `LayoutSpec` and `ScanSpec` so that these modules can
extend two components. Definitions such as `ParkWithoutNotify` or `RegisterRootAfterParking` that no specification
uses are the mutants.

## Runs

| Run | Instance | Shows |
|---|---|---|
| `stop_the_world` | 3 threads, fairness | `TypeOK`, `WorldStopped`, `PausedIsParked`, `NoLostWakeup`, `MembershipFrozen`, `StopEnds`, `WaitersReturn` |
| `collector` | 2 threads, 2 blocks, 1 weak handle; with 1 block a slot or a global, registered up to twice | `NoDangling`, `WeakIsLive`, `ConstructionPinned` |
| `mark_sweep` | 3 blocks of 2, 1 and 0 whole words, 6 kinds of word, 1 root word, any pins and stale marks | `MarkingIsExact`, `SweepIsExact`, `WorklistFits`, `Terminates` |
| `finalization_order` | every pointer graph on up to 4 blocks | `EachBlockOnce`, `DependenciesIntact`, `FinalizerSeesMemory` |
| `weak_refs` | 2 threads, 4 handles, 2 adjacent reusable blocks, an interior, a first-byte, an unmanaged and a null pointer | `RegistryAgrees`, `ImplementsWeakHandles` |
| `accounting` | 2 threads, 3 blocks of 1 or 2 bytes, `size_t` up to 5, thresholds 2 and 5 | `CountersExact`, `PeaksBound`, `BytesConserved`, `ThresholdHonoured` |
| `layout` | every size, alignment and count of a 7-bit `size_t`, 8-byte header, 5-bit offset field | `LayoutSound`, `RejectsOnlyImpossible` |
| `construction` | 2 calls, up to 3 elements each | `NoElementCorrupted`, `ReverseOrder`, `NothingLeaked`, `ResultComplete` |
| `root_scopes` | 3 scopes, 2 ranges, one of them given both ways round, null and empty ranges, 2 nested thread scopes | `RangesBalanced`, `ThreadsBalanced` |
| `root_vector` | 2 vectors, 2 objects, buffers of 1, 2, 2 and 3 cells | `RangesAreElements`, `RootsProtect`, `AllOrNothing` |
| `root_scanner` | every pair of endpoints in 5-bit addresses with 4-byte words, up to 2 of 10 segments | `ReadsInBounds`, `ScanComplete`, `LoaderNotUnwound`, `ScanEnds` |
| `finalization_tail` | up to 3 blocks | violates `AcyclicDependenciesOrdered`, see below |

Bounds. Three threads allow a collector, a parked and a late thread, and two
successive collectors with a third thread caught between their stops. Two blocks allow a
chain, a cycle and the reuse of one address while the other is in use. `MaxRanges = 2` is the first
number at which giving up one registration can hurt another. The constraint `GraphOrSlot` keeps
that instance within minutes: a state with two slots in use, or with one slot and both blocks,
is checked but not expanded. Heaps in which slots and several blocks mix for longer are left to
the theorems about `Collector`, which hold for all of them, and to `root_scopes` and `mark_sweep`,
which have several owners of a range and larger graphs. In `mark_sweep` the words hit a first
byte, the inside, a last byte, the byte after a block, the next block's first byte and no block. A bound of
four dead blocks contains a diamond and a cycle with two tails. Four handles let one thread
assign through a temporary while another works on a handle of its own. In `accounting`
three blocks overrun both counters, and `reserved_bytes_` before `managed_bytes_`. Three
elements are the first array in which a failure has to undo two in order. A buffer of three
cells lets a vector of two elements grow, fail half way and be copied over a shorter and a longer
one. The type invariant of the protocol is checked by its run. The others are proved as a part
of the inductive invariants, but for `LayoutTypeOK`, which documents the variables.
The theorems remove the bounds of all passing runs, except for termination and liveness.

`CHECK_DEADLOCK FALSE` is set where the algorithm ends (`MarkSweep`, `FinalizationOrder`, `Layout`,
`RootScanner`).
The protocol and the heap never stop: a thread can always call something.

Fairness (`stop_the_world`). `Cooperates`: a registered thread that sees a stop
eventually enters the manager; the repository's README makes this the application's duty.
The steps inside the manager and the release are weakly fair: a thread that can take
`mutex_` from some point on does, and finalizers return. No strong fairness is assumed:
`std::mutex` does not promise a thread that keeps losing the race anything, so
`WaitersReturn` is stated for the case that stops cease. `MarkSweep` and
`RootScanner` need only that the collecting thread runs. Nothing is claimed about when a call of
`Construction` ends: `finish_construction` and `release_unconstructed` wait for stops, and
further stops can keep a thread waiting.

### A disagreement with the documentation

The repository's README says under "Lifetime and Finalization" that references determine the
order "for acyclic dependencies" and warns only of objects "in the same unreachable cycle".
Run `finalization_tail` finds blocks 1 and 2 in a cycle and 2 pointing to 3: block 3 is in no
cycle, yet its indegree never reaches zero, the last loop emits 3, 2, 1, and the finalizer
of 3 runs before that of 2. What does hold is `DependenciesIntact`: blocks that are neither
on a cycle nor behind one come after everything that points to them. Memory is not at risk
(`FinalizerSeesMemory`), the finalized state of block 3 is.

## Proofs

All proofs are for arbitrary constants, under the named assumptions of the modules:
`NoThread` is no thread, operation names are distinct, `NoBlock` is no block, globals are
slots, payloads are disjoint, non-empty and finitely many, there are finitely many scopes and
blocks, a payload with its header fits into `size_t`, the stack, the register buffer and the
segments lie in the address space, a word fits into it. `WeakRefs` also assumes that a program's
pointers lie in the lower half of the address space. That is what makes the comment in
`gc_weak_ptr.hpp` true that encoded words avoid heap addresses, and it is needed also of
pointers that are not managed: the word of an upper-half one looks like a heap address while
its construction waits for the manager, and a collection in that window would keep a block
for it, which `WeakHandles` does not allow.

* `CollectorProofs`, the protocol. The invariant `ProtocolInv` adds to the properties who can be where:
  the three pieces of collector state are set and cleared together (`FlagsAgree`), only the
  collector gathers or releases and it never waits in `cooperate` (`CollectorPlace`), threads
  in `setjmp` or `parked` are registered and `blocked` ones are not (`RegisteredPlace`).
  `WorldStopped` is preserved by `Detach` because the predicate is evaluated under the lock
  and `PausedIsParked` makes the flag true; it is preserved by everyone else because nobody
  passes `cooperate` while `requested`.
* `CollectorProofs`, the heap. Each heap step is a protocol step, so `ProtocolInv` is available.
  `HeapInv` adds that a parked thread's published words are the words it holds
  (`PublishedIsHeld`), that only registered threads hold or build (`OnlyRegisteredHold`,
  `BuildersRegistered`), that a collecting collector is registered
  (`CollectorIsRegistered`), that each lease has its range, and that storage nobody has
  registered is null (`NewStorageIsNull`). A collection then
  has every word in use among its roots, and `Marked`, the least closed set, contains
  their blocks and what these point to (`MarkedHasRoots`, `MarkedIsClosed`).
* `MarkSweepProofs`. `FindBlock` shows that stepping back from `upper_bound` finds the one
  block an address lies in. `MarkInv` is the tricolour argument: a marked block is on the
  worklist, or is being scanned with the words before the cursor done, or is done; and
  what is marked is in every closed set. When the worklist is empty the marked set is
  itself closed, hence exact.
* `MarkSweepProofs`, the root scanner. `ScanInv`: the words already read and the words `Ahead`
  (those of the loop, of the ranges and of the segments to come) make up what was asked for,
  as long as nothing was thrown, and are never more than that. `FirstWord` and `OneWord` say that
  the padding and a turn of the loop skip no complete aligned word and that neither wraps,
  which rests on remainders for an arbitrary word size (`PaddingAligns`, `NextAligned`).
* `FinalizationOrderProofs`. `OrderInv` is the invariant of Kahn's algorithm: the indegree of a
  block is the number of blocks that point to it and are not emitted, and the queue holds those
  with none. When the queue runs empty, what is left lies on a cycle or behind one
  (`StuckIsBehindCycle`): otherwise, following a pointer backwards from a block with a
  smallest set of predecessors finds a smaller one. The induction over data that the prover
  lacks is replaced by a well-foundedness argument: a family of finite sets has a minimal member.
* `WeakRefsProofs`. `WeakInv` says what may be left of a member function (`WellFormed`), that two
  threads never work on a handle one of them changes (`Exclusive`), what a call finds before
  and after its unlocked part (`FindsEmpty`, `Waits`), that words encode pointers, and that
  entries and held pointers are of registered blocks. `RegistryAgrees` alone is not inductive: a
  copy or a move relies on the empty target the calls before it have left. The refinement maps
  each action to one of `WeakHandles` or to a stutter; a collection is where the address
  assumption enters.
* `AccountingProofs`. `AccountingInv` is the four properties and `Owing`: a thread that owes a
  collection is about to run one and has not stopped the world. They need each other: sums do
  not wrap because the counters are exact, and the number of blocks stays below a saturated
  total because `reserved_bytes_` counts a byte or more for each. What is used of sums
  (`SumLaws`) follows from one lemma, that the library's fold equals the cardinality of a set
  with one element for every byte.
* `ConstructionProofs`. `ConstructionInv`: elements are built up to some place and not behind it,
  and which variable knows that place (`constructed`, the stored prefix, `cursor`, `count`)
  depends on who works on the block.
* `ConstructionProofs`, the layout. `LayoutInv` says that `malloc_internal` is asked for the true
  size of the payload (`Asked`) and that block and header hold it exactly (`Placed`). The
  arithmetic is that powers of two divide one another and `size_t` (`PowersFacts`), so that
  rounding one up to another gives the larger (`RoundsUp`) and the unchecked sum in
  `array_elements_offset` cannot wrap, and that the test by division is exact
  (`MultiplyCheck`). The induction over exponents is a search for the least counterexample.
  The provers do not interpret `2^k`: the recurrence is the assumption `PowersDouble`.
* `RootScopesProofs`. `RangesInv` compares the registry with the scopes that hold a range and the
  resets about to; every action is described by what enters and leaves these two sets.
  `ThreadsInv`: only the outermost scope of a thread owns its registration, and only if the
  thread had none of its own.

* `RootVectorProofs`. `VectorInv` adds to the properties what the rest of an operation will do.
  `CellsInv`: a live cell is an element or one that the operation has built or is about to
  destroy, each listed once (`ExtraInv`), and its range is registered. `BuildInv`: roots to
  build and roots built take cells nobody else has, and with the vector's own they make up
  contents that the operation may produce (`Promise`), the same ones at every step
  (`SamePromise`), so the abstract `goal` does not move while roots are registered. The
  refinement maps the start of a plan to a call, `Commit` to `Succeed`, `RegisterThrows` to
  `Fail`, the last step of an undo or of dropping old roots to `Finish`, and every other step
  of a plan to a stutter (`CallSteps`, `EffectSteps` and the `Seen` lemmas): building, undoing
  and dropping roots leave every element a client sees alone. There has to be at least one buffer.

Only model-checked: termination and liveness, as fairness is out of the prover's reach
(`StopEnds`, `WaitersReturn`, `Terminates`, `ScanEnds`).

## Not modelled

* The text of `dump_heap`, `HeapObjectInfo`'s fields, `GCStats` durations and figures of the last
  collection: reporting. That `dump_heap` combines two snapshots is documented.
* `RootScanner`'s walks over Mach-O and PE sections, which are other builds, and the detection
  of stack bounds: platform I/O. Which words hold pointers is part of `held`, `parked` and
  `slot` in `Collector`.
* A thread that exits while registered: the collector waits for it for ever, by contract.
* A destructor that throws: the process terminates.
* `gc_ptr`: a plain pointer. The demo, tests, benchmarks and build files.

## Plan

1. Done: all modules above, and theorems for every safety property of a passing run.
2. An abstract heap (reachable objects exist) and a refinement from `Collector`.
