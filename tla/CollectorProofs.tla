---------------------------- MODULE CollectorProofs ----------------------------
(***************************************************************************)
(* Machine-checked proofs about the stop-the-world protocol and the        *)
(* managed heap, for every set of threads, blocks, slots and weak handles. *)
(* The protocol comes first: each heap step is one of its steps, so what   *)
(* is proved of it is used in the heap's proofs.                           *)
(***************************************************************************)
EXTENDS Collector, TLAPS

-------------------------------------------------------------------------------
(* The protocol *)

\* Type correctness of the protocol's state: the flags, thread sets and
\* control points of GC_Manager stay within their declared ranges.
THEOREM TypeCorrect == Spec => []TypeOK
<1>1. Init => TypeOK
  BY DEF Init, TypeOK, Places
<1>2. TypeOK /\ [Next]_protocolVars => TypeOK'
  <2> SUFFICES ASSUME TypeOK, [Next]_protocolVars
               PROVE  TypeOK'
    OBVIOUS
  <2> USE DEF TypeOK, Places
  <2>1. CASE UNCHANGED protocolVars
    BY <2>1 DEF protocolVars
  <2>2. ASSUME NEW t \in Threads, ThreadStep(t)
        PROVE  TypeOK'
    <3>1. ASSUME NEW op \in Ops, BlockUnregistered(t, op) PROVE TypeOK'
      BY <3>1 DEF BlockUnregistered
    <3>2. ASSUME NEW op \in Ops, CaptureRegisters(t, op) PROVE TypeOK'
      BY <3>2 DEF CaptureRegisters
    <3>3. CASE Park(t)
      BY <3>3 DEF Park
    <3>4. CASE WaitAgain(t)
      BY <3>4 DEF WaitAgain
    <3>5. CASE register_stack_bottom(t)
      BY <3>5 DEF register_stack_bottom, Leave
    <3>6. CASE unregister_current_thread(t)
      BY <3>6 DEF unregister_current_thread, Leave
    <3>7. ASSUME NEW op \in UseOps, Use(t, op) PROVE TypeOK'
      BY <3>7 DEF Use, Leave
    <3>8. ASSUME NEW op \in StopOps, BeginStop(t, op) PROVE TypeOK'
      <4>1. op \in Ops
        BY DEF Ops
      <4> QED BY <3>8, <4>1 DEF BeginStop
    <3>9. ASSUME NEW op \in StopOps, ReturnEarly(t, op) PROVE TypeOK'
      BY <3>9 DEF ReturnEarly, Leave
    <3>10. CASE Detach(t)
      BY <3>10 DEF Detach
    <3>11. CASE Unwind(t)
      BY <3>11 DEF Unwind
    <3>12. CASE release_stop_the_world(t)
      BY <3>12 DEF release_stop_the_world
    <3> QED
      BY <2>2, <3>1, <3>2, <3>3, <3>4, <3>5, <3>6, <3>7, <3>8, <3>9, <3>10,
         <3>11, <3>12 DEF ThreadStep
  <2> QED
    BY <2>1, <2>2 DEF Next
<1> QED
  BY <1>1, <1>2, PTL DEF Spec

-------------------------------------------------------------------------------
(***************************************************************************)
(* The inductive invariant.  PausedIsParked and NoLostWakeup need to know  *)
(* who may be where: only the collector is in "gather" or "release", and   *)
(* it never waits in cooperate; a thread in "setjmp" or "parked" is        *)
(* registered and a "blocked" one is not.  WorldStopped needs, besides,    *)
(* that the three pieces of collector state are set and cleared together.  *)
(***************************************************************************)
FlagsAgree ==
    /\ requested = collecting
    /\ requested <=> collector # NoThread

CollectorPlace ==
    \A t \in Threads :
        /\ pc[t] \in {"gather", "release"} => collector = t
        /\ pc[t] \in {"setjmp", "parked", "blocked"} => collector # t

RegisteredPlace ==
    \A t \in Threads :
        /\ pc[t] \in {"setjmp", "parked"} => t \in registered
        /\ pc[t] = "blocked" => t \notin registered

ProtocolInv ==
    /\ TypeOK
    /\ FlagsAgree
    /\ CollectorPlace
    /\ RegisteredPlace
    /\ PausedIsParked
    /\ WorldStopped
    /\ NoLostWakeup

\* The inductive invariant holds initially: nobody is registered or waiting.
LEMMA InitProtocolInv == Init => ProtocolInv
  BY ThreadAssumption DEF Init, ProtocolInv, TypeOK, Places, FlagsAgree, CollectorPlace,
     RegisteredPlace, PausedIsParked, WorldStopped, NoLostWakeup

\* One protocol step by one thread preserves the inductive invariant.
LEMMA StepProtocolInv ==
    ASSUME TypeOK', ProtocolInv, NEW t \in Threads, ThreadStep(t)
    PROVE  ProtocolInv'
<1> USE ThreadAssumption DEF ProtocolInv, TypeOK, Places, FlagsAgree, CollectorPlace,
        RegisteredPlace, PausedIsParked, WorldStopped, NoLostWakeup, Unobstructed,
        AllPaused
<1>1. ASSUME NEW op \in Ops, BlockUnregistered(t, op) PROVE ProtocolInv'
  BY <1>1 DEF BlockUnregistered
<1>2. ASSUME NEW op \in Ops, CaptureRegisters(t, op) PROVE ProtocolInv'
  BY <1>2 DEF CaptureRegisters
<1>3. CASE Park(t)
  BY <1>3 DEF Park
<1>4. CASE WaitAgain(t)
  BY <1>4 DEF WaitAgain
<1>5. CASE register_stack_bottom(t)
  BY <1>5 DEF register_stack_bottom, Leave, Passes
<1>6. CASE unregister_current_thread(t)
  BY <1>6 DEF unregister_current_thread, Leave, Passes
<1>7. ASSUME NEW op \in UseOps, Use(t, op) PROVE ProtocolInv'
  BY <1>7 DEF Use, Leave, Passes
<1>8. ASSUME NEW op \in StopOps, BeginStop(t, op) PROVE ProtocolInv'
  BY <1>8 DEF BeginStop, Passes
<1>9. ASSUME NEW op \in StopOps, ReturnEarly(t, op) PROVE ProtocolInv'
  BY <1>9 DEF ReturnEarly, Leave, Passes
<1>10. CASE Detach(t)
  BY <1>10 DEF Detach
<1>11. CASE Unwind(t)
  BY <1>11 DEF Unwind
<1>12. CASE release_stop_the_world(t)
  BY <1>12 DEF release_stop_the_world
<1> QED
  BY <1>1, <1>2, <1>3, <1>4, <1>5, <1>6, <1>7, <1>8, <1>9, <1>10, <1>11, <1>12
  DEF ThreadStep

\* The inductive invariant holds in every reachable state of every instance.
LEMMA ProtocolInvariant == Spec => []ProtocolInv
<1>1. TypeOK' /\ ProtocolInv /\ [Next]_protocolVars => ProtocolInv'
  <2> SUFFICES ASSUME TypeOK', ProtocolInv, [Next]_protocolVars
               PROVE  ProtocolInv'
    OBVIOUS
  <2>1. CASE UNCHANGED protocolVars
    BY <2>1 DEF protocolVars, ProtocolInv, TypeOK, FlagsAgree, CollectorPlace,
       RegisteredPlace, PausedIsParked, WorldStopped, NoLostWakeup, Unobstructed,
       AllPaused
  <2>2. CASE Next
    BY <2>2, StepProtocolInv DEF Next
  <2> QED
    BY <2>1, <2>2
<1> QED
  BY <1>1, InitProtocolInv, TypeCorrect, PTL DEF Spec

\* paused_for_collection is set for exactly the threads inside cooperate's
\* wait, in every state of every instance: wait_for_other_threads_to_pause_locked
\* never counts a running thread as paused.
THEOREM PausedFlagIsTrue == Spec => []PausedIsParked
<1>1. ProtocolInv => PausedIsParked
  BY DEF ProtocolInv
<1> QED
  BY <1>1, ProtocolInvariant, PTL

\* From the scan until release_stop_the_world every registered thread other
\* than the collector is parked, however many threads there are.
THEOREM StopIsExclusive == Spec => []WorldStopped
<1>1. ProtocolInv => WorldStopped
  BY DEF ProtocolInv
<1> QED
  BY <1>1, ProtocolInvariant, PTL

\* No thread sleeps on stop_the_world_cv_ while its predicate holds: the
\* notify_all calls of cooperate and release_stop_the_world suffice.
THEOREM WakeupsAreNotLost == Spec => []NoLostWakeup
<1>1. ProtocolInv => NoLostWakeup
  BY DEF ProtocolInv
<1> QED
  BY <1>1, ProtocolInvariant, PTL

\* register_stack_bottom and unregister_current_thread cannot change the set
\* of threads the collector waits for and scans while a stop is requested.
THEOREM ThreadsFrozen == Spec => MembershipFrozen
<1>1. [Next]_protocolVars =>
        [requested => registered' \ {collector} = registered \ {collector}]_protocolVars
  <2> SUFFICES ASSUME NEW t \in Threads, ThreadStep(t), requested
               PROVE  registered' \ {collector} = registered \ {collector}
    BY DEF Next
  <2>1. CASE register_stack_bottom(t)
    BY <2>1 DEF register_stack_bottom, Passes, Unobstructed
  <2>2. CASE unregister_current_thread(t)
    BY <2>2 DEF unregister_current_thread, Passes, Unobstructed
  <2>3. CASE UNCHANGED registered
    BY <2>3
  <2> QED
    BY <2>1, <2>2, <2>3 DEF ThreadStep, BlockUnregistered, CaptureRegisters, Park,
       WaitAgain, Use, BeginStop, ReturnEarly, Detach, Unwind, release_stop_the_world
<1> QED
  BY <1>1, PTL DEF Spec, MembershipFrozen

USE HeapAssumption

-------------------------------------------------------------------------------
(* The heap's steps are protocol steps *)

\* Every step of the heap is a step of the stop-the-world protocol or leaves the
\* protocol's state alone, so what holds of the protocol holds of the heap.
LEMMA HeapStepIsProtocolStep == [HeapNext]_vars => [Next]_protocolVars
<1> SUFFICES ASSUME [HeapNext]_vars PROVE [Next]_protocolVars
  OBVIOUS
<1>1. CASE UNCHANGED vars
  BY <1>1 DEF vars, protocolVars
<1>2. ASSUME NEW t \in Threads, Manager(t) PROVE Next
  <2>1. "use" \in UseOps /\ "root" \in UseOps /\ UseOps \subseteq Ops
    BY HeapOpsAssumption DEF Ops
  <2>2. CASE Cooperate(t)
    BY <2>2 DEF Cooperate, Next, ThreadStep
  <2>3. CASE ParkPublishing(t)
    BY <2>3 DEF ParkPublishing, Next, ThreadStep
  <2>4. CASE Stop(t)
    BY <2>4 DEF Stop, Next, ThreadStep
  <2>5. CASE Register(t)
    BY <2>5 DEF Register, Next, ThreadStep
  <2>6. CASE Unregister(t)
    BY <2>6 DEF Unregister, Next, ThreadStep
  <2>7. CASE \/ Use(t, "use") \/ Use(t, "root")
             \/ CaptureRegisters(t, "root") \/ BlockUnregistered(t, "root")
    BY <2>1, <2>7 DEF Next, ThreadStep
  <2>8. CASE collect(t) \/ shutdown(t)
    BY <2>8 DEF collect, shutdown, Next, ThreadStep
  <2>9. CASE Abandon(t)
    BY <2>9 DEF Abandon, Next, ThreadStep
  <2>10. CASE destroy_blocks(t)
    BY <2>10 DEF destroy_blocks, Next, ThreadStep
  <2> QED
    BY <1>2, <2>2, <2>3, <2>4, <2>5, <2>6, <2>7, <2>8, <2>9, <2>10
    DEF Manager, Return, malloc_internal, register_block_locked, RegisterFails,
        finish_construction, release_unconstructed, register_root_range,
        unregister_root_range, register_weak_ref, read_weak_ref,
        unregister_weak_ref
<1>3. ASSUME NEW t \in Threads, Application(t) PROVE UNCHANGED protocolVars
  BY <1>3 DEF Application, Load, Store, Drop, Assign
<1> QED
  BY <1>1, <1>2, <1>3 DEF HeapNext

\* The heap's specification implements the protocol's: collections, root
\* registration, allocation and weak references keep the discipline of
\* cooperate_with_stop_the_world_locked.
THEOREM HeapImplementsProtocol == HeapSpec => Spec
<1>1. HeapInit => Init
  BY DEF HeapInit
<1> QED
  BY <1>1, HeapStepIsProtocolStep, PTL DEF HeapSpec, Spec

-------------------------------------------------------------------------------
(* Marking *)

\* Marking finds every registered block that a root word addresses, and nothing
\* that is not registered.
LEMMA MarkedHasRoots ==
    ASSUME NEW t
    PROVE  /\ Marked(t) \subseteq allocations
           /\ Roots(t) \cap allocations \subseteq Marked(t)
  BY DEF Marked

\* What a marked block's payload addresses is marked.
LEMMA MarkedIsClosed ==
    ASSUME NEW t
    PROVE  ClosedUnder(Marked(t))
<1> SUFFICES ASSUME NEW b \in Marked(t), NEW c \in points[b] \cap allocations
             PROVE  c \in Marked(t)
  BY DEF ClosedUnder
<1> SUFFICES ASSUME NEW S \in SUBSET allocations,
                    Roots(t) \cap allocations \subseteq S, ClosedUnder(S)
             PROVE  c \in S
  BY DEF Marked
<1>1. b \in S
  BY DEF Marked
<1> QED
  BY <1>1 DEF ClosedUnder

-------------------------------------------------------------------------------
(* Types *)

\* The heap's state stays within its declared ranges.
LEMMA HeapTypeStep ==
    ASSUME HeapTypeOK, ranges = leases, TypeOK', [HeapNext]_vars
    PROVE  HeapTypeOK'
<1> USE DEF HeapTypeOK, Stages
<1>1. CASE UNCHANGED vars
  BY <1>1 DEF vars
<1>2. ASSUME NEW t \in Threads, Manager(t) PROVE HeapTypeOK'
  <2> USE DEF Unparked, Invalidated
  <2>1. CASE Cooperate(t) \/ Abandon(t)
    BY <2>1 DEF Cooperate, Abandon, heapVars
  <2>2. CASE ParkPublishing(t)
    BY <2>2 DEF ParkPublishing
  <2>3. CASE Stop(t) \/ Return(t) \/ Register(t) \/ Unregister(t)
    BY <2>3 DEF Stop, Return, Register, Unregister
  <2>4. ASSUME NEW b \in Blocks, malloc_internal(t, b) PROVE HeapTypeOK'
    BY <2>4 DEF malloc_internal
  <2>5. ASSUME NEW b \in Blocks, register_block_locked(t, b) PROVE HeapTypeOK'
    BY <2>5 DEF register_block_locked
  <2>6. ASSUME NEW b \in Blocks, RegisterFails(t, b) PROVE HeapTypeOK'
    BY <2>6 DEF RegisterFails
  <2>7. ASSUME NEW b \in Blocks, finish_construction(t, b) PROVE HeapTypeOK'
    BY <2>7 DEF finish_construction
  <2>8. ASSUME NEW b \in Blocks, release_unconstructed(t, b) PROVE HeapTypeOK'
    BY <2>8 DEF release_unconstructed
  <2>9. ASSUME NEW s \in Slots, NEW w \in Blocks \cup {NoBlock}, NEW moved \in BOOLEAN,
               register_root_range(t, s, w, moved)
        PROVE  HeapTypeOK'
    BY <2>9 DEF register_root_range
  <2>10. ASSUME NEW s \in Slots, unregister_root_range(t, s) PROVE HeapTypeOK'
    BY <2>10 DEF unregister_root_range
  <2>11. ASSUME NEW h \in Handles, NEW b \in Blocks, register_weak_ref(t, h, b)
         PROVE  HeapTypeOK'
    BY <2>11 DEF register_weak_ref
  <2>12. ASSUME NEW h \in Handles, read_weak_ref(t, h) PROVE HeapTypeOK'
    BY <2>12 DEF read_weak_ref
  <2>13. ASSUME NEW h \in Handles, unregister_weak_ref(t, h) PROVE HeapTypeOK'
    BY <2>13 DEF unregister_weak_ref
  <2>14. CASE collect(t)
    BY <2>14 DEF collect
  <2>15. CASE shutdown(t)
    BY <2>15 DEF shutdown, allocations
  <2>16. CASE destroy_blocks(t)
    BY <2>16 DEF destroy_blocks
  <2> QED
    BY <1>2, <2>1, <2>2, <2>3, <2>4, <2>5, <2>6, <2>7, <2>8, <2>9, <2>10, <2>11,
       <2>12, <2>13, <2>14, <2>15, <2>16 DEF Manager
<1>3. ASSUME NEW t \in Threads, Application(t) PROVE HeapTypeOK'
  BY <1>3 DEF Application, Load, Store, Drop, Assign
<1> QED
  BY <1>1, <1>2, <1>3 DEF HeapNext

-------------------------------------------------------------------------------
(***************************************************************************)
(* The inductive invariant.  NoDangling survives a collection because the  *)
(* words a parked thread published are still the words it holds, because   *)
(* the collector itself is registered, and because each registration a     *)
(* slot's owner counts on has its entry in registered_root_ranges_.  New   *)
(* storage is null when it is registered.                                  *)
(***************************************************************************)
PublishedIsHeld == \A t \in Threads : pc[t] = "parked" => parked[t] = held[t]

OnlyRegisteredHold == \A t \in Threads \ registered : held[t] = {}

BuildersRegistered ==
    \A b \in Blocks : status[b] \in {"raw", "building"} => builder[b] \in registered

CollectorIsRegistered ==
    \A t \in Threads :
        pc[t] = "gather" /\ pending[t] = "collect" => t \in registered

NewStorageIsNull == \A s \in Slots \ Globals : leases[s] = 0 => slot[s] = NoBlock

HeapInv ==
    /\ HeapTypeOK
    /\ ranges = leases
    /\ NewStorageIsNull
    /\ PublishedIsHeld
    /\ OnlyRegisteredHold
    /\ BuildersRegistered
    /\ CollectorIsRegistered
    /\ NoDangling
    /\ WeakIsLive

\* The inductive invariant holds initially: the heap is empty.
LEMMA InitHeapInv == HeapInit => HeapInv
<1> SUFFICES ASSUME HeapInit PROVE HeapInv
  OBVIOUS
<1>1. TypeOK
  BY DEF HeapInit, Init, TypeOK, Places
<1>2. HeapTypeOK
  BY <1>1 DEF HeapInit, HeapTypeOK, Stages
<1>3. PublishedIsHeld /\ OnlyRegisteredHold /\ CollectorIsRegistered
  BY DEF HeapInit, Init, PublishedIsHeld, OnlyRegisteredHold, CollectorIsRegistered
<1>4. ranges = leases /\ NewStorageIsNull /\ BuildersRegistered /\ NoDangling /\ WeakIsLive
  BY DEF HeapInit, Init, NewStorageIsNull, BuildersRegistered, NoDangling, WeakIsLive, allocations
<1> QED
  BY <1>2, <1>3, <1>4 DEF HeapInv

\* A collection preserves the inductive invariant: every word a registered
\* thread, a slot or a surviving payload holds was among the roots or in a marked
\* payload, so its block was marked.
LEMMA CollectHeapInv ==
    ASSUME ProtocolInv, HeapInv, HeapTypeOK', NEW t \in Threads, collect(t)
    PROVE  HeapInv'
<1> USE DEF HeapInv, HeapTypeOK, TypeOK
<1>1. /\ allocations' = Marked(t)
      /\ UNCHANGED <<registered, builder, points, held, parked, slot, ranges, leases,
                     severed>>
      /\ pc' = [pc EXCEPT ![t] = "run"]
      /\ pending' = [pending EXCEPT ![t] = "none"]
      /\ \A b \in Blocks : status'[b] \in {"raw", "building"} => status'[b] = status[b]
  BY MarkedHasRoots DEF collect, Detach, allocations
<1>2. PublishedIsHeld' /\ OnlyRegisteredHold' /\ BuildersRegistered'
      /\ CollectorIsRegistered' /\ ranges' = leases' /\ NewStorageIsNull'
  BY <1>1 DEF PublishedIsHeld, OnlyRegisteredHold, BuildersRegistered,
     CollectorIsRegistered, NewStorageIsNull
<1>3. ASSUME NEW u \in registered PROVE held[u] \subseteq Roots(t)
  <2>1. CASE u = t
    BY <2>1 DEF Roots
  <2>2. CASE u # t
    <3>1. parked[u] = held[u]
      BY <2>2 DEF collect, Detach, AllPaused, ProtocolInv, PausedIsParked,
         PublishedIsHeld
    <3> QED BY <2>2, <3>1 DEF Roots
  <2> QED BY <2>1, <2>2
<1>4. ASSUME NEW s \in Slots, s \in Globals \/ leases[s] > 0 PROVE slot[s] \in Roots(t)
  BY <1>4 DEF Roots
<1>5. NoDangling'
  <2>1. \A u \in registered : held[u] \subseteq Marked(t) \cup severed
    BY <1>3, MarkedHasRoots DEF NoDangling
  <2>2. \A b \in Marked(t) : points[b] \subseteq Marked(t) \cup severed
    BY MarkedHasRoots, MarkedIsClosed DEF NoDangling, ClosedUnder
  <2>3. \A s \in Slots : (s \in Globals \/ leases[s] > 0) =>
          slot[s] \in Marked(t) \cup severed \cup {NoBlock}
    BY <1>4, MarkedHasRoots DEF NoDangling
  <2> QED
    BY <1>1, <2>1, <2>2, <2>3 DEF NoDangling
<1>6. WeakIsLive'
  BY <1>1 DEF WeakIsLive, collect, Invalidated
<1> QED
  BY <1>2, <1>5, <1>6

\* One call into GC_Manager by one thread preserves the inductive invariant.
LEMMA ManagerHeapInv ==
    ASSUME ProtocolInv, HeapInv, HeapTypeOK', NEW t \in Threads, Manager(t)
    PROVE  HeapInv'
<1> USE DEF HeapInv, HeapTypeOK, TypeOK, PublishedIsHeld, OnlyRegisteredHold,
        BuildersRegistered, CollectorIsRegistered, NewStorageIsNull, NoDangling,
        WeakIsLive, allocations, Unparked
<1>1. CASE Cooperate(t) \/ Abandon(t)
  BY <1>1 DEF Cooperate, Abandon, heapVars, BlockUnregistered, CaptureRegisters,
     WaitAgain, Unwind
<1>2. CASE ParkPublishing(t)
  BY <1>2 DEF ParkPublishing, Park
<1>3. CASE Stop(t)
  BY <1>3 DEF Stop, BeginStop, ReturnEarly, Leave
<1>4. CASE Return(t)
  BY <1>4 DEF Return, Use, Leave
<1>5. CASE Register(t)
  BY <1>5 DEF Register, register_stack_bottom, Leave
<1>6. CASE Unregister(t)
  BY <1>6 DEF Unregister, unregister_current_thread, Leave, Passes
<1>7. ASSUME NEW b \in Blocks, malloc_internal(t, b)
     PROVE  HeapInv'
  BY <1>7 DEF malloc_internal, Use, Leave
<1>8. ASSUME NEW b \in Blocks, register_block_locked(t, b)
     PROVE  HeapInv'
  BY <1>8 DEF register_block_locked, Use, Leave
<1>9. ASSUME NEW b \in Blocks, RegisterFails(t, b)
     PROVE  HeapInv'
  BY <1>9 DEF RegisterFails, Use, Leave
<1>10. ASSUME NEW b \in Blocks, finish_construction(t, b)
     PROVE  HeapInv'
  BY <1>10 DEF finish_construction, Use, Leave
<1>11. ASSUME NEW b \in Blocks, release_unconstructed(t, b)
     PROVE  HeapInv'
  BY <1>11 DEF release_unconstructed, Unpublished, Invalidated, Use, Leave
<1>12. ASSUME NEW s \in Slots, NEW w \in Blocks \cup {NoBlock}, NEW moved \in BOOLEAN,
             register_root_range(t, s, w, moved)
     PROVE  HeapInv'
  <2>1. /\ pc[t] = "run" /\ pc'[t] \in {"run", "setjmp", "blocked"}
        /\ \A u \in Threads \ {t} : pc'[u] = pc[u] /\ pending'[u] = pending[u]
        /\ UNCHANGED <<registered, status, builder, points, parked, weak, severed>>
    BY <1>12 DEF register_root_range, CaptureRegisters, BlockUnregistered, Use, Leave
  <2>2. /\ slot' = [slot EXCEPT ![s] = w] /\ w \in held[t] \cup {slot[s]}
        /\ leases' = [leases EXCEPT ![s] = @ + 1] /\ ranges' = leases'
        /\ held' = IF moved THEN [held EXCEPT ![t] = @ \ {w}] ELSE held
    BY <1>12 DEF register_root_range
  <2>3. /\ \A u \in Threads : held'[u] \subseteq held[u]
        /\ \A u \in Threads \ {t} : held'[u] = held[u]
    BY <2>2
  <2>4. \A r \in Slots \ {s} : slot'[r] = slot[r] /\ leases'[r] = leases[r]
    BY <2>2
  <2>5. slot'[s] = w /\ leases'[s] = leases[s] + 1 /\ leases'[s] > 0
    BY <2>2
  <2>6. PublishedIsHeld' /\ OnlyRegisteredHold' /\ CollectorIsRegistered'
    BY <2>1, <2>3
  <2>7. BuildersRegistered' /\ WeakIsLive' /\ NewStorageIsNull'
    BY <2>1, <2>4, <2>5
  <2>8. w \in allocations \cup severed \cup {NoBlock}
    <3>1. CASE w \in held[t]
      <4>1. t \in registered
        BY <3>1
      <4> QED
        BY <3>1, <4>1
    <3>2. CASE w = slot[s]
      <4>1. CASE s \in Globals \/ leases[s] > 0
        BY <3>2, <4>1
      <4>2. CASE s \notin Globals /\ leases[s] = 0
        BY <3>2, <4>2
      <4> QED
        BY <4>1, <4>2
    <3> QED
      BY <2>2, <3>1, <3>2
  <2>9. NoDangling'
    BY <2>1, <2>3, <2>4, <2>5, <2>8
  <2> QED
    BY <2>2, <2>6, <2>7, <2>9
<1>13. ASSUME NEW s \in Slots, unregister_root_range(t, s)
     PROVE  HeapInv'
  BY <1>13 DEF unregister_root_range, Use, Leave
<1>14. ASSUME NEW h \in Handles, NEW b \in Blocks, register_weak_ref(t, h, b)
     PROVE  HeapInv'
  BY <1>14 DEF register_weak_ref, Use, Leave
<1>15. ASSUME NEW h \in Handles, read_weak_ref(t, h)
     PROVE  HeapInv'
  BY <1>15 DEF read_weak_ref, Use, Leave
<1>16. ASSUME NEW h \in Handles, unregister_weak_ref(t, h)
     PROVE  HeapInv'
  BY <1>16 DEF unregister_weak_ref, Use, Leave
<1>17. CASE collect(t)
  BY <1>17, CollectHeapInv
<1>18. CASE shutdown(t)
  BY <1>18 DEF shutdown, Detach
<1>19. CASE destroy_blocks(t)
  BY <1>19 DEF destroy_blocks, release_stop_the_world
<1> HIDE DEF HeapInv, HeapTypeOK, TypeOK, PublishedIsHeld, OnlyRegisteredHold,
        BuildersRegistered, CollectorIsRegistered, NewStorageIsNull, NoDangling,
        WeakIsLive, allocations, Unparked
<1> QED
  BY <1>1, <1>2, <1>3, <1>4, <1>5, <1>6, <1>7, <1>8, <1>9,
     <1>10, <1>11, <1>12, <1>13, <1>14, <1>15, <1>16, <1>17, <1>18, <1>19 DEF Manager

\* A step of application code preserves the inductive invariant.
LEMMA ApplicationHeapInv ==
    ASSUME HeapInv, HeapTypeOK', NEW t \in Threads, Application(t)
    PROVE  HeapInv'
<1> USE DEF HeapInv, HeapTypeOK, TypeOK, PublishedIsHeld, OnlyRegisteredHold,
        BuildersRegistered, CollectorIsRegistered, NewStorageIsNull, NoDangling,
        WeakIsLive, allocations, Running, protocolVars
<1>1. ASSUME NEW c \in Blocks, Load(t, c) PROVE HeapInv'
  BY <1>1 DEF Load
<1>2. ASSUME NEW b \in Blocks, NEW new \in SUBSET Blocks, Store(t, b, new)
      PROVE  HeapInv'
  BY <1>2 DEF Store
<1>3. ASSUME NEW b \in Blocks, Drop(t, b) PROVE HeapInv'
  BY <1>3 DEF Drop
<1>4. ASSUME NEW s \in Slots, NEW w \in Blocks \cup {NoBlock}, Assign(t, s, w)
      PROVE  HeapInv'
  BY <1>4 DEF Assign
<1> QED
  BY <1>1, <1>2, <1>3, <1>4 DEF Application

\* The inductive invariant holds in every reachable state of every instance.
LEMMA HeapInvariant == HeapSpec => []HeapInv
<1>1. ProtocolInv /\ ProtocolInv' /\ HeapInv /\ [HeapNext]_vars => HeapInv'
  <2> SUFFICES ASSUME ProtocolInv, ProtocolInv', HeapInv, [HeapNext]_vars
               PROVE  HeapInv'
    OBVIOUS
  <2>1. HeapTypeOK'
    BY HeapTypeStep DEF HeapInv, ProtocolInv
  <2>2. CASE UNCHANGED vars
    BY <2>1, <2>2 DEF vars, HeapInv, PublishedIsHeld, OnlyRegisteredHold,
       BuildersRegistered, CollectorIsRegistered, NewStorageIsNull, NoDangling,
       WeakIsLive, allocations
  <2>3. CASE HeapNext
    BY <2>1, <2>3, ManagerHeapInv, ApplicationHeapInv DEF HeapNext
  <2> QED
    BY <2>2, <2>3
<1> QED
  BY <1>1, InitHeapInv, HeapImplementsProtocol, ProtocolInvariant, PTL DEF HeapSpec

\* Memory safety of the collector: no registered thread, registered slot or
\* reachable payload ever points to a block that collect, release_unconstructed
\* or destroy_blocks took away.
THEOREM HeapIsSafe == HeapSpec => []NoDangling
<1>1. HeapInv => NoDangling
  BY DEF HeapInv
<1> QED
  BY <1>1, HeapInvariant, PTL

\* gc_weak_ptr::lock never yields a block that is not in allocations_.
THEOREM WeakReferencesAreSafe == HeapSpec => []WeakIsLive
<1>1. HeapInv => WeakIsLive
  BY DEF HeapInv
<1> QED
  BY <1>1, HeapInvariant, PTL

\* Type correctness of the heap's state.
THEOREM HeapTypeCorrect == HeapSpec => []HeapTypeOK
<1>1. HeapInv => HeapTypeOK
  BY DEF HeapInv
<1> QED
  BY <1>1, HeapInvariant, PTL

\* Neither sweep_locked nor shutdown detaches a block whose constructor has not
\* returned.
THEOREM ConstructionIsPinned == HeapSpec => ConstructionPinned
<1>1. HeapInv /\ [HeapNext]_vars =>
        [\A b \in Blocks : status[b] = "building" => status'[b] # "dead"]_vars
  <2> SUFFICES ASSUME HeapInv, NEW t \in Threads, Manager(t) \/ Application(t),
                      NEW b \in Blocks, status[b] = "building"
               PROVE  status'[b] # "dead"
    BY DEF HeapNext
  <2> USE DEF HeapInv, HeapTypeOK
  <2>1. CASE collect(t)
    <3>1. b \in Marked(t)
      BY MarkedHasRoots DEF Roots, In, allocations
    <3> QED
      BY <2>1, <3>1 DEF collect
  <2>2. CASE shutdown(t)
    BY <2>2 DEF shutdown, In
  <2>3. CASE destroy_blocks(t)
    BY <2>3 DEF destroy_blocks
  <2>4. CASE UNCHANGED status
    BY <2>4
  <2>5. ASSUME NEW c \in Blocks,
               \/ malloc_internal(t, c) \/ register_block_locked(t, c)
               \/ RegisterFails(t, c) \/ finish_construction(t, c)
               \/ release_unconstructed(t, c)
        PROVE  status'[b] # "dead"
    BY <2>5 DEF malloc_internal, register_block_locked, RegisterFails,
       finish_construction, release_unconstructed
  <2> QED
    BY <2>1, <2>2, <2>3, <2>4, <2>5
    DEF Manager, Application, Cooperate, ParkPublishing, Stop, Return, Register,
        Unregister, register_root_range, unregister_root_range, register_weak_ref,
        read_weak_ref, unregister_weak_ref, Abandon, heapVars, Load, Store, Drop,
        Assign
<1> QED
  BY <1>1, HeapInvariant, PTL DEF HeapSpec, ConstructionPinned
===============================================================================
