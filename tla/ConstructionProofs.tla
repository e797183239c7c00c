-------------------------- MODULE ConstructionProofs --------------------------
(***************************************************************************)
(* Machine-checked proofs about the elements of objects and arrays, for    *)
(* any number of calls in progress and any array length, and about where   *)
(* they lie in their blocks, for any width of size_t.                      *)
(***************************************************************************)
EXTENDS Construction, Layout, WellFoundedInduction, TLAPS

-------------------------------------------------------------------------------
(***************************************************************************)
(* The inductive invariant.  At every moment the elements of a block are   *)
(* built up to some place and not built behind it.  Which variable tells   *)
(* that place depends on who works on the block: the constructor loop      *)
(* counts it in constructed (and, for an array, in the stored prefix), the *)
(* destructor loops count it down in cursor, a finished block has count.   *)
(***************************************************************************)

\* The first k elements exist, the others do not (they may have existed).
BuiltUpTo(c, k) ==
    \A i \in Index : IF i <= k THEN elem[c][i] = "built" ELSE elem[c][i] \in {"raw", "gone"}

\* Behind the first k elements is memory in which no constructor has run.
RawBehind(c, k) == \A i \in Index : i > k => elem[c][i] = "raw"

\* The stored count, which every destructor goes by, is the true one; an object
\* has none, and is one element.
PrefixTrue(c, k) == IF kind[c].array THEN prefix[c] = k ELSE count[c] = 1

\* A call works on a block only while that block is under construction.
CallOwnsBlock(c) == pc[c] \in {"loop", "cleanup", "release"} => block[c] = "constructing"

InLoop(c) ==
    pc[c] = "loop" =>
        /\ constructed[c] <= count[c] /\ count[c] \in Index
        /\ BuiltUpTo(c, constructed[c]) /\ RawBehind(c, constructed[c])
        /\ PrefixTrue(c, constructed[c])

InCleanup(c) == pc[c] = "cleanup" => BuiltUpTo(c, cursor[c])

\* Memory that was given back, is about to be, or was left behind.
Vacated(c) ==
    \/ block[c] = "none"
    \/ block[c] = "constructing" /\ pc[c] \notin {"loop", "cleanup"}
    => BuiltUpTo(c, 0)

WhenLive(c) ==
    block[c] = "live" =>
        /\ count[c] \in Index /\ BuiltUpTo(c, count[c]) /\ PrefixTrue(c, count[c])

InFinalizer(c) == block[c] = "detached" => BuiltUpTo(c, cursor[c])

ResultIsPublished(c) == pc[c] = "result" => block[c] # "constructing"

CallInv(c) ==
    /\ CallOwnsBlock(c) /\ InLoop(c) /\ InCleanup(c) /\ Vacated(c)
    /\ WhenLive(c) /\ InFinalizer(c) /\ ResultIsPublished(c)

ConstructionInv == TypeOK /\ \A c \in Calls : CallInv(c)

LEMMA InitInv == Init => ConstructionInv
<1> SUFFICES ASSUME Init PROVE ConstructionInv
  OBVIOUS
<1>1. TypeOK
  BY ConstructionAssumption DEF Init, TypeOK, Raw, Index
<1>2. ASSUME NEW c \in Calls PROVE CallInv(c)
  BY ConstructionAssumption DEF Init, Raw, Index, CallInv, CallOwnsBlock, InLoop, InCleanup,
     Vacated, WhenLive, InFinalizer, ResultIsPublished, BuiltUpTo
<1> QED
  BY <1>1, <1>2 DEF ConstructionInv

\* Nothing of call c is different after the step.
Untouched(c) ==
    /\ pc'[c] = pc[c] /\ kind'[c] = kind[c] /\ count'[c] = count[c]
    /\ constructed'[c] = constructed[c] /\ prefix'[c] = prefix[c]
    /\ elem'[c] = elem[c] /\ block'[c] = block[c] /\ cursor'[c] = cursor[c]

LEMMA UntouchedKeepsInv ==
    ASSUME NEW c \in Calls, CallInv(c), Untouched(c) PROVE CallInv(c)'
BY DEF Untouched, CallInv, CallOwnsBlock, InLoop, InCleanup, Vacated, WhenLive, InFinalizer,
   ResultIsPublished, BuiltUpTo, RawBehind, PrefixTrue

\* A step of one call is a step of that call's block only.
LEMMA StepIsLocal ==
    ASSUME TypeOK, NEW c \in Calls, Call(c) \/ Finalize(c), NEW d \in Calls, d # c
    PROVE  Untouched(d)
<1> USE DEF TypeOK, Untouched
<1>1. CASE EmptyArray(c) BY <1>1 DEF EmptyArray
<1>2. CASE AllocationFails(c) BY <1>2 DEF AllocationFails
<1>3. ASSUME NEW n \in Index, Allocate(c, n) PROVE Untouched(d) BY <1>3 DEF Allocate
<1>4. CASE Construct(c) BY <1>4 DEF Construct
<1>5. CASE ConstructThrows(c) BY <1>5 DEF ConstructThrows
<1>6. CASE Cleanup(c) BY <1>6 DEF Cleanup, DestroyElement
<1>7. CASE release_unconstructed(c) BY <1>7 DEF release_unconstructed
<1>8. CASE finish_construction(c) BY <1>8 DEF finish_construction
<1>9. CASE Return(c) BY <1>9 DEF Return
<1>10. CASE ToggleRegistration(c) BY <1>10 DEF ToggleRegistration
<1>11. CASE Finalize(c) BY <1>11 DEF Finalize, DestroyElement
<1> QED
  BY <1>1, <1>2, <1>3, <1>4, <1>5, <1>6, <1>7, <1>8, <1>9, <1>10, <1>11 DEF Call
-------------------------------------------------------------------------------
LEMMA DestroyElementTypes ==
    ASSUME TypeOK, NEW c \in Calls, DestroyElement(c)
    PROVE  /\ cursor' \in [Calls -> 0..MaxCount]
           /\ elem' \in [Calls -> [Index -> {"raw", "built", "gone", "corrupt"}]]
<1>1. cursor[c] \in Nat /\ cursor[c] - 1 \in 0..MaxCount
  BY ConstructionAssumption DEF TypeOK, DestroyElement
<1>2. cursor' \in [Calls -> 0..MaxCount]
  BY <1>1 DEF TypeOK, DestroyElement
<1>3. elem' \in [Calls -> [Index -> {"raw", "built", "gone", "corrupt"}]]
  BY DEF TypeOK, DestroyElement
<1> QED
  BY <1>2, <1>3

LEMMA TypeStep == ASSUME TypeOK, [Next]_vars PROVE TypeOK'
<1> USE ConstructionAssumption DEF TypeOK, Index
<1>1. CASE UNCHANGED vars
  BY <1>1 DEF vars
<1>2. ASSUME NEW c \in Calls, Call(c) \/ Finalize(c) PROVE TypeOK'
  <2>1. CASE EmptyArray(c)
    BY <2>1 DEF EmptyArray
  <2>2. CASE AllocationFails(c)
    BY <2>2 DEF AllocationFails, Failed
  <2>3. ASSUME NEW n \in Index, Allocate(c, n) PROVE TypeOK'
    BY <2>3 DEF Allocate, Raw
  <2>4. CASE Construct(c)
    BY <2>4 DEF Construct, BuildElement
  <2>5. CASE ConstructThrows(c)
    BY <2>5 DEF ConstructThrows
  <2>6. CASE Cleanup(c)
    <3>1. CASE cursor[c] > 0
      BY <2>6, <3>1, DestroyElementTypes DEF Cleanup, DestroyElement
    <3>2. CASE ~(cursor[c] > 0)
      BY <2>6, <3>2 DEF Cleanup
    <3> QED
      BY <3>1, <3>2
  <2>7. CASE release_unconstructed(c)
    BY <2>7 DEF release_unconstructed, Failed
  <2>8. CASE finish_construction(c)
    BY <2>8 DEF finish_construction
  <2>9. CASE Return(c)
    BY <2>9 DEF Return
  <2>10. CASE ToggleRegistration(c)
    BY <2>10 DEF ToggleRegistration
  <2>11. CASE Finalize(c)
    <3>1. CASE cursor[c] > 0
      BY <2>11, <3>1, DestroyElementTypes DEF Finalize, DestroyElement
    <3>2. CASE ~(cursor[c] > 0)
      BY <2>11, <3>2 DEF Finalize
    <3> QED
      BY <3>1, <3>2
  <2> QED
    BY <1>2, <2>1, <2>2, <2>3, <2>4, <2>5, <2>6, <2>7, <2>8, <2>9, <2>10, <2>11 DEF Call
<1>3. CASE collect
  BY <1>3 DEF collect, Detach
<1>4. CASE shutdown
  BY <1>4 DEF shutdown, Detach
<1> QED
  BY <1>1, <1>2, <1>3, <1>4 DEF Next

\* One pass of either destructor loop takes the last existing element and
\* leaves the others.
LEMMA DestroyLast ==
    ASSUME TypeOK, NEW c \in Calls, BuiltUpTo(c, cursor[c]), DestroyElement(c)
    PROVE  BuiltUpTo(c, cursor[c])'
<1> DEFINE k == cursor[c]
<1>1. k \in Index /\ cursor'[c] = k - 1
  BY ConstructionAssumption DEF TypeOK, DestroyElement, Index
<1>2. elem[c][k] = "built"
  BY <1>1 DEF BuiltUpTo, Index
<1>3. elem'[c] = [elem[c] EXCEPT ![k] = "gone"]
  BY <1>1, <1>2 DEF TypeOK, DestroyElement
<1>4. ASSUME NEW i \in Index
      PROVE  IF i <= k - 1 THEN elem'[c][i] = "built" ELSE elem'[c][i] \in {"raw", "gone"}
  BY <1>1, <1>3, ConstructionAssumption DEF BuiltUpTo, TypeOK, Index
<1> QED
  BY <1>1, <1>4 DEF BuiltUpTo

\* The step of a call, or of the finalizer of its block, keeps the invariant of
\* that block.
LEMMA StepKeepsOwnInv ==
    ASSUME TypeOK, NEW c \in Calls, CallInv(c), Call(c) \/ Finalize(c)
    PROVE  CallInv(c)'
<1> USE DEF CallInv, CallOwnsBlock, InLoop, InCleanup, Vacated, WhenLive, InFinalizer,
            ResultIsPublished, TypeOK
<1>1. CASE EmptyArray(c)
  BY <1>1 DEF EmptyArray, BuiltUpTo, PrefixTrue
<1>2. CASE AllocationFails(c)
  BY <1>2 DEF AllocationFails, Failed, BuiltUpTo, PrefixTrue
<1>3. ASSUME NEW n \in Index, Allocate(c, n) PROVE CallInv(c)'
  <2>1. /\ pc'[c] = "loop" /\ block'[c] = "constructing" /\ count'[c] = n
        /\ constructed'[c] = 0 /\ prefix'[c] = 0 /\ elem'[c] = Raw /\ kind' = kind
    BY <1>3 DEF Allocate
  <2>2. BuiltUpTo(c, 0)' /\ RawBehind(c, 0)'
    BY <2>1, ConstructionAssumption DEF BuiltUpTo, RawBehind, Raw, Index
  <2>3. PrefixTrue(c, 0)'
    BY <1>3, <2>1 DEF Allocate, PrefixTrue
  <2> QED
    BY <2>1, <2>2, <2>3, ConstructionAssumption DEF Index, BuiltUpTo, RawBehind, PrefixTrue
<1>4. CASE Construct(c)
  <2> DEFINE k == constructed[c]
  <2>1. /\ pc[c] = "loop" /\ pc' = pc /\ block' = block /\ kind' = kind /\ count' = count
        /\ k \in Nat /\ k + 1 \in Index /\ k < count[c] /\ constructed'[c] = k + 1
    BY <1>4, ConstructionAssumption DEF Construct, Index
  <2>2. elem[c][k + 1] = "raw"
    BY <2>1, ConstructionAssumption DEF RawBehind, Index
  <2>3. elem'[c] = [elem[c] EXCEPT ![k + 1] = "built"]
    BY <1>4, <2>1, <2>2 DEF Construct, BuildElement
  <2>4. BuiltUpTo(c, k) /\ RawBehind(c, k) /\ PrefixTrue(c, k)
    BY <2>1
  <2>5. BuiltUpTo(c, constructed[c])'
    BY <2>1, <2>3, <2>4, ConstructionAssumption DEF BuiltUpTo, Index
  <2>6. RawBehind(c, constructed[c])'
    BY <2>1, <2>3, <2>4, ConstructionAssumption DEF RawBehind, Index
  <2>7. PrefixTrue(c, constructed[c])'
    BY <1>4, <2>1, <2>4 DEF Construct, PrefixTrue
  <2>8. InLoop(c)'
    BY <2>1, <2>5, <2>6, <2>7, ConstructionAssumption DEF Index
  <2> QED
    BY <2>1, <2>8
<1>5. CASE ConstructThrows(c)
  <2>1. /\ pc[c] = "loop" /\ block' = block /\ elem' = elem /\ kind' = kind
        /\ pc'[c] = (IF kind[c].array THEN "cleanup" ELSE "release")
        /\ kind[c].array => cursor'[c] = constructed[c]
        /\ ~kind[c].array => constructed[c] = 0
    BY <1>5, ConstructionAssumption DEF ConstructThrows, PrefixTrue
  <2>2. kind[c].array => BuiltUpTo(c, cursor[c])'
    BY <2>1 DEF BuiltUpTo
  <2>3. ~kind[c].array => BuiltUpTo(c, 0)'
    BY <2>1 DEF BuiltUpTo
  <2> QED
    BY <2>1, <2>2, <2>3
<1>6. CASE Cleanup(c)
  <2>1. CASE cursor[c] > 0
    <3>1. DestroyElement(c) /\ pc' = pc /\ block' = block /\ pc[c] = "cleanup"
      BY <1>6, <2>1 DEF Cleanup
    <3> QED
      BY <3>1, DestroyLast
  <2>2. CASE ~(cursor[c] > 0)
    <3>1. /\ pc[c] = "cleanup" /\ pc'[c] = "release" /\ block' = block /\ elem' = elem
          /\ cursor[c] = 0
      BY <1>6, <2>2, ConstructionAssumption DEF Cleanup
    <3>2. BuiltUpTo(c, 0)'
      BY <3>1 DEF BuiltUpTo
    <3> QED
      BY <3>1, <3>2
  <2> QED
    BY <2>1, <2>2
<1>7. CASE release_unconstructed(c)
  <2>1. /\ pc[c] = "release" /\ pc'[c] \in {"null", "threw"} /\ elem' = elem
        /\ block'[c] \in {"none", "constructing"}
    BY <1>7 DEF release_unconstructed, Failed
  <2>2. BuiltUpTo(c, 0)'
    BY <2>1 DEF BuiltUpTo
  <2> QED
    BY <2>1, <2>2
<1>8. CASE finish_construction(c)
  <2>1. /\ pc[c] = "loop" /\ pc'[c] = "result" /\ block'[c] = "live" /\ elem' = elem
        /\ count' = count /\ constructed[c] = count[c] /\ kind' = kind /\ prefix' = prefix
    BY <1>8 DEF finish_construction
  <2>2. BuiltUpTo(c, count[c])' /\ PrefixTrue(c, count[c])'
    BY <2>1 DEF BuiltUpTo, PrefixTrue
  <2> QED
    BY <2>1, <2>2
<1>9. CASE Return(c)
  <2>1. /\ pc[c] \in {"result", "null", "threw"} /\ pc'[c] = "idle" /\ block' = block
        /\ elem' = elem /\ count' = count /\ prefix' = prefix /\ cursor' = cursor
        /\ block[c] # "none" => kind' = kind
    BY <1>9 DEF Return
  <2>2. /\ BuiltUpTo(c, 0)' = BuiltUpTo(c, 0) /\ BuiltUpTo(c, cursor[c])' = BuiltUpTo(c, cursor[c])
        /\ BuiltUpTo(c, count[c])' = BuiltUpTo(c, count[c])
    BY <2>1 DEF BuiltUpTo
  <2>3. block[c] = "live" => PrefixTrue(c, count[c])' = PrefixTrue(c, count[c])
    BY <2>1 DEF PrefixTrue
  <2> QED
    BY <2>1, <2>2, <2>3
<1>10. CASE ToggleRegistration(c)
  <2>1. Untouched(c)
    BY <1>10 DEF ToggleRegistration, Untouched
  <2> QED
    BY <2>1, UntouchedKeepsInv
<1>11. CASE Finalize(c)
  <2>1. CASE cursor[c] > 0
    <3>1. DestroyElement(c) /\ pc' = pc /\ block' = block /\ block[c] = "detached"
      BY <1>11, <2>1 DEF Finalize
    <3> QED
      BY <3>1, DestroyLast
  <2>2. CASE ~(cursor[c] > 0)
    <3>1. /\ block[c] = "detached" /\ block'[c] = "none" /\ pc' = pc /\ elem' = elem
          /\ cursor[c] = 0
      BY <1>11, <2>2, ConstructionAssumption DEF Finalize
    <3>2. BuiltUpTo(c, 0)'
      BY <3>1 DEF BuiltUpTo
    <3> QED
      BY <3>1, <3>2
  <2> QED
    BY <2>1, <2>2
<1> QED
  BY <1>1, <1>2, <1>3, <1>4, <1>5, <1>6, <1>7, <1>8, <1>9, <1>10, <1>11 DEF Call

\* The collector detaches finished blocks only, and their destructors start
\* with what exists.
LEMMA DetachKeepsInv ==
    ASSUME TypeOK, NEW S \in SUBSET Calls, \A c \in S : block[c] = "live", Detach(S),
           NEW c \in Calls, CallInv(c)
    PROVE  CallInv(c)'
<1>1. CASE c \notin S
  <2>1. Untouched(c)
    BY <1>1 DEF Detach, Untouched
  <2> QED
    BY <2>1, UntouchedKeepsInv
<1>2. CASE c \in S
  <2>1. /\ block[c] = "live" /\ block'[c] = "detached" /\ pc' = pc /\ elem' = elem
        /\ cursor'[c] = (IF kind[c].array THEN prefix[c] ELSE 1)
    BY <1>2 DEF Detach
  <2>2. BuiltUpTo(c, count[c]) /\ PrefixTrue(c, count[c])
    BY <2>1 DEF CallInv, WhenLive
  <2>3. cursor'[c] = count[c]
    BY <2>1, <2>2 DEF PrefixTrue
  <2>4. BuiltUpTo(c, cursor[c])'
    BY <2>1, <2>2, <2>3 DEF BuiltUpTo
  <2> QED
    BY <2>1, <2>4 DEF CallInv, CallOwnsBlock, InLoop, InCleanup, Vacated, WhenLive,
       InFinalizer, ResultIsPublished
<1> QED
  BY <1>1, <1>2

LEMMA InvStep == ASSUME ConstructionInv, [Next]_vars PROVE ConstructionInv'
<1>1. TypeOK'
  BY TypeStep DEF ConstructionInv
<1>2. ASSUME NEW c \in Calls PROVE CallInv(c)'
  <2> USE DEF ConstructionInv
  <2>1. CASE UNCHANGED vars
    <3>1. Untouched(c)
      BY <2>1 DEF vars, Untouched
    <3> QED
      BY <3>1, UntouchedKeepsInv
  <2>2. ASSUME NEW d \in Calls, Call(d) \/ Finalize(d) PROVE CallInv(c)'
    <3>1. CASE c = d
      BY <2>2, <3>1, StepKeepsOwnInv
    <3>2. CASE c # d
      BY <2>2, <3>2, StepIsLocal, UntouchedKeepsInv
    <3> QED
      BY <3>1, <3>2
  <2>3. CASE collect
    <3> DEFINE dead == {d \in Calls : block[d] = "live" /\ pc[d] # "result"}
    <3>1. Detach(dead)
      BY <2>3 DEF collect
    <3>2. dead \in SUBSET Calls /\ \A d \in dead : block[d] = "live"
      OBVIOUS
    <3> HIDE DEF dead
    <3> QED
      BY <3>1, <3>2, DetachKeepsInv
  <2>4. CASE shutdown
    <3> DEFINE all == {d \in Calls : block[d] = "live"}
    <3>1. Detach(all)
      BY <2>4 DEF shutdown
    <3>2. all \in SUBSET Calls /\ \A d \in all : block[d] = "live"
      OBVIOUS
    <3> HIDE DEF all
    <3> QED
      BY <3>1, <3>2, DetachKeepsInv
  <2> QED
    BY <2>1, <2>2, <2>3, <2>4 DEF Next
<1> QED
  BY <1>1, <1>2 DEF ConstructionInv

LEMMA Invariance == Spec => []ConstructionInv
<1>1. ConstructionInv /\ [Next]_vars => ConstructionInv'
  BY InvStep
<1> QED
  BY InitInv, <1>1, PTL DEF Spec

-------------------------------------------------------------------------------
(* The results *)

\* Where the elements of a block end, by who works on it.
LEMMA BuiltIsPrefix ==
    ASSUME ConstructionInv, NEW c \in Calls
    PROVE  \E k \in 0..MaxCount : BuiltUpTo(c, k)
<1> USE ConstructionAssumption DEF ConstructionInv, CallInv, TypeOK
<1>1. CASE block[c] = "none"
  BY <1>1 DEF Vacated
<1>2. CASE block[c] = "live"
  BY <1>2 DEF WhenLive
<1>3. CASE block[c] = "detached"
  BY <1>3 DEF InFinalizer
<1>4. CASE block[c] = "constructing"
  <2>1. CASE pc[c] = "loop"
    BY <2>1 DEF InLoop
  <2>2. CASE pc[c] = "cleanup"
    BY <2>2 DEF InCleanup
  <2>3. CASE pc[c] \notin {"loop", "cleanup"}
    BY <1>4, <2>3 DEF Vacated
  <2> QED
    BY <2>1, <2>2, <2>3
<1> QED
  BY <1>1, <1>2, <1>3, <1>4

LEMMA BuiltOf ==
    ASSUME NEW c \in Calls, NEW k \in 0..MaxCount, BuiltUpTo(c, k)
    PROVE  Built(c) = 1..k
BY ConstructionAssumption DEF BuiltUpTo, Built, Index

\* Type correctness of the calls of gc_new and construct_array and of their
\* blocks; in particular no loop leaves the array.
THEOREM TypeCorrect == Spec => []TypeOK
<1>1. ConstructionInv => TypeOK
  BY DEF ConstructionInv
<1> QED
  BY Invariance, <1>1, PTL

\* For every array length, whatever constructor throws and whenever collections
\* and shutdowns come: ArrayDestructor::destroy and destroy_object run on
\* exactly the elements whose constructors have finished, once each.
THEOREM ElementsAreNotCorrupted == Spec => []NoElementCorrupted
<1>1. ConstructionInv => NoElementCorrupted
  <2> SUFFICES ASSUME ConstructionInv, NEW c \in Calls, NEW i \in Index
               PROVE  elem[c][i] # "corrupt"
    BY DEF NoElementCorrupted
  <2>1. PICK k \in 0..MaxCount : BuiltUpTo(c, k)
    BY BuiltIsPrefix
  <2> QED
    BY <2>1 DEF BuiltUpTo
<1> QED
  BY Invariance, <1>1, PTL

\* The loops of construct_array and ArrayDestructor::destroy destroy elements in
\* the reverse of the order of their construction.
THEOREM DestructionReversesConstruction == Spec => []ReverseOrder
<1>1. ConstructionInv => ReverseOrder
  BY BuiltIsPrefix, BuiltOf DEF ReverseOrder
<1> QED
  BY Invariance, <1>1, PTL

\* No element is left in memory that release_unconstructed or the collector
\* gives back, or that a failed call leaves behind.
THEOREM NoElementLeaks == Spec => []NothingLeaked
<1>1. ConstructionInv => NothingLeaked
  <2> SUFFICES ASSUME ConstructionInv, NEW c \in Calls,
                      \/ block[c] = "none"
                      \/ block[c] = "constructing" /\ pc[c] \in {"null", "threw", "idle"}
               PROVE  Built(c) = {}
    BY DEF NothingLeaked
  <2>1. BuiltUpTo(c, 0)
    BY DEF ConstructionInv, CallInv, Vacated
  <2>2. Built(c) = 1..0
    BY <2>1, BuiltOf, ConstructionAssumption
  <2> QED
    BY <2>2
<1> QED
  BY Invariance, <1>1, PTL

\* The object or array whose pointer gc_new returns has all its elements.
THEOREM ResultsAreComplete == Spec => []ResultComplete
<1>1. ConstructionInv => ResultComplete
  BY BuiltOf, ConstructionAssumption
     DEF ResultComplete, ConstructionInv, CallInv, WhenLive, Index
<1> QED
  BY Invariance, <1>1, PTL

-------------------------------------------------------------------------------
(* Where objects and arrays lie: powers of two, and the arithmetic of Layout *)

\* A non-empty set of natural numbers has a least one.
LEMMA Least ==
    ASSUME NEW T \in SUBSET Nat, T # {}
    PROVE  \E x \in T : \A y \in T : ~(y < x)
<1> DEFINE R == OpToRel(<, Nat)
<1>1. IsWellFoundedOn(R, Nat)
  BY NatLessThanWellFounded, Zenon
<1>2. \A y, x \in T : <<y, x>> \in R <=> y < x
  BY DEF OpToRel
<1> HIDE DEF R
<1>3. \E x \in T : \A y \in T : ~(<<y, x>> \in R)
  BY <1>1, WFMin
<1> QED
  BY <1>2, <1>3

\* Every power is positive.
LEMMA PowerPositive ==
    ASSUME NEW k \in 0..Bits
    PROVE  2^k \in Nat \ {0}
<1> DEFINE Good(j) == 2^j \in Nat \ {0}
           Bad == {j \in 0..Bits : ~Good(j)}
<1>0. Bits \in Nat
  BY LayoutAssumption
<1>1. Good(0)
  OBVIOUS
<1>2. ASSUME NEW x \in 1..Bits, Good(x - 1) PROVE Good(x)
  <2>1. 2^x = 2 * 2^(x - 1)
    BY PowersDouble
  <2> QED
    BY <1>2, <2>1
<1> HIDE DEF Good
<1>3. ASSUME Bad # {} PROVE FALSE
  <2>1. Bad \in SUBSET Nat
    BY <1>0
  <2>2. \E x \in Bad : \A y \in Bad : ~(y < x)
    <3> HIDE DEF Bad
    <3> QED
      BY <1>3, <2>1, Least
  <2>3. PICK x \in Bad : \A y \in Bad : ~(y < x)
    BY <2>2
  <2>4. x \in 1..Bits /\ x - 1 \in 0..Bits /\ x - 1 < x
    BY <1>0, <1>1, <2>3
  <2> QED
    BY <1>2, <2>3, <2>4
<1> QED
  BY <1>3 DEF Good

\* A larger power is a multiple of a smaller one.
LEMMA PowerDivides ==
    ASSUME NEW j \in 0..Bits, NEW k \in j..Bits
    PROVE  \E m \in Nat \ {0} : 2^k = 2^j * m
<1> DEFINE Good(i) == \E m \in Nat \ {0} : 2^i = 2^j * m
           Bad == {i \in j..Bits : ~Good(i)}
<1>0. 2^j \in Nat /\ Bits \in Nat
  BY LayoutAssumption, PowerPositive
<1>1. Good(j)
  <2>1. 2^j = 2^j * 1
    BY <1>0
  <2> QED
    BY <2>1
<1>2. ASSUME NEW x \in 1..Bits, Good(x - 1) PROVE Good(x)
  <2>1. PICK m \in Nat \ {0} : 2^(x - 1) = 2^j * m
    BY <1>2
  <2>2. 2^x = 2 * 2^(x - 1)
    BY PowersDouble
  <2>3. 2^x = 2^j * (2 * m) /\ 2 * m \in Nat \ {0}
    BY <1>0, <2>1, <2>2
  <2> QED
    BY <2>3
<1> HIDE DEF Good
<1>3. ASSUME Bad # {} PROVE FALSE
  <2>1. Bad \in SUBSET Nat
    BY <1>0
  <2>2. \E x \in Bad : \A y \in Bad : ~(y < x)
    <3> HIDE DEF Bad
    <3> QED
      BY <1>3, <2>1, Least
  <2>3. PICK x \in Bad : \A y \in Bad : ~(y < x)
    BY <2>2
  <2>4. x # j
    BY <1>1, <2>3
  <2>5. x \in 1..Bits /\ x - 1 \in j..Bits /\ x - 1 < x
    BY <1>0, <2>3, <2>4
  <2> QED
    BY <1>2, <2>3, <2>5
<1> QED
  BY <1>3 DEF Good

\* The naturals p divides.
Divides(p, a) == \E m \in Nat : a = p * m

\* The powers divide one another and the size of the address space, of which
\* each is at most half.
LEMMA PowersFacts ==
    /\ MaxWord \in Nat
    /\ \A p \in Powers : p \in 1..MaxWord /\ 2 * p <= MaxWord + 1 /\ Divides(p, MaxWord + 1)
    /\ \A p, q \in Powers : p <= q => Divides(p, q)
<1>0. Bits \in Nat /\ Bits > 0
  BY LayoutAssumption
<1>1. MaxWord + 1 = 2^Bits /\ MaxWord \in Nat
  <2>1. 2^Bits \in Nat \ {0}
    BY <1>0, PowerPositive
  <2> QED
    BY <2>1 DEF MaxWord
<1>2. ASSUME NEW p \in Powers
      PROVE  p \in 1..MaxWord /\ 2 * p <= MaxWord + 1 /\ Divides(p, MaxWord + 1)
  <2>1. PICK j \in 0..(Bits - 1) : p = 2^j
    BY <1>2 DEF Powers
  <2>2. j \in 0..Bits /\ j + 1 \in 1..Bits /\ Bits \in j..Bits /\ Bits \in (j + 1)..Bits
    BY <1>0, <2>1
  <2>3. p \in Nat \ {0}
    BY <2>1, <2>2, PowerPositive
  <2>4. 2^(j + 1) = 2 * p
    BY <2>1, <2>2, PowersDouble
  <2>5. PICK m \in Nat \ {0} : 2^Bits = 2^(j + 1) * m
    <3> DEFINE i == j + 1
    <3>1. i \in 0..Bits /\ Bits \in i..Bits
      BY <1>0, <2>2
    <3> HIDE DEF i
    <3>2. \E m \in Nat \ {0} : 2^Bits = 2^i * m
      BY <3>1, PowerDivides
    <3> QED
      BY <3>2 DEF i
  <2>6. MaxWord + 1 = p * (2 * m) /\ 2 * m \in Nat
    BY <1>1, <2>3, <2>4, <2>5
  <2>7. 2 * p <= MaxWord + 1
    BY <1>1, <2>3, <2>4, <2>5
  <2>8. Divides(p, MaxWord + 1)
    BY <2>6, Zenon DEF Divides
  <2> QED
    BY <1>1, <2>3, <2>7, <2>8
<1>3. ASSUME NEW p \in Powers, NEW q \in Powers, p <= q PROVE Divides(p, q)
  <2>1. PICK j \in 0..(Bits - 1) : p = 2^j
    BY <1>3 DEF Powers
  <2>2. PICK k \in 0..(Bits - 1) : q = 2^k
    BY <1>3 DEF Powers
  <2>3. j \in 0..Bits /\ k \in 0..Bits /\ p \in Nat \ {0} /\ q \in Nat \ {0}
    BY <1>0, <2>1, <2>2, PowerPositive
  <2>4. CASE j <= k
    <3>1. k \in j..Bits
      BY <1>0, <2>2, <2>3, <2>4
    <3>2. PICK m \in Nat \ {0} : 2^k = 2^j * m
      BY <2>3, <3>1, PowerDivides
    <3> QED
      BY <2>1, <2>2, <3>2 DEF Divides
  <2>5. CASE k < j
    <3>1. j \in k..Bits
      BY <1>0, <2>1, <2>3, <2>5
    <3>2. PICK m \in Nat \ {0} : p = q * m
      BY <2>1, <2>2, <2>3, <3>1, PowerDivides
    <3>3. p >= q
      BY <2>3, <3>2
    <3>4. q = p * 1
      BY <1>3, <2>3, <3>3
    <3> QED
      BY <3>4 DEF Divides
  <2> QED
    BY <2>3, <2>4, <2>5
<1> QED
  BY <1>1, <1>2, <1>3

\* Addresses and offsets on a boundary add up to an address on it.
LEMMA DividesSum ==
    ASSUME NEW p \in Nat, NEW a \in Nat, NEW b \in Nat, Divides(p, a), Divides(p, b)
    PROVE  Divides(p, a + b)
<1>1. PICK m \in Nat : a = p * m
  BY DEF Divides
<1>2. PICK n \in Nat : b = p * n
  BY DEF Divides
<1>3. a + b = p * (m + n) /\ m + n \in Nat
  BY <1>1, <1>2
<1> QED
  BY <1>3 DEF Divides

\* What is aligned for a larger power is aligned for a smaller one.
LEMMA DividesChain ==
    ASSUME NEW p \in Nat, NEW q \in Nat, NEW a \in Nat, Divides(p, q), Divides(q, a)
    PROVE  Divides(p, a)
<1>1. PICK m \in Nat : q = p * m
  BY DEF Divides
<1>2. PICK n \in Nat : a = q * n
  BY DEF Divides
<1>3. a = p * (m * n) /\ m * n \in Nat
  BY <1>1, <1>2
<1> QED
  BY <1>3 DEF Divides

\* A multiple leaves no remainder.
LEMMA DividesRemainder ==
    ASSUME NEW p \in Nat \ {0}, NEW a \in Nat, Divides(p, a)
    PROVE  a % p = 0
<1>1. PICK m \in Nat : a = p * m
  BY DEF Divides
<1>2. (p * m) % p = 0
  OBVIOUS
<1> QED
  BY <1>1, <1>2

\* A sum that fits is exact.
LEMMA ExactSum ==
    ASSUME NEW a \in Nat, NEW b \in Nat
    PROVE  a + b <= MaxWord => Plus(a, b) = a + b
  BY PowersFacts DEF Plus

\* The same for products.
LEMMA ExactProduct ==
    ASSUME NEW a \in Nat, NEW b \in Nat
    PROVE  a * b <= MaxWord => Times(a, b) = a * b
<1>1. a * b \in Nat
  OBVIOUS
<1> DEFINE c == a * b
<1>2. c \in Nat
  BY <1>1
<1> HIDE DEF c
<1>3. c <= MaxWord => c % (MaxWord + 1) = c
  BY <1>2, PowersFacts
<1> QED
  BY <1>3 DEF Times, c

\* The test by division says exactly when a product does not fit.
LEMMA MultiplyCheck ==
    ASSUME NEW a \in Nat, NEW b \in Nat
    PROVE  multiply_would_overflow(a, b) <=> a * b > MaxWord
<1>0. MaxWord \in Nat
  BY PowersFacts
<1>1. CASE b = 0
  BY <1>0, <1>1 DEF multiply_would_overflow
<1>2. CASE b > 0
  <2> DEFINE q == MaxWord \div b
             r == MaxWord % b
  <2>1. q \in Nat /\ r \in 0..(b - 1) /\ MaxWord = b * q + r
    BY <1>0, <1>2
  <2>2. multiply_would_overflow(a, b) <=> a > q
    BY <1>2 DEF multiply_would_overflow
  <2> HIDE DEF q, r
  <2>3. ASSUME a > q PROVE a * b > MaxWord
    <3>1. PICK d \in Nat : a = q + 1 + d
      <4>1. a - q - 1 \in Nat /\ a = q + 1 + (a - q - 1)
        BY <2>1, <2>3
      <4> QED
        BY <4>1
    <3>2. a * b = b * q + b + d * b /\ d * b >= 0
      BY <2>1, <3>1
    <3> QED
      BY <1>2, <2>1, <3>2
  <2>4. ASSUME ~(a > q) PROVE ~(a * b > MaxWord)
    <3>1. PICK d \in Nat : q = a + d
      <4>1. q - a \in Nat /\ q = a + (q - a)
        BY <2>1, <2>4
      <4> QED
        BY <4>1
    <3>2. b * q = a * b + b * d /\ b * d >= 0
      BY <2>1, <3>1
    <3> QED
      BY <1>0, <1>2, <2>1, <3>2
  <2> QED
    BY <2>2, <2>3, <2>4
<1> QED
  BY <1>1, <1>2

\* Rounding a power up to a power gives the larger of the two, and the sum that
\* the mask is applied to never wraps.
LEMMA RoundsUp ==
    ASSUME NEW v \in Powers, NEW a \in Powers
    PROVE  RoundUp(v, a) = Larger(v, a)
<1>1. /\ v \in Nat /\ a \in Nat /\ v >= 1 /\ a >= 1
      /\ v + (a - 1) <= MaxWord /\ MaxWord \in Nat
  BY PowersFacts
<1>2. Plus(v, a - 1) = v + (a - 1)
  BY <1>1, ExactSum
<1>3. CASE a <= v
  <2>1. PICK m \in Nat : v = a * m
    BY <1>3, PowersFacts DEF Divides
  <2>2. (a * m + (a - 1)) % a = a - 1
    BY <1>1
  <2>3. (v + (a - 1)) % a = a - 1
    BY <2>1, <2>2
  <2> QED
    BY <1>1, <1>2, <1>3, <2>3 DEF RoundUp, Larger
<1>4. CASE v < a
  <2>1. (a * 1 + (v - 1)) % a = v - 1
    BY <1>1, <1>4
  <2>2. (v + (a - 1)) % a = v - 1
    <3>1. v + (a - 1) = a * 1 + (v - 1)
      BY <1>1
    <3> QED
      BY <2>1, <3>1
  <2> QED
    BY <1>1, <1>2, <1>4, <2>2 DEF RoundUp, Larger
<1> QED
  BY <1>1, <1>3, <1>4

-------------------------------------------------------------------------------
(* The invariant of an allocation *)

Count == IF elements = Single THEN 1 ELSE elements
Front == IF elements = Single THEN 0 ELSE Larger(WordSize, type.alignment)
PayloadAlignment == IF elements = Single THEN type.alignment ELSE Larger(type.alignment, WordSize)
BlockAlignment == Larger(PayloadAlignment, MaxAlign)
Offset == Larger(HeaderSize, BlockAlignment)

\* The fields of a header, read back.
Says(h, n, o, a) == h.size = n /\ h.payload_offset = o /\ 2^h.alignment_shift = a

\* What malloc_internal was asked for is the true size of the payload.
Asked ==
    /\ Count >= 1
    /\ prefix_size = Front
    /\ ask = [size |-> Front + Count * type.size, alignment |-> PayloadAlignment]
    /\ ask.size <= MaxWord

\* The block, and what of it the header says.
Placed ==
    /\ Offset <= MaxOffset
    /\ raw.base \in Nat /\ Divides(BlockAlignment, raw.base)
    /\ raw.alignment = BlockAlignment
    /\ raw.size = Offset + ask.size
    /\ raw.base + raw.size <= MaxWord
    /\ Says(header, ask.size, Offset, BlockAlignment)

LayoutInv ==
    /\ type \in Types /\ elements \in {Single} \cup (0..MaxWord)
    /\ phase \in {"call", "malloc", "allocated", "rejected"}
    /\ phase = "call" => prefix_size = 0
    /\ phase \in {"malloc", "allocated"} => Asked
    /\ phase = "allocated" => Placed
    /\ RejectsOnlyImpossible

\* The constants are as the static_asserts say, and the numbers that depend on
\* the type and the count alone are in range.
LEMMA Sizes ==
    ASSUME LayoutInv
    PROVE  /\ {HeaderSize, WordSize, MaxAlign} \subseteq Powers
           /\ HeaderSize >= WordSize /\ MaxOffset \in Nat
           /\ type.size \in Nat /\ type.size >= 1 /\ type.alignment \in Powers
           /\ Count \in Nat /\ Front \in Nat
           /\ elements # Single => Front \in Powers /\ elements \in Nat
           /\ PayloadAlignment \in Powers /\ BlockAlignment \in Powers /\ Offset \in Powers
<1>1. {HeaderSize, WordSize, MaxAlign} \subseteq Powers /\ HeaderSize >= WordSize
  BY LayoutAssumption
<1>2. MaxOffset \in Nat
  <2>1. HeaderSize \in Nat
    BY <1>1, PowersFacts
  <2> QED
    BY <2>1, LayoutAssumption
<1>3. type.size \in Nat /\ type.size >= 1 /\ type.alignment \in Powers
  BY PowersFacts DEF LayoutInv, Types
<1>4. elements # Single => elements \in Nat
  BY PowersFacts DEF LayoutInv
<1>5. \A p, q \in Powers : Larger(p, q) \in Powers /\ p \in Nat
  BY PowersFacts DEF Larger
<1> QED
  BY <1>1, <1>2, <1>3, <1>4, <1>5 DEF Count, Front, PayloadAlignment, BlockAlignment, Offset

\* gc_new asks for one object.
LEMMA NewKeeps ==
    ASSUME LayoutInv, gc_new
    PROVE  LayoutInv'
<1> USE DEF gc_new
<1>1. type' = type /\ elements' = Single /\ elements = Single /\ prefix_size' = 0 /\ phase' = "malloc"
  BY DEF LayoutInv
<1>2. Count' = 1 /\ Front' = 0 /\ PayloadAlignment' = type.alignment
  BY <1>1 DEF Count, Front, PayloadAlignment
<1>3. type.size \in 1..MaxWord /\ ask' = [size |-> type.size, alignment |-> type.alignment]
  BY DEF LayoutInv, Types
<1>4. 0 + 1 * type.size = type.size /\ type.size <= MaxWord /\ 1 >= 1
  BY <1>3, PowersFacts
<1>5. Asked'
  BY <1>1, <1>2, <1>3, <1>4 DEF Asked
<1>6. RejectsOnlyImpossible'
  BY <1>1 DEF RejectsOnlyImpossible
<1> QED
  BY <1>1, <1>5, <1>6 DEF LayoutInv

\* construct_array turns down what does not fit, and asks for the rest exactly.
LEMMA ArrayKeeps ==
    ASSUME LayoutInv, construct_array
    PROVE  LayoutInv'
<1> DEFINE elems_size == Times(type.size, elements)
           refused == \/ elements = 0
                      \/ multiply_would_overflow(type.size, elements)
                      \/ add_would_overflow(array_elements_offset, elems_size)
<1>0. /\ elements # Single /\ elements \in Nat /\ Count = elements
      /\ type.size \in Nat /\ type.alignment \in Powers /\ WordSize \in Powers
      /\ HeaderSize \in Powers /\ MaxAlign \in Powers
      /\ type.size * elements \in Nat
  BY Sizes DEF construct_array, Count
<1>1. /\ array_elements_offset = Front /\ Front \in Nat
      /\ Front = Larger(WordSize, type.alignment)
  BY <1>0, Sizes, RoundsUp DEF array_elements_offset, Front
<1>2. /\ multiply_would_overflow(type.size, elements) <=> type.size * elements > MaxWord
      /\ type.size * elements <= MaxWord => elems_size = type.size * elements
  BY <1>0, MultiplyCheck, ExactProduct
<1>3. type' = type /\ elements' = elements
  BY DEF construct_array, Reject
<1>4. MaxWord \in Nat
  BY PowersFacts
<1>5. CASE refused
  <2>1. phase' = "rejected"
    BY <1>5 DEF construct_array, Reject
  <2>2. elements = 0 \/ Front + type.size * elements > MaxWord
    <3>1. CASE type.size * elements > MaxWord
      BY <1>0, <1>1, <1>4, <3>1
    <3>2. CASE type.size * elements <= MaxWord
      BY <1>0, <1>1, <1>2, <1>4, <1>5, <3>2 DEF add_would_overflow
    <3> QED
      BY <1>0, <1>4, <3>1, <3>2
  <2>3. Larger(HeaderSize, Larger(type.alignment, MaxAlign)) \in Nat
    BY <1>0, PowersFacts DEF Larger
  <2>4. \A o \in Nat : elements = 0 \/ o + Front + elements * type.size > MaxWord
    BY <1>0, <1>1, <1>4, <2>2
  <2>5. RejectsOnlyImpossible'
    BY <1>0, <1>1, <1>3, <2>3, <2>4 DEF RejectsOnlyImpossible
  <2> QED
    BY <1>3, <2>1, <2>5 DEF LayoutInv
<1>6. CASE ~refused
  <2>1. /\ prefix_size' = array_elements_offset /\ phase' = "malloc"
        /\ ask' = [size |-> Plus(array_elements_offset, elems_size),
                   alignment |-> Larger(type.alignment, WordSize)]
    BY <1>6 DEF construct_array
  <2>2. elems_size = type.size * elements /\ elements # 0
    BY <1>0, <1>2, <1>4, <1>6
  <2>3. Front + type.size * elements <= MaxWord
    BY <1>0, <1>1, <1>4, <1>6, <2>2 DEF add_would_overflow
  <2>4. Plus(array_elements_offset, elems_size) = Front + elements * type.size
    BY <1>0, <1>1, <2>2, <2>3, ExactSum
  <2>5. Front + elements * type.size <= MaxWord /\ elements >= 1
    BY <1>0, <2>2, <2>3
  <2>6. Count' = elements /\ Front' = Front /\ PayloadAlignment' = Larger(type.alignment, WordSize)
    BY <1>0, <1>3 DEF Count, Front, PayloadAlignment
  <2>7. Asked'
    BY <1>1, <1>3, <2>1, <2>4, <2>5, <2>6 DEF Asked
  <2>8. RejectsOnlyImpossible'
    BY <2>1 DEF RejectsOnlyImpossible
  <2> QED
    BY <1>3, <2>1, <2>7, <2>8 DEF LayoutInv
<1> QED
  BY <1>5, <1>6

\* Wherever operator new finds room, the address has the alignment asked for.
LEMMA BasesAligned ==
    ASSUME NEW n \in Nat, NEW a \in Powers, NEW base \in Bases(n, a)
    PROVE  base \in Nat /\ Divides(a, base) /\ base + n <= MaxWord
<1>1. a \in Nat /\ a >= 1 /\ a <= MaxWord /\ MaxWord \in Nat
  BY PowersFacts
<1>2. base \in Nat /\ base + n <= MaxWord /\ base % a = 0
  BY <1>1 DEF Bases
<1>3. base \div a \in Nat /\ base = a * (base \div a) + (base % a)
  BY <1>1, <1>2
<1>4. base = a * (base \div a)
  BY <1>1, <1>2, <1>3
<1> QED
  BY <1>2, <1>3, <1>4 DEF Divides

\* Nothing is cut off when the header is written.
LEMMA PackIsExact ==
    ASSUME NEW n, NEW o \in Nat, o <= MaxOffset, MaxOffset \in Nat, NEW a \in Powers
    PROVE  Says(Pack(n, o, a), n, o, a)
<1>1. o % (MaxOffset + 1) = o
  OBVIOUS
<1>2. \E k \in 0..(Bits - 1) : 2^k = a
  BY DEF Powers
<1>3. 2^(CHOOSE k \in 0..(Bits - 1) : 2^k = a) = a
  BY <1>2, Zenon
<1> QED
  BY <1>1, <1>3 DEF Pack, Says

\* malloc_internal turns down what does not fit, and places the rest.
LEMMA MallocKeeps ==
    ASSUME LayoutInv, malloc_internal
    PROVE  LayoutInv'
<1> DEFINE alignment == normalize_alignment(ask.alignment)
           p_offset == RoundUp(HeaderSize, alignment)
           total_size == Plus(p_offset, ask.size)
           refused == \/ ask.size = 0 \/ ~has_single_bit(ask.alignment)
                      \/ add_would_overflow(HeaderSize, alignment - 1)
                      \/ p_offset > MaxOffset
                      \/ add_would_overflow(p_offset, ask.size)
<1>0. /\ type.size \in Nat /\ type.size >= 1 /\ Count \in Nat /\ Front \in Nat
      /\ BlockAlignment \in Powers /\ Offset \in Powers /\ HeaderSize \in Powers
      /\ type.alignment \in Powers /\ WordSize \in Powers /\ MaxAlign \in Powers
      /\ MaxOffset \in Nat
  BY Sizes
<1>1. /\ Count >= 1 /\ prefix_size = Front
      /\ ask = [size |-> Front + Count * type.size, alignment |-> PayloadAlignment]
      /\ ask.size <= MaxWord /\ Asked
  BY DEF LayoutInv, Asked, malloc_internal
<1>2. MaxWord \in Nat /\ \A p \in Powers : p \in Nat /\ p >= 1 /\ 2 * p <= MaxWord + 1
  BY PowersFacts
<1>3. ask.size = Front + Count * type.size /\ ask.size \in Nat /\ ask.size >= 1
  <2>1. Count * type.size \in Nat /\ Count * type.size >= 1
    BY <1>0, <1>1
  <2> QED
    BY <1>0, <1>1, <2>1
<1>4. alignment = BlockAlignment
  BY <1>1 DEF normalize_alignment, BlockAlignment
<1>5. p_offset = Offset
  BY <1>0, <1>4, RoundsUp DEF Offset
<1>6. type' = type /\ elements' = elements /\ ask' = ask /\ prefix_size' = prefix_size
  BY DEF malloc_internal, Reject
<1>7. /\ Count' = Count /\ Front' = Front /\ PayloadAlignment' = PayloadAlignment
      /\ BlockAlignment' = BlockAlignment /\ Offset' = Offset
  BY <1>6 DEF Count, Front, PayloadAlignment, BlockAlignment, Offset
<1>8. CASE refused
  <2>1. phase' = "rejected"
    BY <1>8 DEF malloc_internal, Reject
  <2>2. ~add_would_overflow(HeaderSize, alignment - 1) /\ has_single_bit(ask.alignment)
    BY <1>0, <1>1, <1>2, <1>4, Sizes DEF add_would_overflow, has_single_bit
  <2>3. Offset > MaxOffset \/ Offset + ask.size > MaxWord
    <3> HIDE DEF alignment, p_offset
    <3> QED
      BY <1>0, <1>2, <1>3, <1>5, <1>8, <2>2 DEF add_would_overflow
  <2>4. Offset = Larger(HeaderSize, Larger(type.alignment, MaxAlign))
    <3>1. HeaderSize \in Nat /\ type.alignment \in Nat /\ WordSize \in Nat /\ MaxAlign \in Nat
      BY <1>0, <1>2
    <3>2. HeaderSize >= WordSize
      BY Sizes
    <3> QED
      BY <3>1, <3>2 DEF Offset, BlockAlignment, PayloadAlignment, Larger
  <2>5. Offset + Front + Count * type.size = Offset + ask.size
    <3>1. Count * type.size \in Nat /\ Offset \in Nat
      BY <1>0, <1>2
    <3> QED
      BY <1>0, <1>3, <3>1
  <2>6. Offset > MaxOffset \/ Offset + Front + Count * type.size > MaxWord
    BY <2>3, <2>5
  <2>7. RejectsOnlyImpossible'
    BY <1>6, <2>4, <2>6, Zenon DEF RejectsOnlyImpossible, Count, Front
  <2> QED
    BY <1>6, <2>1, <2>7 DEF LayoutInv
<1>9. CASE ~refused
  <2>1. PICK base \in Bases(total_size, alignment) :
             /\ raw' = [base |-> base, size |-> total_size, alignment |-> alignment]
             /\ header' = Pack(ask.size, p_offset, alignment)
             /\ phase' = "allocated"
    BY <1>9 DEF malloc_internal
  <2>2. Offset <= MaxOffset /\ Offset \in Nat
    BY <1>0, <1>2, <1>5, <1>9
  <2>3. total_size = Offset + ask.size
    <3>1. Offset + ask.size <= MaxWord
      <4> HIDE DEF alignment, p_offset
      <4> QED
        BY <1>2, <1>3, <1>5, <1>9, <2>2 DEF add_would_overflow
    <3> QED
      BY <1>3, <1>5, <2>2, <3>1, ExactSum
  <2> HIDE DEF alignment, p_offset, total_size
  <2>4. base \in Nat /\ Divides(BlockAlignment, base) /\ base + total_size <= MaxWord
    BY <1>0, <1>3, <1>4, <2>1, <2>2, <2>3, BasesAligned
  <2>5. Says(header', ask.size, Offset, BlockAlignment)
    <3>1. header' = Pack(ask.size, Offset, BlockAlignment)
      BY <1>4, <1>5, <2>1, Zenon
    <3> QED
      BY <1>0, <2>2, <3>1, PackIsExact
  <2>6. Placed'
    BY <1>4, <1>6, <1>7, <2>1, <2>2, <2>3, <2>4, <2>5 DEF Placed, Divides, Says
  <2>7. Asked'
    BY <1>1, <1>6, <1>7 DEF Asked
  <2>8. RejectsOnlyImpossible'
    BY <2>1 DEF RejectsOnlyImpossible
  <2> QED
    BY <1>6, <2>1, <2>6, <2>7, <2>8 DEF LayoutInv
<1> QED
  BY <1>8, <1>9

\* Every allocation, of any width of size_t, is asked for and placed exactly.
THEOREM LayoutInvariant == LayoutSpec => []LayoutInv
<1>1. LayoutInit => LayoutInv
  BY DEF LayoutInit, LayoutInv, RejectsOnlyImpossible
<1>2. LayoutInv /\ [LayoutNext]_layoutVars => LayoutInv'
  <2> SUFFICES ASSUME LayoutInv, [LayoutNext]_layoutVars PROVE LayoutInv'
    OBVIOUS
  <2>1. CASE LayoutNext
    BY <2>1, NewKeeps, ArrayKeeps, MallocKeeps DEF LayoutNext
  <2>2. CASE UNCHANGED layoutVars
    <3> USE <2>2 DEF layoutVars
    <3>1. /\ Count' = Count /\ Front' = Front /\ PayloadAlignment' = PayloadAlignment
          /\ BlockAlignment' = BlockAlignment /\ Offset' = Offset
      BY DEF Count, Front, PayloadAlignment, BlockAlignment, Offset
    <3>2. (Asked' <=> Asked) /\ (Placed' <=> Placed)
      BY <3>1, Zenon DEF Asked, Placed, Says, Divides
    <3>3. RejectsOnlyImpossible' <=> RejectsOnlyImpossible
      BY Zenon DEF RejectsOnlyImpossible
    <3> QED
      BY <3>2, <3>3 DEF LayoutInv
  <2> QED
    BY <2>1, <2>2
<1> QED
  BY <1>1, <1>2, PTL DEF LayoutSpec

\* A request is turned down only when its true size cannot be represented, its
\* alignment does not fit the header's field, or it is for no elements.
THEOREM RejectsOnlyImpossibleAlways == LayoutSpec => []RejectsOnlyImpossible
<1>1. LayoutInv => RejectsOnlyImpossible
  BY DEF LayoutInv
<1> QED
  BY <1>1, LayoutInvariant, PTL

\* In an allocated block the header, the count prefix and the elements lie one
\* after the other without overlap or wrap-around, aligned for their types, and
\* the header gives back what operator new was called with.
THEOREM LayoutSoundAlways == LayoutSpec => []LayoutSound
<1>1. ASSUME LayoutInv, phase = "allocated"
      PROVE  /\ raw.base + HeaderSize <= payload_begin
             /\ raw.base <= payload_end /\ payload_end = raw.base + raw.size
             /\ block_allocation_size = raw.size
             /\ allocation_alignment = raw.alignment
             /\ elements # Single => prefix_size >= WordSize /\ payload_begin % WordSize = 0
             /\ payload_begin + prefix_size + Count * type.size = payload_end
             /\ Element(0) % type.alignment = 0
  <2>0. /\ type.size \in Nat /\ type.size >= 1 /\ Count \in Nat /\ Front \in Nat
        /\ BlockAlignment \in Powers /\ PayloadAlignment \in Powers /\ Offset \in Powers
        /\ type.alignment \in Powers /\ WordSize \in Powers /\ MaxAlign \in Powers
        /\ HeaderSize \in Powers
    BY <1>1, Sizes
  <2>1. Asked /\ Placed
    BY <1>1 DEF LayoutInv
  <2>2. MaxWord \in Nat /\ \A p \in Powers : p \in Nat \ {0} /\ p \in Nat
    BY PowersFacts
  <2>3. /\ ask.size = Front + Count * type.size /\ prefix_size = Front
        /\ Count * type.size \in Nat /\ ask.size \in Nat
    <3>1. Count * type.size \in Nat
      BY <2>0
    <3> QED
      BY <2>0, <2>1, <3>1 DEF Asked
  <2>4. /\ raw.base \in Nat /\ raw.alignment = BlockAlignment /\ raw.size = Offset + ask.size
        /\ raw.base + raw.size <= MaxWord /\ Offset \in Nat
        /\ header.size = ask.size /\ header.payload_offset = Offset
        /\ 2^header.alignment_shift = BlockAlignment
        /\ Divides(BlockAlignment, raw.base)
    BY <2>0, <2>1, <2>2 DEF Placed, Says
  <2>5. payload_begin = raw.base + Offset
    BY <2>2, <2>3, <2>4, ExactSum DEF payload_begin
  <2>6. payload_end = raw.base + Offset + ask.size
    BY <2>2, <2>3, <2>4, <2>5, ExactSum DEF payload_end
  <2>7. block_allocation_size = Offset + ask.size
    BY <2>2, <2>3, <2>4, ExactSum DEF block_allocation_size
  <2>8. /\ Offset >= HeaderSize /\ Offset >= BlockAlignment /\ Front + 0 = Front
        /\ BlockAlignment >= PayloadAlignment /\ PayloadAlignment >= type.alignment
        /\ elements # Single => /\ Front >= WordSize /\ Front >= type.alignment
                                /\ Front \in Powers /\ PayloadAlignment >= WordSize
    BY <1>1, <2>0, <2>2, Sizes DEF Offset, BlockAlignment, PayloadAlignment, Front, Larger
  <2>9. \A p \in Powers : p <= BlockAlignment => Divides(p, payload_begin)
    <3>1. Divides(BlockAlignment, Offset)
      BY <2>0, <2>8, PowersFacts
    <3>2. Divides(BlockAlignment, raw.base + Offset)
      BY <2>0, <2>2, <2>4, <3>1, DividesSum
    <3>3. ASSUME NEW p \in Powers, p <= BlockAlignment PROVE Divides(p, raw.base + Offset)
      <4>1. Divides(p, BlockAlignment)
        BY <2>0, <3>3, PowersFacts
      <4> QED
        BY <2>0, <2>2, <2>4, <3>2, <4>1, DividesChain
    <3> QED
      BY <2>5, <3>3
  <2>10. payload_begin \in Nat
    BY <2>4, <2>5
  <2>11. elements # Single => prefix_size >= WordSize /\ payload_begin % WordSize = 0
    <3>1. elements # Single => WordSize <= BlockAlignment
      BY <2>0, <2>2, <2>8
    <3>2. elements # Single => Divides(WordSize, payload_begin)
      BY <2>0, <2>9, <3>1
    <3> QED
      BY <2>0, <2>2, <2>3, <2>8, <2>10, <3>2, DividesRemainder
  <2>12. Element(0) = payload_begin + Front
    <3>1. Times(0, type.size) = 0
      BY <2>0, <2>2, ExactProduct
    <3>2. payload_begin + Front <= MaxWord
      BY <2>0, <2>2, <2>3, <2>4, <2>5
    <3>3. Plus(payload_begin, prefix_size) = payload_begin + Front
      BY <2>0, <2>3, <2>10, <3>2, ExactSum
    <3>4. payload_begin + Front \in Nat
      BY <2>0, <2>10
    <3>5. Plus(payload_begin + Front, 0) = payload_begin + Front
      BY <3>2, <3>4, ExactSum
    <3> QED
      BY <3>1, <3>3, <3>5 DEF Element
  <2>13. Element(0) % type.alignment = 0
    <3>1. type.alignment <= BlockAlignment
      BY <2>0, <2>2, <2>8
    <3>2. Divides(type.alignment, payload_begin)
      BY <2>0, <2>9, <3>1
    <3>3. Divides(type.alignment, Front)
      <4>1. CASE elements = Single
        <5>1. Front = type.alignment * 0
          BY <2>0, <2>2, <4>1 DEF Front
        <5> QED
          BY <5>1 DEF Divides
      <4>2. CASE elements # Single
        BY <2>0, <2>8, <4>2, PowersFacts
      <4> QED
        BY <4>1, <4>2
    <3>4. Divides(type.alignment, payload_begin + Front)
      BY <2>0, <2>2, <2>10, <3>2, <3>3, DividesSum
    <3>5. payload_begin + Front \in Nat /\ type.alignment \in Nat \ {0}
      BY <2>0, <2>2, <2>10
    <3> QED
      BY <2>12, <3>4, <3>5, DividesRemainder
  <2>14. /\ raw.base + HeaderSize <= payload_begin
         /\ raw.base <= payload_end /\ payload_end = raw.base + raw.size
         /\ payload_begin + prefix_size + Count * type.size = payload_end
    BY <2>0, <2>2, <2>3, <2>4, <2>5, <2>6, <2>8
  <2> QED
    BY <2>4, <2>7, <2>11, <2>13, <2>14 DEF allocation_alignment
<1>2. LayoutInv => LayoutSound
  BY <1>1 DEF LayoutSound, Count
<1> QED
  BY <1>2, LayoutInvariant, PTL
===============================================================================
