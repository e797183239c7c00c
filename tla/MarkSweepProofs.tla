---------------------------- MODULE MarkSweepProofs ----------------------------
(***************************************************************************)
(* Machine-checked proofs about marking and sweeping, for every layout of  *)
(* the heap, every contents of its payloads and every number of root words,*)
(* and about the scan that reads those words, for every address space.     *)
(***************************************************************************)
EXTENDS MarkSweep, RootScanner, FiniteSetTheorems, SequenceTheorems, TLAPS

USE LayoutAssumption

-------------------------------------------------------------------------------
(* find_block_locked *)

\* A non-empty set of registered blocks has a highest one, so the iterator that
\* find_block_locked steps back to exists.
LEMMA HighestBlock ==
    ASSUME NEW B \in SUBSET Begins, B # {}
    PROVE  \E x \in B : \A y \in B : y <= x
<1> DEFINE Above(x) == {y \in B : y > x}
           F == {Above(x) : x \in B}
<1>0. B \subseteq Nat
  OBVIOUS
<1>1. F \subseteq FiniteSubsetsOf(Begins) /\ F # {}
  <2>1. \A x \in B : Above(x) \in SUBSET Begins /\ IsFiniteSet(Above(x))
    BY FS_Subset
  <2> QED
    BY <2>1 DEF FiniteSubsetsOf
<1>2. \E m \in F : \A n \in F : ~(<<n, m>> \in StrictSubsetOrdering(Begins))
  BY <1>1, FS_StrictSubsetOrderingWellFounded, WFMin
<1>3. PICK x \in B : \A z \in B : ~(<<Above(z), Above(x)>> \in StrictSubsetOrdering(Begins))
  BY <1>2
<1>4. ASSUME NEW z \in B, z > x PROVE FALSE
  <2>1. ASSUME NEW y \in B, y > z PROVE y > x
    <3>1. x \in Nat /\ y \in Nat /\ z \in Nat
      BY <1>0
    <3> QED BY <1>4, <2>1, <3>1
  <2>2. z \in Above(x) /\ z \notin Above(z)
    BY <1>0, <1>4
  <2>3. <<Above(z), Above(x)>> \in StrictSubsetOrdering(Begins)
    BY <2>1, <2>2, Zenon DEF StrictSubsetOrdering
  <2> QED
    BY <1>3, <2>3
<1> QED
  BY <1>0, <1>4

\* find_block_locked returns the block whose payload the address lies in, and
\* None exactly when there is no such block.
LEMMA FindBlock ==
    ASSUME allocations = Begins, NEW word \in Nat
    PROVE  /\ find_block_locked(word) \in Begins \cup {None}
           /\ \A c \in Begins : PointsInto(word, c) <=> find_block_locked(word) = c
<1> DEFINE below == {b \in allocations : b <= word}
           top == CHOOSE x \in below : \A y \in below : y <= x
<1>0. \A b \in Begins : b \in Nat /\ Size[b] \in Nat /\ End(b) \in Nat /\ b < End(b)
  BY DEF End
<1>1. CASE below = {}
  <2>1. find_block_locked(word) = None
    BY <1>1 DEF find_block_locked
  <2> QED
    BY <1>0, <1>1, <2>1 DEF None, PointsInto
<1>2. CASE below # {}
  <2>1. top \in below /\ \A y \in below : y <= top
    BY <1>2, HighestBlock
  <2> HIDE DEF top
  <2>2. find_block_locked(word) = IF word < End(top) THEN top ELSE None
    BY <1>2 DEF find_block_locked, top
  <2>3. ASSUME NEW c \in Begins, PointsInto(word, c) PROVE c = top /\ word < End(top)
    <3>1. c \in below /\ c <= top
      BY <2>1, <2>3 DEF PointsInto
    <3>2. CASE c < top
      <4>1. End(c) <= top /\ top <= word /\ word < End(c)
        BY <2>1, <2>3, <3>2 DEF PointsInto
      <4> QED
        BY <1>0, <2>1, <4>1
    <3> QED
      BY <1>0, <2>1, <2>3, <3>1, <3>2 DEF PointsInto
  <2>4. ASSUME NEW c \in Begins, find_block_locked(word) = c PROVE PointsInto(word, c)
    <3>1. c # None
      BY <1>0 DEF None
    <3> QED
      BY <2>1, <2>2, <2>4, <3>1 DEF PointsInto
  <2> QED
    BY <2>1, <2>2, <2>3, <2>4
<1> QED
  BY <1>1, <1>2

-------------------------------------------------------------------------------
(***************************************************************************)
(* The inductive invariant.  Marking is exact because (a) what is marked is*)
(* in every set that contains the roots and is closed, and (b) a marked    *)
(* block is on the worklist, or is being scanned and the words before next *)
(* are done, or is done.                                                   *)
(***************************************************************************)
Visited(word) == \A c \in Begins : PointsInto(word, c) => c \in marked

OnWorklist(b) == \E i \in 1..Len(worklist) : worklist[i] = b

Scanned(b, n) == \A i \in 1..Len(payload[b]) : i < n => Visited(payload[b][i])

Marking == phase \in {"pinned", "roots", "drain", "sweep"}

OnlyReachableMarked ==
    Marking => \A S \in SUBSET Begins : Closed(S) => marked \subseteq S

Tricolour ==
    Marking => \A b \in marked :
        \/ OnWorklist(b)
        \/ b = scanning /\ Scanned(b, next)
        \/ \A i \in 1..Len(payload[b]) : Visited(payload[b][i])

RootsVisited ==
    /\ phase \in {"roots", "drain", "sweep"} => pinned \subseteq marked
    /\ phase = "roots" => \A i \in 1..Len(roots) : i < next => Visited(roots[i])
    /\ phase \in {"drain", "sweep"} => \A i \in 1..Len(roots) : Visited(roots[i])

WorklistMarked ==
    /\ \A i \in 1..Len(worklist) : worklist[i] \in marked
    /\ \A i, j \in 1..Len(worklist) : worklist[i] = worklist[j] => i = j
    /\ scanning # None => scanning \in marked

PhaseState ==
    /\ phase \in {"clear", "sweep", "done"} => worklist = <<>>
    /\ phase # "drain" => scanning = None
    /\ phase # "done" => allocations = Begins
    /\ phase \in {"clear", "pinned"} => next = 1

MarkInv ==
    /\ TypeOK
    /\ PhaseState
    /\ WorklistMarked
    /\ OnlyReachableMarked
    /\ Tricolour
    /\ RootsVisited
    /\ MarkingIsExact
    /\ SweepIsExact

\* The invariant holds initially, whatever marks are left over.
LEMMA InitMarkInv == Init => MarkInv
<1> SUFFICES ASSUME Init PROVE MarkInv
  OBVIOUS
<1>1. payload \in [Begins -> Seq(Words)]
  <2>1. \A b \in Begins : WordCount(b) \in Nat
    BY DEF WordCount
  <2>2. payload \in [Begins -> UNION {[1..WordCount(b) -> Words] : b \in Begins}]
    BY DEF Init, Payloads
  <2>3. ASSUME NEW c \in Begins PROVE payload[c] \in Seq(Words)
    <3>1. PICK b \in Begins : payload[c] \in [1..WordCount(b) -> Words]
      BY <2>2
    <3> QED
      BY <2>1, <3>1
  <2> QED
    BY <2>2, <2>3
<1>2. roots \in Seq(Words)
  BY DEF Init
<1>3. TypeOK
  BY <1>1, <1>2 DEF Init, TypeOK, Phases
<1> QED
  BY <1>3 DEF Init, MarkInv, PhaseState, WorklistMarked, OnlyReachableMarked, Tricolour,
     RootsVisited, Marking, MarkingIsExact, SweepIsExact

\* What one call of mark_candidate_locked does to the marks and the worklist.
LEMMA MarkCandidate ==
    ASSUME TypeOK, WorklistMarked, allocations = Begins, NEW word \in Nat,
           mark_candidate_locked(word)
    PROVE  /\ marked \subseteq marked' /\ marked' \subseteq Begins
           /\ \A c \in Begins : PointsInto(word, c) => c \in marked'
           /\ \A c \in marked' : c \in marked \/ PointsInto(word, c)
           /\ worklist' \in Seq(Begins)
           /\ \A b : OnWorklist(b) => OnWorklist(b)'
           /\ \A b \in marked' : b \in marked \/ OnWorklist(b)'
           /\ \A i \in 1..Len(worklist') : worklist'[i] \in marked'
           /\ \A i, j \in 1..Len(worklist') : worklist'[i] = worklist'[j] => i = j
<1>1. PICK b \in Begins \cup {None} :
          /\ b = find_block_locked(word)
          /\ \A c \in Begins : PointsInto(word, c) <=> b = c
  BY FindBlock
<1>2. None \notin Begins
  BY DEF None
<1>3. CASE b # None /\ b \notin marked
  <2>1. marked' = marked \cup {b} /\ worklist' = Append(worklist, b) /\ b \in Begins
    BY <1>1, <1>3 DEF mark_candidate_locked
  <2>2. /\ worklist' \in Seq(Begins)
        /\ Len(worklist') = Len(worklist) + 1
        /\ \A i \in 1..Len(worklist) : worklist'[i] = worklist[i]
        /\ worklist'[Len(worklist) + 1] = b
        /\ Len(worklist) \in Nat
    BY <2>1 DEF TypeOK
  <2>3. \A c : OnWorklist(c) => OnWorklist(c)'
    BY <2>2 DEF OnWorklist
  <2>4. OnWorklist(b)'
    BY <2>2 DEF OnWorklist
  <2>5. \A i \in 1..Len(worklist') : worklist'[i] \in marked'
    BY <2>1, <2>2 DEF WorklistMarked
  <2>6. \A i, j \in 1..Len(worklist') : worklist'[i] = worklist'[j] => i = j
    BY <1>3, <2>2 DEF WorklistMarked
  <2> QED
    BY <1>1, <2>1, <2>2, <2>3, <2>4, <2>5, <2>6 DEF TypeOK
<1>4. CASE ~(b # None /\ b \notin marked)
  <2>1. UNCHANGED <<marked, worklist>>
    BY <1>1, <1>4 DEF mark_candidate_locked
  <2> QED
    BY <1>1, <1>2, <1>4, <2>1 DEF TypeOK, OnWorklist, WorklistMarked
<1> QED
  BY <1>3, <1>4

\* A closed set that has all that is marked also has what a root word, or a word
\* of a marked payload, points to: so a new mark is on a reachable block.
LEMMA MarkStaysReachable ==
    ASSUME MarkInv, Marking, UNCHANGED heap, NEW word \in Nat,
           mark_candidate_locked(word),
           \A S \in SUBSET Begins : Closed(S) =>
              \A c \in Begins : PointsInto(word, c) => c \in S
    PROVE  \A S \in SUBSET Begins : Closed(S)' => marked' \subseteq S
<1> SUFFICES ASSUME NEW S \in SUBSET Begins, Closed(S)' PROVE marked' \subseteq S
  OBVIOUS
<1>1. Closed(S)
  BY DEF Closed, RootBlocks, Successors, PointsInto, End, heap
<1>2. allocations = Begins
  BY DEF MarkInv, PhaseState, Marking
<1>3. marked' \subseteq Begins /\ \A c \in marked' : c \in marked \/ PointsInto(word, c)
  BY <1>2, MarkCandidate DEF MarkInv
<1> QED
  BY <1>1, <1>3 DEF MarkInv, OnlyReachableMarked

\* When nothing is left to scan the marked set is closed, hence exact.
LEMMA MarkedIsReachable ==
    ASSUME MarkInv, phase = "drain", worklist = <<>>, scanning = None
    PROVE  marked = Reachable
<1>1. \A b \in marked : \A i \in 1..Len(payload[b]) : Visited(payload[b][i])
  BY DEF MarkInv, Tricolour, Marking, OnWorklist, TypeOK, None
<1>2. Closed(marked)
  BY <1>1 DEF Closed, RootBlocks, Successors, Visited, MarkInv, RootsVisited, TypeOK
<1>3. Reachable \subseteq marked
  BY <1>2 DEF Reachable, MarkInv, TypeOK
<1>4. marked \subseteq Reachable
  BY DEF Reachable, MarkInv, OnlyReachableMarked, Marking, TypeOK
<1> QED
  BY <1>3, <1>4

-------------------------------------------------------------------------------
\* Steps that leave payloads, roots and pins alone do not change what a
\* collection has to keep.
LEMMA HeapFrame ==
    ASSUME UNCHANGED heap
    PROVE  /\ payload' = payload /\ roots' = roots /\ pinned' = pinned
           /\ \A S : Closed(S)' <=> Closed(S)
           /\ Reachable' = Reachable
<1>1. payload' = payload /\ roots' = roots /\ pinned' = pinned
  BY DEF heap
<1>2. \A S : Closed(S)' <=> Closed(S)
  BY <1>1 DEF Closed, RootBlocks, Successors, PointsInto, End
<1>3. Reachable' = Reachable
  BY <1>2 DEF Reachable
<1> QED
  BY <1>1, <1>2, <1>3

\* Root words and payload words are numbers.
LEMMA WordsAreNumbers ==
    ASSUME TypeOK
    PROVE  /\ Len(roots) \in Nat /\ Len(worklist) \in Nat
           /\ \A i \in 1..Len(roots) : roots[i] \in Nat
           /\ \A b \in Begins : /\ Len(payload[b]) \in Nat
                                /\ \A i \in 1..Len(payload[b]) : payload[b][i] \in Nat
<1>1. roots \in Seq(Words) /\ worklist \in Seq(Begins)
      /\ \A b \in Begins : payload[b] \in Seq(Words)
  BY DEF TypeOK
<1>2. \A q \in Seq(Words) : Len(q) \in Nat /\ \A i \in 1..Len(q) : q[i] \in Nat
  <2>1. \A q \in Seq(Words) : Len(q) \in Nat /\ \A i \in 1..Len(q) : q[i] \in Words
    BY ElementOfSeq, LenProperties
  <2> QED
    BY <2>1
<1>3. Len(worklist) \in Nat
  BY <1>1, LenProperties
<1> QED
  BY <1>1, <1>2, <1>3, Zenon

\* A step that only moves the control and the cursor, forgets no mark and
\* leaves the worklist alone keeps what is known about the marks.
LEMMA MarksKept ==
    ASSUME MarkInv, UNCHANGED <<heap, marked>>, Marking, Marking'
    PROVE  /\ OnlyReachableMarked'
           /\ \A word : Visited(word)' <=> Visited(word)
<1>1. \A word : Visited(word)' <=> Visited(word)
  BY DEF Visited, PointsInto, End
<1> QED
  BY <1>1, HeapFrame DEF MarkInv, OnlyReachableMarked

\* What is left of the worklist when its last block is popped.
LEMMA DropLast ==
    ASSUME NEW S, NEW q \in Seq(S), q # <<>>
    PROVE  /\ SubSeq(q, 1, Len(q) - 1) \in Seq(S)
           /\ Len(SubSeq(q, 1, Len(q) - 1)) = Len(q) - 1
           /\ \A i \in 1..(Len(q) - 1) : SubSeq(q, 1, Len(q) - 1)[i] = q[i]
<1>1. Len(q) \in Nat \ {0}
  BY EmptySeq
<1>2. \A i \in 1..Len(q) : q[i] \in S
  BY ElementOfSeq
<1> DEFINE n == Len(q) - 1
<1>3. n \in Nat /\ n \in Int /\ 1 \in Int /\ \A i \in 1..n : q[i] \in S
  BY <1>1, <1>2
<1> HIDE DEF n
<1>4. (1 <= n => n - 1 + 1 = n) /\ (~(1 <= n) => n = 0)
      /\ \A i \in 1..n : i \in 1..(n - 1 + 1) /\ 1 + i - 1 = i
  BY <1>3
<1>5. /\ SubSeq(q, 1, n) \in Seq(S)
      /\ Len(SubSeq(q, 1, n)) = IF 1 <= n THEN n - 1 + 1 ELSE 0
      /\ \A i \in 1..(n - 1 + 1) : SubSeq(q, 1, n)[i] = q[1 + i - 1]
  BY <1>3, SubSeqProperties
<1>6. Len(SubSeq(q, 1, n)) = n /\ \A i \in 1..n : SubSeq(q, 1, n)[i] = q[i]
  BY <1>4, <1>5
<1> QED
  BY <1>5, <1>6 DEF n

-------------------------------------------------------------------------------
(* One lemma per step of a collection *)

\* Clearing the marks establishes the invariant's marking parts.
LEMMA ClearStep == ASSUME MarkInv, clear_marks_locked PROVE MarkInv'
<1>1. /\ phase = "clear" /\ phase' = "pinned" /\ marked' = {} /\ worklist = <<>>
      /\ UNCHANGED <<heap, worklist, scanning, next, allocations, unreachable>>
      /\ scanning = None
  BY DEF clear_marks_locked, MarkInv, PhaseState
<1>2. TypeOK' /\ PhaseState'
  <2>1. TypeOK'
    BY <1>1 DEF MarkInv, TypeOK, Phases, heap
  <2>2. PhaseState'
    BY <1>1 DEF MarkInv, PhaseState
  <2> QED
    BY <2>1, <2>2
<1>3. WorklistMarked' /\ OnlyReachableMarked' /\ Tricolour' /\ RootsVisited'
  BY <1>1 DEF WorklistMarked, OnlyReachableMarked, Tricolour, RootsVisited
<1> QED
  BY <1>1, <1>2, <1>3 DEF MarkInv, MarkingIsExact, SweepIsExact

\* Marking the block of one more word, if the word comes from the roots or from
\* a reachable payload, keeps the invariant's marking parts.
LEMMA MarkOneWord ==
    ASSUME MarkInv, Marking, allocations = Begins, NEW word \in Nat,
           mark_candidate_locked(word),
           UNCHANGED <<heap, scanning, allocations, unreachable, phase>>,
           \A S \in SUBSET Begins : Closed(S) =>
              \A c \in Begins : PointsInto(word, c) => c \in S
    PROVE  /\ marked' \in SUBSET Begins /\ worklist' \in Seq(Begins)
           /\ WorklistMarked' /\ OnlyReachableMarked'
           /\ Visited(word)' /\ \A w : Visited(w) => Visited(w)'
           /\ \A b \in marked' : b \in marked \/ OnWorklist(b)'
           /\ \A b : OnWorklist(b) => OnWorklist(b)'
           /\ marked \subseteq marked'
<1>1. /\ marked \subseteq marked' /\ marked' \subseteq Begins
      /\ \A c \in Begins : PointsInto(word, c) => c \in marked'
      /\ worklist' \in Seq(Begins)
      /\ \A b : OnWorklist(b) => OnWorklist(b)'
      /\ \A b \in marked' : b \in marked \/ OnWorklist(b)'
      /\ \A i \in 1..Len(worklist') : worklist'[i] \in marked'
      /\ \A i, j \in 1..Len(worklist') : worklist'[i] = worklist'[j] => i = j
  BY MarkCandidate DEF MarkInv
<1>2. Visited(word)' /\ \A w : Visited(w) => Visited(w)'
  BY <1>1 DEF Visited, PointsInto, End
<1>3. WorklistMarked'
  BY <1>1 DEF WorklistMarked, MarkInv
<1>4. OnlyReachableMarked'
  BY MarkStaysReachable DEF OnlyReachableMarked
<1> QED
  BY <1>1, <1>2, <1>3, <1>4

\* A pinned block is marked.
LEMMA PinStep == ASSUME MarkInv, MarkPinned PROVE MarkInv'
<1>1. PICK b \in pinned \ marked : mark_candidate_locked(b)
  BY DEF MarkPinned
<1>2. /\ phase = "pinned" /\ allocations = Begins /\ scanning = None
      /\ UNCHANGED <<heap, scanning, next, allocations, unreachable, phase>>
  BY DEF MarkPinned, PhaseState, MarkInv
<1>3. b \in Begins /\ b \in Nat
  BY DEF TypeOK, MarkInv
<1>4. \A c \in Begins : PointsInto(b, c) => c = b
  BY <1>3 DEF PointsInto, End
<1>5. \A S \in SUBSET Begins : Closed(S) => \A c \in Begins : PointsInto(b, c) => c \in S
  BY <1>4 DEF Closed, RootBlocks
<1>6. /\ marked' \in SUBSET Begins /\ worklist' \in Seq(Begins)
      /\ WorklistMarked' /\ OnlyReachableMarked' /\ \A w : Visited(w) => Visited(w)'
      /\ \A c \in marked' : c \in marked \/ OnWorklist(c)'
      /\ \A c : OnWorklist(c) => OnWorklist(c)'
  BY <1>1, <1>2, <1>3, <1>5, MarkOneWord DEF Marking
<1>7. TypeOK' /\ PhaseState'
  <2>1. TypeOK'
    BY <1>2, <1>6 DEF MarkInv, TypeOK, Phases, heap
  <2>2. PhaseState'
    BY <1>2, <1>6 DEF MarkInv, PhaseState
  <2> QED
    BY <2>1, <2>2
<1>8. Tricolour'
  BY <1>2, <1>6, HeapFrame DEF MarkInv, Tricolour, Marking, TypeOK, None
<1> QED
  BY <1>2, <1>6, <1>7, <1>8 DEF MarkInv, RootsVisited, MarkingIsExact, SweepIsExact

\* All pinned blocks are marked: on to the root words.
LEMMA PinnedDoneStep == ASSUME MarkInv, PinnedDone PROVE MarkInv'
<1>1. /\ phase = "pinned" /\ phase' = "roots" /\ pinned \subseteq marked
      /\ next = 1 /\ allocations = Begins
      /\ UNCHANGED <<heap, marked, worklist, scanning, next, allocations, unreachable>>
  BY DEF PinnedDone, MarkInv, PhaseState
<1>2. TypeOK' /\ PhaseState' /\ WorklistMarked'
  <2>1. TypeOK'
    BY <1>1 DEF MarkInv, TypeOK, Phases, heap
  <2>2. PhaseState' /\ WorklistMarked'
    BY <1>1 DEF MarkInv, PhaseState, WorklistMarked
  <2> QED
    BY <2>1, <2>2
<1>3. OnlyReachableMarked' /\ \A word : Visited(word)' <=> Visited(word)
  BY <1>1, MarksKept DEF Marking
<1>4. Tricolour'
  BY <1>1, <1>3, HeapFrame DEF MarkInv, Tricolour, Marking, Scanned, OnWorklist
<1>5. RootsVisited'
  BY <1>1, HeapFrame, WordsAreNumbers DEF MarkInv, RootsVisited
<1> QED
  BY <1>1, <1>2, <1>3, <1>4, <1>5 DEF MarkInv, MarkingIsExact, SweepIsExact

\* One root word is examined.
LEMMA RootStep == ASSUME MarkInv, ScanRootWord PROVE MarkInv'
<1>1. /\ phase = "roots" /\ allocations = Begins /\ scanning = None
      /\ next \in 1..Len(roots) /\ next' = next + 1
      /\ UNCHANGED <<heap, scanning, allocations, unreachable, phase>>
  BY WordsAreNumbers DEF ScanRootWord, PhaseState, TypeOK, MarkInv
<1>2. PICK word \in Nat : word = roots[next] /\ mark_candidate_locked(word)
  BY <1>1, WordsAreNumbers DEF ScanRootWord, MarkInv
<1>3. \A S \in SUBSET Begins : Closed(S) =>
         \A c \in Begins : PointsInto(word, c) => c \in S
  BY <1>1, <1>2 DEF Closed, RootBlocks
<1>4. /\ marked' \in SUBSET Begins /\ worklist' \in Seq(Begins)
      /\ WorklistMarked' /\ OnlyReachableMarked'
      /\ Visited(word)' /\ \A w : Visited(w) => Visited(w)'
      /\ \A c \in marked' : c \in marked \/ OnWorklist(c)'
      /\ \A c : OnWorklist(c) => OnWorklist(c)'
      /\ marked \subseteq marked'
  BY <1>1, <1>2, <1>3, MarkOneWord DEF Marking
<1>5. TypeOK' /\ PhaseState'
  <2>1. TypeOK'
    BY <1>1, <1>4 DEF MarkInv, TypeOK, Phases, heap
  <2>2. PhaseState'
    BY <1>1, <1>4 DEF MarkInv, PhaseState
  <2> QED
    BY <2>1, <2>2
<1>6. Tricolour'
  BY <1>1, <1>4, HeapFrame DEF MarkInv, Tricolour, Marking, TypeOK, None
<1>7. RootsVisited'
  <2>1. \A i \in 1..Len(roots) : i < next + 1 => i = next \/ i < next
    BY <1>1, WordsAreNumbers DEF MarkInv
  <2> QED
    BY <1>1, <1>2, <1>4, <2>1, HeapFrame DEF MarkInv, RootsVisited
<1> QED
  BY <1>1, <1>4, <1>5, <1>6, <1>7 DEF MarkInv, MarkingIsExact, SweepIsExact

\* All root words are examined: on to the worklist.
LEMMA RootsDoneStep == ASSUME MarkInv, RootsDone PROVE MarkInv'
<1>1. /\ phase = "roots" /\ phase' = "drain" /\ next > Len(roots) /\ next' = 1
      /\ allocations = Begins /\ scanning = None
      /\ UNCHANGED <<heap, marked, worklist, scanning, allocations, unreachable>>
  BY DEF RootsDone, MarkInv, PhaseState
<1>2. TypeOK' /\ PhaseState' /\ WorklistMarked'
  <2>1. TypeOK'
    BY <1>1 DEF MarkInv, TypeOK, Phases, heap
  <2>2. PhaseState' /\ WorklistMarked'
    BY <1>1 DEF MarkInv, PhaseState, WorklistMarked
  <2> QED
    BY <2>1, <2>2
<1>3. OnlyReachableMarked' /\ \A word : Visited(word)' <=> Visited(word)
  BY <1>1, MarksKept DEF Marking
<1>4. Tricolour'
  BY <1>1, <1>3, HeapFrame DEF MarkInv, Tricolour, Marking, OnWorklist, TypeOK, None
<1>5. RootsVisited'
  <2>1. \A i \in 1..Len(roots) : i < next
    BY <1>1, WordsAreNumbers DEF MarkInv, TypeOK
  <2> QED
    BY <1>1, <1>3, <2>1, HeapFrame DEF MarkInv, RootsVisited
<1> QED
  BY <1>1, <1>2, <1>3, <1>4, <1>5 DEF MarkInv, MarkingIsExact, SweepIsExact

\* A block moves from the worklist to the scanner.
LEMMA PopStep == ASSUME MarkInv, PopBlock PROVE MarkInv'
<1>1. /\ phase = "drain" /\ scanning = None /\ allocations = Begins
      /\ worklist \in Seq(Begins) /\ worklist # <<>>
      /\ scanning' = worklist[Len(worklist)] /\ next' = 1
      /\ worklist' = SubSeq(worklist, 1, Len(worklist) - 1)
      /\ UNCHANGED <<heap, marked, allocations, unreachable, phase>>
  BY DEF PopBlock, TypeOK, MarkInv, PhaseState
<1>2. Len(worklist) \in Nat /\ Len(worklist) > 0
      /\ \A i \in 1..Len(worklist) : worklist[i] \in Begins
  BY <1>1, EmptySeq, LenProperties, ElementOfSeq
<1>3. /\ worklist' \in Seq(Begins) /\ Len(worklist') = Len(worklist) - 1
      /\ \A i \in 1..(Len(worklist) - 1) : worklist'[i] = worklist[i]
  BY <1>1, <1>2, DropLast
<1>4. scanning' \in marked /\ scanning' \in Begins
  BY <1>1, <1>2 DEF MarkInv, WorklistMarked
<1>5. \A b : OnWorklist(b) => b = scanning' \/ OnWorklist(b)'
  BY <1>1, <1>2, <1>3 DEF OnWorklist
<1>6. OnlyReachableMarked' /\ \A word : Visited(word)' <=> Visited(word)
  BY <1>1, MarksKept DEF Marking
<1>7. \A b \in Begins : Scanned(b, 1)'
  BY <1>1, HeapFrame, WordsAreNumbers DEF Scanned, MarkInv
<1>8. Tricolour'
  BY <1>1, <1>4, <1>5, <1>6, <1>7, HeapFrame DEF MarkInv, Tricolour, Marking, TypeOK, None
<1>9. WorklistMarked'
  BY <1>1, <1>2, <1>3, <1>4 DEF WorklistMarked, MarkInv
<1>10. TypeOK' /\ PhaseState'
  <2>1. TypeOK'
    BY <1>1, <1>3, <1>4 DEF MarkInv, TypeOK, Phases, heap
  <2>2. PhaseState'
    BY <1>1, <1>3, <1>4 DEF MarkInv, PhaseState
  <2> QED
    BY <2>1, <2>2
<1>11. RootsVisited'
  BY <1>1, <1>6, HeapFrame DEF MarkInv, RootsVisited
<1> QED
  BY <1>1, <1>6, <1>8, <1>9, <1>10, <1>11 DEF MarkInv, MarkingIsExact, SweepIsExact

\* One word of the block being scanned is examined.
LEMMA ScanStep == ASSUME MarkInv, scan_payload_locked PROVE MarkInv'
<1>1. /\ phase = "drain" /\ allocations = Begins
      /\ scanning \in marked /\ scanning \in Begins
      /\ next \in 1..Len(payload[scanning]) /\ next' = next + 1
      /\ UNCHANGED <<heap, scanning, allocations, unreachable, phase>>
  BY WordsAreNumbers DEF scan_payload_locked, PhaseState, TypeOK, WorklistMarked, MarkInv
<1>2. PICK word \in Nat : word = payload[scanning][next] /\ mark_candidate_locked(word)
  BY <1>1, WordsAreNumbers DEF scan_payload_locked, MarkInv
<1>3. \A S \in SUBSET Begins : Closed(S) =>
         \A c \in Begins : PointsInto(word, c) => c \in S
  <2>1. \A c \in Begins : PointsInto(word, c) => c \in Successors(scanning)
    BY <1>1, <1>2 DEF Successors
  <2>2. \A S \in SUBSET Begins : Closed(S) => scanning \in S
    BY <1>1 DEF OnlyReachableMarked, Marking, MarkInv
  <2> QED
    BY <2>1, <2>2 DEF Closed
<1>4. /\ marked' \in SUBSET Begins /\ worklist' \in Seq(Begins)
      /\ WorklistMarked' /\ OnlyReachableMarked'
      /\ Visited(word)' /\ \A w : Visited(w) => Visited(w)'
      /\ \A c \in marked' : c \in marked \/ OnWorklist(c)'
      /\ \A c : OnWorklist(c) => OnWorklist(c)'
      /\ marked \subseteq marked'
  BY <1>1, <1>2, <1>3, MarkOneWord DEF Marking
<1>5. TypeOK' /\ PhaseState'
  <2>1. TypeOK'
    BY <1>1, <1>4 DEF MarkInv, TypeOK, Phases, heap
  <2>2. PhaseState'
    BY <1>1, <1>4 DEF MarkInv, PhaseState
  <2> QED
    BY <2>1, <2>2
<1>6. Scanned(scanning, next) => Scanned(scanning, next)'
  <2>1. \A i \in 1..Len(payload[scanning]) : i < next + 1 => i = next \/ i < next
    BY <1>1, WordsAreNumbers DEF MarkInv
  <2> QED
    BY <1>1, <1>2, <1>4, <2>1, HeapFrame DEF Scanned
<1>7. Tricolour'
  BY <1>1, <1>4, <1>6, HeapFrame DEF MarkInv, Tricolour, Marking
<1>8. RootsVisited'
  BY <1>1, <1>4, HeapFrame DEF RootsVisited, MarkInv
<1> QED
  BY <1>1, <1>4, <1>5, <1>7, <1>8 DEF MarkInv, MarkingIsExact, SweepIsExact

\* The last word of a block is done.
LEMMA PayloadDoneStep == ASSUME MarkInv, PayloadDone PROVE MarkInv'
<1>1. /\ phase = "drain" /\ scanning \in Begins /\ next > Len(payload[scanning])
      /\ allocations = Begins /\ scanning' = None
      /\ UNCHANGED <<heap, marked, worklist, next, allocations, unreachable, phase>>
  BY DEF PayloadDone, TypeOK, MarkInv, PhaseState
<1>2. OnlyReachableMarked' /\ \A word : Visited(word)' <=> Visited(word)
  BY <1>1, MarksKept DEF Marking
<1>3. Scanned(scanning, next) =>
        \A i \in 1..Len(payload[scanning]) : Visited(payload[scanning][i])
  <2>1. \A i \in 1..Len(payload[scanning]) : i < next
    BY <1>1, WordsAreNumbers DEF MarkInv, TypeOK
  <2> QED
    BY <2>1 DEF Scanned
<1>4. Tricolour'
  BY <1>1, <1>2, <1>3, HeapFrame DEF Tricolour, Marking, OnWorklist, MarkInv
<1>5. TypeOK' /\ PhaseState' /\ WorklistMarked'
  <2>1. TypeOK'
    BY <1>1 DEF MarkInv, TypeOK, Phases, heap
  <2>2. PhaseState' /\ WorklistMarked'
    BY <1>1 DEF MarkInv, PhaseState, WorklistMarked
  <2> QED
    BY <2>1, <2>2
<1>6. RootsVisited'
  BY <1>1, <1>2, HeapFrame DEF MarkInv, RootsVisited
<1> QED
  BY <1>1, <1>2, <1>4, <1>5, <1>6 DEF MarkInv, MarkingIsExact, SweepIsExact

\* The worklist is empty: marking is complete and exact.
LEMMA DrainDoneStep == ASSUME MarkInv, DrainDone PROVE MarkInv'
<1>1. /\ phase = "drain" /\ worklist = <<>> /\ scanning = None /\ phase' = "sweep"
      /\ allocations = Begins
      /\ UNCHANGED <<heap, marked, worklist, scanning, next, allocations, unreachable>>
  BY DEF DrainDone, MarkInv, PhaseState
<1>2. marked' = Reachable'
  BY <1>1, MarkedIsReachable, HeapFrame
<1>3. OnlyReachableMarked' /\ \A word : Visited(word)' <=> Visited(word)
  BY <1>1, MarksKept DEF Marking
<1>4. TypeOK' /\ PhaseState' /\ WorklistMarked'
  <2>1. TypeOK'
    BY <1>1 DEF MarkInv, TypeOK, Phases, heap
  <2>2. PhaseState' /\ WorklistMarked'
    BY <1>1 DEF MarkInv, PhaseState, WorklistMarked
  <2> QED
    BY <2>1, <2>2
<1>5. Tricolour' /\ RootsVisited'
  BY <1>1, <1>3, HeapFrame DEF MarkInv, Tricolour, RootsVisited, Marking, Scanned,
     OnWorklist
<1> QED
  BY <1>1, <1>2, <1>3, <1>4, <1>5 DEF MarkInv, MarkingIsExact, SweepIsExact

\* The sweep separates the reachable blocks from the others.
LEMMA SweepStep == ASSUME MarkInv, sweep_locked PROVE MarkInv'
<1>1. /\ phase = "sweep" /\ phase' = "done" /\ allocations = Begins
      /\ marked = Reachable /\ marked' = {} /\ worklist = <<>> /\ scanning = None
      /\ allocations' = allocations \cap marked /\ unreachable' = allocations \ marked
      /\ UNCHANGED <<heap, worklist, scanning, next>>
  BY DEF sweep_locked, PhaseState, MarkingIsExact, MarkInv
<1>2. Reachable' = Reachable /\ Reachable \subseteq Begins
  BY <1>1, HeapFrame DEF Reachable
<1>3. TypeOK' /\ PhaseState'
  <2>1. TypeOK'
    BY <1>1, <1>2 DEF MarkInv, TypeOK, Phases, heap
  <2>2. PhaseState'
    BY <1>1, <1>2 DEF MarkInv, PhaseState
  <2> QED
    BY <2>1, <2>2
<1>4. WorklistMarked' /\ OnlyReachableMarked' /\ Tricolour' /\ RootsVisited'
  BY <1>1 DEF WorklistMarked, OnlyReachableMarked, Tricolour, RootsVisited, Marking
<1>5. MarkingIsExact' /\ SweepIsExact'
  BY <1>1, <1>2 DEF MarkingIsExact, SweepIsExact
<1> QED
  BY <1>3, <1>4, <1>5 DEF MarkInv

\* Every step of a collection preserves the inductive invariant.
LEMMA StepMarkInv == MarkInv /\ [Next]_vars => MarkInv'
<1> SUFFICES ASSUME MarkInv, [Next]_vars PROVE MarkInv'
  OBVIOUS
<1>1. CASE UNCHANGED vars
  <2>1. UNCHANGED heap
    BY <1>1 DEF vars, heap
  <2>2. TypeOK' /\ PhaseState' /\ WorklistMarked'
    BY <1>1 DEF vars, MarkInv, TypeOK, PhaseState, WorklistMarked
  <2>3. OnlyReachableMarked' /\ MarkingIsExact' /\ SweepIsExact'
    BY <1>1, <2>1, HeapFrame DEF vars, MarkInv, OnlyReachableMarked, MarkingIsExact,
       SweepIsExact, Marking
  <2>4. Tricolour' /\ RootsVisited'
    BY <1>1 DEF vars, MarkInv, Tricolour, RootsVisited, Marking, Visited, Scanned,
       OnWorklist, PointsInto, End
  <2> QED
    BY <2>2, <2>3, <2>4 DEF MarkInv
<1> QED
  BY <1>1, ClearStep, PinStep, PinnedDoneStep, RootStep, RootsDoneStep, PopStep, ScanStep,
     PayloadDoneStep, DrainDoneStep, SweepStep DEF Next

\* The inductive invariant holds throughout every collection.
LEMMA MarkInvariant == Spec => []MarkInv
  BY InitMarkInv, StepMarkInv, PTL DEF Spec

\* clear_marks_locked, the root scan and drain_mark_worklist_locked mark exactly
\* the blocks the roots reach, on every heap.
THEOREM MarkingCorrect == Spec => []MarkingIsExact
<1>1. MarkInv => MarkingIsExact
  BY DEF MarkInv
<1> QED
  BY <1>1, MarkInvariant, PTL

\* sweep_locked keeps exactly the reachable blocks and detaches all others.
THEOREM SweepCorrect == Spec => []SweepIsExact
<1>1. MarkInv => SweepIsExact
  BY DEF MarkInv
<1> QED
  BY <1>1, MarkInvariant, PTL

\* The space reserved for the worklist before marking is never exceeded.
THEOREM WorklistNeverGrows == Spec => []WorklistFits
<1>1. MarkInv => WorklistFits
  <2> SUFFICES ASSUME MarkInv PROVE WorklistFits
    OBVIOUS
  <2>1. worklist \in Seq(Begins) /\ Len(worklist) \in Nat
    BY DEF MarkInv, TypeOK
  <2>2. worklist \in Injection(1..Len(worklist), Begins)
    BY <2>1 DEF MarkInv, WorklistMarked, Injection, IsInjective
  <2>3. Cardinality(1..Len(worklist)) <= Cardinality(Begins)
    BY <2>2, FS_Injection
  <2>4. Cardinality(1..Len(worklist)) = Len(worklist)
    <3> HIDE LayoutAssumption
    <3> DEFINE n == Len(worklist)
    <3>1. n \in Nat /\ n \in Int /\ 1 \in Int
      BY <2>1
    <3> HIDE DEF n
    <3>2. Cardinality(1..n) = IF 1 > n THEN 0 ELSE n - 1 + 1
      BY <3>1, FS_Interval, Zenon
    <3>3. Cardinality(1..n) = n
      BY <3>1, <3>2
    <3> QED
      BY <3>3 DEF n
  <2> QED
    BY <2>3, <2>4 DEF WorklistFits, MarkInv, WorklistMarked
<1> QED
  BY <1>1, MarkInvariant, PTL

-------------------------------------------------------------------------------
(* The words that root scanning hands to marking: scan_words and its callers *)

\* A remainder is below the divisor and differs from the number by a multiple of it.
LEMMA Remainder ==
    ASSUME NEW a \in Int, NEW w \in Nat, w > 0
    PROVE  /\ a \div w \in Int /\ a % w \in 0..(w - 1)
           /\ a = w * (a \div w) + (a % w)
  OBVIOUS

\* Two multiples of a number are equal or at least that number apart.
LEMMA MultiplesApart ==
    ASSUME NEW w \in Nat, w > 0, NEW p \in Int, NEW q \in Int, w * p < w * q
    PROVE  w * p + w <= w * q
<1>1. p < q
  OBVIOUS
<1>2. w * (q - p - 1) >= 0
  BY <1>1
<1> QED
  BY <1>2

\* The remainder of a multiple plus a small number is the small number.
LEMMA RemainderIs ==
    ASSUME NEW w \in Nat, w > 0, NEW q \in Int, NEW r \in 0..(w - 1)
    PROVE  (w * q + r) % w = r
  OBVIOUS

USE RootScannerAssumption
HIDE LayoutAssumption

Aligned(a) == a % word_size = 0

\* The complete aligned words from a on up to the end b, poisoned ones left out.
WordsFrom(a, b) == {x \in a..b : x % word_size = 0 /\ x + word_size <= b} \ Poisoned

\* The padding of scan_words leads to an aligned address, and no aligned word
\* lies before it.
LEMMA PaddingAligns ==
    ASSUME NEW l \in Nat
    PROVE  LET p == (word_size - (l % word_size)) % word_size
           IN  /\ p \in 0..(word_size - 1)
               /\ (l + p) % word_size = 0
               /\ \A a \in Nat : a >= l /\ a % word_size = 0 => a >= l + p
<1> DEFINE w == word_size
           q == l \div w
           m == l % w
           p == (w - m) % w
<1>0. w \in Nat /\ w > 0
  OBVIOUS
<1>1. q \in Int /\ m \in 0..(w - 1) /\ l = w * q + m
  BY <1>0, Remainder
<1> HIDE DEF w, q, m
<1>2. CASE m = 0
  <2>1. p = 0
    BY <1>0, <1>2, RemainderIs
  <2>2. (l + p) % w = 0
    BY <1>0, <1>1, <1>2, <2>1, RemainderIs
  <2> QED
    BY <1>0, <1>1, <2>1, <2>2 DEF w, m
<1>3. CASE m > 0
  <2>1. p = w - m
    <3>1. w - m \in 0..(w - 1)
      BY <1>0, <1>1, <1>3
    <3>2. (w * 0 + (w - m)) % w = w - m
      BY <1>0, <3>1, RemainderIs
    <3> QED
      BY <1>0, <3>1, <3>2
  <2>2. l + p = w * (q + 1) + 0
    BY <1>0, <1>1, <2>1
  <2>3. (w * (q + 1) + 0) % w = 0
    BY <1>0, <1>1, RemainderIs
  <2>4. ASSUME NEW a \in Nat, a >= l, a % w = 0 PROVE a >= l + p
    <3>1. a = w * (a \div w) + 0 /\ a \div w \in Int
      BY <1>0, <2>4, Remainder
    <3>2. w * q < w * (a \div w)
      BY <1>0, <1>1, <1>3, <2>4, <3>1
    <3>3. w * q + w <= w * (a \div w)
      BY <1>0, <1>1, <3>1, <3>2, MultiplesApart
    <3> QED
      BY <1>0, <1>1, <2>1, <3>1, <3>3
  <2> QED
    BY <1>0, <1>1, <1>3, <2>1, <2>2, <2>3, <2>4 DEF w, m
<1> QED
  BY <1>0, <1>1, <1>2, <1>3

\* The word after an aligned one is aligned, and there is none between them.
LEMMA NextAligned ==
    ASSUME NEW c \in Nat, c % word_size = 0
    PROVE  /\ (c + word_size) % word_size = 0
           /\ \A a \in Nat : a > c /\ a % word_size = 0 => a >= c + word_size
<1> DEFINE w == word_size
           q == c \div w
<1>0. w \in Nat /\ w > 0
  OBVIOUS
<1>1. q \in Int /\ c = w * q
  BY <1>0, Remainder
<1> HIDE DEF w, q
<1>2. (c + w) % w = 0
  <2>1. c + w = w * (q + 1) + 0
    BY <1>0, <1>1
  <2>2. (w * (q + 1) + 0) % w = 0
    BY <1>0, <1>1, RemainderIs
  <2> QED
    BY <2>1, <2>2
<1>3. ASSUME NEW a \in Nat, a > c, a % w = 0 PROVE a >= c + w
  <2>1. a = w * (a \div w) /\ a \div w \in Int
    BY <1>0, <1>3, Remainder
  <2>2. w * q + w <= w * (a \div w)
    BY <1>0, <1>1, <1>3, <2>1, MultiplesApart
  <2> QED
    BY <1>0, <1>1, <2>1, <2>2
<1> QED
  BY <1>2, <1>3 DEF w

\* Inside the address space neither operation wraps.
LEMMA NoWrap ==
    ASSUME NEW a \in Address, NEW b \in Address
    PROVE  /\ a + b <= MaxWord => Plus(a, b) = a + b
           /\ b <= a => Minus(a, b) = a - b
           /\ Plus(a, b) \in Address
<1>1. \A x \in Address : x % (MaxWord + 1) = x
  BY DEF Address
<1>2. (a + b) % (MaxWord + 1) \in Address
  BY DEF Address
<1> QED
  BY <1>1, <1>2 DEF Plus, Minus, Address

\* Swapping the endpoints leaves the lower and the higher one.
LEMMA LowHigh ==
    ASSUME NEW r \in Address \X Address
    PROVE  /\ Low(r) \in Address /\ High(r) \in Address /\ Low(r) <= High(r)
           /\ WordsIn(r) = IF r[1] = 0 \/ r[2] = 0 THEN {} ELSE WordsFrom(Low(r), High(r))
<1>1. r[1] \in Address /\ r[2] \in Address
  OBVIOUS
<1>2. Min({r[1], r[2]}) = IF r[1] <= r[2] THEN r[1] ELSE r[2]
  BY <1>1 DEF Min, Address
<1>3. Max({r[1], r[2]}) = IF r[1] <= r[2] THEN r[2] ELSE r[1]
  BY <1>1 DEF Max, Address
<1>4. Low(r) \in Address /\ High(r) \in Address /\ Low(r) <= High(r)
  BY <1>1, <1>2, <1>3 DEF Low, High, Address
<1> QED
  BY <1>4, Zenon DEF Low, High, WordsIn, WordsFrom

\* The padding of scan_words loses no complete word of the range, and where it
\* leads beyond the end there was none.
LEMMA FirstWord ==
    ASSUME NEW r \in Address \X Address
    PROVE  /\ Skips(r) => WordsIn(r) = {}
           /\ ~Skips(r) => /\ Plus(Low(r), Padding(r)) \in 0..High(r)
                           /\ Aligned(Plus(Low(r), Padding(r)))
                           /\ WordsIn(r) = WordsFrom(Plus(Low(r), Padding(r)), High(r))
<1> DEFINE l == Low(r)
           h == High(r)
           p == Padding(r)
<1>1. l \in Address /\ h \in Address /\ l <= h
  BY LowHigh
<1>2. WordsIn(r) = IF r[1] = 0 \/ r[2] = 0 THEN {} ELSE WordsFrom(l, h)
  BY LowHigh
<1>3. /\ p \in 0..(word_size - 1) /\ (l + p) % word_size = 0
      /\ \A a \in Nat : a >= l /\ a % word_size = 0 => a >= l + p
  <2>1. l \in Nat
    BY <1>1 DEF Address
  <2> HIDE DEF l
  <2> QED
    BY <2>1, PaddingAligns, Zenon DEF Padding, l
<1>4. Skips(r) <=> r[1] = 0 \/ r[2] = 0 \/ h - l < p
  BY <1>1, NoWrap DEF Skips
<1> HIDE DEF l, h, p
<1>5. CASE h - l < p
  <2>1. WordsFrom(l, h) = {}
    BY <1>1, <1>3, <1>5 DEF WordsFrom, Address
  <2> QED
    BY <1>2, <1>4, <1>5, <2>1
<1>6. CASE h - l >= p
  <2>1. l + p \in 0..h /\ p \in Address
    BY <1>1, <1>3, <1>6 DEF Address
  <2>2. Plus(l, p) = l + p
    BY <1>1, <2>1, NoWrap DEF Address
  <2>3. WordsFrom(l, h) = WordsFrom(l + p, h)
    <3>1. \A a : a \in l..h /\ a % word_size = 0 <=> a \in (l + p)..h /\ a % word_size = 0
      BY <1>1, <1>3, <2>1 DEF Address
    <3> QED
      BY <3>1, Zenon DEF WordsFrom
  <2>4. Aligned(Plus(l, p))
    BY <1>3, <2>2, Zenon DEF Aligned
  <2>5. ~(h - l < p)
    BY <1>1, <1>3, <1>6 DEF Address
  <2>6. /\ Skips(r) => WordsIn(r) = {}
        /\ ~Skips(r) => WordsIn(r) = WordsFrom(Plus(l, p), h)
    BY <1>2, <1>4, <2>2, <2>3, <2>5
  <2>7. Plus(l, p) \in 0..h
    BY <2>1, <2>2
  <2> QED
    BY <2>4, <2>6, <2>7, Zenon DEF l, h, p
<1> QED
  BY <1>1, <1>3, <1>5, <1>6 DEF Address

\* One turn of the loop takes exactly the first of the words that are left.
LEMMA OneWord ==
    ASSUME NEW c \in Address, NEW f \in Address, c <= f, Aligned(c)
    PROVE  /\ ~(Minus(f, c) >= word_size) => WordsFrom(c, f) = {}
           /\ Minus(f, c) >= word_size =>
                /\ Plus(c, word_size) \in 0..f
                /\ Aligned(Plus(c, word_size))
                /\ WordsFrom(c, f) = ({c} \ Poisoned) \cup WordsFrom(Plus(c, word_size), f)
<1>1. Minus(f, c) = f - c
  BY NoWrap
<1>2. /\ (c + word_size) % word_size = 0
      /\ \A a \in Nat : a > c /\ a % word_size = 0 => a >= c + word_size
  <2>1. c \in Nat
    BY DEF Address
  <2> QED
    BY <2>1, NextAligned, Zenon DEF Aligned
<1>3. CASE f - c < word_size
  BY <1>1, <1>3 DEF WordsFrom, Address
<1>4. CASE f - c >= word_size
  <2>1. word_size \in Address /\ c + word_size \in 0..f
    BY <1>4 DEF Address
  <2>2. Plus(c, word_size) = c + word_size
    BY <2>1, NoWrap DEF Address
  <2>3. \A a : /\ a \in c..f /\ a % word_size = 0 /\ a + word_size <= f
               <=> \/ a = c
                   \/ a \in (c + word_size)..f /\ a % word_size = 0 /\ a + word_size <= f
    BY <1>2, <1>4, <2>1 DEF Aligned, Address
  <2>4. WordsFrom(c, f) = ({c} \ Poisoned) \cup WordsFrom(c + word_size, f)
    BY <2>3 DEF WordsFrom
  <2> QED
    BY <1>1, <1>2, <1>4, <2>1, <2>2, <2>4 DEF Aligned
<1> QED
  BY <1>1, <1>3, <1>4 DEF Address

\* The filter on segments leaves out only segments without a word to read, and
\* the end of one that passes does not wrap.
LEMMA SegmentScan ==
    ASSUME NEW g \in Segments
    PROVE  /\ SkipsSegment(g) => SegmentWords(g) = {}
           /\ ~SkipsSegment(g) =>
                /\ <<Base(g), Plus(Base(g), g.memsz)>> \in Address \X Address
                /\ SegmentWords(g) = WordsIn(<<Base(g), Plus(Base(g), g.memsz)>>)
<1>1. g.addr \in Address /\ g.vaddr \in Address /\ g.memsz \in Address
  OBVIOUS
<1>2. Base(g) \in Address
  BY <1>1, NoWrap DEF Base
<1>3. CASE g.memsz > MaxWord - Base(g)
  <2>1. ~(Base(g) + g.memsz <= MaxWord)
    BY <1>1, <1>2, <1>3 DEF Address
  <2> QED
    BY <1>3, <2>1 DEF SkipsSegment, SegmentWords
<1>4. CASE ~(g.memsz > MaxWord - Base(g))
  <2>1. Base(g) + g.memsz <= MaxWord /\ Base(g) + g.memsz \in Address
    BY <1>1, <1>2, <1>4 DEF Address
  <2>2. Plus(Base(g), g.memsz) = Base(g) + g.memsz
    BY <1>1, <1>2, <2>1, NoWrap
  <2>3. ASSUME g.memsz = 0 PROVE SegmentWords(g) = {}
    <3> DEFINE r == <<Base(g), Base(g)>>
    <3>1. r \in Address \X Address /\ Base(g) + g.memsz = Base(g)
      BY <1>2, <2>3 DEF Address
    <3>2. Low(r) = Base(g) /\ High(r) = Base(g)
      BY <1>2 DEF Low, High, Min, Max, Address
    <3>3. WordsFrom(Base(g), Base(g)) = {}
      BY <1>2 DEF WordsFrom, Address
    <3>4. WordsIn(r) = {}
      BY <3>1, <3>2, <3>3, LowHigh
    <3> QED
      BY <3>1, <3>4 DEF SegmentWords
  <2> QED
    BY <1>2, <1>4, <2>1, <2>2, <2>3 DEF SkipsSegment, SegmentWords
<1> QED
  BY <1>3, <1>4

\* The elements of a sequence are its head and those of its tail.
LEMMA HeadAndTail ==
    ASSUME NEW S, NEW s \in Seq(S), s # <<>>
    PROVE  /\ Head(s) \in S /\ Tail(s) \in Seq(S)
           /\ Range(s) = {Head(s)} \cup Range(Tail(s))
<1>1. Tail(s) \in Seq(S) /\ Head(s) \in S
  BY HeadTailProperties
<1>2. /\ Len(s) \in Nat /\ Len(s) >= 1 /\ Len(Tail(s)) = Len(s) - 1 /\ Head(s) = s[1]
      /\ \A i \in 1..Len(Tail(s)) : Tail(s)[i] = s[i + 1]
  BY HeadTailProperties
<1>3. DOMAIN s = 1..Len(s) /\ DOMAIN Tail(s) = 1..Len(Tail(s))
  BY <1>1
<1>4. \A i \in 1..Len(s) : i = 1 \/ (i - 1 \in 1..Len(Tail(s)) /\ s[i] = Tail(s)[i - 1])
  BY <1>2
<1>5. \A i \in 1..Len(Tail(s)) : i + 1 \in 1..Len(s)
  BY <1>2
<1>6. ASSUME NEW x \in Range(s) PROVE x = Head(s) \/ x \in Range(Tail(s))
  BY <1>2, <1>3, <1>4 DEF Range
<1>7. Head(s) \in Range(s) /\ \A x \in Range(Tail(s)) : x \in Range(s)
  BY <1>2, <1>3, <1>5 DEF Range
<1> QED
  BY <1>1, <1>6, <1>7

-------------------------------------------------------------------------------
(* The invariant of a scan *)

RangeWords(rs) == UNION {WordsIn(r) : r \in Range(rs)}
ImageWords(gs) == UNION {SegmentWords(g) : g \in Range(gs)}
LoopWords == IF pc = "words" THEN WordsFrom(cur, finish) ELSE {}

\* The words the scan has still to read.
Ahead == LoopWords \cup RangeWords(ranges) \cup ImageWords(images)

\* The loop variable has not passed the limit.  What was read and what is ahead
\* was asked for, and as long as nothing was thrown it is all that was asked for.
\* An exception kept under the loader has ended the iteration over the images.
ScanInv ==
    /\ ScanTypeOK
    /\ ranges \in Seq(Address \X Address) /\ images \in Seq(Segments)
    /\ pc = "words" => cur <= finish
    /\ visited \subseteq expected /\ Ahead \subseteq expected
    /\ pc = "call" => visited = {} /\ Ahead = {} /\ ~in_loader /\ ~error
    /\ ~error /\ pc # "threw" => expected \subseteq visited \cup Ahead
    /\ in_loader => ranges = <<>>
    /\ error => pc \in {"next", "threw"} /\ ranges = <<>> /\ images = <<>>
    /\ pc = "threw" => ~in_loader
    /\ pc = "done" => ranges = <<>> /\ images = <<>> /\ ~error

\* The words of a range or of a segment are addresses.
LEMMA WordsAreAddresses ==
    /\ \A r \in Address \X Address : WordsIn(r) \subseteq Address
    /\ \A g \in Segments : SegmentWords(g) \subseteq Address
<1>1. ASSUME NEW r \in Address \X Address PROVE WordsIn(r) \subseteq Address
  <2>1. Low(r) \in Address /\ High(r) \in Address
    BY LowHigh
  <2>2. WordsFrom(Low(r), High(r)) \subseteq Address
    BY <2>1 DEF WordsFrom, Address
  <2> QED
    BY <2>2, LowHigh
<1>2. ASSUME NEW g \in Segments PROVE SegmentWords(g) \subseteq Address
  BY <1>1, SegmentScan
<1> QED
  BY <1>1, <1>2

\* Whatever the entry point asks for is a list of ranges of addresses.
LEMMA StackRanges ==
    ASSUME NEW top \in Address, NEW bottom \in Address
    PROVE  scan_stack_range(top, bottom) \in Seq(Address \X Address)
<1> DEFINE frames == {f \in FakeFrames : f.begin <= top /\ top < f.end}
           f == CHOOSE f \in frames : TRUE
<1>1. CASE top = 0 \/ bottom = 0
  BY <1>1 DEF scan_stack_range
<1>2. CASE ~(top = 0 \/ bottom = 0) /\ frames = {}
  <2>1. scan_stack_range(top, bottom) = <<<<top, bottom>>>>
    BY <1>2 DEF scan_stack_range
  <2> QED
    BY <2>1
<1>3. CASE ~(top = 0 \/ bottom = 0) /\ frames # {}
  <2>1. f \in FakeFrames
    BY <1>3
  <2>2. f.begin \in Address /\ f.end \in Address /\ f.real \in Address
    BY <2>1
  <2>3. scan_stack_range(top, bottom) = <<<<f.begin, f.end>>, <<f.real, bottom>>>>
    BY <1>3 DEF scan_stack_range
  <2> QED
    BY <2>2, <2>3
<1> QED
  BY <1>1, <1>2, <1>3

\* Entering a scan asks for the words of its ranges and segments.
LEMMA BeginKeeps ==
    ASSUME ScanInv, NEW rs \in Seq(Address \X Address), NEW gs \in Seq(Segments), Begin(rs, gs)
    PROVE  ScanInv'
<1> USE DEF Begin
<1>1. LoopWords' = {} /\ visited' = {} /\ error' = FALSE /\ in_loader' = FALSE
  BY DEF ScanInv, ScanTypeOK, LoopWords
<1>2. expected' = RangeWords(rs) \cup ImageWords(gs)
  BY DEF RangeWords, ImageWords
<1>3. Ahead' = expected'
  BY <1>1, <1>2, Zenon DEF Ahead, RangeWords, ImageWords
<1>4. Range(rs) \subseteq Address \X Address /\ Range(gs) \subseteq Segments
  BY DEF Range
<1>5. RangeWords(rs) \subseteq Address /\ ImageWords(gs) \subseteq Address
  BY <1>4, WordsAreAddresses, Zenon DEF RangeWords, ImageWords
<1>6. ScanTypeOK'
  BY <1>1, <1>2, <1>5 DEF ScanInv, ScanTypeOK
<1> QED
  BY <1>1, <1>3, <1>6 DEF ScanInv

\* Reading a word moves it from the words ahead to those read.
LEMMA VisitKeeps ==
    ASSUME ScanInv, VisitWord
    PROVE  ScanInv'
<1> USE DEF VisitWord
<1>1. cur \in Address /\ finish \in Address /\ cur <= finish /\ Aligned(cur)
  BY DEF ScanInv, ScanTypeOK, Aligned
<1>2. /\ Plus(cur, word_size) \in 0..finish
      /\ Aligned(Plus(cur, word_size))
      /\ WordsFrom(cur, finish) = ({cur} \ Poisoned) \cup WordsFrom(Plus(cur, word_size), finish)
  BY <1>1, OneWord DEF WordRemains
<1>3. cur' \in Address /\ cur' <= finish'
  BY <1>1, <1>2 DEF Address
<1>4. visited' = visited \cup ({cur} \ Poisoned)
  OBVIOUS
<1>5. LoopWords = ({cur} \ Poisoned) \cup LoopWords'
  BY <1>2 DEF LoopWords, WordsFrom
<1>6. Ahead = ({cur} \ Poisoned) \cup Ahead'
  BY <1>5, Zenon DEF Ahead, RangeWords, ImageWords
<1>7. ScanTypeOK'
  BY <1>1, <1>2, <1>3, <1>4 DEF ScanInv, ScanTypeOK, Aligned
<1> QED
  BY <1>3, <1>4, <1>6, <1>7 DEF ScanInv

\* The loop ends when no complete word is left.
LEMMA EndKeeps ==
    ASSUME ScanInv, EndOfWords
    PROVE  ScanInv'
<1> USE DEF EndOfWords
<1>1. cur \in Address /\ finish \in Address /\ cur <= finish /\ Aligned(cur)
  BY DEF ScanInv, ScanTypeOK, Aligned
<1>2. WordsFrom(cur, finish) = {}
  BY <1>1, OneWord DEF WordRemains
<1>3. LoopWords = {} /\ LoopWords' = {}
  BY <1>2 DEF LoopWords
<1>4. Ahead' = Ahead
  BY <1>3, Zenon DEF Ahead, RangeWords, ImageWords
<1>5. ScanTypeOK'
  BY DEF ScanInv, ScanTypeOK
<1> QED
  BY <1>4, <1>5 DEF ScanInv

\* An exception leaves at once, or is kept and leaves nothing ahead.
LEMMA ThrowKeeps ==
    ASSUME ScanInv, VisitorThrows
    PROVE  ScanInv'
<1> USE DEF VisitorThrows
<1>1. LoopWords' = {}
  BY DEF LoopWords
<1>2. images' \in Seq(Segments) /\ ImageWords(images') \subseteq ImageWords(images)
  <2>1. Range(<<>>) = {}
    BY DEF Range
  <2>2. ImageWords(<<>>) = {}
    BY <2>1, Zenon DEF ImageWords
  <2> QED
    BY <2>2 DEF ScanInv
<1>3. Ahead' \subseteq Ahead
  BY <1>1, <1>2 DEF Ahead, RangeWords, ImageWords
<1>4. ScanTypeOK'
  BY DEF ScanInv, ScanTypeOK
<1> QED
  BY <1>2, <1>3, <1>4 DEF ScanInv

\* scan_words puts the words of its range, and no others, before the loop.
LEMMA ScanWordsSeen ==
    ASSUME ScanInv, NEW r \in Address \X Address, scan_words(r)
    PROVE  /\ pc' \in {"next", "words"} /\ cur' \in Address /\ finish' \in Address
           /\ pc' = "words" => cur' <= finish' /\ Aligned(cur')
           /\ LoopWords' = WordsIn(r)
<1>0. cur \in Address /\ finish \in Address
  BY DEF ScanInv, ScanTypeOK
<1>1. CASE Skips(r)
  BY <1>0, <1>1, FirstWord DEF scan_words, LoopWords
<1>2. CASE ~Skips(r)
  <2> DEFINE c == Plus(Low(r), Padding(r))
             h == High(r)
  <2>1. c \in 0..h /\ Aligned(c) /\ WordsIn(r) = WordsFrom(c, h)
    BY <1>2, FirstWord
  <2>2. h \in Address
    BY LowHigh
  <2>3. pc' = "words" /\ cur' = c /\ finish' = h
    BY <1>2 DEF scan_words
  <2> HIDE DEF c, h
  <2>4. c \in Address /\ c <= h
    BY <2>1, <2>2 DEF Address
  <2>5. LoopWords' = WordsFrom(c, h)
    BY <2>3 DEF LoopWords, WordsFrom
  <2> QED
    BY <2>1, <2>2, <2>3, <2>4, <2>5
<1> QED
  BY <1>1, <1>2

\* The next range goes from the list to the loop.
LEMMA RangeKeeps ==
    ASSUME ScanInv, NextRange
    PROVE  ScanInv'
<1> USE DEF NextRange
<1> DEFINE r == Head(ranges)
<1>1. /\ r \in Address \X Address /\ Tail(ranges) \in Seq(Address \X Address)
      /\ Range(ranges) = {r} \cup Range(Tail(ranges))
  BY HeadAndTail DEF ScanInv
<1>2. RangeWords(ranges) = WordsIn(r) \cup RangeWords(ranges')
  BY <1>1, Zenon DEF RangeWords
<1>3. /\ pc' \in {"next", "words"} /\ cur' \in Address /\ finish' \in Address
      /\ pc' = "words" => cur' <= finish' /\ Aligned(cur')
      /\ LoopWords' = WordsIn(r)
  BY <1>1, ScanWordsSeen
<1>4. LoopWords = {}
  BY DEF LoopWords
<1> HIDE DEF r
<1>5. Ahead' = Ahead
  BY <1>2, <1>3, <1>4 DEF Ahead, ImageWords
<1>6. ScanTypeOK'
  BY <1>3 DEF ScanInv, ScanTypeOK, Aligned
<1>7. ~error /\ ~in_loader
  BY DEF ScanInv, ScanTypeOK
<1> QED
  BY <1>1, <1>3, <1>5, <1>6, <1>7 DEF ScanInv

\* The next segment goes from the list to the loop, or had nothing to read.
LEMMA ImageKeeps ==
    ASSUME ScanInv, scan_linux_image
    PROVE  ScanInv'
<1> USE DEF scan_linux_image
<1> DEFINE g == Head(images)
<1>1. /\ g \in Segments /\ Tail(images) \in Seq(Segments)
      /\ Range(images) = {g} \cup Range(Tail(images))
  BY HeadAndTail DEF ScanInv
<1>2. ImageWords(images) = SegmentWords(g) \cup ImageWords(images')
  BY <1>1, Zenon DEF ImageWords
<1>3. /\ pc' \in {"next", "words"} /\ cur' \in Address /\ finish' \in Address
      /\ pc' = "words" => cur' <= finish' /\ Aligned(cur')
      /\ LoopWords' = SegmentWords(g)
  <2>1. CASE SkipsSegment(g)
    BY <1>1, <2>1, SegmentScan DEF ScanInv, ScanTypeOK, LoopWords
  <2>2. CASE ~SkipsSegment(g)
    <3> DEFINE r == <<Base(g), Plus(Base(g), g.memsz)>>
    <3>1. r \in Address \X Address /\ SegmentWords(g) = WordsIn(r)
      BY <1>1, <2>2, SegmentScan
    <3>2. scan_words(r)
      BY <2>2
    <3> HIDE DEF r
    <3> QED
      BY <3>1, <3>2, ScanWordsSeen
  <2> QED
    BY <2>1, <2>2
<1>4. LoopWords = {}
  BY DEF LoopWords
<1> HIDE DEF g
<1>5. Ahead' = Ahead
  BY <1>2, <1>3, <1>4 DEF Ahead, RangeWords
<1>6. ScanTypeOK'
  BY <1>3 DEF ScanInv, ScanTypeOK, Aligned
<1>7. ~error
  BY DEF ScanInv, ScanTypeOK
<1> QED
  BY <1>1, <1>3, <1>5, <1>6, <1>7 DEF ScanInv

\* Returning, or throwing the kept exception again, reads nothing.
LEMMA ReturnKeeps ==
    ASSUME ScanInv, Return
    PROVE  ScanInv'
<1> USE DEF Return
<1>1. LoopWords = {} /\ LoopWords' = {}
  BY DEF LoopWords
<1>2. Ahead' = Ahead
  BY <1>1, Zenon DEF Ahead, RangeWords, ImageWords
<1>3. ScanTypeOK'
  BY DEF ScanInv, ScanTypeOK
<1> QED
  BY <1>2, <1>3 DEF ScanInv

\* Before the first call nothing was read and nothing is ahead.
LEMMA ScanStarts ==
    ASSUME ScanInit
    PROVE  ScanInv
<1> USE DEF ScanInit
<1>1. Range(<<>>) = {}
  BY DEF Range
<1>2. RangeWords(ranges) = {} /\ ImageWords(images) = {}
  BY <1>1, Zenon DEF RangeWords, ImageWords
<1>3. Ahead = {}
  BY <1>2 DEF Ahead, LoopWords
<1>4. ScanTypeOK
  <2>1. 0 \in Address /\ pc # "words"
    BY DEF Address
  <2> QED
    BY <2>1, Zenon DEF ScanTypeOK
<1> QED
  BY <1>3, <1>4 DEF ScanInv

\* The inductive invariant of a scan holds for every address space, word size,
\* list of segments and set of poisoned words.
THEOREM ScanInvariant == ScanSpec => []ScanInv
<1>1. ScanInit => ScanInv
  BY ScanStarts
<1>2. ScanInv /\ [ScanNext]_scanVars => ScanInv'
  <2> SUFFICES ASSUME ScanInv, [ScanNext]_scanVars PROVE ScanInv'
    OBVIOUS
  <2>1. ASSUME NEW a \in Address, NEW b \in Address, scan_range(a, b) PROVE ScanInv'
    <3>1. <<<<a, b>>>> \in Seq(Address \X Address) /\ <<>> \in Seq(Segments)
      OBVIOUS
    <3> QED
      BY <2>1, <3>1, BeginKeeps DEF scan_range
  <2>2. ASSUME NEW a \in Address, NEW b \in Address, scan_thread_stack(a, b) PROVE ScanInv'
    <3>1. <<>> \in Seq(Segments)
      OBVIOUS
    <3> QED
      BY <2>2, <3>1, StackRanges, BeginKeeps DEF scan_thread_stack
  <2>3. ASSUME NEW b \in Address, NEW gs \in SeqOf(Segments, MaxImages), scan(b, gs)
        PROVE  ScanInv'
    <3>1. gs \in Seq(Segments)
      BY DEF SeqOf
    <3>2. <<Registers>> \in Seq(Address \X Address)
      OBVIOUS
    <3>3. scan_stack_range(Marker, b) \in Seq(Address \X Address)
      BY StackRanges
    <3>4. <<Registers>> \o scan_stack_range(Marker, b) \in Seq(Address \X Address)
      BY <3>2, <3>3, ConcatProperties
    <3> QED
      BY <2>3, <3>1, <3>4, BeginKeeps DEF scan
  <2>4. CASE Step
    BY <2>4, VisitKeeps, EndKeeps, ThrowKeeps, RangeKeeps, ImageKeeps, ReturnKeeps DEF Step
  <2>5. CASE UNCHANGED scanVars
    <3>1. Ahead' = Ahead
      BY <2>5, Zenon DEF scanVars, Ahead, LoopWords, RangeWords, ImageWords
    <3>2. ScanTypeOK'
      BY <2>5 DEF scanVars, ScanInv, ScanTypeOK
    <3> QED
      BY <2>5, <3>1, <3>2 DEF scanVars, ScanInv
  <2> QED
    BY <2>1, <2>2, <2>3, <2>4, <2>5 DEF ScanNext
<1> QED
  BY <1>1, <1>2, PTL DEF ScanSpec

\* No word outside the ranges asked for is read: neither the padding nor the
\* last partial word wraps around.
THEOREM ReadsInBoundsAlways == ScanSpec => []ReadsInBounds
<1>1. ScanInv => ReadsInBounds
  BY DEF ScanInv, ReadsInBounds
<1> QED
  BY <1>1, ScanInvariant, PTL

\* A scan that returns has read every complete aligned word of its ranges that
\* is not poisoned, and no exception of the visitor was lost.
THEOREM ScanCompleteAlways == ScanSpec => []ScanComplete
<1>1. ASSUME ScanInv, pc = "done" PROVE visited = expected /\ ~error
  <2>1. ranges = <<>> /\ images = <<>> /\ ~error /\ LoopWords = {}
    BY <1>1 DEF ScanInv, LoopWords
  <2>2. Range(<<>>) = {}
    BY DEF Range
  <2>3. RangeWords(ranges) = {} /\ ImageWords(images) = {}
    BY <2>1, <2>2, Zenon DEF RangeWords, ImageWords
  <2>4. Ahead = {}
    BY <2>1, <2>3 DEF Ahead
  <2> QED
    BY <1>1, <2>1, <2>4 DEF ScanInv
<1>2. ScanInv => ScanComplete
  BY <1>1 DEF ScanComplete
<1> QED
  BY <1>2, ScanInvariant, PTL

\* No exception unwinds through dl_iterate_phdr.
THEOREM LoaderNotUnwoundAlways == ScanSpec => []LoaderNotUnwound
<1>1. ScanInv => LoaderNotUnwound
  BY DEF ScanInv, LoaderNotUnwound
<1> QED
  BY <1>1, ScanInvariant, PTL
===============================================================================
