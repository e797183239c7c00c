------------------------ MODULE FinalizationOrderProofs ------------------------
(***************************************************************************)
(* Machine-checked proofs about the order of finalization, for any number  *)
(* of dead blocks and any pointers between them.                           *)
(***************************************************************************)
EXTENDS FinalizationOrder, FiniteSetTheorems, SequenceTheorems, TLAPS

-------------------------------------------------------------------------------
(* The inductive invariant *)

\* The blocks that still hold c back.
Waiting(c) == {b \in Blocks \ Emitted : c \in Outgoing(b)}

\* No block is in the result twice.
NoRepeats == \A i, j \in 1..Len(ordered) : ordered[i] = ordered[j] => i = j

\* Nothing is emitted before the first loop.
AtStart == phase = "edges" => ordered = <<>>

\* Kahn's invariant: indegree counts the sources that are not emitted yet, the
\* queue has the blocks with none, and a block came after all its sources.
WhileEmitting ==
    phase = "emit" =>
        /\ edges = [b \in Blocks |-> Outgoing(b)]
        /\ \A c \in Blocks : indegree[c] = Cardinality(Waiting(c))
        /\ ready = {c \in Blocks \ Emitted : Waiting(c) = {}}
        /\ \A c \in Emitted : \A b \in Blocks : c \in Outgoing(b) => Before(b, c)

\* The pointers that are not along or behind a cycle are respected.
BehindCycle(c) == \E d \in Blocks : OnCycle(d) /\ c \in Downstream(d)
Respected ==
    \A b \in Blocks : \A c \in DependsOn(b) : ~BehindCycle(c) => Before(b, c)

\* The second loop has added everything above rest.
WhileAppending ==
    phase = "rest" => rest <= count /\ \A b \in Blocks : b > rest => b \in Emitted

Complete == phase \in {"finalize", "free", "done"} => Emitted = Blocks

NothingFreed == phase # "done" => freed = {}

OrderInv ==
    /\ TypeOK /\ NoRepeats /\ AtStart /\ WhileEmitting /\ WhileAppending /\ Complete
    /\ phase \in {"rest", "finalize", "free", "done"} => Respected
    /\ NothingFreed
-------------------------------------------------------------------------------
(* Graphs: a finite set in which every block has a source lies behind a cycle *)

LEMMA BlocksFinite ==
    ASSUME count \in Nat
    PROVE  IsFiniteSet(Blocks) /\ Cardinality(Blocks) = count
<1>1. 1 \in Int /\ count \in Int
  OBVIOUS
<1>2. IsFiniteSet(1..count) /\ Cardinality(1..count) = IF 1 > count THEN 0 ELSE count - 1 + 1
  BY <1>1, FS_Interval
<1> QED
  BY <1>2 DEF Blocks

\* Among sets indexed by a non-empty set there is one that contains no other.
LEMMA SmallestSet ==
    ASSUME NEW B, IsFiniteSet(B), NEW U, U # {}, NEW f \in [U -> SUBSET B]
    PROVE  \E m \in U : \A y \in U : f[y] \subseteq f[m] => f[y] = f[m]
<1> DEFINE F == {f[x] : x \in U}
<1>1. F \subseteq SUBSET B /\ F # {}
  OBVIOUS
<1>2. IsWellFoundedOn(StrictSubsetOrdering(B), SUBSET B)
  BY FS_FiniteSubsetsOfFinite, FS_StrictSubsetOrderingWellFounded
<1>3. \E T \in F : \A V \in F : ~(<<V, T>> \in StrictSubsetOrdering(B))
  <2> HIDE DEF F
  <2> QED
    BY <1>1, <1>2, WFMin
<1>4. PICK m \in U : \A V \in F : ~(<<V, f[m]>> \in StrictSubsetOrdering(B))
  BY <1>3
<1>5. ASSUME NEW y \in U, f[y] \subseteq f[m] PROVE f[y] = f[m]
  BY <1>4, <1>5 DEF StrictSubsetOrdering
<1> QED
  BY <1>5

LEMMA PointerIsDownstream ==
    ASSUME TypeOK, NEW b \in Blocks, NEW c \in DependsOn(b)
    PROVE  c \in Blocks /\ c \in Downstream(b)
<1>1. c \in Blocks
  BY DEF TypeOK, DependsOn
<1> QED
  BY <1>1 DEF Downstream

LEMMA DownstreamTransitive ==
    ASSUME NEW b \in Blocks, NEW c \in Downstream(b), NEW d \in Downstream(c)
    PROVE  d \in Downstream(b)
<1>1. d \in Blocks
  BY DEF Downstream
<1>2. ASSUME NEW S \in SUBSET Blocks, DependsOn(b) \subseteq S,
             \A e \in S : DependsOn(e) \subseteq S
      PROVE  d \in S
  <2>1. c \in S
    BY <1>2 DEF Downstream
  <2>2. DependsOn(c) \subseteq S
    BY <1>2, <2>1
  <2> QED
    BY <1>2, <2>2 DEF Downstream
<1> QED
  BY <1>1, <1>2 DEF Downstream

LEMMA StuckIsBehindCycle ==
    ASSUME TypeOK, NEW R \in SUBSET Blocks,
           \A c \in R : \E b \in R : c \in DependsOn(b),
           NEW c \in R
    PROVE  BehindCycle(c)
<1> SUFFICES ASSUME ~BehindCycle(c) PROVE FALSE
  OBVIOUS
<1> DEFINE U == {x \in R : c \in Downstream(x)}
           Above(x) == {y \in U : x \in Downstream(y)}
           f == [x \in U |-> Above(x)]
<1>1. \A x \in U : x \notin Downstream(x)
  BY DEF BehindCycle, OnCycle
<1>2. U # {}
  BY PointerIsDownstream
<1>3. \A x \in U : \E y \in U : y \in Above(x)
  <2> TAKE x \in U
  <2>1. PICK y \in R : x \in DependsOn(y)
    OBVIOUS
  <2>2. x \in Downstream(y)
    BY <2>1, PointerIsDownstream
  <2>3. c \in Downstream(y)
    BY <2>2, DownstreamTransitive
  <2> QED
    BY <2>2, <2>3
<1>4. \A x \in U : \A y \in Above(x) : Above(y) \subseteq Above(x) /\ y \notin Above(y)
  <2> TAKE x \in U
  <2> TAKE y \in Above(x)
  <2>1. ASSUME NEW z \in Above(y) PROVE z \in Above(x)
    BY DownstreamTransitive
  <2>2. y \notin Above(y)
    BY <1>1
  <2> QED
    BY <2>1, <2>2
<1>5. IsFiniteSet(Blocks)
  BY MaxBlocksAssumption, BlocksFinite DEF TypeOK
<1>6. f \in [U -> SUBSET Blocks]
  OBVIOUS
<1>7. \E m \in U : \A y \in U : f[y] \subseteq f[m] => f[y] = f[m]
  <2> HIDE DEF U, f
  <2> QED
    BY <1>2, <1>5, <1>6, SmallestSet
<1>8. PICK m \in U : \A y \in U : Above(y) \subseteq Above(m) => Above(y) = Above(m)
  BY <1>7
<1>9. PICK y \in U : y \in Above(m)
  BY <1>3
<1> HIDE DEF U, Above
<1> QED
  BY <1>4, <1>8, <1>9

\* What the pointers say does not change in a step.
LEMMA GraphUnchanged ==
    ASSUME UNCHANGED <<count, refs>>
    PROVE  /\ Blocks' = Blocks
           /\ \A b : Outgoing(b)' = Outgoing(b) /\ DependsOn(b)' = DependsOn(b)
           /\ \A c : BehindCycle(c)' = BehindCycle(c)
BY DEF Blocks, Outgoing, DependsOn, BehindCycle, OnCycle, Downstream
-------------------------------------------------------------------------------
(* Sequences: what an addition to the result changes *)

LEMMA EmittedIsBlocks ==
    ASSUME ordered \in Seq(Blocks)
    PROVE  Emitted \subseteq Blocks /\ Len(ordered) \in Nat
BY ElementOfSeq, LenProperties DEF Emitted

LEMMA AppendToResult ==
    ASSUME ordered \in Seq(Blocks), NoRepeats, NEW b \in Blocks, b \notin Emitted,
           ordered' = Append(ordered, b), count' = count
    PROVE  /\ ordered' \in Seq(Blocks)' /\ Len(ordered') = Len(ordered) + 1
           /\ Emitted' = Emitted \cup {b}
           /\ NoRepeats'
           /\ \A c, d : Before(c, d) => Before(c, d)'
           /\ \A c \in Emitted : Before(c, b)'
<1> DEFINE n == Len(ordered)
<1>0. n \in Nat
  BY LenProperties
<1>1. /\ ordered' \in Seq(Blocks)
      /\ Len(ordered') = n + 1
      /\ \A i \in 1..n : ordered'[i] = ordered[i]
      /\ ordered'[n + 1] = b
  BY AppendProperties
<1>2. Blocks' = Blocks
  BY DEF Blocks
<1> HIDE DEF n
<1>3. Emitted = {ordered[k] : k \in 1..n} /\ Emitted' = {ordered'[k] : k \in 1..(n + 1)}
  BY <1>1 DEF Emitted, n
<1>4. Emitted' = Emitted \cup {b}
  <2>1. 1..(n + 1) = (1..n) \cup {n + 1}
    BY <1>0
  <2> QED
    BY <1>1, <1>3, <2>1
<1>5. NoRepeats'
  <2> SUFFICES ASSUME NEW i \in 1..(n + 1), NEW j \in 1..(n + 1), ordered'[i] = ordered'[j]
               PROVE  i = j
    BY <1>1 DEF NoRepeats
  <2>1. CASE i \in 1..n /\ j \in 1..n
    BY <1>1, <2>1 DEF NoRepeats, n
  <2>2. CASE i = n + 1 \/ j = n + 1
    BY <1>0, <1>1, <1>3, <2>2
  <2> QED
    BY <1>0, <2>1, <2>2
<1>6. ASSUME NEW c, NEW d, Before(c, d) PROVE Before(c, d)'
  <2>1. PICK i \in 1..n, j \in 1..n : ordered[i] = c /\ ordered[j] = d /\ i < j
    BY <1>6 DEF Before, n
  <2>2. i \in 1..(n + 1) /\ j \in 1..(n + 1) /\ ordered'[i] = c /\ ordered'[j] = d
    BY <1>0, <1>1, <2>1
  <2> QED
    BY <1>1, <2>1, <2>2 DEF Before
<1>7. ASSUME NEW c \in Emitted PROVE Before(c, b)'
  <2>1. PICK i \in 1..n : ordered[i] = c
    BY <1>3
  <2>2. i \in 1..(n + 1) /\ n + 1 \in 1..(n + 1) /\ i < n + 1 /\ ordered'[i] = c
    BY <1>0, <1>1, <2>1
  <2> QED
    BY <1>1, <2>1, <2>2 DEF Before
<1> QED
  BY <1>1, <1>2, <1>4, <1>5, <1>6, <1>7 DEF n

LEMMA WaitingFinite ==
    ASSUME TypeOK, NEW c
    PROVE  /\ IsFiniteSet(Waiting(c)) /\ Cardinality(Waiting(c)) \in 0..MaxBlocks
           /\ Cardinality(Waiting(c)) = 0 <=> Waiting(c) = {}
<1>1. count \in Nat /\ count <= MaxBlocks /\ MaxBlocks \in Nat
  BY MaxBlocksAssumption DEF TypeOK
<1>2. Waiting(c) \in SUBSET Blocks
  BY DEF Waiting
<1>3. IsFiniteSet(Waiting(c)) /\ Cardinality(Waiting(c)) <= count
  BY <1>1, <1>2, BlocksFinite, FS_Subset
<1>4. Cardinality(Waiting(c)) \in Nat
  BY <1>3, FS_CardinalityType
<1>5. Cardinality(Waiting(c)) = 0 <=> Waiting(c) = {}
  BY <1>3, FS_EmptySet
<1> QED
  BY <1>1, <1>3, <1>4, <1>5
-------------------------------------------------------------------------------
(* The invariant is inductive *)

LEMMA OrderInit == ASSUME Init PROVE OrderInv
<1> USE MaxBlocksAssumption
<1>1. ordered = <<>> /\ Len(ordered) = 0 /\ phase = "edges" /\ count \in 0..MaxBlocks
  BY DEF Init
<1>2. ordered \in Seq(Blocks)
  BY <1>1, EmptySeq
<1>3. TypeOK
  BY <1>1, <1>2 DEF Init, TypeOK
<1>4. NoRepeats
  BY <1>1 DEF NoRepeats
<1> QED
  BY <1>1, <1>3, <1>4 DEF Init, OrderInv, AtStart, WhileEmitting, WhileAppending, Complete,
     NothingFreed

LEMMA OrderFewKeeps == ASSUME OrderInv, OrderFew PROVE OrderInv'
<1> USE MaxBlocksAssumption
<1>1. count \in Nat /\ count <= 1 /\ count \in 0..MaxBlocks /\ UNCHANGED <<count, refs>>
  BY DEF OrderInv, TypeOK, OrderFew
<1>2. /\ ordered' = [k \in 1..count |-> k] /\ phase' = "finalize"
      /\ finalized' = finalized /\ finalized = 0
      /\ UNCHANGED <<edges, indegree, ready, rest, freed>>
  <2>1. Len(ordered) = 0
    BY DEF OrderInv, AtStart, OrderFew
  <2> QED
    BY <2>1 DEF OrderFew, Blocks, OrderInv, TypeOK
<1>3. Blocks' = Blocks /\ Blocks = 1..count
  BY <1>1 DEF Blocks
<1>4. ordered' \in Seq(1..count) /\ Len(ordered') = count
  BY <1>1, <1>2, IsASeq, LenProperties
<1>5. Emitted' = Blocks'
  BY <1>2, <1>3, <1>4 DEF Emitted
<1>6. NoRepeats'
  BY <1>2, <1>4 DEF NoRepeats
<1>7. TypeOK'
  BY <1>1, <1>2, <1>3, <1>4 DEF OrderInv, TypeOK
<1>8. Respected'
  <2>1. \A b \in Blocks : DependsOn(b) = {}
    BY <1>1, <1>3 DEF DependsOn, OrderInv, TypeOK
  <2> QED
    BY <1>1, <2>1, GraphUnchanged DEF Respected
<1> QED
  BY <1>2, <1>5, <1>6, <1>7, <1>8 DEF OrderInv, AtStart, WhileEmitting, WhileAppending, Complete,
     NothingFreed, OrderFew

LEMMA BuildEdgesKeeps == ASSUME OrderInv, BuildEdges PROVE OrderInv'
<1>1. /\ ordered = <<>> /\ ordered' = <<>> /\ phase' = "emit" /\ phase = "edges"
      /\ UNCHANGED <<count, refs, rest, finalized, freed>>
  BY DEF BuildEdges, OrderInv, AtStart
<1>2. /\ Blocks' = Blocks /\ Emitted = {} /\ Emitted' = {}
      /\ \A b : Outgoing(b)' = Outgoing(b)
  BY <1>1, GraphUnchanged DEF Emitted
<1>3. \A c : Waiting(c) = {b \in Blocks : c \in Outgoing(b)} /\ Waiting(c)' = Waiting(c)
  BY <1>2 DEF Waiting
<1>4. /\ edges' = [b \in Blocks |-> Outgoing(b)]
      /\ indegree' = [c \in Blocks |-> Cardinality(Waiting(c))]
      /\ ready' = {c \in Blocks : indegree'[c] = 0}
  BY <1>3 DEF BuildEdges
<1>5. /\ \A c \in Blocks : indegree'[c] = Cardinality(Waiting(c)')
      /\ ready' = {c \in Blocks \ Emitted' : Waiting(c)' = {}}
  BY <1>2, <1>3, <1>4, WaitingFinite DEF OrderInv
<1>6. TypeOK'
  <2>1. \A b \in Blocks : Outgoing(b) \in SUBSET Blocks
    BY DEF Outgoing, OrderInv, TypeOK
  <2>2. indegree' \in [Blocks -> 0..MaxBlocks]
    BY <1>4, WaitingFinite DEF OrderInv
  <2>3. ready' \in SUBSET Blocks
    BY <1>4
  <2> QED
    BY <1>1, <1>2, <1>4, <2>1, <2>2, <2>3 DEF OrderInv, TypeOK
<1>7. NoRepeats'
  BY <1>1 DEF OrderInv, NoRepeats
<1>8. WhileEmitting'
  <2>1. edges' = [b \in Blocks' |-> Outgoing(b)']
    BY <1>2, <1>4
  <2> QED
    BY <1>2, <1>5, <2>1 DEF WhileEmitting
<1> QED
  BY <1>1, <1>6, <1>7, <1>8 DEF OrderInv, AtStart, WhileAppending, Complete, NothingFreed

LEMMA EmitKeeps == ASSUME OrderInv, Emit PROVE OrderInv'
<1>1. /\ phase = "emit" /\ phase' = "emit"
      /\ UNCHANGED <<count, refs, edges, rest, finalized, freed>>
  BY DEF Emit
<1>2. PICK b \in ready :
          /\ ordered' = Append(ordered, b)
          /\ indegree' = [c \in Blocks |-> IF c \in edges[b] /\ indegree[c] > 0
                                           THEN indegree[c] - 1 ELSE indegree[c]]
          /\ ready' = (ready \ {b}) \cup BecomeReady(b)
  BY DEF Emit
<1>3. /\ edges = [x \in Blocks |-> Outgoing(x)]
      /\ \A c \in Blocks : indegree[c] = Cardinality(Waiting(c))
      /\ ready = {c \in Blocks \ Emitted : Waiting(c) = {}}
      /\ \A c \in Emitted : \A x \in Blocks : c \in Outgoing(x) => Before(x, c)
  BY <1>1 DEF OrderInv, WhileEmitting
<1>4. TypeOK /\ ordered \in Seq(Blocks) /\ NoRepeats /\ MaxBlocks \in Nat
  BY MaxBlocksAssumption DEF OrderInv, TypeOK
<1>5. b \in Blocks /\ b \notin Emitted /\ Waiting(b) = {}
  BY <1>3
<1>6. /\ ordered' \in Seq(Blocks)' /\ Len(ordered') = Len(ordered) + 1
      /\ Emitted' = Emitted \cup {b} /\ NoRepeats'
      /\ \A c, d : Before(c, d) => Before(c, d)'
      /\ \A c \in Emitted : Before(c, b)'
  BY <1>1, <1>2, <1>4, <1>5, AppendToResult
<1>7. Blocks' = Blocks /\ \A x : Outgoing(x)' = Outgoing(x)
  BY <1>1, GraphUnchanged
<1>8. edges[b] = Outgoing(b) /\ Outgoing(b) \subseteq Blocks /\ b \notin Outgoing(b)
  BY <1>3, <1>4, <1>5 DEF Outgoing, TypeOK
<1>9. \A c : /\ b \in Waiting(c) <=> c \in Outgoing(b)
             /\ Waiting(c)' = Waiting(c) \ {b}
  BY <1>5, <1>6, <1>7 DEF Waiting
\* Nobody waits for a block that has been emitted.
<1>10. \A c \in Emitted : Waiting(c) = {}
  <2> SUFFICES ASSUME NEW c \in Emitted, NEW x \in Waiting(c) PROVE FALSE
    OBVIOUS
  <2>1. x \in Blocks /\ x \notin Emitted /\ c \in Outgoing(x)
    BY DEF Waiting
  <2>2. Before(x, c)
    BY <1>3, <2>1
  <2> QED
    BY <2>1, <2>2 DEF Before, Emitted
<1>11. ASSUME NEW c \in Blocks PROVE indegree'[c] = Cardinality(Waiting(c)')
  <2>1. /\ IsFiniteSet(Waiting(c)) /\ Cardinality(Waiting(c)) \in Nat
        /\ Cardinality(Waiting(c)) = 0 <=> Waiting(c) = {}
    BY <1>4, WaitingFinite
  <2>2. Cardinality(Waiting(c) \ {b}) = IF b \in Waiting(c) THEN Cardinality(Waiting(c)) - 1
                                                            ELSE Cardinality(Waiting(c))
    BY <2>1, FS_RemoveElement
  <2>3. b \in Waiting(c) => Cardinality(Waiting(c)) > 0
    BY <2>1
  <2>4. indegree'[c] = IF c \in Outgoing(b) /\ indegree[c] > 0 THEN indegree[c] - 1 ELSE indegree[c]
    BY <1>2, <1>8
  <2> QED
    BY <1>3, <1>9, <2>2, <2>3, <2>4
<1>12. ready' = {c \in Blocks \ Emitted' : Waiting(c)' = {}}
  <2>1. ASSUME NEW c \in Blocks, c \in BecomeReady(b) PROVE c \notin Emitted' /\ Waiting(c)' = {}
    <3>1. c \in Outgoing(b) /\ Cardinality(Waiting(c)) = 1
      BY <1>3, <1>8, <2>1 DEF BecomeReady
    <3>2. indegree'[c] = 0
      BY <1>2, <1>3, <1>8, <3>1
    <3>3. Cardinality(Waiting(c)') = 0
      BY <1>11, <3>2
    <3>4. IsFiniteSet(Waiting(c) \ {b})
      BY <1>4, WaitingFinite, FS_RemoveElement
    <3>5. Waiting(c)' = {}
      BY <1>9, <3>3, <3>4, FS_EmptySet
    <3>6. c # b /\ c \notin Emitted
      BY <1>8, <1>9, <1>10, <3>1
    <3> QED
      BY <1>6, <3>5, <3>6
  <2>2. ASSUME NEW c \in ready, c # b PROVE c \in Blocks /\ c \notin Emitted' /\ Waiting(c)' = {}
    BY <1>3, <1>6, <1>9, <2>2
  <2>3. ASSUME NEW c \in Blocks, c \notin Emitted', Waiting(c)' = {} PROVE c \in ready'
    <3>1. c # b /\ c \notin Emitted
      BY <1>6, <2>3
    <3>2. CASE b \notin Waiting(c)
      <4>1. Waiting(c) = {}
        BY <1>9, <2>3, <3>2
      <4> QED
        BY <1>2, <1>3, <3>1, <4>1
    <3>3. CASE b \in Waiting(c)
      <4>1. Waiting(c) = {b}
        BY <1>9, <2>3, <3>3
      <4>2. Cardinality(Waiting(c)) = 1
        BY <4>1, FS_Singleton
      <4>3. c \in BecomeReady(b)
        BY <1>3, <1>8, <1>9, <3>3, <4>2 DEF BecomeReady
      <4> QED
        BY <1>2, <4>3
    <3> QED
      BY <3>2, <3>3
  <2>4. BecomeReady(b) \subseteq Blocks
    BY <1>8 DEF BecomeReady
  <2>5. ASSUME NEW c \in ready' PROVE c \in {x \in Blocks \ Emitted' : Waiting(x)' = {}}
    BY <1>2, <2>1, <2>2, <2>4
  <2> QED
    BY <2>3, <2>5
<1>13. \A c \in Emitted' : \A x \in Blocks : c \in Outgoing(x) => Before(x, c)'
  <2> SUFFICES ASSUME NEW c \in Emitted', NEW x \in Blocks, c \in Outgoing(x) PROVE Before(x, c)'
    OBVIOUS
  <2>1. CASE c \in Emitted
    BY <1>3, <1>6, <2>1
  <2>2. CASE c = b
    <3>1. x \in Emitted
      BY <1>5, <2>2 DEF Waiting
    <3> QED
      BY <1>6, <2>2, <3>1
  <2> QED
    BY <1>6, <2>1, <2>2
<1>14. WhileEmitting'
  <2>1. edges' = [x \in Blocks' |-> Outgoing(x)']
    BY <1>1, <1>3, <1>7
  <2> QED
    BY <1>7, <1>11, <1>12, <1>13, <2>1 DEF WhileEmitting
<1>15. TypeOK'
  <2>1. indegree' \in [Blocks -> 0..MaxBlocks]
    <3>1. \A c \in Blocks : indegree[c] \in 0..MaxBlocks
      BY <1>4 DEF TypeOK
    <3> QED
      BY <1>2, <1>4, <3>1
  <2>2. ready' \in SUBSET Blocks
    BY <1>12
  <2>3. finalized' \in 0..Len(ordered')
    <3>1. finalized \in 0..Len(ordered) /\ Len(ordered) \in Nat
      BY <1>4, LenProperties DEF TypeOK
    <3> QED
      BY <1>1, <1>6, <3>1
  <2> QED
    BY <1>1, <1>4, <1>6, <1>7, <2>1, <2>2, <2>3 DEF TypeOK
<1> QED
  BY <1>1, <1>6, <1>14, <1>15 DEF OrderInv, AtStart, WhileAppending, Complete, NothingFreed

\* When the queue is empty every block that is left has a source that is left,
\* so it lies behind a cycle; all others were emitted after their sources.
LEMMA EmitDoneKeeps == ASSUME OrderInv, EmitDone PROVE OrderInv'
<1>1. /\ phase = "emit" /\ phase' = "rest" /\ ready = {} /\ rest' = count
      /\ UNCHANGED <<count, refs, edges, indegree, ready, ordered, finalized, freed>>
  BY DEF EmitDone
<1>2. /\ ready = {c \in Blocks \ Emitted : Waiting(c) = {}}
      /\ \A c \in Emitted : \A x \in Blocks : c \in Outgoing(x) => Before(x, c)
  BY <1>1 DEF OrderInv, WhileEmitting
<1>3. \A c \in Blocks \ Emitted : \E b \in Blocks \ Emitted : c \in DependsOn(b)
  BY <1>1, <1>2 DEF Waiting, Outgoing, DependsOn
<1>4. \A c \in Blocks \ Emitted : BehindCycle(c)
  <2>1. Blocks \ Emitted \in SUBSET Blocks /\ TypeOK
    BY DEF OrderInv
  <2> QED
    BY <1>3, <2>1, StuckIsBehindCycle
<1>5. Respected
  <2> SUFFICES ASSUME NEW b \in Blocks, NEW c \in DependsOn(b), ~BehindCycle(c)
               PROVE  Before(b, c)
    BY DEF Respected
  <2>1. c \in Blocks
    BY PointerIsDownstream DEF OrderInv
  <2>2. c \in Emitted
    BY <1>4, <2>1
  <2> QED
    BY <1>2, <2>2 DEF Outgoing, DependsOn
<1>6. /\ Blocks' = Blocks /\ Emitted' = Emitted /\ Respected'
  BY <1>1, <1>5, GraphUnchanged DEF Respected, Before, Emitted
<1>7. TypeOK'
  BY <1>1, <1>6 DEF OrderInv, TypeOK
<1>8. WhileAppending'
  BY <1>1, <1>6 DEF OrderInv, TypeOK, WhileAppending, Blocks
<1>9. NoRepeats'
  BY <1>1 DEF OrderInv, NoRepeats
<1> QED
  BY <1>1, <1>6, <1>7, <1>8, <1>9 DEF OrderInv, AtStart, WhileEmitting, Complete, NothingFreed

LEMMA AppendRestKeeps == ASSUME OrderInv, AppendRest PROVE OrderInv'
<1>1. /\ phase = "rest" /\ phase' = "rest" /\ rest > 0 /\ rest' = rest - 1
      /\ ordered' = IF rest \notin Emitted THEN Append(ordered, rest) ELSE ordered
      /\ UNCHANGED <<count, refs, edges, indegree, ready, finalized, freed>>
  BY DEF AppendRest
<1>2. /\ TypeOK /\ NoRepeats /\ Respected /\ rest <= count
      /\ \A b \in Blocks : b > rest => b \in Emitted
  BY <1>1 DEF OrderInv, WhileAppending
<1>3. ordered \in Seq(Blocks) /\ Len(ordered) \in Nat /\ finalized \in 0..Len(ordered)
  BY <1>2, LenProperties DEF TypeOK
<1>4. rest \in Nat /\ count \in Nat /\ MaxBlocks \in Nat /\ rest \in Blocks
  BY <1>1, <1>2, MaxBlocksAssumption DEF TypeOK, Blocks
<1>5. /\ ordered' \in Seq(Blocks)' /\ Len(ordered') \in Nat /\ Len(ordered') >= Len(ordered)
      /\ Emitted' = Emitted \cup {rest} /\ NoRepeats'
      /\ \A c, d : Before(c, d) => Before(c, d)'
  <2>1. CASE rest \notin Emitted
    BY <1>1, <1>2, <1>3, <1>4, <2>1, AppendToResult
  <2>2. CASE rest \in Emitted
    <3>1. ordered' = ordered /\ Blocks' = Blocks
      BY <1>1, <2>2 DEF Blocks
    <3> QED
      BY <1>2, <1>3, <2>2, <3>1 DEF Emitted, NoRepeats, Before
  <2> QED
    BY <2>1, <2>2
<1>6. /\ Blocks' = Blocks /\ Respected'
  BY <1>1, <1>2, <1>5, GraphUnchanged DEF Respected
<1>7. TypeOK'
  <2>1. rest' \in 0..MaxBlocks /\ finalized' \in 0..Len(ordered')
    BY <1>1, <1>2, <1>3, <1>4, <1>5 DEF TypeOK
  <2> QED
    BY <1>1, <1>2, <1>5, <1>6, <2>1 DEF TypeOK
<1>8. WhileAppending'
  <2>1. rest' <= count' /\ \A b \in Blocks : b > rest' => b > rest \/ b = rest
    BY <1>1, <1>2, <1>4 DEF Blocks
  <2> QED
    BY <1>2, <1>5, <1>6, <2>1 DEF WhileAppending
<1> QED
  BY <1>1, <1>5, <1>6, <1>7, <1>8 DEF OrderInv, AtStart, WhileEmitting, Complete, NothingFreed

\* Neither the end of the second loop nor destroy_blocks touches the order.
LEMMA ResultUnchanged ==
    ASSUME OrderInv, UNCHANGED <<count, refs, ordered>>
    PROVE  /\ Blocks' = Blocks /\ Emitted' = Emitted /\ NoRepeats'
           /\ Respected => Respected'
BY GraphUnchanged DEF OrderInv, Emitted, NoRepeats, Respected, Before

LEMMA RestDoneKeeps == ASSUME OrderInv, RestDone PROVE OrderInv'
<1>1. /\ phase = "rest" /\ phase' = "finalize" /\ rest = 0
      /\ UNCHANGED <<count, refs, edges, indegree, ready, ordered, rest, finalized, freed>>
  BY DEF RestDone
<1>2. /\ Blocks' = Blocks /\ Emitted' = Emitted /\ NoRepeats' /\ Respected'
  BY <1>1, ResultUnchanged DEF OrderInv
<1>3. Emitted = Blocks
  <2>1. Blocks \subseteq Emitted
    BY <1>1 DEF OrderInv, WhileAppending, Blocks
  <2> QED
    BY <2>1, EmittedIsBlocks DEF OrderInv, TypeOK
<1>4. TypeOK'
  BY <1>1, <1>2 DEF OrderInv, TypeOK
<1> QED
  BY <1>1, <1>2, <1>3, <1>4 DEF OrderInv, AtStart, WhileEmitting, WhileAppending, Complete,
     NothingFreed

LEMMA DestroyKeeps == ASSUME OrderInv, Finalize \/ FinalizersDone \/ Free PROVE OrderInv'
<1>1. /\ phase \in {"finalize", "free"} /\ phase' \in {"finalize", "free", "done"}
      /\ UNCHANGED <<count, refs, edges, indegree, ready, ordered, rest>>
  BY DEF Finalize, FinalizersDone, Free
<1>2. /\ Blocks' = Blocks /\ Emitted' = Emitted /\ NoRepeats' /\ Respected'
  BY <1>1, ResultUnchanged DEF OrderInv
<1>3. Emitted = Blocks
  BY <1>1 DEF OrderInv, Complete
<1>4. finalized' \in 0..Len(ordered') /\ freed' \in SUBSET Blocks
  <2>1. finalized \in 0..Len(ordered) /\ freed \in SUBSET Blocks /\ Len(ordered) \in Nat
    BY LenProperties DEF OrderInv, TypeOK
  <2> QED
    BY <1>1, <1>3, <2>1 DEF Finalize, FinalizersDone, Free
<1>5. TypeOK'
  BY <1>1, <1>2, <1>4 DEF OrderInv, TypeOK
<1>6. NothingFreed'
  BY DEF OrderInv, NothingFreed, Finalize, FinalizersDone, Free
<1> QED
  BY <1>1, <1>2, <1>3, <1>5, <1>6 DEF OrderInv, AtStart, WhileEmitting, WhileAppending, Complete

LEMMA OrderStep == ASSUME OrderInv, [Next]_vars PROVE OrderInv'
<1>1. CASE UNCHANGED vars
  <2>1. UNCHANGED <<count, refs, phase, edges, indegree, ready, ordered, rest, finalized, freed>>
    BY <1>1 DEF vars
  <2>2. /\ Blocks' = Blocks /\ Emitted' = Emitted /\ NoRepeats'
        /\ Respected => Respected'
        /\ \A b : Outgoing(b)' = Outgoing(b)
    BY <2>1, ResultUnchanged, GraphUnchanged
  <2>3. \A c : Waiting(c)' = Waiting(c)
    BY <2>2 DEF Waiting
  <2>4. TypeOK'
    BY <2>1, <2>2 DEF OrderInv, TypeOK
  <2>5. WhileEmitting'
    BY <2>1, <2>2, <2>3 DEF OrderInv, WhileEmitting, Before
  <2> QED
    BY <2>1, <2>2, <2>4, <2>5 DEF OrderInv, AtStart, WhileAppending, Complete, NothingFreed
<1> QED
  BY <1>1, OrderFewKeeps, BuildEdgesKeeps, EmitKeeps, EmitDoneKeeps, AppendRestKeeps,
     RestDoneKeeps, DestroyKeeps DEF Next

LEMMA OrderCorrect == Spec => []OrderInv
BY OrderInit, OrderStep, PTL DEF Spec
-------------------------------------------------------------------------------
(* Theorems *)

\* Counters, queue and result of order_blocks_for_finalization_locked and of
\* destroy_blocks keep to their ranges for any number of dead blocks.
THEOREM TypeCorrect == Spec => []TypeOK
<1>1. OrderInv => TypeOK
  BY DEF OrderInv
<1> QED
  BY <1>1, OrderCorrect, PTL

\* The two loops of order_blocks_for_finalization_locked emit every dead block
\* exactly once, whatever the pointers between the blocks and the cycles in them.
THEOREM EveryBlockFinalizedOnce == Spec => []EachBlockOnce
<1>1. ASSUME OrderInv PROVE EachBlockOnce
  <2> SUFFICES ASSUME phase = "finalize" PROVE Len(ordered) = count /\ Emitted = Blocks
    BY DEF EachBlockOnce
  <2>1. Emitted = Blocks /\ NoRepeats /\ ordered \in Seq(Blocks) /\ count \in Nat
    BY <1>1, MaxBlocksAssumption DEF OrderInv, Complete, TypeOK
  <2>2. ordered \in [1..Len(ordered) -> Blocks] /\ Len(ordered) \in Nat
    BY <2>1, LenProperties
  <2>3. ordered \in Bijection(1..Len(ordered), Blocks)
    BY <2>1, <2>2 DEF Bijection, Injection, IsInjective, Surjection, NoRepeats, Emitted
  <2>4. ExistsBijection(1..Len(ordered), Blocks)
    BY <2>3 DEF ExistsBijection
  <2> QED
    BY <2>1, <2>2, <2>4, FS_CountingElements, BlocksFinite
<1> QED
  BY <1>1, OrderCorrect, PTL

\* A finalizer finds the blocks its own block points to not finalized yet, unless
\* those are on a cycle or behind one: the queue of
\* order_blocks_for_finalization_locked leaves out only such blocks.
THEOREM FinalizersFindDependencies == Spec => []DependenciesIntact
<1>1. OrderInv => DependenciesIntact
  BY DEF OrderInv, Respected, BehindCycle, DependenciesIntact
<1> QED
  BY <1>1, OrderCorrect, PTL

\* destroy_blocks gives no block back while a finalizer is left to run.
THEOREM FinalizersFindMemory == Spec => []FinalizerSeesMemory
<1>1. OrderInv => FinalizerSeesMemory
  BY DEF OrderInv, NothingFreed, FinalizerSeesMemory
<1> QED
  BY <1>1, OrderCorrect, PTL
===============================================================================
