--------------------------- MODULE AccountingProofs ---------------------------
(***************************************************************************)
(* Machine-checked proofs about the byte counters, for any threads, blocks,*)
(* sizes, thresholds and width of size_t.                                  *)
(***************************************************************************)
EXTENDS Accounting, FiniteSetTheorems, TLAPS

-------------------------------------------------------------------------------
(* Sums.  The sum of f over S is the number of units (one for every byte) in *)
(* S: what is true of sums then follows from what is true of cardinalities.  *)

Pick(T) == CHOOSE x \in T : TRUE

\* g adds f up over the subsets of S, one element after the other.
AddsUp(g, f, S) ==
    g = [T \in SUBSET S |-> IF T = {} THEN 0 ELSE f[Pick(T)] + g[T \ {Pick(T)}]]

Units(f, S) == {u \in S \X (1..MaxWord) : u[2] <= f[u[1]]}

\* The fold of the library is the function that adds up.
LEMMA SumUnfolds ==
    ASSUME NEW f, NEW S
    PROVE  Sum(f, S) = (CHOOSE g : AddsUp(g, f, S))[S]
BY DEF Sum, FoldFunctionOnSet, MapThenFoldSet, AddsUp, Pick

LEMMA Words ==
    /\ MaxWord \in Nat /\ Offset \in Nat \ {0} /\ Offset <= MaxWord
    /\ \A n \in Sizes : n \in Nat \ {0} /\ n + Offset <= MaxWord
    /\ \A n \in Thresholds : n \in Word
BY AccountingAssumption DEF Word

LEMMA UnitsFinite ==
    ASSUME NEW f, NEW S \in SUBSET Blocks
    PROVE  /\ IsFiniteSet(S)
           /\ IsFiniteSet(Units(f, S)) /\ Cardinality(Units(f, S)) \in Nat
<1>1. IsFiniteSet(S)
  BY AccountingAssumption, FS_Subset
<1>2. IsFiniteSet(1..MaxWord)
  BY Words, FS_Interval
<1>3. IsFiniteSet(S \X (1..MaxWord))
  BY <1>1, <1>2, FS_Product
<1>4. Units(f, S) \subseteq S \X (1..MaxWord)
  BY DEF Units
<1>5. IsFiniteSet(Units(f, S))
  BY <1>3, <1>4, FS_Subset
<1> QED
  BY <1>1, <1>5, FS_CardinalityType

LEMMA UnitsOfUnion ==
    ASSUME NEW f, NEW S \in SUBSET Blocks, NEW T \in SUBSET Blocks, S \cap T = {}
    PROVE  Cardinality(Units(f, S \cup T)) = Cardinality(Units(f, S)) + Cardinality(Units(f, T))
<1>1. Units(f, S \cup T) = Units(f, S) \cup Units(f, T)
  BY DEF Units
<1>2. Units(f, S) \cap Units(f, T) = {}
  BY DEF Units
<1> QED
  <2> DEFINE A == Units(f, S)
             B == Units(f, T)
  <2>1. IsFiniteSet(A) /\ IsFiniteSet(B) /\ Cardinality(A) \in Nat /\ Cardinality(B) \in Nat
    BY UnitsFinite
  <2>2. A \cap B = {}
    BY <1>2
  <2> HIDE DEF A, B
  <2>3. Cardinality(A \cup B) = Cardinality(A) + Cardinality(B)
    BY <2>1, <2>2, FS_Union, FS_EmptySet
  <2> QED
    BY <1>1, <2>3 DEF A, B

LEMMA UnitsOfOne ==
    ASSUME NEW f \in [Blocks -> Word], NEW b \in Blocks
    PROVE  Cardinality(Units(f, {b})) = f[b]
<1>1. f[b] \in 0..MaxWord
  BY DEF Word
<1>2. Units(f, {b}) = {b} \X (1..f[b])
  BY <1>1, Words DEF Units
<1>3. IsFiniteSet(1..f[b]) /\ Cardinality(1..f[b]) = f[b]
  BY <1>1, Words, FS_Interval
<1>4. IsFiniteSet({b}) /\ Cardinality({b}) = 1
  BY FS_Singleton
<1>5. Cardinality({b} \X (1..f[b])) = Cardinality({b}) * Cardinality(1..f[b])
  BY <1>3, <1>4, FS_Product, Zenon
<1>6. f[b] \in Nat
  BY <1>1, Words
<1>7. Cardinality({b} \X (1..f[b])) = 1 * f[b]
  BY <1>3, <1>4, <1>5
<1>8. 1 * f[b] = f[b]
  BY <1>6
<1> QED
  BY <1>2, <1>7, <1>8, Zenon

\* What adds up counts the units; and counting them adds up.
LEMMA CountingAddsUp ==
    ASSUME NEW f \in [Blocks -> Word], NEW S \in SUBSET Blocks
    PROVE  AddsUp([T \in SUBSET S |-> Cardinality(Units(f, T))], f, S)
<1> DEFINE g == [T \in SUBSET S |-> Cardinality(Units(f, T))]
<1>1. Cardinality(Units(f, {})) = 0
  <2>1. Units(f, {}) = {}
    BY DEF Units
  <2> QED
    BY <2>1, FS_EmptySet
<1>2. ASSUME NEW T \in SUBSET S, T # {}
      PROVE  g[T] = f[Pick(T)] + g[T \ {Pick(T)}]
  <2>1. Pick(T) \in T
    BY <1>2 DEF Pick
  <2> HIDE DEF Pick
  <2>2. T = {Pick(T)} \cup (T \ {Pick(T)}) /\ {Pick(T)} \cap (T \ {Pick(T)}) = {}
    BY <2>1
  <2>3. Cardinality(Units(f, T)) =
           Cardinality(Units(f, {Pick(T)})) + Cardinality(Units(f, T \ {Pick(T)}))
    BY <2>1, <2>2, UnitsOfUnion
  <2> QED
    BY <2>1, <2>3, UnitsOfOne
<1> QED
  BY <1>1, <1>2 DEF AddsUp

LEMMA AddingUpCounts ==
    ASSUME NEW f \in [Blocks -> Word], NEW S \in SUBSET Blocks, NEW g, AddsUp(g, f, S)
    PROVE  g[S] = Cardinality(Units(f, S))
<1> DEFINE U == {T \in SUBSET S : g[T] # Cardinality(Units(f, T))}
<1>1. CASE U = {}
  BY <1>1
<1>2. CASE U # {}
  <2>1. IsFiniteSet(S) /\ U \subseteq SUBSET S
    BY UnitsFinite
  <2>2. IsWellFoundedOn(StrictSubsetOrdering(S), SUBSET S)
    BY <2>1, FS_FiniteSubsetsOfFinite, FS_StrictSubsetOrderingWellFounded
  <2>3. \E T \in U : \A V \in U : ~(<<V, T>> \in StrictSubsetOrdering(S))
    <3> HIDE DEF U
    <3> QED
      BY <1>2, <2>1, <2>2, WFMin
  <2>4. PICK T \in U : \A V \in U : ~(<<V, T>> \in StrictSubsetOrdering(S))
    BY <2>3
  <2>5. T # {}
    <3>1. Units(f, {}) = {}
      BY DEF Units
    <3> QED
      BY <3>1, FS_EmptySet DEF AddsUp
  <2>6. Pick(T) \in T
    BY <2>5 DEF Pick
  <2>7. T \ {Pick(T)} \notin U
    <3> DEFINE V == T \ {Pick(T)}
    <3>1. V \in SUBSET S /\ T \in SUBSET S /\ V \subseteq T /\ V # T
      BY <2>6
    <3> HIDE DEF V
    <3>2. <<V, T>> \in StrictSubsetOrdering(S)
      BY <3>1 DEF StrictSubsetOrdering
    <3>3. V \notin U
      BY <2>4, <3>2
    <3> QED
      BY <3>3 DEF V
  <2>8. g[T] = f[Pick(T)] + g[T \ {Pick(T)}]
    BY <2>5 DEF AddsUp
  <2>9. Cardinality(Units(f, T)) =
           Cardinality(Units(f, {Pick(T)})) + Cardinality(Units(f, T \ {Pick(T)}))
    <3>1. T = {Pick(T)} \cup (T \ {Pick(T)}) /\ {Pick(T)} \cap (T \ {Pick(T)}) = {}
      BY <2>6
    <3> QED
      BY <2>6, <3>1, UnitsOfUnion
  <2> QED
    BY <2>6, <2>7, <2>8, <2>9, UnitsOfOne
<1> QED
  BY <1>1, <1>2

LEMMA SumCounts ==
    ASSUME NEW f \in [Blocks -> Word], NEW S \in SUBSET Blocks
    PROVE  Sum(f, S) = Cardinality(Units(f, S))
<1>1. AddsUp(CHOOSE g : AddsUp(g, f, S), f, S)
  BY CountingAddsUp
<1> QED
  BY <1>1, AddingUpCounts, SumUnfolds

\* What the proofs below use of sums.
LEMMA SumLaws ==
    ASSUME NEW f \in [Blocks -> Word]
    PROVE  /\ Sum(f, {}) = 0
           /\ \A S \in SUBSET Blocks : Sum(f, S) \in Nat
           /\ \A b \in Blocks : Sum(f, {b}) = f[b]
           /\ \A S, T \in SUBSET Blocks :
                 S \cap T = {} => Sum(f, S \cup T) = Sum(f, S) + Sum(f, T)
<1>1. Units(f, {}) = {}
  BY DEF Units
<1>2. Sum(f, {}) = 0
  BY <1>1, SumCounts, FS_EmptySet
<1>3. ASSUME NEW S \in SUBSET Blocks PROVE Sum(f, S) \in Nat
  BY SumCounts, UnitsFinite
<1>4. ASSUME NEW b \in Blocks PROVE Sum(f, {b}) = f[b]
  BY SumCounts, UnitsOfOne
<1>5. ASSUME NEW S \in SUBSET Blocks, NEW T \in SUBSET Blocks, S \cap T = {}
      PROVE  Sum(f, S \cup T) = Sum(f, S) + Sum(f, T)
  BY <1>5, SumCounts, UnitsOfUnion
<1> QED
  BY <1>2, <1>3, <1>4, <1>5

LEMMA SumWithOne ==
    ASSUME NEW f \in [Blocks -> Word], NEW S \in SUBSET Blocks, NEW b \in Blocks, b \notin S
    PROVE  Sum(f, S \cup {b}) = Sum(f, S) + f[b]
<1> DEFINE T == {b}
<1>1. T \in SUBSET Blocks /\ S \cap T = {}
  OBVIOUS
<1>2. Sum(f, T) = f[b]
  BY SumLaws
<1> HIDE DEF T
<1>3. Sum(f, S \cup T) = Sum(f, S) + Sum(f, T)
  BY <1>1, SumLaws
<1> QED
  BY <1>2, <1>3 DEF T

\* A sum is about the blocks summed over, and not about the others.
LEMMA SumOfEquals ==
    ASSUME NEW f \in [Blocks -> Word], NEW g \in [Blocks -> Word],
           NEW S \in SUBSET Blocks, \A b \in S : f[b] = g[b]
    PROVE  Sum(f, S) = Sum(g, S)
<1>1. Units(f, S) = Units(g, S)
  BY DEF Units
<1> QED
  BY <1>1, SumCounts

\* Every block takes at least a byte.
LEMMA SumBoundsCardinality ==
    ASSUME NEW f \in [Blocks -> Word], NEW S \in SUBSET Blocks, \A b \in S : f[b] > 0
    PROVE  Cardinality(S) <= Sum(f, S)
<1> DEFINE first == [b \in S |-> <<b, 1>>]
<1>1. \A b \in S : <<b, 1>> \in Units(f, S)
  BY Words DEF Units, Word
<1>2. first \in Injection(S, Units(f, S))
  BY <1>1 DEF Injection, IsInjective
<1> HIDE DEF first
<1> QED
  BY <1>2, UnitsFinite, SumCounts, FS_Injection

-------------------------------------------------------------------------------
(* Numbers *)

\* Without an overflow size_t adds and subtracts like the integers.
LEMMA NoWrap ==
    ASSUME NEW m \in Nat, NEW n \in Nat, m <= MaxWord
    PROVE  /\ m + n <= MaxWord => Plus(m, n) = m + n
           /\ n <= m => Minus(m, n) = m - n
           /\ Plus(m, n) \in Word
<1>1. ASSUME NEW k \in 0..MaxWord PROVE k % (MaxWord + 1) = k
  BY Words
<1>2. (m + n) % (MaxWord + 1) \in 0..MaxWord
  BY Words
<1> QED
  BY <1>1, <1>2, Words DEF Plus, Minus, Word

LEMMA Saturation ==
    ASSUME NEW m \in Word, NEW n \in Word
    PROVE  /\ saturating_add(m, n) \in Word
           /\ saturating_add(m, n) < MaxWord => saturating_add(m, n) = m + n
           /\ m + n <= MaxWord => saturating_add(m, n) = m + n
           /\ \A k \in Word : k <= m + n => k <= saturating_add(m, n)
BY Words DEF saturating_add, add_would_overflow, Word

LEMMA MaxOfTwo ==
    ASSUME NEW m \in Int, NEW n \in Int
    PROVE  Max({m, n}) = IF m >= n THEN m ELSE n
<1>1. \E x \in {m, n} : \A y \in {m, n} : x >= y
  <2>1. CASE m >= n
    BY <2>1
  <2>2. CASE ~(m >= n)
    BY <2>2
  <2> QED
    BY <2>1, <2>2
<1>2. Max({m, n}) \in {m, n} /\ \A y \in {m, n} : Max({m, n}) >= y
  BY <1>1 DEF Max
<1> QED
  BY <1>2

-------------------------------------------------------------------------------
(* What a set of blocks takes, as it grows and shrinks *)

Framed(s) == [b \in Blocks |-> block_allocation_size(s[b])]

LEMMA SizesAreWords ==
    ASSUME NEW s \in [Blocks -> Sizes \cup {0}]
    PROVE  /\ s \in [Blocks -> Word]
           /\ Framed(s) \in [Blocks -> Word]
           /\ \A b \in Blocks : Framed(s)[b] = Offset + s[b] /\ Framed(s)[b] > 0
BY Words DEF Framed, block_allocation_size, Word

LEMMA OneMore ==
    ASSUME NEW s \in [Blocks -> Sizes \cup {0}], NEW r \in [Blocks -> Sizes \cup {0}],
           NEW A \in SUBSET Blocks, NEW b \in Blocks, b \notin A,
           \A c \in A : r[c] = s[c]
    PROVE  /\ Sum(r, A \cup {b}) = Sum(s, A) + r[b]
           /\ Sum(Framed(r), A \cup {b}) = Sum(Framed(s), A) + block_allocation_size(r[b])
           /\ Cardinality(A \cup {b}) = Cardinality(A) + 1
           /\ Cardinality(A \cup {b}) <= Sum(Framed(r), A \cup {b})
<1>1. /\ s \in [Blocks -> Word] /\ Framed(s) \in [Blocks -> Word]
      /\ r \in [Blocks -> Word] /\ Framed(r) \in [Blocks -> Word]
      /\ \A c \in Blocks : Framed(r)[c] = Offset + r[c] /\ Framed(r)[c] > 0
      /\ \A c \in Blocks : Framed(s)[c] = Offset + s[c]
  BY SizesAreWords
<1>2. A \cap {b} = {} /\ {b} \in SUBSET Blocks /\ A \cup {b} \in SUBSET Blocks
  OBVIOUS
<1>3. Sum(r, A \cup {b}) = Sum(r, A) + r[b]
  BY <1>1, SumWithOne
<1>4. Sum(Framed(r), A \cup {b}) = Sum(Framed(r), A) + Framed(r)[b]
  BY <1>1, SumWithOne
<1>5. Sum(r, A) = Sum(s, A)
  BY <1>1, SumOfEquals
<1>6. Sum(Framed(r), A) = Sum(Framed(s), A)
  <2>1. \A c \in A : Framed(r)[c] = Framed(s)[c]
    BY <1>1
  <2> QED
    BY <1>1, <2>1, SumOfEquals
<1>7. Cardinality(A \cup {b}) = Cardinality(A) + 1
  BY AccountingAssumption, FS_Subset, FS_AddElement
<1>8. Cardinality(A \cup {b}) <= Sum(Framed(r), A \cup {b})
  BY <1>1, <1>2, SumBoundsCardinality
<1> QED
  BY <1>1, <1>3, <1>4, <1>5, <1>6, <1>7, <1>8 DEF block_allocation_size

LEMMA SomeLess ==
    ASSUME NEW s \in [Blocks -> Sizes \cup {0}], NEW r \in [Blocks -> Sizes \cup {0}],
           NEW A \in SUBSET Blocks, NEW D \in SUBSET A,
           \A c \in A \ D : r[c] = s[c]
    PROVE  /\ Sum(s, A) \in Nat /\ Sum(s, D) \in Nat /\ Sum(s, D) <= Sum(s, A)
           /\ Sum(r, A \ D) = Sum(s, A) - Sum(s, D)
           /\ Sum(Framed(s), A) \in Nat /\ Sum(Framed(s), D) \in Nat
           /\ Sum(Framed(s), D) <= Sum(Framed(s), A)
           /\ Sum(Framed(r), A \ D) = Sum(Framed(s), A) - Sum(Framed(s), D)
           /\ Cardinality(A) \in Nat /\ Cardinality(A \ D) \in Nat
           /\ Cardinality(A \ D) <= Cardinality(A)
<1>1. /\ s \in [Blocks -> Word] /\ Framed(s) \in [Blocks -> Word]
      /\ r \in [Blocks -> Word] /\ Framed(r) \in [Blocks -> Word]
      /\ \A c \in Blocks : Framed(r)[c] = Offset + r[c]
      /\ \A c \in Blocks : Framed(s)[c] = Offset + s[c]
  BY SizesAreWords
<1>2. /\ (A \ D) \cap D = {} /\ A = (A \ D) \cup D
      /\ D \in SUBSET Blocks /\ A \ D \in SUBSET Blocks
  OBVIOUS
<1>3. /\ Sum(s, A) = Sum(s, A \ D) + Sum(s, D)
      /\ Sum(s, A) \in Nat /\ Sum(s, A \ D) \in Nat /\ Sum(s, D) \in Nat
  BY <1>1, <1>2, SumLaws
<1>4. /\ Sum(Framed(s), A) = Sum(Framed(s), A \ D) + Sum(Framed(s), D)
      /\ Sum(Framed(s), A) \in Nat /\ Sum(Framed(s), A \ D) \in Nat
      /\ Sum(Framed(s), D) \in Nat
  BY <1>1, <1>2, SumLaws
<1>5. Sum(r, A \ D) = Sum(s, A \ D)
  BY <1>1, <1>2, SumOfEquals
<1>6. Sum(Framed(r), A \ D) = Sum(Framed(s), A \ D)
  <2>1. \A c \in A \ D : Framed(r)[c] = Framed(s)[c]
    BY <1>1
  <2> QED
    BY <1>1, <1>2, <2>1, SumOfEquals
<1>7. IsFiniteSet(A)
  BY AccountingAssumption, FS_Subset
<1>8. Cardinality(A) \in Nat /\ Cardinality(A \ D) \in Nat /\ Cardinality(A \ D) <= Cardinality(A)
  BY <1>7, FS_Subset, FS_CardinalityType
<1> QED
  BY <1>3, <1>4, <1>5, <1>6, <1>8
-------------------------------------------------------------------------------
(* The inductive invariant *)

Statistics ==
    [total_allocations : Word, bytes_allocated_total : Word, peak_live_bytes : Word,
     peak_live_blocks : Word, bytes_reclaimed_total : Word]

\* The books of allocations A with sizes s: the counters m (payloads) and r
\* (blocks), the statistics st, and ab bytes of failed constructions.
Balanced(A, s, m, r, st, ab) ==
    /\ A \in SUBSET Blocks /\ s \in [Blocks -> Sizes \cup {0}]
    /\ m \in Word /\ r \in Word /\ st \in Statistics /\ ab \in Word
    /\ m = Sum(s, A) /\ r = Sum(Framed(s), A)
    /\ m <= st.peak_live_bytes /\ st.peak_live_bytes <= st.bytes_allocated_total
    /\ Cardinality(A) <= st.peak_live_blocks /\ st.peak_live_blocks <= st.total_allocations
    /\ st.bytes_allocated_total < MaxWord =>
          st.bytes_allocated_total = m + st.bytes_reclaimed_total + ab

\* A thread that owes a collection is about to run one.
Owing == \A t \in owed : pc[t] = "threshold" /\ collecting # t

AccountingInv == TypeOK /\ CountersExact /\ PeaksBound /\ BytesConserved /\ Owing

\* TypeOK without the books.
Control ==
    /\ stage \in [Blocks -> {"free", "raw", "building", "nested", "live", "dead"}]
    /\ threshold \in Word
    /\ collecting \in Threads \cup {NoThread}
    /\ pc \in [Threads -> {"idle", "threshold", "new", "emergency", "again", "raw",
                           "collect", "shutdown", "snapshot"}]
    /\ request \in [Threads -> Sizes \cup {0}]
    /\ owed \in SUBSET Threads

LEMMA InvParts ==
    AccountingInv => /\ Control /\ Owing
                     /\ Balanced(allocations, size, managed, reserved, stats, abandoned)
BY DEF AccountingInv, Control, TypeOK, CountersExact, PeaksBound, BytesConserved, Balanced,
       Bytes, BlockBytes, Framed, Statistics, allocations, Constructing, In

LEMMA InvFromParts ==
    ASSUME Control', Owing',
           Balanced(allocations', size', managed', reserved', stats', abandoned')
    PROVE  AccountingInv'
BY DEF AccountingInv, Control, TypeOK, CountersExact, PeaksBound, BytesConserved, Balanced,
       Bytes, BlockBytes, Framed, Statistics

LEMMA BalancedWithOne ==
    ASSUME NEW A, NEW s, NEW m, NEW r, NEW st, NEW ab, Balanced(A, s, m, r, st, ab),
           NEW q \in [Blocks -> Sizes \cup {0}], NEW b \in Blocks, b \notin A,
           \A c \in A : q[c] = s[c],
           ~add_would_overflow(m, q[b]),
           ~add_would_overflow(r, block_allocation_size(q[b])),
           NEW nst,
           nst = [st EXCEPT
                    !.total_allocations = saturating_add(@, 1),
                    !.bytes_allocated_total = saturating_add(@, q[b]),
                    !.peak_live_bytes = Max({@, Plus(m, q[b])}),
                    !.peak_live_blocks = Max({@, Cardinality(A \cup {b})})]
    PROVE  Balanced(A \cup {b}, q, Plus(m, q[b]), Plus(r, block_allocation_size(q[b])), nst, ab)
<1> DEFINE n == q[b]
           k == Cardinality(A)
<1>1. A \in SUBSET Blocks /\ s \in [Blocks -> Sizes \cup {0}] /\ A \cup {b} \in SUBSET Blocks
  BY DEF Balanced
<1>2. /\ MaxWord \in Nat /\ n \in Nat /\ n \in Word /\ Offset + n \in Nat
      /\ m \in Nat /\ r \in Nat /\ m <= MaxWord /\ r <= MaxWord /\ 1 \in Word
  BY Words DEF Balanced, Word
<1>3. m + n <= MaxWord /\ r + (Offset + n) <= MaxWord
  BY <1>2, Words DEF add_would_overflow, block_allocation_size
<1>4. /\ Plus(m, n) = m + n /\ m + n \in Word
      /\ Plus(r, block_allocation_size(n)) = r + (Offset + n) /\ r + (Offset + n) \in Word
  BY <1>2, <1>3, NoWrap DEF block_allocation_size, Word
<1>5. /\ Sum(q, A \cup {b}) = Sum(s, A) + n
      /\ Sum(Framed(q), A \cup {b}) = Sum(Framed(s), A) + block_allocation_size(n)
      /\ Cardinality(A \cup {b}) = k + 1
      /\ Cardinality(A \cup {b}) <= Sum(Framed(q), A \cup {b})
  BY <1>1, OneMore
<1>6. Sum(q, A \cup {b}) = m + n /\ Sum(Framed(q), A \cup {b}) = r + (Offset + n)
  BY <1>5 DEF Balanced, block_allocation_size
<1>7. k \in Nat /\ k + 1 \in Word
  <2>1. k \in Nat
    BY <1>1, AccountingAssumption, FS_Subset, FS_CardinalityType
  <2> QED
    BY <1>2, <1>4, <1>5, <1>6, <2>1 DEF Word
<1>8. /\ st \in Statistics
      /\ m <= st.peak_live_bytes /\ st.peak_live_bytes <= st.bytes_allocated_total
      /\ k <= st.peak_live_blocks /\ st.peak_live_blocks <= st.total_allocations
      /\ st.bytes_allocated_total < MaxWord =>
            st.bytes_allocated_total = m + st.bytes_reclaimed_total + ab
      /\ ab \in Word
  BY DEF Balanced
<1>9. /\ st.total_allocations \in Word /\ st.bytes_allocated_total \in Word
      /\ st.peak_live_bytes \in Word /\ st.peak_live_blocks \in Word
      /\ st.bytes_reclaimed_total \in Word
  BY <1>8 DEF Statistics
<1>10. /\ nst.total_allocations = saturating_add(st.total_allocations, 1)
       /\ nst.bytes_allocated_total = saturating_add(st.bytes_allocated_total, n)
       /\ nst.peak_live_bytes = Max({st.peak_live_bytes, m + n})
       /\ nst.peak_live_blocks = Max({st.peak_live_blocks, k + 1})
       /\ nst.bytes_reclaimed_total = st.bytes_reclaimed_total
  BY <1>4, <1>5, <1>8 DEF Statistics
<1>11. /\ nst.peak_live_bytes =
             IF st.peak_live_bytes >= m + n THEN st.peak_live_bytes ELSE m + n
       /\ nst.peak_live_blocks =
             IF st.peak_live_blocks >= k + 1 THEN st.peak_live_blocks ELSE k + 1
       /\ nst.peak_live_bytes \in Word /\ nst.peak_live_blocks \in Word
  <2>1. /\ st.peak_live_bytes \in Int /\ m + n \in Int
        /\ st.peak_live_blocks \in Int /\ k + 1 \in Int
    BY <1>2, <1>7, <1>9 DEF Word
  <2> QED
    BY <1>4, <1>7, <1>9, <1>10, <2>1, MaxOfTwo
<1>12. nst.total_allocations \in Word /\ nst.bytes_allocated_total \in Word
  BY <1>2, <1>9, <1>10, Saturation
<1>13. nst \in Statistics
  BY <1>8, <1>9, <1>10, <1>11, <1>12 DEF Statistics
<1>14. nst.peak_live_bytes <= nst.bytes_allocated_total
  <2>1. nst.peak_live_bytes <= st.bytes_allocated_total + n
    BY <1>2, <1>8, <1>9, <1>11 DEF Word
  <2> QED
    BY <1>2, <1>9, <1>10, <1>11, <2>1, Saturation
<1>15. nst.peak_live_blocks <= nst.total_allocations
  <2>1. nst.peak_live_blocks <= st.total_allocations + 1
    BY <1>7, <1>8, <1>9, <1>11 DEF Word
  <2> QED
    BY <1>2, <1>9, <1>10, <1>11, <2>1, Saturation
<1>16. /\ m + n <= nst.peak_live_bytes
       /\ Cardinality(A \cup {b}) <= nst.peak_live_blocks
  BY <1>2, <1>5, <1>7, <1>9, <1>11 DEF Word
<1>17. ASSUME nst.bytes_allocated_total < MaxWord
       PROVE  nst.bytes_allocated_total = (m + n) + nst.bytes_reclaimed_total + ab
  <2>1. nst.bytes_allocated_total = st.bytes_allocated_total + n
    BY <1>2, <1>9, <1>10, <1>17, Saturation
  <2> QED
    BY <1>2, <1>8, <1>9, <1>10, <1>17, <2>1 DEF Word
<1> QED
  BY <1>1, <1>4, <1>6, <1>8, <1>13, <1>14, <1>15, <1>16, <1>17 DEF Balanced

\* How D leaves: swept, or a construction that has failed.
LEMMA BalancedWithout ==
    ASSUME NEW A, NEW s, NEW m, NEW r, NEW st, NEW ab, Balanced(A, s, m, r, st, ab),
           NEW q \in [Blocks -> Sizes \cup {0}], NEW D \in SUBSET A,
           \A c \in A \ D : q[c] = s[c],
           NEW nst, NEW nab,
           \/ /\ nst = [st EXCEPT !.bytes_reclaimed_total = Plus(@, Sum(s, D))]
              /\ nab = ab
           \/ nst = st /\ nab = saturating_add(ab, Sum(s, D))
    PROVE  Balanced(A \ D, q, Minus(m, Sum(s, D)), Minus(r, Sum(Framed(s), D)), nst, nab)
<1> DEFINE n == Sum(s, D)
           f == Sum(Framed(s), D)
<1>1. A \in SUBSET Blocks /\ s \in [Blocks -> Sizes \cup {0}] /\ A \ D \in SUBSET Blocks
  BY DEF Balanced
<1>2. /\ n \in Nat /\ n <= m /\ Sum(q, A \ D) = m - n
      /\ f \in Nat /\ f <= r /\ Sum(Framed(q), A \ D) = r - f
      /\ Cardinality(A) \in Nat /\ Cardinality(A \ D) \in Nat
      /\ Cardinality(A \ D) <= Cardinality(A)
  BY <1>1, SomeLess DEF Balanced
<1>3. /\ m \in Nat /\ r \in Nat /\ m <= MaxWord /\ r <= MaxWord /\ ab \in Nat /\ ab <= MaxWord
      /\ MaxWord \in Nat
  BY Words DEF Balanced, Word
<1>4. /\ Minus(m, n) = m - n /\ m - n \in Word
      /\ Minus(r, f) = r - f /\ r - f \in Word
      /\ n \in Word
  BY <1>2, <1>3, NoWrap DEF Word
<1>5. /\ st \in Statistics
      /\ m <= st.peak_live_bytes /\ st.peak_live_bytes <= st.bytes_allocated_total
      /\ Cardinality(A) <= st.peak_live_blocks /\ st.peak_live_blocks <= st.total_allocations
      /\ st.bytes_allocated_total < MaxWord =>
            st.bytes_allocated_total = m + st.bytes_reclaimed_total + ab
      /\ ab \in Word
  BY DEF Balanced
<1>6. /\ st.total_allocations \in Word /\ st.bytes_allocated_total \in Word
      /\ st.peak_live_bytes \in Word /\ st.peak_live_blocks \in Word
      /\ st.bytes_reclaimed_total \in Nat /\ st.bytes_reclaimed_total <= MaxWord
  BY <1>3, <1>5 DEF Statistics, Word
<1>7. Plus(st.bytes_reclaimed_total, n) \in Word /\ saturating_add(ab, n) \in Word
  BY <1>2, <1>4, <1>5, <1>6, NoWrap, Saturation
<1>8. /\ nst \in Statistics /\ nab \in Word
      /\ nst.peak_live_bytes = st.peak_live_bytes
      /\ nst.bytes_allocated_total = st.bytes_allocated_total
      /\ nst.peak_live_blocks = st.peak_live_blocks
      /\ nst.total_allocations = st.total_allocations
      /\ \/ nst.bytes_reclaimed_total = Plus(st.bytes_reclaimed_total, n) /\ nab = ab
         \/ nst.bytes_reclaimed_total = st.bytes_reclaimed_total /\ nab = saturating_add(ab, n)
  BY <1>5, <1>7 DEF Statistics
<1>9. ASSUME nst.bytes_allocated_total < MaxWord
      PROVE  nst.bytes_allocated_total = (m - n) + nst.bytes_reclaimed_total + nab
  <2>1. st.bytes_allocated_total = m + st.bytes_reclaimed_total + ab
    BY <1>5, <1>8, <1>9
  <2>2. st.bytes_reclaimed_total + n <= MaxWord /\ ab + n <= MaxWord
    BY <1>2, <1>3, <1>6, <1>8, <1>9, <2>1 DEF Word
  <2>3. /\ Plus(st.bytes_reclaimed_total, n) = st.bytes_reclaimed_total + n
        /\ saturating_add(ab, n) = ab + n
    BY <1>2, <1>4, <1>5, <1>6, <2>2, NoWrap, Saturation
  <2> QED
    BY <1>2, <1>3, <1>6, <1>8, <2>1, <2>3
<1>10. /\ m - n <= nst.peak_live_bytes
       /\ Cardinality(A \ D) <= nst.peak_live_blocks
  BY <1>2, <1>3, <1>5, <1>6, <1>8 DEF Word
<1> QED
  BY <1>1, <1>2, <1>4, <1>5, <1>8, <1>9, <1>10 DEF Balanced

\* Sizes of other blocks do not matter.
LEMMA BalancedAlike ==
    ASSUME NEW A, NEW s, NEW m, NEW r, NEW st, NEW ab, Balanced(A, s, m, r, st, ab),
           NEW q \in [Blocks -> Sizes \cup {0}], \A c \in A : q[c] = s[c]
    PROVE  Balanced(A, q, m, r, st, ab)
<1>1. A \in SUBSET Blocks /\ s \in [Blocks -> Sizes \cup {0}]
  BY DEF Balanced
<1>2. Sum(q, A) = Sum(s, A)
  BY <1>1, SizesAreWords, SumOfEquals
<1>3. Sum(Framed(q), A) = Sum(Framed(s), A)
  <2>1. \A c \in A : Framed(q)[c] = Framed(s)[c]
    BY <1>1, SizesAreWords
  <2> QED
    BY <1>1, <2>1, SizesAreWords, SumOfEquals
<1> QED
  BY <1>2, <1>3 DEF Balanced

-------------------------------------------------------------------------------
(* One lemma for each kind of step *)

LEMMA InitInv == Init => AccountingInv
<1> SUFFICES ASSUME Init PROVE AccountingInv
  OBVIOUS
<1>1. TypeOK /\ Owing
  BY Words DEF Init, TypeOK, Owing, NoStats, Word
<1>2. allocations = {}
  BY DEF Init, allocations, Constructing, In
<1>3. Sum(size, {}) = 0 /\ Sum(Framed(size), {}) = 0
  BY <1>1, SizesAreWords, SumLaws DEF TypeOK
<1>4. CountersExact /\ PeaksBound /\ BytesConserved
  BY <1>2, <1>3, FS_EmptySet, Words
     DEF Init, NoStats, CountersExact, PeaksBound, BytesConserved, Bytes, BlockBytes, Framed
<1> QED
  BY <1>1, <1>4 DEF AccountingInv

\* Steps that leave the books alone.
LEMMA ControlStep ==
    ASSUME AccountingInv,
           UNCHANGED <<managed, reserved, stats, abandoned>>,
           allocations' = allocations,
           size' \in [Blocks -> Sizes \cup {0}], \A c \in allocations : size'[c] = size[c],
           Control', Owing'
    PROVE  AccountingInv'
<1>1. Balanced(allocations, size', managed, reserved, stats, abandoned)
  BY InvParts, BalancedAlike
<1> QED
  BY <1>1, InvFromParts

LEMMA EnterStep ==
    ASSUME AccountingInv, NEW b \in Blocks, NEW n, Fits(n), Enter(b, n),
           b \notin allocations, allocations' = allocations \cup {b},
           size' \in [Blocks -> Sizes \cup {0}], size'[b] = n,
           \A c \in allocations : size'[c] = size[c],
           abandoned' = abandoned, Control', Owing'
    PROVE  AccountingInv'
<1>1. Balanced(allocations, size, managed, reserved, stats, abandoned)
  BY InvParts
<1>2. /\ ~add_would_overflow(managed, size'[b])
      /\ ~add_would_overflow(reserved, block_allocation_size(size'[b]))
  BY DEF Fits
<1>3. stats' = [stats EXCEPT
                  !.total_allocations = saturating_add(@, 1),
                  !.bytes_allocated_total = saturating_add(@, size'[b]),
                  !.peak_live_bytes = Max({@, Plus(managed, size'[b])}),
                  !.peak_live_blocks = Max({@, Cardinality(allocations \cup {b})})]
  BY DEF Enter
<1>4. Balanced(allocations \cup {b}, size', Plus(managed, size'[b]),
               Plus(reserved, block_allocation_size(size'[b])), stats', abandoned)
  BY <1>1, <1>2, <1>3, BalancedWithOne
<1>5. managed' = Plus(managed, size'[b]) /\ reserved' = Plus(reserved, block_allocation_size(size'[b]))
  BY DEF Enter
<1> QED
  BY <1>4, <1>5, InvFromParts

LEMMA CollectIfNeededStep ==
    ASSUME AccountingInv, NEW t \in Threads, NEW n \in Sizes, collect_if_needed(t, n)
    PROVE  AccountingInv'
<1>1. Control' /\ Owing'
  <2>1. CASE saturating_add(managed, n) >= threshold
    BY <2>1, InvParts, AccountingAssumption DEF collect_if_needed, Goto, Control, Owing
  <2>2. CASE ~(saturating_add(managed, n) >= threshold)
    BY <2>2, InvParts, AccountingAssumption DEF collect_if_needed, Goto, Control, Owing
  <2> QED
    BY <2>1, <2>2
<1>2. allocations' = allocations /\ size' = size /\ size \in [Blocks -> Sizes \cup {0}]
  BY DEF collect_if_needed, allocations, Constructing, In, AccountingInv, TypeOK
<1> QED
  BY <1>1, <1>2, ControlStep DEF collect_if_needed

LEMMA OperatorNewStep ==
    ASSUME AccountingInv, NEW t \in Threads, NEW b \in Blocks, operator_new(t, b)
    PROVE  AccountingInv'
<1>1. Control' /\ Owing'
  BY InvParts DEF operator_new, Goto, Control, Owing
<1>2. allocations' = allocations /\ b \notin allocations
  BY InvParts DEF operator_new, allocations, Constructing, In, Control
<1>3. size' \in [Blocks -> Sizes \cup {0}] /\ \A c \in allocations : size'[c] = size[c]
  BY <1>2, InvParts DEF operator_new, AccountingInv, TypeOK, Control
<1> QED
  BY <1>1, <1>2, <1>3, ControlStep DEF operator_new

LEMMA NewFailsStep ==
    ASSUME AccountingInv, NEW t \in Threads, NewFails(t)
    PROVE  AccountingInv'
<1>1. Control' /\ Owing'
  BY InvParts DEF NewFails, Goto, ForgetRequest, Control, Owing
<1>2. allocations' = allocations /\ size' = size /\ size \in [Blocks -> Sizes \cup {0}]
  BY DEF NewFails, allocations, Constructing, In, AccountingInv, TypeOK
<1> QED
  BY <1>1, <1>2, ControlStep DEF NewFails

LEMMA MallocInternalStep ==
    ASSUME AccountingInv, NEW t \in Threads, NEW b \in Blocks, malloc_internal(t, b)
    PROVE  AccountingInv'
<1>1. Control' /\ Owing'
  BY InvParts DEF malloc_internal, Goto, ForgetRequest, Control, Owing
<1>2. b \notin allocations
  BY DEF malloc_internal, allocations, Constructing, In
<1>3. size \in [Blocks -> Sizes \cup {0}]
  BY DEF AccountingInv, TypeOK
<1>4. CASE /\ Fits(size[b])
           /\ stage' = [stage EXCEPT ![b] = "building"]
           /\ Enter(b, size[b])
           /\ UNCHANGED size
  <2>1. allocations' = allocations \cup {b}
    BY <1>4, InvParts DEF allocations, Constructing, In, Control
  <2> QED
    BY <1>1, <1>2, <1>3, <1>4, <2>1, EnterStep DEF malloc_internal
<1>5. CASE /\ stage' = [stage EXCEPT ![b] = "free"]
           /\ Freed({b})
           /\ UNCHANGED <<managed, reserved, stats>>
  <2>1. allocations' = allocations
    BY <1>2, <1>5, InvParts DEF allocations, Constructing, In, Control
  <2>2. size' \in [Blocks -> Sizes \cup {0}] /\ \A c \in allocations : size'[c] = size[c]
    BY <1>2, <1>3, <1>5 DEF Freed, allocations, Constructing, In
  <2> QED
    BY <1>1, <1>5, <2>1, <2>2, ControlStep DEF malloc_internal
<1> QED
  BY <1>4, <1>5 DEF malloc_internal

LEMMA FinalizerAllocatesStep ==
    ASSUME AccountingInv, NEW t \in Threads, NEW b \in Blocks, NEW n \in Sizes,
           FinalizerAllocates(t, b, n)
    PROVE  AccountingInv'
<1>1. Control' /\ Owing'
  BY InvParts DEF FinalizerAllocates, Control, Owing
<1>2. b \notin allocations /\ allocations' = allocations \cup {b}
  BY InvParts DEF FinalizerAllocates, allocations, Constructing, In, Control
<1>3. /\ size' \in [Blocks -> Sizes \cup {0}] /\ size'[b] = n
      /\ \A c \in allocations : size'[c] = size[c]
  BY <1>2 DEF FinalizerAllocates, AccountingInv, TypeOK, allocations, Constructing, In
<1> QED
  BY <1>1, <1>2, <1>3, EnterStep DEF FinalizerAllocates

LEMMA FinishConstructionStep ==
    ASSUME AccountingInv, NEW b \in Blocks, finish_construction(b)
    PROVE  AccountingInv'
<1>1. Control' /\ Owing'
  BY InvParts DEF finish_construction, Control, Owing
<1>2. allocations' = allocations /\ size' = size /\ size \in [Blocks -> Sizes \cup {0}]
  BY InvParts
  DEF finish_construction, BuilderPasses, allocations, Constructing, In, Control,
      AccountingInv, TypeOK
<1> QED
  BY <1>1, <1>2, ControlStep DEF finish_construction

LEMMA ReleaseUnconstructedStep ==
    ASSUME AccountingInv, NEW b \in Blocks, release_unconstructed(b)
    PROVE  AccountingInv'
<1>1. Control' /\ Owing'
  BY InvParts DEF release_unconstructed, Control, Owing
<1>2. {b} \in SUBSET allocations /\ allocations' = allocations \ {b}
  BY InvParts
  DEF release_unconstructed, BuilderPasses, allocations, Constructing, In, Control
<1>3. size \in [Blocks -> Sizes \cup {0}]
  BY DEF AccountingInv, TypeOK
<1>4. /\ size' \in [Blocks -> Sizes \cup {0}]
      /\ \A c \in allocations \ {b} : size'[c] = size[c]
  BY <1>3 DEF release_unconstructed, Freed, allocations, Constructing, In
<1>5. Sum(size, {b}) = size[b] /\ Sum(Framed(size), {b}) = block_allocation_size(size[b])
  BY <1>3, SizesAreWords, SumLaws DEF block_allocation_size
<1>6. /\ managed' = Minus(managed, Sum(size, {b}))
      /\ reserved' = Minus(reserved, Sum(Framed(size), {b}))
      /\ stats' = stats /\ abandoned' = saturating_add(abandoned, Sum(size, {b}))
  BY <1>5 DEF release_unconstructed
<1>7. Balanced(allocations, size, managed, reserved, stats, abandoned)
  BY InvParts
<1>8. Balanced(allocations \ {b}, size', Minus(managed, Sum(size, {b})),
               Minus(reserved, Sum(Framed(size), {b})), stats', abandoned')
  BY <1>2, <1>4, <1>6, <1>7, BalancedWithout
<1> QED
  BY <1>1, <1>2, <1>6, <1>8, InvFromParts

LEMMA CollectStep ==
    ASSUME AccountingInv, NEW t \in Threads, collect(t)
    PROVE  AccountingInv'
<1>1. PICK dying \in SUBSET In("live") : Sweep(t, dying)
  BY DEF collect
<1>2. Control' /\ Owing'
  BY <1>1, InvParts DEF Sweep, Control, Owing
<1>3. dying \in SUBSET allocations /\ allocations' = allocations \ dying
  BY <1>1, InvParts DEF Sweep, allocations, Constructing, In, Control
<1>4. size \in [Blocks -> Sizes \cup {0}] /\ size' = size
  BY <1>1 DEF Sweep, AccountingInv, TypeOK
<1>5. /\ managed' = Minus(managed, Sum(size, dying))
      /\ reserved' = Minus(reserved, Sum(Framed(size), dying))
      /\ stats' = [stats EXCEPT !.bytes_reclaimed_total = Plus(@, Sum(size, dying))]
      /\ abandoned' = abandoned
  BY <1>1 DEF Sweep, Bytes, BlockBytes, Framed
<1>6. Balanced(allocations, size, managed, reserved, stats, abandoned)
  BY InvParts
<1>7. Balanced(allocations \ dying, size', Minus(managed, Sum(size, dying)),
               Minus(reserved, Sum(Framed(size), dying)), stats', abandoned')
  BY <1>3, <1>4, <1>5, <1>6, BalancedWithout
<1> QED
  BY <1>2, <1>3, <1>5, <1>7, InvFromParts

LEMMA CollectThrowsStep ==
    ASSUME AccountingInv, NEW t \in Threads, CollectThrows(t)
    PROVE  AccountingInv'
<1>1. Control' /\ Owing'
  BY InvParts DEF CollectThrows, Goto, ForgetRequest, Control, Owing
<1>2. allocations' = allocations /\ size' = size /\ size \in [Blocks -> Sizes \cup {0}]
  BY DEF CollectThrows, allocations, Constructing, In, AccountingInv, TypeOK
<1> QED
  BY <1>1, <1>2, ControlStep DEF CollectThrows

LEMMA RequestStep ==
    ASSUME AccountingInv, NEW t \in Threads, Request(t) \/ Snapshot(t)
    PROVE  AccountingInv'
<1>1. Control' /\ Owing'
  BY InvParts DEF Request, Snapshot, Goto, Control, Owing
<1>2. allocations' = allocations /\ size' = size /\ size \in [Blocks -> Sizes \cup {0}]
  BY DEF Request, Snapshot, allocations, Constructing, In, AccountingInv, TypeOK
<1> QED
  BY <1>1, <1>2, ControlStep DEF Request, Snapshot

LEMMA ShutdownStep ==
    ASSUME AccountingInv, NEW t \in Threads, shutdown(t)
    PROVE  AccountingInv'
<1>1. Control' /\ Owing'
  BY InvParts DEF shutdown, Goto, Control, Owing
<1>2. allocations' = {}
  BY InvParts DEF shutdown, allocations, Constructing, In, Control
<1>3. size \in [Blocks -> Sizes \cup {0}] /\ size' = size
  BY DEF shutdown, AccountingInv, TypeOK
<1>4. Sum(size, {}) = 0 /\ Sum(Framed(size), {}) = 0
  BY <1>3, SizesAreWords, SumLaws
<1>5. Balanced({}, size', 0, 0, NoStats, 0)
  BY <1>3, <1>4, FS_EmptySet, Words DEF Balanced, Statistics, NoStats, Word
<1> QED
  BY <1>1, <1>2, <1>5, InvFromParts DEF shutdown

LEMMA ReleaseStopTheWorldStep ==
    ASSUME AccountingInv, NEW t \in Threads, release_stop_the_world(t)
    PROVE  AccountingInv'
<1>1. Control' /\ Owing'
  <2>1. After(pc[t]) \in {"new", "again", "idle"}
    BY DEF After
  <2> QED
    BY <2>1, InvParts, AccountingAssumption DEF release_stop_the_world, Goto, Control, Owing
<1>2. allocations' = allocations
  BY InvParts DEF release_stop_the_world, allocations, Constructing, In, Control
<1>3. size' \in [Blocks -> Sizes \cup {0}] /\ \A c \in allocations : size'[c] = size[c]
  BY DEF release_stop_the_world, Freed, allocations, Constructing, In, AccountingInv, TypeOK
<1> QED
  BY <1>1, <1>2, <1>3, ControlStep DEF release_stop_the_world

LEMMA SetThresholdStep ==
    ASSUME AccountingInv, NEW n \in Thresholds, set_collection_threshold_bytes(n)
    PROVE  AccountingInv'
<1>1. Control' /\ Owing'
  BY InvParts, Words DEF set_collection_threshold_bytes, Control, Owing
<1>2. allocations' = allocations /\ size' = size /\ size \in [Blocks -> Sizes \cup {0}]
  BY DEF set_collection_threshold_bytes, allocations, Constructing, In, AccountingInv, TypeOK
<1> QED
  BY <1>1, <1>2, ControlStep DEF set_collection_threshold_bytes

LEMMA StutteringStep ==
    ASSUME AccountingInv, UNCHANGED vars
    PROVE  AccountingInv'
<1>1. Control' /\ Owing'
  BY InvParts DEF vars, Control, Owing
<1>2. allocations' = allocations /\ size' = size /\ size \in [Blocks -> Sizes \cup {0}]
  BY DEF vars, allocations, Constructing, In, AccountingInv, TypeOK
<1> QED
  BY <1>1, <1>2, ControlStep DEF vars

-------------------------------------------------------------------------------
(* Theorems *)

LEMMA Invariance == Spec => []AccountingInv
<1>1. AccountingInv /\ [Next]_vars => AccountingInv'
  BY CollectIfNeededStep, OperatorNewStep, NewFailsStep, MallocInternalStep,
     FinalizerAllocatesStep, FinishConstructionStep, ReleaseUnconstructedStep, CollectStep,
     CollectThrowsStep, RequestStep, ShutdownStep, ReleaseStopTheWorldStep, SetThresholdStep,
     StutteringStep DEF Next
<1> QED
  BY InitInv, <1>1, PTL DEF Spec

\* Counters, statistics and sizes stay within size_t, and threads and blocks in
\* the stages malloc_internal and collect know.
THEOREM TypeCorrect == Spec => []TypeOK
BY Invariance, PTL DEF AccountingInv

\* managed_bytes_ and reserved_bytes_ are the sums over allocations_, whatever the
\* order in which allocations, failures, sweeps and shutdowns change both.
THEOREM CountersAreExact == Spec => []CountersExact
BY Invariance, PTL DEF AccountingInv

\* The peaks of GCStats lie between what is live and what was ever allocated.
THEOREM PeaksAreBounds == Spec => []PeaksBound
BY Invariance, PTL DEF AccountingInv

\* Up to saturation, GCStats accounts for every byte ever allocated.
THEOREM BytesAreConserved == Spec => []BytesConserved
BY Invariance, PTL DEF AccountingInv

\* An allocation that collect_if_needed found to reach the threshold waits for a
\* collection that begins after the decision.
THEOREM ThresholdIsHonoured == Spec => []ThresholdHonoured
<1>1. AccountingInv => ThresholdHonoured
  BY DEF AccountingInv, Owing, ThresholdHonoured
<1> QED
  BY Invariance, <1>1, PTL
=============================================================================
