--------------------------- MODULE RootVectorProofs ---------------------------
(***************************************************************************)
(* Machine-checked proofs about gc_root and gc_vector, for any vectors,    *)
(* objects and buffers.                                                    *)
(***************************************************************************)
EXTENDS RootVector, SequenceTheorems, FiniteSetTheorems, TLAPS

-------------------------------------------------------------------------------
(***************************************************************************)
(* The inductive invariant.  At any moment the registered cells are the    *)
(* elements and what the operation in progress has built or still has to   *)
(* destroy; what it has still to build is disjoint from these, holds       *)
(* values that something protects, and together they are the vector it     *)
(* promised.                                                               *)
(***************************************************************************)

Mine(v, c) == c[1] = buf[v] /\ c[2] <= size[v]

\* The list q names every cell of S, once.
Lists(q, S) ==
    /\ q \in Seq(Cells)
    /\ \A k \in 1..Len(q) : q[k] \in S
    /\ \A c \in S : \E k \in 1..Len(q) : q[k] = c
    /\ \A j, k \in 1..Len(q) : q[j] = q[k] => j = k

Listed(q) == {q[k] : k \in 1..Len(q)}

\* Cells in use besides the elements.
Extra ==
    CASE pc \in {"build", "undo"} -> Listed(fresh)
      [] pc = "drop" -> Listed(op.drop)
      [] OTHER -> {}

Occupied == Elements \cup Extra

CellsInv ==
    \A c \in Cells :
        IF c \in Occupied THEN ranges[c] = 1 /\ content[c] \in live \cup {Null}
        ELSE ranges[c] = 0 /\ content[c] = Junk

ExtraInv ==
    /\ pc \in {"build", "undo"} => Lists(fresh, Extra)
    /\ pc = "drop" => Lists(op.drop, Extra)
    /\ Extra \cap Elements = {}
    /\ pc = "idle" => fresh = <<>> /\ op = Idle /\ args = {}

Plans == [cell : Cells, value : Objects \cup {Null}, from : Cells]

Coming == {op.build[k].cell : k \in 1..Len(op.build)}

\* A collection keeps p for as long as the cells stay as they are.
Safe(p) == p = Null \/ p \in args \/ \E c \in Elements \cup Listed(fresh) : content[c] = p

\* What an operation may turn a vector into.
Allowed(vals, v, s) ==
    \/ \E p \in Objects \cup {Null} : s = Append(vals[v], p)
    \/ \E n \in 0..(MaxLen - Len(vals[v])) : s = vals[v] \o [i \in 1..n |-> Null]
    \/ vals[v] = <<>> /\ \E n \in 1..MaxLen : s \in [1..n -> Objects \cup {Null}]
    \/ \E w \in Vectors : s = vals[w]

PlanTypes ==
    /\ op.v \in Vectors /\ op.buf \in 0..Len(Capacity) /\ op.size \in 0..MaxLen
    /\ IF op.buf = 0 THEN op.size = 0 ELSE op.size <= Capacity[op.buf]
    /\ \A w \in Vectors : w # op.v /\ op.buf # 0 => buf[w] # op.buf
    /\ op.build \in Seq(Plans)
    /\ \A j, k \in 1..Len(op.build) : op.build[j].cell = op.build[k].cell => j = k
    /\ Coming \cap (Elements \cup Listed(fresh)) = {}
    /\ \A k \in 1..Len(op.build) : Safe(op.build[k].value)

\* When everything is built the cells are those of the new vector, and the rest
\* are exactly those that will be destroyed.
PlanAddsUp ==
    /\ Lists(op.drop, Listed(op.drop))
    /\ \A c \in Cells :
          LET new == c[1] = op.buf /\ c[2] <= op.size
              others == \E w \in Vectors : w # op.v /\ Mine(w, c)
          IN  /\ ~(c \in Listed(op.drop) /\ (new \/ others))
              /\ new \/ others \/ c \in Listed(op.drop)
                    <=> c \in Elements \/ c \in Listed(fresh) \/ c \in Coming

\* The plan o, carried out on cells that hold con, makes the vector s.
Fulfils(o, vals, con, s) ==
    /\ s \in [1..o.size -> Objects \cup {Null}] /\ Allowed(vals, o.v, s)
    /\ \A k \in 1..Len(o.build) :
          o.build[k].cell[1] = o.buf /\ o.build[k].value = s[o.build[k].cell[2]]
    /\ \A i \in 1..o.size :
          \/ \E k \in 1..Len(o.build) : o.build[k].cell = Cell(o.buf, i)
          \/ con[Cell(o.buf, i)] = s[i]

Promise == \E s : Fulfils(op, Values, content, s)

SamePromise == \E s : Fulfils(op, Values, content, s) /\ Fulfils(op', Values', content', s)

BuildInv == pc = "build" => PlanTypes /\ PlanAddsUp /\ Promise

OpInv ==
    op = [v |-> op.v, build |-> op.build, drop |-> op.drop, size |-> op.size, buf |-> op.buf]

VectorInv == TypeOK /\ args \subseteq live /\ CellsInv /\ ExtraInv /\ OpInv /\ BuildInv

-------------------------------------------------------------------------------
(* Cells and buffers *)

LEMMA BufferFacts ==
    /\ Len(Capacity) \in Nat \ {0} /\ Buffers = 1..Len(Capacity)
    /\ \A b \in Buffers : Capacity[b] \in Nat \ {0}
<1>1. Len(Capacity) \in Nat /\ DOMAIN Capacity = 1..Len(Capacity)
  BY RootVectorAssumption, LenProperties
<1>2. Len(Capacity) # 0
  BY RootVectorAssumption, EmptySeq
<1>3. \A b \in 1..Len(Capacity) : Capacity[b] \in Nat \ {0}
  BY RootVectorAssumption, ElementOfSeq
<1> QED
  BY <1>1, <1>2, <1>3 DEF Buffers

\* A non-empty finite set of numbers has a largest one: the one with the fewest
\* above it.
LEMMA MaxLenBounds ==
    MaxLen \in Nat \ {0} /\ \A b \in Buffers : Capacity[b] <= MaxLen
<1> DEFINE S == {Capacity[b] : b \in Buffers}
           Above(x) == {y \in S : y > x}
           F == {Above(x) : x \in S}
           f == [b \in Buffers |-> Capacity[b]]
<1>1. S \subseteq Nat \ {0} /\ S # {}
  BY BufferFacts
<1>2. IsFiniteSet(S)
  <2>1. f \in Surjection(Buffers, S)
    BY DEF Surjection
  <2>2. IsFiniteSet(Buffers)
    BY BufferFacts, FS_Interval
  <2> HIDE DEF f, S
  <2> QED
    BY <2>1, <2>2, FS_Surjection
<1>3. F \subseteq SUBSET S /\ F # {}
  BY <1>1
<1>4. IsWellFoundedOn(StrictSubsetOrdering(S), SUBSET S)
  BY <1>2, FS_FiniteSubsetsOfFinite, FS_StrictSubsetOrderingWellFounded
<1>5. \E A \in F : \A B \in F : ~(<<B, A>> \in StrictSubsetOrdering(S))
  <2> HIDE DEF F, S
  <2> QED
    BY <1>3, <1>4, WFMin
<1>6. PICK m \in S : \A B \in F : ~(<<B, Above(m)>> \in StrictSubsetOrdering(S))
  BY <1>5
<1>7. ASSUME NEW y \in S, y > m PROVE FALSE
  <2>1. Above(y) \in F /\ Above(y) \in SUBSET S /\ Above(m) \in SUBSET S
    OBVIOUS
  <2>2. Above(y) \subseteq Above(m) /\ y \in Above(m) /\ y \notin Above(y)
    BY <1>1, <1>7
  <2>3. <<Above(y), Above(m)>> \in StrictSubsetOrdering(S)
    <3> DEFINE A == Above(y)
               B == Above(m)
    <3>1. A \in SUBSET S /\ B \in SUBSET S /\ A \subseteq B /\ A # B
      BY <2>1, <2>2
    <3> HIDE DEF A, B, S
    <3>2. <<A, B>> \in StrictSubsetOrdering(S)
      BY <3>1 DEF StrictSubsetOrdering
    <3> QED
      BY <3>2 DEF A, B
  <2> HIDE DEF F, Above
  <2> QED
    BY <1>6, <2>1, <2>3
<1>8. \E x \in S : \A y \in S : x >= y
  <2>1. \A y \in S : y \in Nat
    BY <1>1
  <2> HIDE DEF S
  <2>2. \A y \in S : m >= y
    BY <1>7, <2>1
  <2> QED
    BY <2>2
<1>9. MaxLen \in S /\ \A y \in S : MaxLen >= y
  BY <1>8 DEF MaxLen, Max
<1> QED
  BY <1>1, <1>9

LEMMA CellFacts ==
    /\ Created \in Cells
    /\ \A b \in Buffers : \A i \in 1..Capacity[b] : Cell(b, i) \in Cells
    /\ \A b, i : Cell(b, i)[1] = b /\ Cell(b, i)[2] = i
    /\ \A c \in Cells :
          /\ c = Cell(c[1], c[2]) /\ c[1] \in Nat /\ c[2] \in Nat \ {0}
          /\ c[1] = 0 => c = Created
          /\ c[1] # 0 => c[1] \in Buffers /\ c[2] \in 1..Capacity[c[1]]
<1>1. Created \in Cells
  BY DEF Cells
<1>2. ASSUME NEW b \in Buffers, NEW i \in 1..Capacity[b] PROVE Cell(b, i) \in Cells
  BY DEF Cells
<1>3. ASSUME NEW c \in Cells, c # Created
      PROVE  \E b \in Buffers : \E i \in 1..Capacity[b] : c = Cell(b, i)
  BY <1>3 DEF Cells
<1>4. ASSUME NEW c \in Cells
      PROVE  /\ c = Cell(c[1], c[2]) /\ c[1] \in Nat /\ c[2] \in Nat \ {0}
             /\ c[1] = 0 => c = Created
             /\ c[1] # 0 => c[1] \in Buffers /\ c[2] \in 1..Capacity[c[1]]
  <2>1. CASE c = Created
    BY <2>1 DEF Created, Cell
  <2>2. CASE c # Created
    <3>1. PICK b \in Buffers : \E i \in 1..Capacity[b] : c = Cell(b, i)
      BY <1>3, <2>2
    <3>2. PICK i \in 1..Capacity[b] : c = Cell(b, i)
      BY <3>1
    <3>3. c[1] = b /\ c[2] = i
      BY <3>2 DEF Cell
    <3> QED
      BY <3>2, <3>3, BufferFacts
  <2> QED
    BY <2>1, <2>2
<1> QED
  BY <1>1, <1>2, <1>4 DEF Cell

\* What a typed vector's cells are.
LEMMA VectorFacts ==
    ASSUME TypeOK
    PROVE  /\ \A v \in Vectors :
                /\ size[v] \in Nat /\ size[v] <= MaxLen /\ buf[v] \in Nat
                /\ IF buf[v] = 0 THEN size[v] = 0
                   ELSE buf[v] \in Buffers /\ size[v] <= Capacity[buf[v]]
                /\ \A i \in 1..size[v] :
                      /\ Cell(buf[v], i) \in Cells /\ Mine(v, Cell(buf[v], i))
                      /\ Cell(buf[v], i) \in Elements
           /\ \A v, w \in Vectors : \A c \in Cells : Mine(v, c) /\ Mine(w, c) => v = w
           /\ Created \notin Elements
           /\ \A v \in Vectors : \A c \in Cells :
                 Mine(v, c) => c[2] \in 1..size[v] /\ c = Cell(buf[v], c[2]) /\ c[1] # 0
           /\ \A c \in Cells : c \in Elements <=> \E v \in Vectors : Mine(v, c)
<1>1. ASSUME NEW v \in Vectors
      PROVE  /\ size[v] \in Nat /\ size[v] <= MaxLen /\ buf[v] \in Nat
             /\ IF buf[v] = 0 THEN size[v] = 0
                ELSE buf[v] \in Buffers /\ size[v] <= Capacity[buf[v]]
  BY MaxLenBounds, BufferFacts DEF TypeOK, capacity
<1>2. ASSUME NEW v \in Vectors, NEW i \in 1..size[v]
      PROVE  /\ Cell(buf[v], i) \in Cells /\ Mine(v, Cell(buf[v], i))
             /\ Cell(buf[v], i) \in Elements
  <2>1. buf[v] \in Buffers /\ i \in 1..Capacity[buf[v]]
    BY <1>1, BufferFacts
  <2>2. Cell(buf[v], i) \in Cells
    BY <2>1, CellFacts
  <2>3. Mine(v, Cell(buf[v], i))
    BY <1>1 DEF Mine, Cell
  <2> QED
    BY <2>2, <2>3 DEF Elements, Mine
<1>3. ASSUME NEW v \in Vectors, NEW c \in Cells, Mine(v, c)
      PROVE  c[2] \in 1..size[v] /\ c = Cell(buf[v], c[2]) /\ c[1] # 0
  <2>1. c[2] \in 1..size[v] /\ c = Cell(buf[v], c[2])
    BY <1>1, <1>3, CellFacts DEF Mine
  <2> QED
    BY <1>1, <1>3, <2>1 DEF Mine
<1>4. ASSUME NEW v \in Vectors, NEW w \in Vectors, NEW c \in Cells, Mine(v, c), Mine(w, c)
      PROVE  v = w
  BY <1>3, <1>4 DEF Mine, TypeOK
<1>5. Created \notin Elements
  BY <1>3, CellFacts DEF Elements, Mine, Created, Cell
<1>6. ASSUME NEW c \in Cells PROVE c \in Elements <=> \E v \in Vectors : Mine(v, c)
  BY DEF Elements, Mine
<1> QED
  BY <1>1, <1>2, <1>3, <1>4, <1>5, <1>6

LEMMA FunctionIsSeq ==
    ASSUME NEW n \in Nat, NEW S, NEW f \in [1..n -> S]
    PROVE  f \in Seq(S) /\ Len(f) = n
<1>1. f \in Seq(S)
  BY SeqDef
<1>2. Len(f) \in Nat /\ 1..Len(f) = 1..n
  BY <1>1, LenProperties
<1> QED
  BY <1>1, <1>2

-------------------------------------------------------------------------------
(* Lists of cells *)

LEMMA EmptyList == Lists(<<>>, {}) /\ Listed(<<>>) = {}
BY EmptySeq DEF Lists, Listed

LEMMA ListsListed ==
    ASSUME NEW q, NEW S, Lists(q, S)
    PROVE  Listed(q) = S /\ S \subseteq Cells /\ Len(q) \in Nat
<1>1. Len(q) \in Nat
  BY LenProperties DEF Lists
<1>2. \A k \in 1..Len(q) : q[k] \in Cells
  BY ElementOfSeq DEF Lists
<1> QED
  BY <1>1, <1>2 DEF Lists, Listed

LEMMA TailOfList ==
    ASSUME NEW q, NEW S, Lists(q, S), q # <<>>
    PROVE  Head(q) \in S /\ Lists(Tail(q), S \ {Head(q)})
<1>1. /\ q \in Seq(Cells) /\ Len(q) \in Nat \ {0}
      /\ Tail(q) \in Seq(Cells) /\ Len(Tail(q)) = Len(q) - 1
      /\ \A k \in 1..Len(Tail(q)) : Tail(q)[k] = q[k + 1]
  BY HeadTailProperties, EmptySeq DEF Lists
<1>2. Head(q) = q[1]
  BY <1>1
<1>3. \A k \in 1..Len(q) : q[k] \in S
  BY DEF Lists
<1>4. \A j, k \in 1..Len(q) : q[j] = q[k] => j = k
  BY DEF Lists
<1>5. \A k \in 1..Len(Tail(q)) : Tail(q)[k] \in S \ {q[1]}
  BY <1>1, <1>3, <1>4
<1>6. ASSUME NEW c \in S \ {q[1]} PROVE \E k \in 1..Len(Tail(q)) : Tail(q)[k] = c
  <2>1. PICK k \in 1..Len(q) : q[k] = c
    BY DEF Lists
  <2>2. k - 1 \in 1..Len(Tail(q)) /\ Tail(q)[k - 1] = c
    BY <1>1, <2>1
  <2> QED
    BY <2>2
<1>7. \A j, k \in 1..Len(Tail(q)) : Tail(q)[j] = Tail(q)[k] => j = k
  BY <1>1, <1>4
<1>8. q[1] \in S
  BY <1>1, <1>3
<1> QED
  BY <1>1, <1>2, <1>5, <1>6, <1>7, <1>8 DEF Lists

LEMMA FrontOfList ==
    ASSUME NEW q, NEW S, Lists(q, S), q # <<>>
    PROVE  Last(q) \in S /\ Lists(Front(q), S \ {Last(q)})
<1> DEFINE f == SubSeq(q, 1, Len(q) - 1)
<1>1. q \in Seq(Cells) /\ Len(q) \in Nat \ {0}
  BY EmptySeq DEF Lists
<1>2. \A k \in 1..(Len(q) - 1) : q[k] \in Cells
  BY <1>1, ElementOfSeq
<1>3. /\ f \in Seq(Cells) /\ Len(f) = Len(q) - 1
      /\ \A k \in 1..(Len(q) - 1) : f[k] = q[k]
  <2> DEFINE n == Len(q) - 1
  <2>1. n \in Nat /\ \A k \in 1..n : q[k] \in Cells
    BY <1>1, <1>2
  <2>2. /\ SubSeq(q, 1, n) \in Seq(Cells)
        /\ Len(SubSeq(q, 1, n)) = IF 1 <= n THEN n - 1 + 1 ELSE 0
        /\ \A k \in 1..(n - 1 + 1) : SubSeq(q, 1, n)[k] = q[1 + k - 1]
    <3> HIDE DEF n
    <3> QED
      BY <2>1, SubSeqProperties
  <2> HIDE DEF n
  <2>3. /\ SubSeq(q, 1, n) \in Seq(Cells) /\ Len(SubSeq(q, 1, n)) = n
        /\ \A k \in 1..n : SubSeq(q, 1, n)[k] = q[k]
    BY <2>1, <2>2
  <2> QED
    BY <2>3 DEF n
<1>4. Front(q) = f /\ Last(q) = q[Len(q)]
  BY DEF Front, Last
<1>5. \A k \in 1..Len(q) : q[k] \in S
  BY DEF Lists
<1>6. \A j, k \in 1..Len(q) : q[j] = q[k] => j = k
  BY DEF Lists
<1> HIDE DEF f
<1>7. \A k \in 1..Len(f) : f[k] \in S \ {q[Len(q)]}
  BY <1>1, <1>3, <1>5, <1>6
<1>8. ASSUME NEW c \in S \ {q[Len(q)]} PROVE \E k \in 1..Len(f) : f[k] = c
  <2>1. PICK k \in 1..Len(q) : q[k] = c
    BY DEF Lists
  <2>2. k \in 1..Len(f) /\ f[k] = c
    BY <1>1, <1>3, <2>1
  <2> QED
    BY <2>2
<1>9. \A j, k \in 1..Len(f) : f[j] = f[k] => j = k
  BY <1>1, <1>3, <1>6
<1>10. q[Len(q)] \in S
  BY <1>1, <1>5
<1> QED
  BY <1>3, <1>4, <1>7, <1>8, <1>9, <1>10 DEF Lists

LEMMA JoinedLists ==
    ASSUME NEW p, NEW q, NEW S, NEW T, Lists(p, S), Lists(q, T), S \cap T = {}
    PROVE  Lists(p \o q, S \cup T)
<1>1. p \in Seq(Cells) /\ q \in Seq(Cells) /\ Len(p) \in Nat /\ Len(q) \in Nat
  BY LenProperties DEF Lists
<1>2. /\ p \o q \in Seq(Cells) /\ Len(p \o q) = Len(p) + Len(q)
      /\ \A k \in 1..(Len(p) + Len(q)) :
            (p \o q)[k] = IF k <= Len(p) THEN p[k] ELSE q[k - Len(p)]
  BY <1>1, ConcatProperties
<1>3. \A k \in 1..Len(p) : p[k] \in S
  BY DEF Lists
<1>4. \A k \in 1..Len(q) : q[k] \in T
  BY DEF Lists
<1>5. ASSUME NEW c \in S PROVE \E k \in 1..Len(p \o q) : (p \o q)[k] = c
  <2>1. PICK k \in 1..Len(p) : p[k] = c
    BY DEF Lists
  <2>2. k \in 1..Len(p \o q) /\ (p \o q)[k] = c
    BY <1>1, <1>2, <2>1
  <2> QED
    BY <2>2
<1>6. ASSUME NEW c \in T PROVE \E k \in 1..Len(p \o q) : (p \o q)[k] = c
  <2>1. PICK k \in 1..Len(q) : q[k] = c
    BY DEF Lists
  <2>2. k + Len(p) \in 1..Len(p \o q) /\ (p \o q)[k + Len(p)] = c
    BY <1>1, <1>2, <2>1
  <2> QED
    BY <2>2
<1>7. \A k \in 1..Len(p \o q) : (p \o q)[k] \in S \cup T
  BY <1>1, <1>2, <1>3, <1>4
<1>8. ASSUME NEW j \in 1..Len(p \o q), NEW k \in 1..Len(p \o q), (p \o q)[j] = (p \o q)[k]
      PROVE  j = k
  <2>1. \A x, y \in 1..Len(p) : p[x] = p[y] => x = y
    BY DEF Lists
  <2>2. \A x, y \in 1..Len(q) : q[x] = q[y] => x = y
    BY DEF Lists
  <2>3. CASE j <= Len(p) /\ k <= Len(p)
    BY <1>1, <1>2, <1>8, <2>1, <2>3
  <2>4. CASE j > Len(p) /\ k > Len(p)
    <3>1. j - Len(p) \in 1..Len(q) /\ k - Len(p) \in 1..Len(q)
      BY <1>1, <1>2, <2>4
    <3>2. q[j - Len(p)] = q[k - Len(p)]
      BY <1>1, <1>2, <1>8, <2>4
    <3> QED
      BY <1>1, <1>2, <2>2, <3>1, <3>2
  <2>5. CASE j <= Len(p) /\ k > Len(p)
    <3>1. (p \o q)[j] \in S /\ (p \o q)[k] \in T
      BY <1>1, <1>2, <1>3, <1>4, <2>5
    <3> QED
      BY <1>8, <3>1
  <2>6. CASE j > Len(p) /\ k <= Len(p)
    <3>1. (p \o q)[j] \in T /\ (p \o q)[k] \in S
      BY <1>1, <1>2, <1>3, <1>4, <2>6
    <3> QED
      BY <1>8, <3>1
  <2> QED
    BY <1>1, <1>2, <2>3, <2>4, <2>5, <2>6
<1> QED
  BY <1>2, <1>5, <1>6, <1>7, <1>8 DEF Lists

LEMMA OneCell ==
    ASSUME NEW c \in Cells PROVE Lists(<<c>>, {c})
BY DEF Lists

LEMMA AppendedList ==
    ASSUME NEW q, NEW S, Lists(q, S), NEW c \in Cells, c \notin S
    PROVE  Lists(Append(q, c), S \cup {c})
<1>1. Append(q, c) = q \o <<c>>
  BY AppendIsConcat DEF Lists
<1>2. Lists(<<c>>, {c}) /\ S \cap {c} = {}
  BY OneCell
<1>3. Lists(q \o <<c>>, S \cup {c})
  BY <1>2, JoinedLists
<1> QED
  BY <1>1, <1>3

\* The cells from..to of a buffer.
Stretch(b, lo, hi) == {c \in Cells : c[1] = b /\ c[2] > lo /\ c[2] <= hi}

LEMMA StretchList ==
    ASSUME NEW q, NEW b \in Nat, NEW lo \in Nat, NEW hi \in Nat,
           q \in Seq(Cells),
           Len(q) = IF lo < hi THEN hi - lo ELSE 0,
           \A k \in 1..Len(q) : q[k] = Cell(b, lo + k)
    PROVE  Lists(q, Stretch(b, lo, hi))
<1>1. Len(q) \in Nat /\ \A k \in 1..Len(q) : q[k] \in Cells
  BY ElementOfSeq
<1>2. \A k \in 1..Len(q) : q[k] \in Stretch(b, lo, hi)
  BY <1>1, CellFacts DEF Stretch
<1>3. ASSUME NEW c \in Stretch(b, lo, hi) PROVE \E k \in 1..Len(q) : q[k] = c
  <2>1. c = Cell(b, c[2]) /\ c[2] \in Nat /\ c[2] > lo /\ c[2] <= hi
    BY CellFacts DEF Stretch
  <2>2. c[2] - lo \in 1..Len(q) /\ q[c[2] - lo] = c
    BY <2>1
  <2> QED
    BY <2>2
<1>4. ASSUME NEW j \in 1..Len(q), NEW k \in 1..Len(q), q[j] = q[k] PROVE j = k
  <2>1. Cell(b, lo + j) = Cell(b, lo + k)
    BY <1>4
  <2>2. lo + j = lo + k
    BY <2>1 DEF Cell
  <2> QED
    BY <2>2
<1> QED
  BY <1>2, <1>3, <1>4 DEF Lists

LEMMA CellsOfVector ==
    ASSUME TypeOK, NEW v \in Vectors
    PROVE  /\ cells(v) \in Seq(Cells) /\ Len(cells(v)) = size[v]
           /\ \A i \in 1..size[v] : cells(v)[i] = Cell(buf[v], i)
           /\ Lists(cells(v), Stretch(buf[v], 0, size[v]))
<1>1. size[v] \in Nat /\ buf[v] \in Nat /\ \A i \in 1..size[v] : Cell(buf[v], i) \in Cells
  BY VectorFacts
<1>2. cells(v) \in [1..size[v] -> Cells]
  BY <1>1 DEF cells
<1>3. cells(v) \in Seq(Cells) /\ Len(cells(v)) = size[v]
  BY <1>1, <1>2, FunctionIsSeq
<1>4. \A i \in 1..size[v] : cells(v)[i] = Cell(buf[v], i)
  BY DEF cells
<1>5. Lists(cells(v), Stretch(buf[v], 0, size[v]))
  BY <1>1, <1>3, <1>4, StretchList
<1> QED
  BY <1>3, <1>4, <1>5

LEMMA EndOfVector ==
    ASSUME TypeOK, NEW v \in Vectors, NEW n \in 0..size[v]
    PROVE  Lists(SubSeq(cells(v), n + 1, size[v]), Stretch(buf[v], n, size[v]))
<1> DEFINE q == SubSeq(cells(v), n + 1, size[v])
<1>1. size[v] \in Nat /\ buf[v] \in Nat /\ n \in Nat
  BY VectorFacts
<1>2. \A i \in (n + 1)..size[v] : cells(v)[i] \in Cells /\ cells(v)[i] = Cell(buf[v], i)
  BY <1>1, VectorFacts, CellsOfVector
<1>3. /\ q \in Seq(Cells) /\ Len(q) = IF n + 1 <= size[v] THEN size[v] - (n + 1) + 1 ELSE 0
      /\ \A i \in 1..(size[v] - (n + 1) + 1) : q[i] = cells(v)[(n + 1) + i - 1]
  BY <1>1, <1>2, SubSeqProperties
<1> HIDE DEF q
<1>4. Len(q) = IF n < size[v] THEN size[v] - n ELSE 0
  BY <1>1, <1>3
<1>5. ASSUME NEW k \in 1..Len(q) PROVE q[k] = Cell(buf[v], n + k)
  <2>1. k \in 1..(size[v] - (n + 1) + 1) /\ n + k \in (n + 1)..size[v]
        /\ (n + 1) + k - 1 = n + k
    BY <1>1, <1>4
  <2> QED
    BY <1>2, <1>3, <2>1
<1>6. Lists(q, Stretch(buf[v], n, size[v]))
  BY <1>1, <1>3, <1>4, <1>5, StretchList
<1> QED
  BY <1>6 DEF q

-------------------------------------------------------------------------------
(* The initial state, the collector and the steps of an operation in progress *)

LEMMA InitInv == Init => VectorInv
<1> SUFFICES ASSUME Init PROVE VectorInv
  OBVIOUS
<1> USE DEF Init
<1>1. TypeOK
  BY BufferFacts, MaxLenBounds DEF TypeOK, capacity
<1>2. Elements = {} /\ Extra = {}
  BY CellFacts DEF Elements, Extra
<1>3. CellsInv
  BY <1>2 DEF CellsInv, Occupied
<1> QED
  BY <1>1, <1>2, <1>3 DEF VectorInv, ExtraInv, OpInv, BuildInv, Idle

LEMMA CollectKeeps == VectorInv /\ Collect => VectorInv'
<1> SUFFICES ASSUME VectorInv, Collect PROVE VectorInv'
  OBVIOUS
<1> USE DEF Collect
<1>1. TypeOK'
  BY DEF VectorInv, TypeOK, capacity
<1>2. args' \subseteq live'
  BY DEF VectorInv
<1>3. Elements' = Elements /\ Extra' = Extra
  BY DEF Elements, Extra, Listed
<1>4. CellsInv'
  <2> SUFFICES ASSUME NEW c \in Cells
               PROVE  IF c \in Occupied THEN ranges[c] = 1 /\ content[c] \in live' \cup {Null}
                      ELSE ranges[c] = 0 /\ content[c] = Junk
    BY <1>3 DEF CellsInv, Occupied
  <2>1. CASE c \in Occupied
    <3>1. ranges[c] = 1 /\ content[c] \in live \cup {Null}
      BY <2>1 DEF VectorInv, CellsInv
    <3>2. ranges[c] > 0
      BY <3>1
    <3> QED
      BY <2>1, <3>1, <3>2
  <2>2. CASE c \notin Occupied
    BY <2>2 DEF VectorInv, CellsInv
  <2> QED
    BY <2>1, <2>2
<1>5. ExtraInv'
  BY <1>3 DEF VectorInv, ExtraInv
<1>6. OpInv'
  BY DEF VectorInv, OpInv
<1>7. BuildInv'
  <2>1. PlanTypes => PlanTypes'
    BY <1>3 DEF PlanTypes, Coming, Safe
  <2>2. PlanAddsUp => PlanAddsUp'
    BY <1>3 DEF PlanAddsUp, Mine, Coming
  <2>3. Promise => Promise'
    <3>1. Values' = Values
      BY DEF Values
    <3>2. ASSUME NEW s, Fulfils(op, Values, content, s)
          PROVE  Fulfils(op', Values', content', s)
      BY <3>1, <3>2
    <3> QED
      BY <3>2 DEF Promise
  <2> QED
    BY <2>1, <2>2, <2>3 DEF VectorInv, BuildInv
<1> QED
  BY <1>1, <1>2, <1>4, <1>5, <1>6, <1>7 DEF VectorInv

\* The operation is given up; what it has built is still there.
LEMMA RegisterThrowsKeeps == VectorInv /\ RegisterThrows => VectorInv'
<1> SUFFICES ASSUME VectorInv, RegisterThrows PROVE VectorInv'
  OBVIOUS
<1> USE DEF RegisterThrows
<1>1. TypeOK'
  BY DEF VectorInv, TypeOK, capacity
<1>2. Elements' = Elements /\ Extra' = Extra
  BY DEF Elements, Extra
<1>3. CellsInv'
  BY <1>2 DEF VectorInv, CellsInv, Occupied
<1>4. ExtraInv'
  BY <1>2 DEF VectorInv, ExtraInv
<1> QED
  BY <1>1, <1>3, <1>4 DEF VectorInv, OpInv, BuildInv

\* A registered cell that is not an element is destroyed.
LEMMA DestroyedCell ==
    ASSUME VectorInv, NEW c \in Extra, DestroyRoot(c), size' = size, buf' = buf, live' = live,
           args' = args, pc' \in {"undo", "drop"}, Extra' = Extra \ {c}
    PROVE  TypeOK' /\ CellsInv' /\ Extra' \cap Elements' = {}
<1>1. Extra \subseteq Cells
  BY ListsListed, EmptyList DEF VectorInv, ExtraInv, Extra, TypeOK
<1>2. c \in Cells /\ c \in Occupied /\ ranges[c] = 1 /\ c \notin Elements
  BY <1>1 DEF VectorInv, CellsInv, Occupied, ExtraInv
<1>3. Elements' = Elements
  BY DEF Elements
<1>4. ranges \in [Cells -> Nat] /\ content \in [Cells -> Objects \cup {Null, Junk}]
  BY DEF VectorInv, TypeOK
<1>5. /\ ranges' \in [Cells -> Nat] /\ content' \in [Cells -> Objects \cup {Null, Junk}]
      /\ ranges'[c] = 0 /\ content'[c] = Junk
      /\ \A d \in Cells \ {c} : ranges'[d] = ranges[d] /\ content'[d] = content[d]
  BY <1>2, <1>4 DEF DestroyRoot
<1>6. TypeOK'
  BY <1>5 DEF VectorInv, TypeOK, capacity
<1>7. CellsInv'
  <2>1. ASSUME NEW d \in Cells
        PROVE  d \in Occupied' <=> d \in Occupied /\ d # c
    BY <1>2, <1>3 DEF Occupied
  <2> QED
    BY <1>5, <2>1 DEF VectorInv, CellsInv
<1>8. Extra' \cap Elements' = {}
  BY <1>3 DEF VectorInv, ExtraInv
<1> QED
  BY <1>6, <1>7, <1>8

LEMMA UndoKeeps == VectorInv /\ Undo => VectorInv'
<1> SUFFICES ASSUME VectorInv, Undo PROVE VectorInv'
  OBVIOUS
<1>1. pc = "undo" /\ Lists(fresh, Extra) /\ Extra = Listed(fresh)
  BY DEF VectorInv, ExtraInv, Undo, Extra
<1>2. CASE fresh # <<>>
  <2>1. Last(fresh) \in Extra /\ Lists(Front(fresh), Extra \ {Last(fresh)})
    BY <1>1, <1>2, FrontOfList
  <2>2. /\ DestroyRoot(Last(fresh)) /\ fresh' = Front(fresh) /\ pc' = "undo"
        /\ size' = size /\ buf' = buf /\ live' = live /\ args' = args /\ op' = op
    BY <1>1, <1>2 DEF Undo
  <2>3. Extra' = Extra \ {Last(fresh)}
    <3>1. Listed(Front(fresh)) = Extra \ {Last(fresh)}
      BY <2>1, ListsListed
    <3> QED
      BY <2>2, <3>1 DEF Extra, Listed
  <2>4. TypeOK' /\ CellsInv' /\ Extra' \cap Elements' = {}
    BY <2>1, <2>2, <2>3, DestroyedCell
  <2>5. Lists(fresh', Extra')
    BY <2>1, <2>2, <2>3
  <2> QED
    BY <2>2, <2>4, <2>5 DEF VectorInv, ExtraInv, OpInv, BuildInv
<1>3. CASE fresh = <<>>
  <2>1. Extra = {}
    BY <1>1, <1>3, EmptyList
  <2>2. /\ pc' = "idle" /\ op' = Idle /\ args' = {} /\ fresh' = <<>>
        /\ size' = size /\ buf' = buf /\ live' = live /\ content' = content /\ ranges' = ranges
    BY <1>1, <1>3 DEF Undo
  <2>3. Elements' = Elements /\ Extra' = {}
    BY <2>2 DEF Elements, Extra
  <2>4. TypeOK'
    BY <2>2 DEF VectorInv, TypeOK, capacity
  <2>5. CellsInv'
    BY <2>1, <2>2, <2>3 DEF VectorInv, CellsInv, Occupied
  <2> QED
    BY <2>2, <2>3, <2>4, <2>5 DEF VectorInv, ExtraInv, OpInv, BuildInv, Idle
<1> QED
  BY <1>2, <1>3

LEMMA DropNextKeeps == VectorInv /\ DropNext => VectorInv'
<1> SUFFICES ASSUME VectorInv, DropNext PROVE VectorInv'
  OBVIOUS
<1>1. pc = "drop" /\ Lists(op.drop, Extra) /\ Extra = Listed(op.drop)
  BY DEF VectorInv, ExtraInv, DropNext, Extra
<1>2. CASE op.drop # <<>>
  <2>1. Head(op.drop) \in Extra /\ Lists(Tail(op.drop), Extra \ {Head(op.drop)})
    BY <1>1, <1>2, TailOfList
  <2>2. /\ DestroyRoot(Head(op.drop)) /\ pc' = "drop" /\ fresh' = fresh
        /\ size' = size /\ buf' = buf /\ live' = live /\ args' = args
    BY <1>1, <1>2 DEF DropNext
  <2>3. op' = [v |-> op.v, build |-> op.build, drop |-> Tail(op.drop),
               size |-> op.size, buf |-> op.buf]
    BY <1>1, <1>2 DEF DropNext, VectorInv, OpInv
  <2>4. op'.drop = Tail(op.drop) /\ OpInv'
    BY <2>3 DEF OpInv
  <2>5. Extra' = Extra \ {Head(op.drop)}
    <3>1. Listed(Tail(op.drop)) = Extra \ {Head(op.drop)}
      BY <2>1, ListsListed
    <3> QED
      BY <2>2, <2>4, <3>1 DEF Extra, Listed
  <2>6. TypeOK' /\ CellsInv' /\ Extra' \cap Elements' = {}
    BY <2>1, <2>2, <2>5, DestroyedCell
  <2>7. Lists(op'.drop, Extra')
    BY <2>1, <2>4, <2>5
  <2> QED
    BY <2>2, <2>4, <2>6, <2>7 DEF VectorInv, ExtraInv, BuildInv
<1>3. CASE op.drop = <<>>
  <2>1. Extra = {}
    BY <1>1, <1>3, EmptyList
  <2>2. /\ pc' = "idle" /\ op' = Idle /\ args' = {} /\ fresh' = <<>>
        /\ size' = size /\ buf' = buf /\ live' = live /\ content' = content /\ ranges' = ranges
    BY <1>1, <1>3 DEF DropNext
  <2>3. Elements' = Elements /\ Extra' = {}
    BY <2>2 DEF Elements, Extra
  <2>4. TypeOK'
    BY <2>2 DEF VectorInv, TypeOK, capacity
  <2>5. CellsInv'
    BY <2>1, <2>2, <2>3 DEF VectorInv, CellsInv, Occupied
  <2> QED
    BY <2>2, <2>3, <2>4, <2>5 DEF VectorInv, ExtraInv, OpInv, BuildInv, Idle
<1> QED
  BY <1>2, <1>3

\* The next root is built in a cell nobody uses, from a pointer that is protected.
LEMMA BuildNextKeeps == VectorInv /\ BuildNext => VectorInv' /\ SamePromise
<1> SUFFICES ASSUME VectorInv, BuildNext PROVE VectorInv' /\ SamePromise
  OBVIOUS
<1> DEFINE r == Head(op.build)
<1>1. /\ pc = "build" /\ pc' = "build" /\ op.build # <<>> /\ ConstructRoot(r)
      /\ fresh' = Append(fresh, r.cell)
      /\ size' = size /\ buf' = buf /\ live' = live /\ args' = args
  BY DEF BuildNext
<1>2. PlanTypes /\ PlanAddsUp /\ Promise /\ Lists(fresh, Extra) /\ Extra = Listed(fresh)
  BY <1>1 DEF VectorInv, BuildInv, ExtraInv, Extra
<1>3. /\ op.build \in Seq(Plans) /\ Len(op.build) \in Nat \ {0} /\ r = op.build[1]
      /\ Tail(op.build) \in Seq(Plans) /\ Len(Tail(op.build)) = Len(op.build) - 1
      /\ \A k \in 1..Len(Tail(op.build)) : Tail(op.build)[k] = op.build[k + 1]
  BY <1>1, <1>2, HeadTailProperties, EmptySeq DEF PlanTypes
<1>4. /\ op'.v = op.v /\ op'.build = Tail(op.build) /\ op'.drop = op.drop
      /\ op'.size = op.size /\ op'.buf = op.buf /\ OpInv'
  <2>1. op' = [v |-> op.v, build |-> Tail(op.build), drop |-> op.drop,
               size |-> op.size, buf |-> op.buf]
    BY DEF BuildNext, VectorInv, OpInv
  <2> QED
    BY <2>1 DEF OpInv
<1>5. r \in Plans /\ r.cell \in Cells /\ r.value \in Objects \cup {Null} /\ 1 \in 1..Len(op.build)
  <2>1. 1 \in 1..Len(op.build)
    BY <1>3
  <2>2. op.build[1] \in Plans
    BY <1>3, <2>1, ElementOfSeq
  <2> HIDE DEF r
  <2> QED
    BY <1>3, <2>1, <2>2 DEF Plans
<1>6. r.cell \in Coming /\ r.cell \notin Elements /\ r.cell \notin Extra /\ Safe(r.value)
  <2>1. r.cell \in Coming
    BY <1>3, <1>5 DEF Coming
  <2> QED
    BY <1>2, <1>3, <1>5, <2>1 DEF PlanTypes
<1>7. Extra \cap Elements = {} /\ Elements' = Elements
  BY <1>1 DEF VectorInv, ExtraInv, Elements
<1>8. Lists(fresh', Extra \cup {r.cell}) /\ Listed(fresh') = Extra \cup {r.cell}
  <2>1. Lists(Append(fresh, r.cell), Extra \cup {r.cell})
    BY <1>2, <1>5, <1>6, AppendedList
  <2> QED
    BY <1>1, <2>1, ListsListed
<1>9. Extra' = Extra \cup {r.cell}
  BY <1>1, <1>8 DEF Extra, Listed
<1>10. /\ ranges' \in [Cells -> Nat] /\ content' \in [Cells -> Objects \cup {Null, Junk}]
       /\ ranges'[r.cell] = ranges[r.cell] + 1 /\ content'[r.cell] = r.value
       /\ \A d \in Cells \ {r.cell} : ranges'[d] = ranges[d] /\ content'[d] = content[d]
  <2>1. ranges \in [Cells -> Nat] /\ content \in [Cells -> Objects \cup {Null, Junk}]
    BY DEF VectorInv, TypeOK
  <2> HIDE DEF r
  <2> QED
    BY <1>1, <1>5, <2>1 DEF ConstructRoot
<1> HIDE DEF r
<1>11. TypeOK'
  BY <1>1, <1>10 DEF VectorInv, TypeOK, capacity
<1>12. Occupied' = Occupied \cup {r.cell}
  BY <1>7, <1>9 DEF Occupied
<1>13. r.value \in live \cup {Null}
  <2>1. \A c \in Elements \cup Listed(fresh) : c \in Cells /\ content[c] \in live \cup {Null}
    <3>1. Elements \subseteq Cells /\ Listed(fresh) \subseteq Cells
      BY <1>2, ListsListed DEF Elements
    <3> QED
      BY <1>2, <3>1 DEF VectorInv, CellsInv, Occupied
  <2> QED
    BY <1>6, <2>1 DEF Safe, VectorInv
<1>14. CellsInv'
  <2> SUFFICES ASSUME NEW c \in Cells
               PROVE  IF c \in Occupied \cup {r.cell}
                      THEN ranges'[c] = 1 /\ content'[c] \in live \cup {Null}
                      ELSE ranges'[c] = 0 /\ content'[c] = Junk
    BY <1>1, <1>12 DEF CellsInv
  <2>1. CASE c = r.cell
    <3>1. ranges[c] = 0
      BY <1>6, <2>1 DEF VectorInv, CellsInv, Occupied
    <3> QED
      BY <1>10, <1>13, <2>1, <3>1
  <2>2. CASE c # r.cell
    BY <1>10, <2>2 DEF VectorInv, CellsInv
  <2> QED
    BY <2>1, <2>2
<1>15. ExtraInv'
  <2>1. Lists(fresh', Extra')
    BY <1>8, <1>9
  <2> QED
    BY <1>1, <1>6, <1>7, <1>9, <2>1 DEF ExtraInv
<1>16. /\ \A k \in 1..Len(op'.build) :
             /\ k + 1 \in 1..Len(op.build) /\ op'.build[k] = op.build[k + 1]
             /\ op'.build[k].cell # r.cell
       /\ \A j, k \in 1..Len(op'.build) : op'.build[j].cell = op'.build[k].cell => j = k
  <2>1. \A j, k \in 1..Len(op.build) : op.build[j].cell = op.build[k].cell => j = k
    BY <1>2 DEF PlanTypes
  <2> QED
    BY <1>3, <1>4, <1>5, <2>1
<1>17. Coming' = Coming \ {r.cell}
  <2>1. Coming' \subseteq Coming \ {r.cell}
    BY <1>16 DEF Coming
  <2>2. ASSUME NEW c \in Coming \ {r.cell} PROVE c \in Coming'
    <3>1. PICK k \in 1..Len(op.build) : op.build[k].cell = c
      BY DEF Coming
    <3>2. k # 1
      BY <1>3, <3>1
    <3>3. k - 1 \in 1..Len(op'.build) /\ op'.build[k - 1] = op.build[k]
      BY <1>3, <1>4, <3>2
    <3> QED
      BY <3>1, <3>3 DEF Coming
  <2> QED
    BY <2>1, <2>2
<1>18. PlanTypes'
  <2>1. /\ op'.v \in Vectors /\ op'.buf \in 0..Len(Capacity) /\ op'.size \in 0..MaxLen
        /\ IF op'.buf = 0 THEN op'.size = 0 ELSE op'.size <= Capacity[op'.buf]
        /\ \A w \in Vectors : w # op'.v /\ op'.buf # 0 => buf'[w] # op'.buf
        /\ op'.build \in Seq(Plans)
    BY <1>1, <1>2, <1>3, <1>4 DEF PlanTypes
  <2>2. Coming' \cap (Elements' \cup Listed(fresh')) = {}
    BY <1>2, <1>7, <1>8, <1>17 DEF PlanTypes
  <2>3. ASSUME NEW k \in 1..Len(op'.build)
        PROVE  \/ op'.build[k].value = Null \/ op'.build[k].value \in args'
               \/ \E c \in Elements' \cup Listed(fresh') : content'[c] = op'.build[k].value
    <3> DEFINE p == op.build[k + 1].value
    <3>1. op'.build[k].value = p /\ Safe(p)
      BY <1>2, <1>16 DEF PlanTypes
    <3> HIDE DEF p
    <3>2. ASSUME NEW c \in Elements \cup Listed(fresh)
          PROVE  c \in Elements' \cup Listed(fresh') /\ content'[c] = content[c]
      <4>1. c \in Cells /\ c # r.cell
        BY <1>2, <1>6, ListsListed DEF Elements
      <4> QED
        BY <1>2, <1>7, <1>8, <1>10, <4>1
    <3> QED
      BY <1>1, <3>1, <3>2 DEF Safe
  <2> QED
    BY <1>16, <2>1, <2>2, <2>3 DEF PlanTypes, Safe
<1>19. PlanAddsUp'
  <2>1. \A c : c \in Elements' \/ c \in Listed(fresh') \/ c \in Coming'
               <=> c \in Elements \/ c \in Listed(fresh) \/ c \in Coming
    BY <1>2, <1>6, <1>7, <1>8, <1>17
  <2> QED
    BY <1>1, <1>2, <1>4, <2>1 DEF PlanAddsUp, Mine
<1>20. Promise' /\ SamePromise
  <2>1. Values' = Values
    <3>1. ASSUME NEW v \in Vectors, NEW i \in 1..size[v]
          PROVE  content'[Cell(buf[v], i)] = content[Cell(buf[v], i)]
      BY <1>6, <1>10, VectorFacts DEF VectorInv
    <3> QED
      BY <1>1, <3>1 DEF Values
  <2>2. PICK s : Fulfils(op, Values, content, s)
    BY <1>2 DEF Promise
  <2>3. /\ s \in [1..op'.size -> Objects \cup {Null}] /\ Allowed(Values', op'.v, s)
        /\ \A k \in 1..Len(op'.build) :
              op'.build[k].cell[1] = op'.buf /\ op'.build[k].value = s[op'.build[k].cell[2]]
    BY <1>4, <1>16, <2>1, <2>2 DEF Fulfils
  <2>4. ASSUME NEW i \in 1..op'.size
        PROVE  \/ \E k \in 1..Len(op'.build) : op'.build[k].cell = Cell(op'.buf, i)
               \/ content'[Cell(op'.buf, i)] = s[i]
    <3>1. CASE Cell(op.buf, i) = r.cell
      <4>1. r.value = s[r.cell[2]] /\ r.cell[2] = i
        BY <1>3, <1>5, <2>2, <3>1, CellFacts DEF Fulfils
      <4> QED
        BY <1>4, <1>10, <3>1, <4>1
    <3>2. CASE Cell(op.buf, i) # r.cell
      <4>1. CASE Cell(op.buf, i) \in Coming
        <5>1. Cell(op.buf, i) \in Coming'
          BY <1>17, <3>2, <4>1
        <5> QED
          BY <1>4, <5>1 DEF Coming
      <4>2. CASE Cell(op.buf, i) \notin Coming
        <5>1. content[Cell(op.buf, i)] = s[i]
          BY <1>4, <2>2, <4>2 DEF Fulfils, Coming
        <5>2. Cell(op.buf, i) \in Cells
          <6>1. op.buf \in Buffers /\ i \in 1..Capacity[op.buf]
            BY <1>2, <1>4, BufferFacts DEF PlanTypes
          <6> QED
            BY <6>1, CellFacts
        <5> QED
          BY <1>4, <1>10, <3>2, <5>1, <5>2
      <4> QED
        BY <4>1, <4>2
    <3> QED
      BY <3>1, <3>2
  <2>5. Fulfils(op', Values', content', s)
    BY <2>3, <2>4 DEF Fulfils
  <2> QED
    BY <2>2, <2>5 DEF Promise, SamePromise
<1> QED
  BY <1>1, <1>4, <1>11, <1>14, <1>15, <1>18, <1>19, <1>20 DEF VectorInv, BuildInv

\* Everything is built: the new cells are the vector, the old ones will go.
LEMMA CommitKeeps == VectorInv /\ Commit => VectorInv'
<1> SUFFICES ASSUME VectorInv, Commit PROVE VectorInv'
  OBVIOUS
<1>1. /\ pc = "build" /\ pc' = "drop" /\ op.build = <<>>
      /\ size' = [size EXCEPT ![op.v] = op.size] /\ buf' = [buf EXCEPT ![op.v] = op.buf]
      /\ content' = content /\ ranges' = ranges /\ live' = live /\ args' = args
      /\ op' = op /\ fresh' = fresh
  BY DEF Commit
<1>2. PlanTypes /\ PlanAddsUp /\ Extra = Listed(fresh) /\ Extra' = Listed(op.drop)
  BY <1>1 DEF VectorInv, BuildInv, Extra
<1>3. size \in [Vectors -> 0..MaxLen] /\ buf \in [Vectors -> 0..Len(Capacity)]
  BY DEF VectorInv, TypeOK
<1>4. \A w \in Vectors : /\ size'[w] = IF w = op.v THEN op.size ELSE size[w]
                         /\ buf'[w] = IF w = op.v THEN op.buf ELSE buf[w]
  BY <1>1, <1>3
<1>5. TypeOK'
  <2>1. size' \in [Vectors -> 0..MaxLen] /\ buf' \in [Vectors -> 0..Len(Capacity)]
    BY <1>1, <1>2, <1>3 DEF PlanTypes
  <2>2. ASSUME NEW v \in Vectors PROVE size'[v] <= IF buf'[v] = 0 THEN 0 ELSE Capacity[buf'[v]]
    <3>1. CASE v = op.v
      BY <1>2, <1>4, <3>1, MaxLenBounds DEF PlanTypes
    <3>2. CASE v # op.v
      BY <1>4, <3>2 DEF VectorInv, TypeOK, capacity
    <3> QED
      BY <3>1, <3>2
  <2>3. ASSUME NEW v \in Vectors, NEW w \in Vectors, v # w, buf'[v] # 0 PROVE buf'[v] # buf'[w]
    BY <1>2, <1>4, <2>3 DEF VectorInv, TypeOK, PlanTypes
  <2> QED
    BY <1>1, <2>1, <2>2, <2>3 DEF VectorInv, TypeOK, capacity
<1>6. ASSUME NEW c \in Cells
      PROVE  c \in Elements' <=> \/ c[1] = op.buf /\ c[2] <= op.size
                                 \/ \E w \in Vectors : w # op.v /\ Mine(w, c)
  <2>1. op.v \in Vectors
    BY <1>2 DEF PlanTypes
  <2> QED
    BY <1>4, <2>1 DEF Elements, Mine
<1>7. Coming = {}
  BY <1>1, EmptySeq DEF Coming
<1>8. Lists(op.drop, Listed(op.drop)) /\ Listed(op.drop) \subseteq Cells
  BY <1>2, ListsListed DEF PlanAddsUp
<1>9. Extra' \cap Elements' = {}
  <2>1. ASSUME NEW c \in Cells PROVE ~(c \in Extra' /\ c \in Elements')
    BY <1>2, <1>6 DEF PlanAddsUp
  <2> QED
    BY <1>2, <1>8, <2>1
<1>10. ASSUME NEW c \in Cells PROVE c \in Occupied' <=> c \in Occupied
  BY <1>2, <1>6, <1>7 DEF PlanAddsUp, Occupied
<1>11. CellsInv'
  BY <1>1, <1>10 DEF VectorInv, CellsInv
<1>12. ExtraInv'
  BY <1>1, <1>2, <1>8, <1>9 DEF ExtraInv
<1> QED
  BY <1>1, <1>5, <1>11, <1>12 DEF VectorInv, OpInv, BuildInv

-------------------------------------------------------------------------------
(* Operations that give elements up, or only write to them *)

\* Between operations the occupied cells are the elements.
LEMMA IdleFacts ==
    ASSUME VectorInv, pc = "idle"
    PROVE  /\ TypeOK /\ args = {} /\ fresh = <<>> /\ op = Idle
           /\ content \in [Cells -> Objects \cup {Null, Junk}] /\ ranges \in [Cells -> Nat]
           /\ Elements \subseteq Cells
           /\ \A c \in Cells :
                 IF c \in Elements THEN ranges[c] = 1 /\ content[c] \in live \cup {Null}
                 ELSE ranges[c] = 0 /\ content[c] = Junk
           /\ \A v \in Vectors : \A i \in 1..size[v] :
                 /\ Cell(buf[v], i) \in Elements
                 /\ content[Cell(buf[v], i)] \in live \cup {Null}
                 /\ content[Cell(buf[v], i)] \in Objects \cup {Null}
<1>1. TypeOK /\ args = {} /\ fresh = <<>> /\ op = Idle
  BY DEF VectorInv, ExtraInv
<1>2. Extra = {}
  BY DEF Extra
<1>3. \A c \in Cells :
          IF c \in Elements THEN ranges[c] = 1 /\ content[c] \in live \cup {Null}
          ELSE ranges[c] = 0 /\ content[c] = Junk
  BY <1>2 DEF VectorInv, CellsInv, Occupied
<1>4. ASSUME NEW v \in Vectors, NEW i \in 1..size[v]
      PROVE  /\ Cell(buf[v], i) \in Elements
             /\ content[Cell(buf[v], i)] \in live \cup {Null}
             /\ content[Cell(buf[v], i)] \in Objects \cup {Null}
  <2>1. Cell(buf[v], i) \in Elements /\ Cell(buf[v], i) \in Cells
    BY <1>1, VectorFacts
  <2>2. content[Cell(buf[v], i)] \in live \cup {Null}
    BY <1>3, <2>1
  <2> QED
    BY <1>1, <2>1, <2>2 DEF TypeOK
<1> QED
  BY <1>1, <1>3, <1>4 DEF TypeOK, Elements

\* The elements are divided into those that stay and those to be destroyed, and
\* hold protected pointers.
LEMMA GivesUp ==
    ASSUME VectorInv, pc = "idle", NEW q, NEW D, Lists(q, D), D \subseteq Elements,
           pc' = "drop", op' = [Idle EXCEPT !.drop = q], args' = args, live' = live,
           ranges' = ranges, content' \in [Cells -> Objects \cup {Null, Junk}],
           \A c \in Cells : IF c \in Elements THEN content'[c] \in live \cup {Null}
                            ELSE content'[c] = Junk,
           size' \in [Vectors -> 0..MaxLen], buf' \in [Vectors -> 0..Len(Capacity)],
           \A v \in Vectors : size'[v] <= IF buf'[v] = 0 THEN 0 ELSE Capacity[buf'[v]],
           \A v, w \in Vectors : v # w /\ buf'[v] # 0 => buf'[v] # buf'[w],
           \A c \in Cells : (\E v \in Vectors : c[1] = buf'[v] /\ c[2] <= size'[v])
                            <=> c \in Elements /\ c \notin D
    PROVE  VectorInv'
<1>1. op' = [v |-> Null, build |-> <<>>, drop |-> q, size |-> 0, buf |-> 0]
  BY DEF Idle
<1>2. op'.drop = q /\ OpInv'
  BY <1>1 DEF OpInv
<1>3. Extra' = D
  <2>1. Listed(q) = D
    BY ListsListed
  <2> QED
    BY <1>2, <2>1 DEF Extra, Listed
<1>4. \A c \in Cells : c \in Elements' <=> c \in Elements /\ c \notin D
  BY DEF Elements
<1>5. TypeOK'
  BY DEF VectorInv, TypeOK, capacity
<1>6. CellsInv'
  <2>1. \A c \in Cells : c \in Occupied' <=> c \in Elements
    BY <1>3, <1>4 DEF Occupied
  <2> QED
    BY <2>1, IdleFacts DEF CellsInv
<1>7. ExtraInv'
  <2>1. Lists(op'.drop, Extra')
    BY <1>2, <1>3
  <2>2. Extra' \cap Elements' = {}
    BY <1>3, <1>4 DEF Elements
  <2> QED
    BY <2>1, <2>2 DEF ExtraInv
<1> QED
  BY <1>2, <1>5, <1>6, <1>7 DEF VectorInv, BuildInv

LEMMA ShrinkKeeps ==
    ASSUME VectorInv, pc = "idle", NEW v \in Vectors, NEW n \in 0..size[v], NEW b,
           b = buf[v] \/ (b = 0 /\ n = 0), Shrink(v, n, b),
           args' = args, live' = live, ranges' = ranges,
           content' \in [Cells -> Objects \cup {Null, Junk}],
           \A c \in Cells : IF c \in Elements THEN content'[c] \in live \cup {Null}
                            ELSE content'[c] = Junk
    PROVE  VectorInv'
<1> DEFINE q == SubSeq(cells(v), n + 1, size[v])
           D == Stretch(buf[v], n, size[v])
<1>1. TypeOK /\ n \in Nat /\ size[v] \in Nat
  BY IdleFacts, VectorFacts
<1>2. Lists(q, D)
  BY <1>1, EndOfVector
<1>3. /\ pc' = "drop" /\ op' = [Idle EXCEPT !.drop = q]
      /\ size' = [size EXCEPT ![v] = n] /\ buf' = [buf EXCEPT ![v] = b]
  BY DEF Shrink
<1>4. D \subseteq Elements
  BY <1>1, VectorFacts DEF Stretch, Mine
<1>5. size \in [Vectors -> 0..MaxLen] /\ buf \in [Vectors -> 0..Len(Capacity)]
  BY <1>1 DEF TypeOK
<1>6. \A w \in Vectors : size'[w] = (IF w = v THEN n ELSE size[w])
                         /\ buf'[w] = (IF w = v THEN b ELSE buf[w])
  BY <1>3, <1>5
<1>7. size' \in [Vectors -> 0..MaxLen] /\ buf' \in [Vectors -> 0..Len(Capacity)]
  <2>1. n \in 0..MaxLen /\ b \in 0..Len(Capacity)
    BY <1>1, <1>5, VectorFacts, MaxLenBounds, BufferFacts
  <2> QED
    BY <1>3, <1>5, <2>1
<1>8. ASSUME NEW w \in Vectors PROVE size'[w] <= IF buf'[w] = 0 THEN 0 ELSE Capacity[buf'[w]]
  BY <1>1, <1>6, VectorFacts, BufferFacts
<1>9. ASSUME NEW w \in Vectors, NEW x \in Vectors, w # x, buf'[w] # 0 PROVE buf'[w] # buf'[x]
  BY <1>1, <1>6, <1>9 DEF TypeOK
<1>10. ASSUME NEW c \in Cells
       PROVE  (\E w \in Vectors : c[1] = buf'[w] /\ c[2] <= size'[w])
              <=> c \in Elements /\ c \notin D
  <2>0. c[2] \in Nat \ {0} /\ c[1] \in Nat
    BY CellFacts
  <2>1. ASSUME NEW w \in Vectors, c[1] = buf'[w], c[2] <= size'[w]
        PROVE  c \in Elements /\ c \notin D
    <3>1. CASE w = v
      <4>1. b = buf[v] /\ c[2] <= n
        BY <1>6, <2>0, <2>1, <3>1, <1>1
      <4>2. c[1] = buf[v] /\ c[2] <= size[v]
        BY <1>6, <2>0, <2>1, <3>1, <4>1, <1>1
      <4>3. c \in Elements
        BY <4>2 DEF Elements
      <4>4. c \notin D
        BY <1>1, <2>0, <4>1 DEF Stretch
      <4> QED
        BY <4>3, <4>4
    <3>2. CASE w # v
      <4>1. Mine(w, c)
        BY <1>6, <2>1, <3>2 DEF Mine
      <4>2. c \in Elements /\ ~Mine(v, c)
        BY <1>1, <3>2, <4>1, VectorFacts
      <4> QED
        BY <4>2 DEF Stretch, Mine
    <3> QED
      BY <3>1, <3>2
  <2>2. ASSUME c \in Elements, c \notin D
        PROVE  \E w \in Vectors : c[1] = buf'[w] /\ c[2] <= size'[w]
    <3>1. PICK w \in Vectors : Mine(w, c)
      BY <1>1, <2>2, VectorFacts
    <3>2. CASE w # v
      BY <1>6, <3>1, <3>2 DEF Mine
    <3>3. CASE w = v
      <4>1. c[1] = buf[v] /\ c[2] <= size[v]
        BY <3>1, <3>3 DEF Mine
      <4>2. c[2] <= n
        BY <1>1, <2>0, <2>2, <4>1 DEF Stretch
      <4> QED
        BY <1>1, <1>6, <2>0, <4>1, <4>2
    <3> QED
      BY <3>2, <3>3
  <2> QED
    BY <2>1, <2>2
<1> HIDE DEF q, D
<1> QED
  BY <1>2, <1>3, <1>4, <1>7, <1>8, <1>9, <1>10, GivesUp

\* What stays true of the cells when an operation does not write to them.
LEMMA Untouched ==
    ASSUME VectorInv, pc = "idle", content' = content
    PROVE  /\ content' \in [Cells -> Objects \cup {Null, Junk}]
           /\ \A c \in Cells : IF c \in Elements THEN content'[c] \in live \cup {Null}
                               ELSE content'[c] = Junk
BY IdleFacts

LEMMA pop_backKeeps ==
    ASSUME VectorInv, pc = "idle", NEW v \in Vectors, pop_back(v) PROVE VectorInv'
<1>1. size[v] - 1 \in 0..size[v]
  BY IdleFacts, VectorFacts DEF pop_back
<1>2. /\ Shrink(v, size[v] - 1, buf[v])
      /\ content' = content /\ ranges' = ranges /\ live' = live /\ args' = args
  BY DEF pop_back
<1> QED
  BY <1>1, <1>2, ShrinkKeeps, Untouched

LEMMA clearKeeps ==
    ASSUME VectorInv, pc = "idle", NEW v \in Vectors, clear(v) PROVE VectorInv'
<1>1. 0 \in 0..size[v]
  BY IdleFacts, VectorFacts
<1>2. content' = content /\ ranges' = ranges /\ live' = live /\ args' = args
  BY DEF clear
<1>3. CASE Shrink(v, 0, buf[v])
  BY <1>1, <1>2, <1>3, ShrinkKeeps, Untouched
<1>4. CASE Shrink(v, 0, 0)
  BY <1>1, <1>2, <1>4, ShrinkKeeps, Untouched
<1> QED
  BY <1>3, <1>4 DEF clear

\* The pointers that move down come from elements, and the last cells are nulled.
LEMMA eraseKeeps ==
    ASSUME VectorInv, pc = "idle", NEW v \in Vectors, NEW i \in 1..MaxLen, NEW n \in 1..MaxLen,
           erase(v, i, n)
    PROVE  VectorInv'
<1> DEFINE m == size[v] - n
<1>1. TypeOK /\ size[v] \in Nat /\ i \in Nat \ {0} /\ n \in Nat \ {0} /\ m \in 0..size[v]
  BY IdleFacts, VectorFacts, MaxLenBounds DEF erase
<1>2. /\ Shrink(v, m, buf[v]) /\ ranges' = ranges /\ live' = live /\ args' = args
      /\ content' = [c \in Cells |->
             IF c[1] # buf[v] \/ c[2] < i \/ c[2] > size[v] THEN content[c]
             ELSE IF c[2] <= m THEN content[Cell(c[1], c[2] + n)] ELSE Null]
  BY DEF erase
<1>3. ASSUME NEW c \in Cells
      PROVE  IF c \in Elements THEN content'[c] \in live \cup {Null} ELSE content'[c] = Junk
  <2>0. c[1] \in Nat /\ c[2] \in Nat \ {0}
    BY CellFacts
  <2>1. CASE c[1] # buf[v] \/ c[2] < i \/ c[2] > size[v]
    BY <1>2, <2>1, IdleFacts
  <2>2. CASE ~(c[1] # buf[v] \/ c[2] < i \/ c[2] > size[v])
    <3>1. c \in Elements
      BY <1>1, <2>0, <2>2 DEF Elements
    <3>2. CASE c[2] <= m
      <4>1. c[2] + n \in 1..size[v]
        BY <1>1, <2>0, <3>2
      <4>2. content[Cell(buf[v], c[2] + n)] \in live \cup {Null}
        BY <4>1, IdleFacts
      <4> QED
        BY <1>2, <2>2, <3>1, <3>2, <4>2
    <3>3. CASE ~(c[2] <= m)
      BY <1>2, <2>2, <3>1, <3>3
    <3> QED
      BY <3>2, <3>3
  <2> QED
    BY <2>1, <2>2
<1>4. content' \in [Cells -> Objects \cup {Null, Junk}]
  <2>1. live \subseteq Objects
    BY <1>1 DEF TypeOK
  <2>2. \A c \in Cells : content'[c] \in Objects \cup {Null, Junk}
    BY <1>3, <2>1
  <2> HIDE DEF m
  <2> QED
    BY <1>2, <2>2
<1> HIDE DEF m
<1> QED
  BY <1>1, <1>2, <1>3, <1>4, ShrinkKeeps

LEMMA MoveFromKeeps ==
    ASSUME VectorInv, pc = "idle", NEW v \in Vectors, NEW w \in Vectors, MoveFrom(v, w)
    PROVE  VectorInv'
<1> DEFINE D == Stretch(buf[v], 0, size[v])
<1>1. /\ v # w /\ size' = [size EXCEPT ![v] = size[w], ![w] = 0]
      /\ buf' = [buf EXCEPT ![v] = buf[w], ![w] = 0]
      /\ pc' = "drop" /\ op' = [Idle EXCEPT !.drop = cells(v)]
      /\ content' = content /\ ranges' = ranges /\ live' = live /\ args' = args
  BY DEF MoveFrom
<1>2. TypeOK
  BY IdleFacts
<1>3. Lists(cells(v), D)
  BY <1>2, CellsOfVector
<1>4. size \in [Vectors -> 0..MaxLen] /\ buf \in [Vectors -> 0..Len(Capacity)]
  BY <1>2 DEF TypeOK
<1>5. \A x \in Vectors :
        /\ size'[x] = IF x = v THEN size[w] ELSE IF x = w THEN 0 ELSE size[x]
        /\ buf'[x] = IF x = v THEN buf[w] ELSE IF x = w THEN 0 ELSE buf[x]
  BY <1>1, <1>4
<1>6. size' \in [Vectors -> 0..MaxLen] /\ buf' \in [Vectors -> 0..Len(Capacity)]
  <2>1. 0 \in 0..MaxLen /\ 0 \in 0..Len(Capacity)
    BY MaxLenBounds, BufferFacts
  <2> QED
    BY <1>1, <1>4, <2>1
<1>7. ASSUME NEW x \in Vectors PROVE size'[x] <= IF buf'[x] = 0 THEN 0 ELSE Capacity[buf'[x]]
  BY <1>2, <1>5, VectorFacts, BufferFacts
<1>8. ASSUME NEW x \in Vectors, NEW y \in Vectors, x # y, buf'[x] # 0 PROVE buf'[x] # buf'[y]
  BY <1>2, <1>5, <1>8 DEF TypeOK
<1>9. D \subseteq Elements
  BY <1>2, VectorFacts DEF Stretch, Mine
<1>10. ASSUME NEW c \in Cells
       PROVE  (\E x \in Vectors : c[1] = buf'[x] /\ c[2] <= size'[x])
              <=> c \in Elements /\ c \notin D
  <2>0. c[2] \in Nat \ {0} /\ c[1] \in Nat
    BY CellFacts
  <2>1. c \in D <=> Mine(v, c)
    BY <1>2, <2>0, VectorFacts DEF Stretch, Mine
  <2>2. ASSUME NEW x \in Vectors, c[1] = buf'[x], c[2] <= size'[x]
        PROVE  c \in Elements /\ c \notin D
    <3>1. x # w
      BY <1>1, <1>5, <2>0, <2>2
    <3>2. PICK y \in Vectors : y # v /\ Mine(y, c)
      BY <1>1, <1>5, <2>2, <3>1 DEF Mine
    <3> QED
      BY <1>2, <2>1, <3>2, VectorFacts
  <2>3. ASSUME c \in Elements, c \notin D
        PROVE  \E x \in Vectors : c[1] = buf'[x] /\ c[2] <= size'[x]
    <3>1. PICK y \in Vectors : Mine(y, c)
      BY <1>2, <2>3, VectorFacts
    <3>2. y # v
      BY <2>1, <2>3, <3>1
    <3> QED
      BY <1>5, <3>1, <3>2 DEF Mine
  <2> QED
    BY <2>2, <2>3
<1> HIDE DEF D
<1> QED
  BY <1>1, <1>3, <1>6, <1>7, <1>8, <1>9, <1>10, GivesUp, Untouched

\* The elements are the same cells and hold protected pointers.
LEMMA StaysIdle ==
    ASSUME VectorInv, pc = "idle", pc' = pc, op' = op, fresh' = fresh, args' = args,
           live' = live, ranges' = ranges, content' \in [Cells -> Objects \cup {Null, Junk}],
           \A c \in Cells : IF c \in Elements THEN content'[c] \in live \cup {Null}
                            ELSE content'[c] = Junk,
           TypeOK', Elements' = Elements
    PROVE  VectorInv'
<1>1. Extra' = {}
  BY DEF Extra
<1>2. CellsInv'
  BY <1>1, IdleFacts DEF CellsInv, Occupied
<1>3. ExtraInv'
  BY <1>1, IdleFacts DEF ExtraInv
<1> QED
  BY <1>2, <1>3, IdleFacts DEF VectorInv, OpInv, BuildInv

LEMMA swapKeeps ==
    ASSUME VectorInv, pc = "idle", NEW v \in Vectors, NEW w \in Vectors, swap(v, w)
    PROVE  VectorInv'
<1>1. /\ v # w /\ size' = [size EXCEPT ![v] = size[w], ![w] = size[v]]
      /\ buf' = [buf EXCEPT ![v] = buf[w], ![w] = buf[v]]
      /\ pc' = pc /\ op' = op /\ fresh' = fresh
      /\ content' = content /\ ranges' = ranges /\ live' = live /\ args' = args
  BY DEF swap
<1>2. TypeOK /\ size \in [Vectors -> 0..MaxLen] /\ buf \in [Vectors -> 0..Len(Capacity)]
  BY IdleFacts DEF TypeOK
<1>3. \A x \in Vectors :
        /\ size'[x] = IF x = v THEN size[w] ELSE IF x = w THEN size[v] ELSE size[x]
        /\ buf'[x] = IF x = v THEN buf[w] ELSE IF x = w THEN buf[v] ELSE buf[x]
  BY <1>1, <1>2
<1>4. TypeOK'
  <2>1. size' \in [Vectors -> 0..MaxLen] /\ buf' \in [Vectors -> 0..Len(Capacity)]
    BY <1>1, <1>2
  <2>2. ASSUME NEW x \in Vectors PROVE size'[x] <= IF buf'[x] = 0 THEN 0 ELSE Capacity[buf'[x]]
    BY <1>2, <1>3 DEF TypeOK, capacity
  <2>3. ASSUME NEW x \in Vectors, NEW y \in Vectors, x # y, buf'[x] # 0 PROVE buf'[x] # buf'[y]
    BY <1>2, <1>3, <2>3 DEF TypeOK
  <2> QED
    BY <1>1, <1>2, <2>1, <2>2, <2>3 DEF TypeOK, capacity
<1>5. Elements' = Elements
  <2>1. ASSUME NEW c \in Cells
        PROVE  (\E x \in Vectors : c[1] = buf'[x] /\ c[2] <= size'[x])
               <=> \E x \in Vectors : c[1] = buf[x] /\ c[2] <= size[x]
    BY <1>3
  <2> QED
    BY <2>1 DEF Elements
<1> QED
  BY <1>1, <1>4, <1>5, StaysIdle, Untouched

LEMMA AssignKeeps ==
    ASSUME VectorInv, pc = "idle", NEW v \in Vectors, NEW i \in 1..MaxLen,
           NEW p \in live \cup {Null}, Assign(v, i, p)
    PROVE  VectorInv'
<1>1. /\ i <= size[v] /\ content' = [content EXCEPT ![Cell(buf[v], i)] = p]
      /\ size' = size /\ buf' = buf
      /\ pc' = pc /\ op' = op /\ fresh' = fresh
      /\ ranges' = ranges /\ live' = live /\ args' = args
  BY DEF Assign
<1>2. TypeOK /\ live \subseteq Objects /\ content \in [Cells -> Objects \cup {Null, Junk}]
  BY IdleFacts DEF TypeOK
<1>3. Cell(buf[v], i) \in Elements /\ Cell(buf[v], i) \in Cells
  BY <1>1, <1>2, VectorFacts
<1>4. content' \in [Cells -> Objects \cup {Null, Junk}]
  BY <1>1, <1>2, <1>3
<1>5. ASSUME NEW c \in Cells
      PROVE  IF c \in Elements THEN content'[c] \in live \cup {Null} ELSE content'[c] = Junk
  BY <1>1, <1>2, <1>3, IdleFacts
<1>6. TypeOK'
  BY <1>1, <1>2, <1>4 DEF TypeOK, capacity
<1>7. Elements' = Elements
  BY <1>1 DEF Elements
<1> QED
  BY <1>1, <1>4, <1>5, <1>6, <1>7, StaysIdle

LEMMA MoveAssignKeeps ==
    ASSUME VectorInv, pc = "idle", NEW v \in Vectors, NEW w \in Vectors,
           NEW i \in 1..MaxLen, NEW j \in 1..MaxLen, MoveAssign(v, i, w, j)
    PROVE  VectorInv'
<1> DEFINE c1 == Cell(buf[v], i)
           c2 == Cell(buf[w], j)
<1>1. /\ i <= size[v] /\ j <= size[w]
      /\ content' = [content EXCEPT ![c1] = content[c2], ![c2] = Null]
      /\ size' = size /\ buf' = buf
      /\ pc' = pc /\ op' = op /\ fresh' = fresh
      /\ ranges' = ranges /\ live' = live /\ args' = args
  BY DEF MoveAssign
<1>2. TypeOK /\ live \subseteq Objects /\ content \in [Cells -> Objects \cup {Null, Junk}]
  BY IdleFacts DEF TypeOK
<1>3. c1 \in Elements /\ c1 \in Cells /\ c2 \in Elements /\ c2 \in Cells
  BY <1>1, <1>2, VectorFacts
<1>4. content[c2] \in live \cup {Null}
  BY <1>3, IdleFacts
<1> HIDE DEF c1, c2
<1>5. content' \in [Cells -> Objects \cup {Null, Junk}]
  BY <1>1, <1>2, <1>3, <1>4
<1>6. ASSUME NEW c \in Cells
      PROVE  IF c \in Elements THEN content'[c] \in live \cup {Null} ELSE content'[c] = Junk
  <2>1. content'[c] = IF c = c2 THEN Null ELSE IF c = c1 THEN content[c2] ELSE content[c]
    BY <1>1, <1>2, <1>3
  <2> QED
    BY <1>3, <1>4, <2>1, IdleFacts
<1>7. TypeOK'
  BY <1>1, <1>2, <1>5 DEF TypeOK, capacity
<1>8. Elements' = Elements
  BY <1>1 DEF Elements
<1> QED
  BY <1>1, <1>5, <1>6, <1>7, <1>8, StaysIdle

-------------------------------------------------------------------------------
(* Plans *)

\* The plan q builds the cells of T, each once, as elements of the vector s.
Builds(q, T, s) ==
    /\ q \in Seq(Plans)
    /\ \A k \in 1..Len(q) : q[k].cell \in T /\ q[k].value = s[q[k].cell[2]]
    /\ \A c \in T : \E k \in 1..Len(q) : q[k].cell = c
    /\ \A j, k \in 1..Len(q) : q[j].cell = q[k].cell => j = k

LEMMA JoinedPlans ==
    ASSUME NEW p, NEW q, NEW S, NEW T, NEW s, Builds(p, S, s), Builds(q, T, s), S \cap T = {}
    PROVE  Builds(p \o q, S \cup T, s)
<1>1. p \in Seq(Plans) /\ q \in Seq(Plans) /\ Len(p) \in Nat /\ Len(q) \in Nat
  BY LenProperties DEF Builds
<1>2. /\ p \o q \in Seq(Plans) /\ Len(p \o q) = Len(p) + Len(q)
      /\ \A k \in 1..(Len(p) + Len(q)) :
            (p \o q)[k] = IF k <= Len(p) THEN p[k] ELSE q[k - Len(p)]
  BY <1>1, ConcatProperties
<1>3. \A k \in 1..Len(p) : p[k].cell \in S /\ p[k].value = s[p[k].cell[2]]
  BY DEF Builds
<1>4. \A k \in 1..Len(q) : q[k].cell \in T /\ q[k].value = s[q[k].cell[2]]
  BY DEF Builds
<1>5. ASSUME NEW c \in S PROVE \E k \in 1..Len(p \o q) : (p \o q)[k].cell = c
  <2>1. PICK k \in 1..Len(p) : p[k].cell = c
    BY DEF Builds
  <2>2. k \in 1..Len(p \o q) /\ (p \o q)[k].cell = c
    BY <1>1, <1>2, <2>1
  <2> QED
    BY <2>2
<1>6. ASSUME NEW c \in T PROVE \E k \in 1..Len(p \o q) : (p \o q)[k].cell = c
  <2>1. PICK k \in 1..Len(q) : q[k].cell = c
    BY DEF Builds
  <2>2. k + Len(p) \in 1..Len(p \o q) /\ (p \o q)[k + Len(p)].cell = c
    BY <1>1, <1>2, <2>1
  <2> QED
    BY <2>2
<1>7. ASSUME NEW k \in 1..Len(p \o q)
      PROVE  /\ (p \o q)[k].cell \in S \cup T
             /\ (p \o q)[k].value = s[(p \o q)[k].cell[2]]
  <2>1. CASE k <= Len(p)
    BY <1>1, <1>2, <1>3, <2>1
  <2>2. CASE k > Len(p)
    <3>1. (p \o q)[k] = q[k - Len(p)] /\ k - Len(p) \in 1..Len(q)
      BY <1>1, <1>2, <2>2
    <3> QED
      BY <1>4, <3>1
  <2> QED
    BY <1>1, <1>2, <2>1, <2>2
<1>8. ASSUME NEW j \in 1..Len(p \o q), NEW k \in 1..Len(p \o q),
             (p \o q)[j].cell = (p \o q)[k].cell
      PROVE  j = k
  <2>1. \A x, y \in 1..Len(p) : p[x].cell = p[y].cell => x = y
    BY DEF Builds
  <2>2. \A x, y \in 1..Len(q) : q[x].cell = q[y].cell => x = y
    BY DEF Builds
  <2>3. CASE j <= Len(p) /\ k <= Len(p)
    BY <1>1, <1>2, <1>8, <2>1, <2>3
  <2>4. CASE j > Len(p) /\ k > Len(p)
    <3>1. j - Len(p) \in 1..Len(q) /\ k - Len(p) \in 1..Len(q)
      BY <1>1, <1>2, <2>4
    <3>2. q[j - Len(p)].cell = q[k - Len(p)].cell
      BY <1>1, <1>2, <1>8, <2>4
    <3> QED
      BY <1>1, <1>2, <2>2, <3>1, <3>2
  <2>5. CASE j <= Len(p) /\ k > Len(p)
    <3>1. (p \o q)[j] = p[j] /\ j \in 1..Len(p)
          /\ (p \o q)[k] = q[k - Len(p)] /\ k - Len(p) \in 1..Len(q)
      BY <1>1, <1>2, <2>5
    <3> QED
      BY <1>3, <1>4, <1>8, <3>1
  <2>6. CASE j > Len(p) /\ k <= Len(p)
    <3>1. (p \o q)[k] = p[k] /\ k \in 1..Len(p)
          /\ (p \o q)[j] = q[j - Len(p)] /\ j - Len(p) \in 1..Len(q)
      BY <1>1, <1>2, <2>6
    <3> QED
      BY <1>3, <1>4, <1>8, <3>1
  <2> QED
    BY <1>1, <1>2, <2>3, <2>4, <2>5, <2>6
<1> QED
  BY <1>2, <1>5, <1>6, <1>7, <1>8 DEF Builds

LEMMA StretchPlan ==
    ASSUME NEW q, NEW b \in Nat, NEW lo \in Nat, NEW hi \in Nat, NEW s,
           q \in Seq(Plans),
           Len(q) = IF lo < hi THEN hi - lo ELSE 0,
           \A k \in 1..Len(q) : q[k].cell = Cell(b, lo + k) /\ q[k].value = s[lo + k]
    PROVE  Builds(q, Stretch(b, lo, hi), s)
<1>1. Len(q) \in Nat /\ \A k \in 1..Len(q) : q[k].cell \in Cells
  <2>1. \A k \in 1..Len(q) : q[k] \in Plans
    BY ElementOfSeq
  <2> QED
    BY <2>1 DEF Plans
<1>2. ASSUME NEW k \in 1..Len(q)
      PROVE  q[k].cell \in Stretch(b, lo, hi) /\ q[k].value = s[q[k].cell[2]]
  <2>1. q[k].cell[1] = b /\ q[k].cell[2] = lo + k
    BY CellFacts
  <2> QED
    BY <1>1, <2>1 DEF Stretch
<1>3. ASSUME NEW c \in Stretch(b, lo, hi) PROVE \E k \in 1..Len(q) : q[k].cell = c
  <2>1. c = Cell(b, c[2]) /\ c[2] \in Nat /\ c[2] > lo /\ c[2] <= hi
    BY CellFacts DEF Stretch
  <2> DEFINE i == c[2]
  <2>2. i \in Nat /\ i > lo /\ i <= hi /\ c = Cell(b, i)
    BY <2>1
  <2> HIDE DEF i
  <2>3. i - lo \in 1..Len(q) /\ lo + (i - lo) = i
    BY <2>2
  <2>4. q[i - lo].cell = Cell(b, lo + (i - lo))
    BY <2>3
  <2> QED
    BY <2>2, <2>3, <2>4
<1>4. ASSUME NEW j \in 1..Len(q), NEW k \in 1..Len(q), q[j].cell = q[k].cell PROVE j = k
  <2>1. Cell(b, lo + j) = Cell(b, lo + k)
    BY <1>4
  <2>2. lo + j = lo + k
    BY <2>1 DEF Cell
  <2> QED
    BY <2>2
<1> QED
  BY <1>2, <1>3, <1>4 DEF Builds

\* New elements after the first n.
LEMMA RootsBuild ==
    ASSUME NEW b \in Buffers, NEW n \in Nat, NEW t \in Seq(Objects \cup {Null}),
           n + Len(t) <= Capacity[b], NEW s,
           \A k \in 1..Len(t) : s[n + k] = t[k]
    PROVE  Builds(Roots(b, n, t), Stretch(b, n, n + Len(t)), s)
<1> DEFINE q == Roots(b, n, t)
<1>1. Len(t) \in Nat /\ b \in Nat /\ Capacity[b] \in Nat /\ DOMAIN t = 1..Len(t)
      /\ n + Len(t) \in Nat
  BY BufferFacts, LenProperties
<1>2. ASSUME NEW k \in 1..Len(t) PROVE Root(Cell(b, n + k), t[k], Created) \in Plans
  <2>1. n + k \in 1..Capacity[b]
    BY <1>1
  <2>2. Cell(b, n + k) \in Cells /\ t[k] \in Objects \cup {Null} /\ Created \in Cells
    BY <2>1, CellFacts, ElementOfSeq
  <2> QED
    BY <2>2 DEF Root, Plans
<1>3. q = [k \in 1..Len(t) |-> Root(Cell(b, n + k), t[k], Created)]
  BY <1>1 DEF Roots
<1>4. q \in [1..Len(t) -> Plans]
  BY <1>2, <1>3
<1>5. \A k \in 1..Len(t) : q[k].cell = Cell(b, n + k) /\ q[k].value = t[k]
  BY <1>3 DEF Root
<1> HIDE DEF q
<1>6. q \in Seq(Plans) /\ Len(q) = Len(t)
  BY <1>1, <1>4, FunctionIsSeq
<1>7. Len(q) = IF n < n + Len(t) THEN (n + Len(t)) - n ELSE 0
  BY <1>1, <1>6
<1>8. \A k \in 1..Len(q) : q[k].cell = Cell(b, n + k) /\ q[k].value = s[n + k]
  BY <1>5, <1>6
<1>9. Builds(q, Stretch(b, n, n + Len(t)), s)
  BY <1>1, <1>6, <1>7, <1>8, StretchPlan
<1> QED
  BY <1>9 DEF q

\* Copies of the elements of w, in the buffer b.
LEMMA CopiesBuild ==
    ASSUME TypeOK, NEW w \in Vectors, NEW b \in Buffers, size[w] <= Capacity[b],
           \A i \in 1..size[w] : content[Cell(buf[w], i)] \in Objects \cup {Null}, NEW s,
           \A i \in 1..size[w] : s[i] = content[Cell(buf[w], i)]
    PROVE  /\ Builds(Copies(cells(w), b), Stretch(b, 0, size[w]), s)
           /\ \A k \in 0..size[w] :
                 Builds(SubSeq(Copies(cells(w), b), k + 1, size[w]), Stretch(b, k, size[w]), s)
<1> DEFINE q == Copies(cells(w), b)
<1>1. size[w] \in Nat /\ b \in Nat /\ Capacity[b] \in Nat
  BY VectorFacts, BufferFacts
<1>2. /\ cells(w) \in Seq(Cells) /\ Len(cells(w)) = size[w] /\ DOMAIN cells(w) = 1..size[w]
      /\ \A i \in 1..size[w] : cells(w)[i] = Cell(buf[w], i) /\ cells(w)[i] \in Cells
  BY CellsOfVector, LenProperties, VectorFacts
<1>3. q = [i \in 1..size[w] |-> Root(Cell(b, i), content[cells(w)[i]], cells(w)[i])]
  BY <1>2 DEF Copies
<1>4. ASSUME NEW i \in 1..size[w]
      PROVE  q[i] \in Plans /\ q[i].cell = Cell(b, i) /\ q[i].value = s[i]
  <2>1. Cell(b, i) \in Cells
    BY <1>1, CellFacts
  <2>2. q[i] = [cell |-> Cell(b, i), value |-> content[Cell(buf[w], i)], from |-> cells(w)[i]]
    BY <1>2, <1>3 DEF Root
  <2> HIDE DEF q
  <2> QED
    BY <1>2, <2>1, <2>2 DEF Plans
<1>5. q \in Seq(Plans) /\ Len(q) = size[w]
  <2>1. q \in [1..size[w] -> Plans]
    BY <1>3, <1>4
  <2> HIDE DEF q
  <2> QED
    BY <1>1, <2>1, FunctionIsSeq
<1> HIDE DEF q
<1>6. Builds(q, Stretch(b, 0, size[w]), s)
  <2>1. Len(q) = IF 0 < size[w] THEN size[w] - 0 ELSE 0
    BY <1>1, <1>5
  <2>2. \A i \in 1..Len(q) : q[i].cell = Cell(b, 0 + i) /\ q[i].value = s[0 + i]
    BY <1>1, <1>4, <1>5
  <2> QED
    BY <1>1, <1>5, <2>1, <2>2, StretchPlan
<1>7. ASSUME NEW k \in 0..size[w]
      PROVE  Builds(SubSeq(q, k + 1, size[w]), Stretch(b, k, size[w]), s)
  <2> DEFINE r == SubSeq(q, k + 1, size[w])
  <2>1. k \in Nat /\ \A i \in (k + 1)..size[w] : i \in 1..size[w] /\ q[i] \in Plans
    BY <1>1, <1>4
  <2>2. /\ r \in Seq(Plans) /\ Len(r) = IF k + 1 <= size[w] THEN size[w] - (k + 1) + 1 ELSE 0
        /\ \A i \in 1..(size[w] - (k + 1) + 1) : r[i] = q[(k + 1) + i - 1]
    BY <1>1, <2>1, SubSeqProperties
  <2> HIDE DEF r
  <2>3. Len(r) = IF k < size[w] THEN size[w] - k ELSE 0
    BY <1>1, <2>1, <2>2
  <2>4. ASSUME NEW i \in 1..Len(r) PROVE r[i].cell = Cell(b, k + i) /\ r[i].value = s[k + i]
    <3>1. i \in 1..(size[w] - (k + 1) + 1) /\ k + i \in 1..size[w] /\ (k + 1) + i - 1 = k + i
      BY <1>1, <2>1, <2>3
    <3> QED
      BY <1>4, <2>2, <3>1
  <2>5. Builds(r, Stretch(b, k, size[w]), s)
    BY <1>1, <2>1, <2>2, <2>3, <2>4, StretchPlan
  <2> QED
    BY <2>5 DEF r
<1> QED
  BY <1>6, <1>7 DEF q

LEMMA StretchParts ==
    ASSUME NEW b, NEW lo \in Nat, NEW m \in Nat, NEW n \in Nat, lo <= m, m <= n
    PROVE  /\ Stretch(b, lo, m) \cap Stretch(b, m, n) = {}
           /\ Stretch(b, lo, m) \cup Stretch(b, m, n) = Stretch(b, lo, n)
<1>1. \A c \in Cells : c[2] \in Nat
  BY CellFacts
<1> QED
  BY <1>1 DEF Stretch

-------------------------------------------------------------------------------
(* Operations that begin to build *)

\* A call begins to turn the vector v into s, with n elements in the buffer b.
\* Its first lo elements are in place, the plan builds the others, and the cells
\* of D will go, as will the local root, if there is one (L).
Starts(v, build, n, b, drop, local, lo, D, L, s) ==
    /\ Begin(v, build, n, b, drop, local)
    /\ n \in 0..MaxLen /\ b \in 0..Len(Capacity) /\ lo \in 0..n
    /\ IF b = 0 THEN n = 0 ELSE n <= Capacity[b]
    /\ \A w \in Vectors : w # v /\ b # 0 => buf[w] # b
    /\ Lists(local, L) /\ L \subseteq {Created} /\ Lists(drop, D)
    /\ Builds(build, Stretch(b, lo, n), s)
    /\ \A c \in Cells : Mine(v, c) <=> c \in D \/ (c[1] = b /\ c[2] <= lo)
    /\ \A c \in D : ~(c[1] = b /\ c[2] <= n)
    /\ s \in [1..n -> Objects \cup {Null}] /\ Allowed(Values', v, s)
    /\ \A i \in 1..n : \/ s[i] = Null \/ s[i] \in args'
                       \/ \E c \in Elements \cup L : content'[c] = s[i]
    /\ \A i \in 1..lo : content'[Cell(b, i)] = s[i]

LEMMA BeginKeeps ==
    ASSUME VectorInv, pc = "idle", NEW v \in Vectors, NEW build, NEW n, NEW b, NEW drop,
           NEW local, NEW lo, NEW D, NEW L, NEW s,
           Starts(v, build, n, b, drop, local, lo, D, L, s),
           live' \subseteq Objects, args' \subseteq live',
           content' \in [Cells -> Objects \cup {Null, Junk}], ranges' \in [Cells -> Nat],
           \A c \in Cells : IF c \in Elements \cup L
                            THEN ranges'[c] = 1 /\ content'[c] \in live' \cup {Null}
                            ELSE ranges'[c] = 0 /\ content'[c] = Junk
    PROVE  VectorInv' /\ Fulfils(op', Values', content', s)
<1> USE DEF Starts
<1>1. /\ pc' = "build" /\ fresh' = local /\ size' = size /\ buf' = buf
      /\ op' = [v |-> v, build |-> build, size |-> n, buf |-> b, drop |-> drop \o local]
  BY DEF Begin
<1>2. /\ op'.v = v /\ op'.build = build /\ op'.size = n /\ op'.buf = b
      /\ op'.drop = drop \o local /\ OpInv'
  BY <1>1 DEF OpInv
<1>3. TypeOK /\ n \in Nat /\ lo \in Nat /\ lo <= n
  BY IdleFacts, MaxLenBounds
<1>4. Listed(local) = L /\ Listed(drop) = D /\ D \subseteq Cells /\ L \subseteq Cells
  BY ListsListed
<1>5. Elements' = Elements /\ Extra' = L
  BY <1>1, <1>4 DEF Elements, Extra, Listed
<1>6. Created \notin Elements /\ D \subseteq Elements
  BY <1>3, <1>4, VectorFacts
<1>7. TypeOK'
  BY <1>1, <1>3 DEF TypeOK, capacity
<1>8. CellsInv'
  BY <1>5 DEF CellsInv, Occupied
<1>9. ExtraInv'
  <2>1. Lists(fresh', Extra')
    BY <1>1, <1>5
  <2> QED
    BY <1>1, <1>5, <1>6, <2>1 DEF ExtraInv
<1>10. Coming' = Stretch(b, lo, n)
  BY <1>2 DEF Coming, Builds
<1>11. \A c \in Cells : c[1] \in Nat /\ c[2] \in Nat \ {0}
  BY CellFacts
<1>12. Created[1] = 0 /\ Created[2] = 1
  BY CellFacts DEF Created
<1>13. ASSUME NEW c \in Cells, c[1] = b, c[2] <= n PROVE c # Created /\ b # 0
  BY <1>3, <1>11, <1>12, <1>13
<1>14. ASSUME NEW c \in Stretch(b, lo, n) PROVE c \in Cells /\ c \notin Elements /\ c \notin L
  <2>1. c \in Cells /\ c[1] = b /\ c[2] > lo /\ c[2] <= n
    BY DEF Stretch
  <2>2. ASSUME NEW w \in Vectors PROVE ~Mine(w, c)
    <3>1. CASE w = v
      BY <1>3, <1>11, <2>1, <3>1
    <3>2. CASE w # v
      BY <1>13, <2>1, <3>2 DEF Mine
    <3> QED
      BY <3>1, <3>2
  <2> QED
    BY <1>3, <1>13, <2>1, <2>2, VectorFacts
<1>15. PlanTypes'
  <2>1. \A j, k \in 1..Len(op'.build) : op'.build[j].cell = op'.build[k].cell => j = k
    BY <1>2 DEF Builds
  <2>2. op'.build \in Seq(Plans)
    BY <1>2 DEF Builds
  <2>3. Coming' \cap (Elements' \cup Listed(fresh')) = {}
    BY <1>1, <1>4, <1>5, <1>10, <1>14
  <2>4. ASSUME NEW k \in 1..Len(op'.build)
        PROVE  \/ op'.build[k].value = Null \/ op'.build[k].value \in args'
               \/ \E c \in Elements' \cup Listed(fresh') : content'[c] = op'.build[k].value
    <3> DEFINE c == build[k].cell
               i == c[2]
    <3>1. c \in Stretch(b, lo, n) /\ build[k].value = s[i]
      BY <1>2 DEF Builds
    <3>2. i \in 1..n
      <4> HIDE DEF c
      <4> QED
        BY <1>3, <1>11, <3>1 DEF Stretch
    <3> HIDE DEF i, c
    <3>3. \/ s[i] = Null \/ s[i] \in args'
          \/ \E d \in Elements \cup L : content'[d] = s[i]
      BY <3>2
    <3> QED
      BY <1>1, <1>2, <1>4, <1>5, <3>1, <3>3
  <2>5. /\ op'.v \in Vectors /\ op'.buf \in 0..Len(Capacity) /\ op'.size \in 0..MaxLen
        /\ IF op'.buf = 0 THEN op'.size = 0 ELSE op'.size <= Capacity[op'.buf]
        /\ \A w \in Vectors : w # op'.v /\ op'.buf # 0 => buf'[w] # op'.buf
    BY <1>1, <1>2
  <2> QED
    BY <2>1, <2>2, <2>3, <2>4, <2>5 DEF PlanTypes, Safe
<1>16. PlanAddsUp'
  <2>1. D \cap L = {}
    BY <1>6
  <2>2. Lists(op'.drop, D \cup L) /\ Listed(op'.drop) = D \cup L
    <3>1. Lists(drop \o local, D \cup L)
      BY <2>1, JoinedLists
    <3> QED
      BY <1>2, <3>1, ListsListed
  <2>3. ASSUME NEW c \in Cells
        PROVE  LET new == c[1] = b /\ c[2] <= n
                   others == \E w \in Vectors : w # v /\ Mine(w, c)
               IN  /\ ~(c \in D \cup L /\ (new \/ others))
                   /\ new \/ others \/ c \in D \cup L
                         <=> c \in Elements \/ c \in L \/ c \in Stretch(b, lo, n)
    <3> DEFINE new == c[1] = b /\ c[2] <= n
               others == \E w \in Vectors : w # v /\ Mine(w, c)
    <3>1. c \in Elements <=> others \/ Mine(v, c)
      BY <1>3, VectorFacts
    <3>2. ~(others /\ Mine(v, c))
      BY <1>3, VectorFacts
    <3>3. new <=> c \in Stretch(b, lo, n) \/ (c[1] = b /\ c[2] <= lo)
      BY <1>3, <1>11 DEF Stretch
    <3>4. c \in L => ~new /\ ~others
      BY <1>6, <1>13, <3>1
    <3>5. c \in D => ~new /\ ~others
      BY <3>2
    <3> HIDE DEF new, others
    <3>6. /\ ~(c \in D \cup L /\ (new \/ others))
          /\ new \/ others \/ c \in D \cup L
                <=> c \in Elements \/ c \in L \/ c \in Stretch(b, lo, n)
      BY <3>1, <3>2, <3>3, <3>4, <3>5
    <3> QED
      BY <3>6 DEF new, others
  <2>4. Lists(op'.drop, Listed(op'.drop))
    BY <2>2
  <2> QED
    BY <1>1, <1>2, <1>4, <1>5, <1>10, <2>2, <2>3, <2>4 DEF PlanAddsUp, Mine
<1>17. Fulfils(op', Values', content', s)
  <2>1. \A k \in 1..Len(build) : build[k].cell[1] = b /\ build[k].value = s[build[k].cell[2]]
    BY DEF Builds, Stretch
  <2>2. ASSUME NEW i \in 1..n
        PROVE  \/ \E k \in 1..Len(build) : build[k].cell = Cell(b, i)
               \/ content'[Cell(b, i)] = s[i]
    <3>1. CASE i <= lo
      BY <3>1
    <3>2. CASE i > lo
      <4>1. Cell(b, i) \in Stretch(b, lo, n)
        <5>1. b \in Buffers /\ i \in 1..Capacity[b]
          BY <1>3, BufferFacts
        <5>2. Cell(b, i) \in Cells /\ Cell(b, i)[1] = b /\ Cell(b, i)[2] = i
          BY <5>1, CellFacts
        <5> QED
          BY <3>2, <5>2 DEF Stretch
      <4> QED
        BY <4>1 DEF Builds
    <3> QED
      BY <1>3, <3>1, <3>2
  <2> QED
    BY <1>2, <2>1, <2>2 DEF Fulfils
<1>18. Promise'
  BY <1>17 DEF Promise
<1> QED
  BY <1>1, <1>2, <1>7, <1>8, <1>9, <1>15, <1>16, <1>17, <1>18 DEF VectorInv, BuildInv

\* A free buffer replaces the old one.
LEMMA NewBuffer ==
    ASSUME TypeOK, NEW v \in Vectors, NEW b \in FreeBuffers, NEW n \in Nat
    PROVE  /\ b \in Buffers /\ b \in 0..Len(Capacity) /\ b # 0
           /\ \A w \in Vectors : buf[w] # b
           /\ \A c \in Cells :
                 Mine(v, c) <=> c \in Stretch(buf[v], 0, size[v]) \/ (c[1] = b /\ c[2] <= 0)
           /\ \A c \in Stretch(buf[v], 0, size[v]) : ~(c[1] = b /\ c[2] <= n)
<1>1. b \in Buffers /\ \A w \in Vectors : buf[w] # b
  BY DEF FreeBuffers
<1>2. \A c \in Cells : c[1] \in Nat /\ c[2] \in Nat \ {0}
  BY CellFacts
<1>3. size[v] \in Nat
  BY VectorFacts
<1> QED
  BY <1>1, <1>2, <1>3, BufferFacts DEF Mine, Stretch

\* The buffer stays: the vector grows behind its elements, or is overwritten.
LEMMA SameBuffer ==
    ASSUME TypeOK, NEW v \in Vectors, NEW n \in Nat, NEW lo \in 0..size[v],
           lo = n \/ (lo = size[v] /\ lo <= n)
    PROVE  /\ buf[v] \in 0..Len(Capacity) /\ \A w \in Vectors : w # v /\ buf[v] # 0 => buf[w] # buf[v]
           /\ \A c \in Cells : Mine(v, c) <=> c \in Stretch(buf[v], lo, size[v])
                                              \/ (c[1] = buf[v] /\ c[2] <= lo)
           /\ \A c \in Stretch(buf[v], lo, size[v]) : ~(c[1] = buf[v] /\ c[2] <= n)
<1>1. \A c \in Cells : c[1] \in Nat /\ c[2] \in Nat \ {0}
  BY CellFacts
<1>2. size[v] \in Nat /\ lo \in Nat /\ lo <= size[v]
  BY VectorFacts
<1>3. buf[v] \in 0..Len(Capacity) /\ \A w \in Vectors : w # v /\ buf[v] # 0 => buf[w] # buf[v]
  BY DEF TypeOK
<1> QED
  BY <1>1, <1>2, <1>3 DEF Mine, Stretch

LEMMA ValuesFacts ==
    ASSUME VectorInv, pc = "idle", NEW v \in Vectors
    PROVE  /\ Values[v] \in Seq(Objects \cup {Null}) /\ Len(Values[v]) = size[v]
           /\ \A i \in 1..size[v] : Values[v][i] = content[Cell(buf[v], i)]
<1>1. size[v] \in Nat
  BY IdleFacts, VectorFacts
<1>2. Values[v] = [i \in 1..size[v] |-> content[Cell(buf[v], i)]]
  BY DEF Values
<1>3. Values[v] \in [1..size[v] -> Objects \cup {Null}]
  BY <1>2, IdleFacts
<1> QED
  BY <1>1, <1>2, <1>3, FunctionIsSeq

\* Pointers that the caller or the local root holds are appended.
Appends(v, t, local, L) ==
    /\ Grow(v, t, local) /\ t \in Seq(Objects \cup {Null}) /\ Len(t) > 0
    /\ Lists(local, L) /\ L \subseteq {Created}
    /\ \A c \in Cells \ L : content'[c] = content[c] /\ ranges'[c] = ranges[c]
    /\ \A c \in L : ranges'[c] = 1 /\ content'[c] \in live' \cup {Null}
    /\ \A k \in 1..Len(t) : t[k] = Null \/ t[k] \in args' \/ \E c \in L : content'[c] = t[k]
    /\ Allowed(Values, v, Values[v] \o t)

LEMMA GrowKeeps ==
    ASSUME VectorInv, pc = "idle", NEW v \in Vectors, NEW t, NEW local, NEW L,
           Appends(v, t, local, L),
           live \subseteq live', live' \subseteq Objects, args' \subseteq live',
           content' \in [Cells -> Objects \cup {Null, Junk}], ranges' \in [Cells -> Nat]
    PROVE  VectorInv'
<1> USE DEF Appends
<1> DEFINE s == Values[v] \o t
           m == size[v]
           n == m + Len(t)
<1>1. TypeOK /\ m \in Nat /\ Len(t) \in Nat \ {0} /\ n \in Nat /\ m <= n /\ n > 0
  BY IdleFacts, VectorFacts, LenProperties
<1>2. /\ Values[v] \in Seq(Objects \cup {Null}) /\ Len(Values[v]) = m
      /\ \A i \in 1..m : Values[v][i] = content[Cell(buf[v], i)]
  BY ValuesFacts
<1>3. /\ s \in Seq(Objects \cup {Null}) /\ Len(s) = n
      /\ \A i \in 1..n : s[i] = IF i <= m THEN Values[v][i] ELSE t[i - m]
  <2> DEFINE u == Values[v]
  <2>1. u \in Seq(Objects \cup {Null}) /\ Len(u) = m
    BY <1>2
  <2> DEFINE T == Objects \cup {Null}
  <2> HIDE DEF u, m
  <2>2. /\ u \o t \in Seq(T) /\ Len(u \o t) = Len(u) + Len(t)
        /\ \A i \in 1..(Len(u) + Len(t)) :
              (u \o t)[i] = IF i <= Len(u) THEN u[i] ELSE t[i - Len(u)]
    <3>1. u \in Seq(T) /\ t \in Seq(T)
      BY <2>1
    <3> HIDE DEF T
    <3> QED
      BY <3>1, ConcatProperties
  <2> QED
    BY <2>1, <2>2 DEF u
<1>4. Created \notin Elements
  BY <1>1, VectorFacts
<1>5. size' = size /\ buf' = buf
  BY DEF Grow, Begin
<1>6. Values' = Values
  <2>1. ASSUME NEW w \in Vectors, NEW i \in 1..size[w]
        PROVE  content'[Cell(buf[w], i)] = content[Cell(buf[w], i)]
    <3>1. Cell(buf[w], i) \in Cells /\ Cell(buf[w], i) \in Elements
      BY <1>1, VectorFacts
    <3> QED
      BY <1>4, <3>1
  <2> QED
    BY <1>5, <2>1 DEF Values
<1>7. Allowed(Values', v, s)
  BY <1>6
<1> HIDE DEF s, n
<1>8. s \in [1..n -> Objects \cup {Null}]
  BY <1>1, <1>3, LenProperties, ElementOfSeq
<1>9. (\A i \in 1..m : s[i] = content[Cell(buf[v], i)]) /\ \A k \in 1..Len(t) : s[m + k] = t[k]
  <2>1. ASSUME NEW i \in 1..m PROVE s[i] = content[Cell(buf[v], i)]
    <3>1. i \in 1..n /\ i <= m
      BY <1>1
    <3>2. s[i] = Values[v][i]
      BY <1>3, <3>1
    <3> HIDE DEF m
    <3> QED
      BY <1>2, <3>2
  <2>2. ASSUME NEW k \in 1..Len(t) PROVE s[m + k] = t[k]
    <3>1. m + k \in 1..n /\ ~(m + k <= m) /\ (m + k) - m = k
      BY <1>1 DEF n
    <3> QED
      BY <1>3, <3>1
  <2> QED
    BY <2>1, <2>2
<1>10. ASSUME NEW i \in 1..m PROVE content'[Cell(buf[v], i)] = s[i] /\ Cell(buf[v], i) \in Elements
  <2>1. Cell(buf[v], i) \in Cells /\ Cell(buf[v], i) \in Elements
    BY <1>1, VectorFacts
  <2> QED
    BY <1>4, <1>9, <2>1
<1>11. ASSUME NEW i \in 1..n
       PROVE  \/ s[i] = Null \/ s[i] \in args' \/ \E c \in Elements \cup L : content'[c] = s[i]
  <2>1. CASE i <= m
    BY <1>1, <1>10, <2>1
  <2>2. CASE i > m
    <3>1. i - m \in 1..Len(t) /\ s[i] = t[i - m]
      BY <1>1, <1>3, <2>2 DEF n
    <3> QED
      BY <3>1
  <2> QED
    BY <1>1, <2>1, <2>2
<1>12. \A c \in Cells : IF c \in Elements \cup L
                        THEN ranges'[c] = 1 /\ content'[c] \in live' \cup {Null}
                        ELSE ranges'[c] = 0 /\ content'[c] = Junk
  BY <1>4, IdleFacts
<1>13. \A i \in 1..m : content[Cell(buf[v], i)] \in Objects \cup {Null}
  BY IdleFacts
<1>14. CASE n <= capacity(v)
  <2>1. Begin(v, Roots(buf[v], m, t), n, buf[v], <<>>, local)
    BY <1>14 DEF Grow, n
  <2>2. buf[v] # 0 /\ buf[v] \in Buffers /\ n <= Capacity[buf[v]] /\ n \in 0..MaxLen
    BY <1>1, <1>14, VectorFacts, MaxLenBounds, BufferFacts DEF capacity
  <2>3. Builds(Roots(buf[v], m, t), Stretch(buf[v], m, n), s)
    BY <1>1, <1>9, <2>2, RootsBuild DEF n
  <2>4. Stretch(buf[v], m, m) = {}
    BY <1>1, CellFacts DEF Stretch
  <2>5. Lists(<<>>, Stretch(buf[v], m, m))
    BY <2>4, EmptyList
  <2>6. m \in 0..size[v] /\ m \in 0..n
    BY <1>1
  <2>7. /\ buf[v] \in 0..Len(Capacity)
        /\ \A w \in Vectors : w # v /\ buf[v] # 0 => buf[w] # buf[v]
        /\ \A c \in Cells : Mine(v, c) <=> c \in Stretch(buf[v], m, m)
                                           \/ (c[1] = buf[v] /\ c[2] <= m)
        /\ \A c \in Stretch(buf[v], m, m) : ~(c[1] = buf[v] /\ c[2] <= n)
    BY <1>1, <2>6, SameBuffer
  <2>8. IF buf[v] = 0 THEN n = 0 ELSE n <= Capacity[buf[v]]
    BY <2>2
  <2>9. \A i \in 1..m : content'[Cell(buf[v], i)] = s[i]
    BY <1>10
  <2>10. \A i \in 1..n : \/ s[i] = Null \/ s[i] \in args'
                          \/ \E c \in Elements \cup L : content'[c] = s[i]
    BY <1>11
  <2> HIDE DEF m
  <2>11. Starts(v, Roots(buf[v], m, t), n, buf[v], <<>>, local, m, Stretch(buf[v], m, m), L, s)
    BY <1>7, <1>8, <2>1, <2>2, <2>3, <2>5, <2>6, <2>7, <2>8, <2>9, <2>10 DEF Starts
  <2> QED
    BY <1>12, <2>11, BeginKeeps
<1>15. CASE ~(n <= capacity(v))
  <2> DEFINE D == Stretch(buf[v], 0, m)
  <2>1. PICK b \in FreeBuffers :
            /\ n <= Capacity[b]
            /\ \/ Begin(v, Roots(b, m, t) \o Copies(cells(v), b), n, b, cells(v), local)
               \/ Begin(v, Copies(cells(v), b) \o Roots(b, m, t), n, b, cells(v), local)
    BY <1>15 DEF Grow, n
  <2>2. /\ b \in Buffers /\ b \in 0..Len(Capacity) /\ b # 0
        /\ \A w \in Vectors : buf[w] # b
        /\ \A c \in Cells : Mine(v, c) <=> c \in D \/ (c[1] = b /\ c[2] <= 0)
        /\ \A c \in D : ~(c[1] = b /\ c[2] <= n)
    BY <1>1, NewBuffer
  <2>3. n \in 0..MaxLen /\ Capacity[b] \in Nat /\ 0 \in 0..n /\ m <= Capacity[b]
    BY <1>1, <2>1, <2>2, MaxLenBounds, BufferFacts
  <2>4. Builds(Roots(b, m, t), Stretch(b, m, n), s)
    BY <1>1, <1>9, <2>1, <2>2, RootsBuild DEF n
  <2>5. Builds(Copies(cells(v), b), Stretch(b, 0, m), s)
    BY <1>1, <1>9, <1>13, <2>2, <2>3, CopiesBuild
  <2>6. Stretch(b, 0, m) \cap Stretch(b, m, n) = {}
        /\ Stretch(b, 0, m) \cup Stretch(b, m, n) = Stretch(b, 0, n)
    <3>1. 0 \in Nat /\ 0 <= m
      BY <1>1
    <3> QED
      BY <1>1, <3>1, StretchParts
  <2>7. Lists(cells(v), D)
    BY <1>1, CellsOfVector
  <2>8. PICK q : Begin(v, q, n, b, cells(v), local) /\ Builds(q, Stretch(b, 0, n), s)
    <3>1. Builds(Copies(cells(v), b) \o Roots(b, m, t), Stretch(b, 0, n), s)
      BY <2>4, <2>5, <2>6, JoinedPlans
    <3>2. Builds(Roots(b, m, t) \o Copies(cells(v), b), Stretch(b, 0, n), s)
      <4>1. Stretch(b, m, n) \cap Stretch(b, 0, m) = {}
            /\ Stretch(b, m, n) \cup Stretch(b, 0, m) = Stretch(b, 0, n)
        BY <2>6
      <4> QED
        BY <2>4, <2>5, <4>1, JoinedPlans
    <3> QED
      BY <2>1, <3>1, <3>2
  <2>9. \A i \in 1..0 : content'[Cell(b, i)] = s[i]
    OBVIOUS
  <2>10. \A i \in 1..n : \/ s[i] = Null \/ s[i] \in args'
                          \/ \E c \in Elements \cup L : content'[c] = s[i]
    BY <1>11
  <2>11. /\ IF b = 0 THEN n = 0 ELSE n <= Capacity[b]
         /\ \A w \in Vectors : w # v /\ b # 0 => buf[w] # b
    BY <2>1, <2>2
  <2> HIDE DEF m, D
  <2>12. Starts(v, q, n, b, cells(v), local, 0, D, L, s)
    BY <1>7, <1>8, <2>2, <2>3, <2>7, <2>8, <2>9, <2>10, <2>11 DEF Starts
  <2> QED
    BY <1>12, <2>12, BeginKeeps
<1> QED
  BY <1>14, <1>15

\* The same without a local root.
LEMMA GrowAloneKeeps ==
    ASSUME VectorInv, pc = "idle", NEW v \in Vectors, NEW t \in Seq(Objects \cup {Null}),
           Grow(v, t, <<>>), Len(t) > 0, Allowed(Values, v, Values[v] \o t),
           content' = content, ranges' = ranges, live' = live, args' \subseteq live,
           \A k \in 1..Len(t) : t[k] = Null \/ t[k] \in args'
    PROVE  VectorInv'
<1>1. Lists(<<>>, {})
  BY EmptyList
<1>2. Appends(v, t, <<>>, {})
  BY <1>1 DEF Appends
<1>3. /\ content' \in [Cells -> Objects \cup {Null, Junk}] /\ ranges' \in [Cells -> Nat]
      /\ live \subseteq live' /\ live' \subseteq Objects /\ args' \subseteq live'
  BY IdleFacts DEF TypeOK
<1> QED
  BY <1>2, <1>3, GrowKeeps

LEMMA push_backKeeps ==
    ASSUME VectorInv, pc = "idle", NEW v \in Vectors, NEW p \in live \cup {Null}, push_back(v, p)
    PROVE  VectorInv'
<1>1. /\ Grow(v, <<p>>, <<>>) /\ args' = {p} \ {Null}
      /\ content' = content /\ ranges' = ranges /\ live' = live
  BY DEF push_back
<1>2. p \in Objects \cup {Null} /\ live \subseteq Objects /\ args' \subseteq live
  BY <1>1, IdleFacts DEF TypeOK
<1>3. <<p>> \in Seq(Objects \cup {Null}) /\ Len(<<p>>) = 1 /\ <<p>>[1] = p
  BY <1>2
<1>4. Allowed(Values, v, Values[v] \o <<p>>)
  <2>1. Append(Values[v], p) = Values[v] \o <<p>>
    <3> DEFINE u == Values[v]
               T == Objects \cup {Null}
    <3>1. u \in Seq(T) /\ p \in T
      BY <1>2, ValuesFacts
    <3> HIDE DEF u, T
    <3>2. Append(u, p) = u \o <<p>>
      BY <3>1, AppendIsConcat
    <3> QED
      BY <3>2 DEF u
  <2> QED
    BY <1>2, <2>1 DEF Allowed
<1> DEFINE t == <<p>>
<1>5. t \in Seq(Objects \cup {Null}) /\ Len(t) > 0 /\ Grow(v, t, <<>>)
      /\ Allowed(Values, v, Values[v] \o t)
      /\ \A k \in 1..Len(t) : t[k] = Null \/ t[k] \in args'
  BY <1>1, <1>3, <1>4
<1> HIDE DEF t
<1> QED
  BY <1>1, <1>2, <1>5, GrowAloneKeeps

\* The new object is held by the local root until the vector holds it.
LEMMA emplace_newKeeps ==
    ASSUME VectorInv, pc = "idle", NEW v \in Vectors, NEW p \in Objects, emplace_new(v, p)
    PROVE  VectorInv'
<1>1. /\ live' = live \cup {p} /\ Grow(v, <<p>>, <<Created>>) /\ args' = args
      /\ content' = [content EXCEPT ![Created] = p]
      /\ ranges' = [ranges EXCEPT ![Created] = @ + 1]
  BY DEF emplace_new, ConstructRoot, Root
<1>2. /\ TypeOK /\ live \subseteq Objects /\ args = {}
      /\ content \in [Cells -> Objects \cup {Null, Junk}] /\ ranges \in [Cells -> Nat]
      /\ Created \in Cells /\ ranges[Created] = 0
  BY IdleFacts, VectorFacts, CellFacts DEF TypeOK
<1>3. Allowed(Values, v, Values[v] \o <<p>>)
  <2>1. Append(Values[v], p) = Values[v] \o <<p>>
    <3> DEFINE u == Values[v]
               T == Objects \cup {Null}
    <3>1. u \in Seq(T) /\ p \in T
      BY ValuesFacts
    <3> HIDE DEF u, T
    <3>2. Append(u, p) = u \o <<p>>
      BY <3>1, AppendIsConcat
    <3> QED
      BY <3>2 DEF u
  <2> QED
    BY <2>1 DEF Allowed
<1>4. /\ content' \in [Cells -> Objects \cup {Null, Junk}] /\ ranges' \in [Cells -> Nat]
      /\ \A c \in Cells \ {Created} : content'[c] = content[c] /\ ranges'[c] = ranges[c]
      /\ \A c \in {Created} : ranges'[c] = 1 /\ content'[c] \in live' \cup {Null}
      /\ args' \subseteq live' /\ live' \subseteq Objects /\ live \subseteq live'
      /\ content'[Created] = p
  BY <1>1, <1>2
<1>5. Lists(<<Created>>, {Created})
  BY <1>2, OneCell
<1> DEFINE t == <<p>>
<1>6. t \in Seq(Objects \cup {Null}) /\ Len(t) > 0 /\ Grow(v, t, <<Created>>)
      /\ Allowed(Values, v, Values[v] \o t)
      /\ \A k \in 1..Len(t) :
            \/ t[k] = Null \/ t[k] \in args' \/ \E c \in {Created} : content'[c] = t[k]
  BY <1>1, <1>3, <1>4
<1> DEFINE L == {Created}
           local == <<Created>>
<1>7. /\ L \subseteq {Created} /\ Lists(local, L) /\ Grow(v, t, local)
      /\ \A c \in Cells \ L : content'[c] = content[c] /\ ranges'[c] = ranges[c]
      /\ \A c \in L : ranges'[c] = 1 /\ content'[c] \in live' \cup {Null}
      /\ \A k \in 1..Len(t) : \/ t[k] = Null \/ t[k] \in args' \/ \E c \in L : content'[c] = t[k]
  BY <1>4, <1>5, <1>6
<1> HIDE DEF t, L, local
<1>8. Appends(v, t, local, L)
  BY <1>6, <1>7 DEF Appends
<1> QED
  BY <1>4, <1>8, GrowKeeps

LEMMA resizeKeeps ==
    ASSUME VectorInv, pc = "idle", NEW v \in Vectors, NEW n \in 0..MaxLen, resize(v, n)
    PROVE  VectorInv'
<1>1. content' = content /\ ranges' = ranges /\ live' = live /\ args' = args
  BY DEF resize
<1>2. TypeOK /\ size[v] \in Nat /\ n \in Nat /\ n # size[v] /\ args = {} /\ n <= MaxLen
      /\ MaxLen \in Nat /\ live \subseteq Objects
  BY IdleFacts, VectorFacts, MaxLenBounds DEF resize, TypeOK
<1>3. CASE n < size[v]
  <2>1. Shrink(v, n, buf[v]) /\ n \in 0..size[v]
    BY <1>2, <1>3 DEF resize
  <2> QED
    BY <1>1, <2>1, ShrinkKeeps, Untouched
<1>4. CASE n > size[v]
  <2> DEFINE m == n - size[v]
             t == [i \in 1..m |-> Null]
  <2>1. Grow(v, t, <<>>) /\ m \in Nat \ {0}
    BY <1>2, <1>4 DEF resize
  <2>2. t \in [1..m -> Objects \cup {Null}] /\ \A k \in 1..m : t[k] = Null
    OBVIOUS
  <2>3. m \in 0..(MaxLen - Len(Values[v]))
    BY <1>2, <2>1, ValuesFacts
  <2>4. Allowed(Values, v, Values[v] \o t)
    BY <2>3 DEF Allowed
  <2> HIDE DEF t, m
  <2>5. t \in Seq(Objects \cup {Null}) /\ Len(t) = m
    BY <2>1, <2>2, FunctionIsSeq
  <2>6. Len(t) > 0 /\ \A k \in 1..Len(t) : t[k] = Null
    BY <2>1, <2>2, <2>5
  <2> QED
    BY <1>1, <1>2, <2>1, <2>4, <2>5, <2>6, GrowAloneKeeps
<1> QED
  BY <1>2, <1>3, <1>4

LEMMA FillKeeps ==
    ASSUME VectorInv, pc = "idle", NEW v \in Vectors, NEW n \in 1..MaxLen,
           NEW t \in [1..n -> live \cup {Null}], Fill(v, t)
    PROVE  VectorInv'
<1>1. /\ buf[v] = 0 /\ Grow(v, t, <<>>) /\ args' = Range(t) \ {Null}
      /\ content' = content /\ ranges' = ranges /\ live' = live
  BY DEF Fill
<1>2. TypeOK /\ n \in Nat \ {0} /\ live \subseteq Objects /\ size[v] = 0
  BY <1>1, IdleFacts, VectorFacts, MaxLenBounds DEF TypeOK
<1>3. t \in [1..n -> Objects \cup {Null}]
  BY <1>2
<1>4. t \in Seq(Objects \cup {Null}) /\ Len(t) = n /\ Len(t) > 0
  BY <1>2, <1>3, FunctionIsSeq
<1>5. Values[v] = <<>>
  BY <1>2, ValuesFacts, EmptySeq
<1>6. Values[v] \o t = t
  BY <1>4, <1>5, ConcatEmptySeq
<1>7. Allowed(Values, v, Values[v] \o t)
  BY <1>3, <1>5, <1>6 DEF Allowed
<1>8. args' \subseteq live /\ \A k \in 1..n : t[k] = Null \/ t[k] \in args'
  BY <1>1 DEF Range
<1> QED
  BY <1>1, <1>4, <1>7, <1>8, GrowAloneKeeps

\* The elements of w, copied to a free buffer, become those of v.
LEMMA CopyToNewBuffer ==
    ASSUME VectorInv, pc = "idle", NEW v \in Vectors, NEW w \in Vectors,
           NEW b \in FreeBuffers, size[w] <= Capacity[b],
           Begin(v, Copies(cells(w), b), size[w], b, cells(v), <<>>),
           content' = content, ranges' = ranges, live' = live, args' = args
    PROVE  VectorInv'
<1> DEFINE n == size[w]
           s == Values[w]
           D == Stretch(buf[v], 0, size[v])
<1>1. TypeOK /\ n \in Nat /\ n <= MaxLen /\ live \subseteq Objects /\ args = {}
  BY IdleFacts, VectorFacts DEF TypeOK
<1>2. /\ b \in Buffers /\ b \in 0..Len(Capacity) /\ b # 0
      /\ \A x \in Vectors : buf[x] # b
      /\ \A c \in Cells : Mine(v, c) <=> c \in D \/ (c[1] = b /\ c[2] <= 0)
      /\ \A c \in D : ~(c[1] = b /\ c[2] <= n)
  BY <1>1, NewBuffer
<1>3. \A i \in 1..n : /\ s[i] = content[Cell(buf[w], i)]
                      /\ content[Cell(buf[w], i)] \in Objects \cup {Null}
                      /\ Cell(buf[w], i) \in Elements
  BY ValuesFacts, IdleFacts
<1>4. s \in [1..n -> Objects \cup {Null}]
  <2>1. s \in Seq(Objects \cup {Null}) /\ Len(s) = n
    BY ValuesFacts
  <2> HIDE DEF s, n
  <2> QED
    BY <2>1, LenProperties, ElementOfSeq
<1>5. Builds(Copies(cells(w), b), Stretch(b, 0, n), s)
  BY <1>1, <1>2, <1>3, CopiesBuild
<1>6. Lists(cells(v), D) /\ Lists(<<>>, {})
  BY <1>1, CellsOfVector, EmptyList
<1>7. Allowed(Values', v, s)
  <2>1. Values' = Values
    BY DEF Begin, Values
  <2> QED
    BY <2>1 DEF Allowed
<1>8. /\ n \in 0..MaxLen /\ 0 \in 0..n /\ (IF b = 0 THEN n = 0 ELSE n <= Capacity[b])
      /\ \A x \in Vectors : x # v /\ b # 0 => buf[x] # b
      /\ \A i \in 1..0 : content'[Cell(b, i)] = s[i]
  BY <1>1, <1>2, MaxLenBounds
<1>9. \A i \in 1..n : \/ s[i] = Null \/ s[i] \in args'
                      \/ \E c \in Elements \cup {} : content'[c] = s[i]
  BY <1>3
<1>10. Begin(v, Copies(cells(w), b), n, b, cells(v), <<>>)
  OBVIOUS
<1> HIDE DEF n, s, D
<1>11. Starts(v, Copies(cells(w), b), n, b, cells(v), <<>>, 0, D, {}, s)
  BY <1>2, <1>4, <1>5, <1>6, <1>7, <1>8, <1>9, <1>10 DEF Starts
<1>12. /\ live' \subseteq Objects /\ args' \subseteq live'
       /\ content' \in [Cells -> Objects \cup {Null, Junk}] /\ ranges' \in [Cells -> Nat]
       /\ \A c \in Cells : IF c \in Elements \cup {}
                           THEN ranges'[c] = 1 /\ content'[c] \in live' \cup {Null}
                           ELSE ranges'[c] = 0 /\ content'[c] = Junk
  BY <1>1, IdleFacts
<1> QED
  BY <1>11, <1>12, BeginKeeps

LEMMA ReallocateKeeps ==
    ASSUME VectorInv, pc = "idle", NEW v \in Vectors, NEW b \in Buffers, Reallocate(v, b)
    PROVE  VectorInv'
<1>1. /\ b \in FreeBuffers /\ Capacity[b] >= size[v]
      /\ Begin(v, Copies(cells(v), b), size[v], b, cells(v), <<>>)
      /\ content' = content /\ ranges' = ranges /\ live' = live /\ args' = args
  BY DEF Reallocate
<1>2. size[v] <= Capacity[b]
  BY <1>1, IdleFacts, VectorFacts, BufferFacts
<1> QED
  BY <1>1, <1>2, CopyToNewBuffer

LEMMA MinOfTwo ==
    ASSUME NEW x \in Nat, NEW y \in Nat
    PROVE  Min({x, y}) = IF x <= y THEN x ELSE y
BY DEF Min

LEMMA OverwrittenBuffer ==
    ASSUME TypeOK, NEW v \in Vectors, NEW w \in Vectors, NEW k, k = Min({size[v], size[w]})
    PROVE  /\ buf[v] \in 0..Len(Capacity)
           /\ \A x \in Vectors : x # v /\ buf[v] # 0 => buf[x] # buf[v]
           /\ \A c \in Cells : Mine(v, c) <=> c \in Stretch(buf[v], k, size[v])
                                              \/ (c[1] = buf[v] /\ c[2] <= k)
           /\ \A c \in Stretch(buf[v], k, size[v]) : ~(c[1] = buf[v] /\ c[2] <= size[w])
<1>1. \A c \in Cells : c[1] \in Nat /\ c[2] \in Nat \ {0}
  BY CellFacts
<1>2. size[v] \in Nat /\ size[w] \in Nat
  BY VectorFacts
<1>3. k = IF size[v] <= size[w] THEN size[v] ELSE size[w]
  BY <1>2, MinOfTwo
<1>4. buf[v] \in 0..Len(Capacity) /\ \A x \in Vectors : x # v /\ buf[v] # 0 => buf[x] # buf[v]
  BY DEF TypeOK
<1>5. k \in Nat /\ k <= size[v] /\ (k = size[w] \/ k = size[v])
  BY <1>2, <1>3
<1>6. ASSUME NEW c \in Cells
      PROVE  Mine(v, c) <=> c \in Stretch(buf[v], k, size[v]) \/ (c[1] = buf[v] /\ c[2] <= k)
  BY <1>1, <1>2, <1>5 DEF Mine, Stretch
<1>7. ASSUME NEW c \in Stretch(buf[v], k, size[v]), c[2] <= size[w] PROVE FALSE
  BY <1>1, <1>2, <1>3, <1>7 DEF Stretch
<1> QED
  BY <1>4, <1>6, <1>7

\* The first elements are overwritten in place; the source is another vector.
LEMMA CopyInPlace ==
    ASSUME VectorInv, pc = "idle", NEW v \in Vectors, NEW w \in Vectors, v # w,
           size[w] <= capacity(v), NEW k, k = Min({size[v], size[w]}),
           content' = [c \in Cells |-> content'[c]],
           \A c \in Cells : content'[c] = IF c[1] = buf[v] /\ c[2] <= k
                                          THEN content[cells(w)[c[2]]] ELSE content[c],
           Begin(v, SubSeq(Copies(cells(w), buf[v]), k + 1, size[w]), size[w], buf[v],
                 SubSeq(cells(v), k + 1, size[v]), <<>>),
           ranges' = ranges, live' = live, args' = args
    PROVE  VectorInv' /\ Fulfils(op', Values', content', Values[w])
<1> DEFINE n == size[w]
           b == buf[v]
           s == Values[w]
           q == SubSeq(Copies(cells(w), b), k + 1, n)
           drop == SubSeq(cells(v), k + 1, size[v])
           D == Stretch(b, k, size[v])
<1>1. TypeOK /\ n \in Nat /\ n <= MaxLen /\ size[v] \in Nat /\ live \subseteq Objects /\ args = {}
  BY IdleFacts, VectorFacts DEF TypeOK
<1>2. k \in 0..size[v] /\ k \in 0..n /\ (k = n \/ (k = size[v] /\ k <= n)) /\ k \in Nat
  BY <1>1, MinOfTwo
<1>3. /\ b \in 0..Len(Capacity) /\ \A x \in Vectors : x # v /\ b # 0 => buf[x] # b
      /\ \A c \in Cells : Mine(v, c) <=> c \in D \/ (c[1] = b /\ c[2] <= k)
      /\ \A c \in D : ~(c[1] = b /\ c[2] <= n)
  BY <1>1, OverwrittenBuffer
<1>4. \A i \in 1..n : /\ s[i] = content[Cell(buf[w], i)] /\ cells(w)[i] = Cell(buf[w], i)
                      /\ content[Cell(buf[w], i)] \in live \cup {Null}
                      /\ content[Cell(buf[w], i)] \in Objects \cup {Null}
                      /\ Cell(buf[w], i) \in Elements
  BY <1>1, ValuesFacts, IdleFacts, CellsOfVector
<1>5. s \in [1..n -> Objects \cup {Null}]
  <2>1. s \in Seq(Objects \cup {Null}) /\ Len(s) = n
    BY ValuesFacts
  <2> HIDE DEF s, n
  <2> QED
    BY <2>1, LenProperties, ElementOfSeq
<1>6. IF b = 0 THEN n = 0 ELSE n <= Capacity[b]
  BY <1>1 DEF capacity
<1>7. Builds(q, Stretch(b, k, n), s)
  <2>1. CASE b # 0
    <3>1. b \in Buffers /\ n <= Capacity[b]
      BY <1>3, <1>6, <2>1, BufferFacts
    <3>2. /\ \A i \in 1..size[w] : content[Cell(buf[w], i)] \in Objects \cup {Null}
          /\ \A i \in 1..size[w] : s[i] = content[Cell(buf[w], i)]
      BY <1>4
    <3> HIDE DEF s, b
    <3>3. \A j \in 0..size[w] :
             Builds(SubSeq(Copies(cells(w), b), j + 1, size[w]), Stretch(b, j, size[w]), s)
      BY <1>1, <3>1, <3>2, CopiesBuild
    <3> QED
      BY <1>2, <3>3, Zenon
  <2>2. CASE b = 0
    <3>1. n = 0 /\ k = 0
      BY <1>2, <1>6, <2>2
    <3> DEFINE r == SubSeq(Copies(cells(w), b), 1, 0)
    <3>2. q = r
      BY <3>1
    <3>3. r \in Seq(Plans) /\ Len(r) = 0
      <4> DEFINE a == Copies(cells(w), b)
      <4> HIDE DEF a
      <4>1. SubSeq(a, 1, 0) \in Seq(Plans) /\ Len(SubSeq(a, 1, 0)) = IF 1 <= 0 THEN 0 - 1 + 1 ELSE 0
        BY SubSeqProperties
      <4> QED
        BY <4>1 DEF a
    <3> HIDE DEF r, q
    <3>4. Stretch(b, k, n) = {}
      BY <3>1, CellFacts DEF Stretch
    <3> HIDE DEF s
    <3>5. Builds(r, {}, s)
      BY <3>3 DEF Builds
    <3> QED
      BY <3>2, <3>4, <3>5
  <2> QED
    BY <2>1, <2>2
<1>8. Lists(drop, D) /\ Lists(<<>>, {})
  BY <1>1, <1>2, EndOfVector, EmptyList
<1>9. ASSUME NEW i \in 1..n
      PROVE  content'[Cell(buf[w], i)] = s[i] /\ Cell(buf[w], i)[1] # buf[v]
  <2>1. Cell(buf[w], i) \in Cells /\ Mine(w, Cell(buf[w], i)) /\ Cell(buf[w], i)[1] # 0
    BY <1>1, VectorFacts
  <2>2. buf[w] # 0 /\ Cell(buf[w], i)[1] = buf[w]
    BY <2>1, CellFacts
  <2>3. buf[w] # buf[v]
    BY <1>1, <2>2 DEF TypeOK
  <2> QED
    BY <1>4, <2>1, <2>2, <2>3
<1>10. Allowed(Values', v, s)
  <2>1. size' = size /\ buf' = buf
    BY DEF Begin
  <2>2. Values'[w] = [i \in 1..n |-> content'[Cell(buf[w], i)]]
    BY <2>1 DEF Values
  <2>3. s = [i \in 1..n |-> s[i]]
    <3> HIDE DEF s
    <3> QED
      BY <1>5
  <2>4. Values'[w] = s
    <3> HIDE DEF s, n
    <3> QED
      BY <1>9, <2>2, <2>3
  <2> QED
    BY <2>4 DEF Allowed
<1>11. ASSUME NEW i \in 1..k PROVE content'[Cell(b, i)] = s[i] /\ i \in 1..n
  <2>1. i \in 1..n /\ i \in 1..size[v]
    BY <1>1, <1>2
  <2>2. Cell(b, i) \in Cells /\ Cell(b, i)[1] = b /\ Cell(b, i)[2] = i
    BY <1>1, <2>1, VectorFacts, CellFacts
  <2>3. content'[Cell(b, i)] = content[cells(w)[i]]
    <3> DEFINE c == Cell(b, i)
    <3>1. c \in Cells /\ c[1] = buf[v] /\ c[2] = i /\ i <= k
      BY <1>2, <2>2
    <3> HIDE DEF c
    <3>2. content'[c] = content[cells(w)[i]]
      BY <3>1
    <3> QED
      BY <3>2 DEF c
  <2> QED
    BY <1>4, <2>1, <2>3
<1>12. \A i \in 1..n : \/ s[i] = Null \/ s[i] \in args'
                       \/ \E c \in Elements \cup {} : content'[c] = s[i]
  BY <1>4, <1>9
<1>13. ASSUME NEW c \in Cells
       PROVE  IF c \in Elements \cup {} THEN ranges'[c] = 1 /\ content'[c] \in live' \cup {Null}
              ELSE ranges'[c] = 0 /\ content'[c] = Junk
  <2>1. CASE c[1] = buf[v] /\ c[2] <= k
    <3>1. Mine(v, c)
      BY <1>3, <2>1
    <3>2. c \in Elements /\ c[2] \in Nat \ {0}
      BY <1>1, <3>1, VectorFacts, CellFacts
    <3>3. c[2] \in 1..n
      <4> DEFINE i == c[2]
      <4>1. i \in Nat \ {0} /\ i <= k
        BY <2>1, <3>2
      <4> HIDE DEF i, n
      <4>2. i \in 1..n
        BY <1>1, <1>2, <4>1
      <4> QED
        BY <4>2 DEF i
    <3>4. content'[c] = content[cells(w)[c[2]]]
      BY <2>1
    <3> QED
      BY <1>4, <3>2, <3>3, <3>4, IdleFacts
  <2>2. CASE ~(c[1] = buf[v] /\ c[2] <= k)
    BY <2>2, IdleFacts
  <2> QED
    BY <2>1, <2>2
<1>14. content' \in [Cells -> Objects \cup {Null, Junk}]
  <2>1. \A c \in Cells : content'[c] \in Objects \cup {Null, Junk}
    BY <1>1, <1>13
  <2> QED
    BY <2>1
<1>15. n \in 0..MaxLen /\ Begin(v, q, n, b, drop, <<>>)
  BY <1>1, MaxLenBounds
<1> HIDE DEF n, b, s, q, drop, D
<1>16. Starts(v, q, n, b, drop, <<>>, k, D, {}, s)
  BY <1>2, <1>3, <1>5, <1>6, <1>7, <1>8, <1>10, <1>11, <1>12, <1>15 DEF Starts
<1>17. live' \subseteq Objects /\ args' \subseteq live' /\ ranges' \in [Cells -> Nat]
  BY <1>1, IdleFacts
<1>18. VectorInv' /\ Fulfils(op', Values', content', s)
  BY <1>13, <1>14, <1>16, <1>17, BeginKeeps
<1> QED
  BY <1>18 DEF s

LEMMA CopyFromKeeps ==
    ASSUME VectorInv, pc = "idle", NEW v \in Vectors, NEW w \in Vectors, CopyFrom(v, w)
    PROVE  VectorInv'
<1> DEFINE k == Min({size[v], size[w]})
<1>1. v # w /\ ranges' = ranges /\ live' = live /\ args' = args
  BY DEF CopyFrom
<1>2. CASE /\ content' = content
           /\ \E b \in FreeBuffers : size[w] <= Capacity[b]
                 /\ Begin(v, Copies(cells(w), b), size[w], b, cells(v), <<>>)
  BY <1>1, <1>2, CopyToNewBuffer
<1>3. CASE /\ size[w] <= capacity(v)
           /\ content' = [c \in Cells |-> IF c[1] = buf[v] /\ c[2] <= k
                                          THEN content[cells(w)[c[2]]] ELSE content[c]]
           /\ Begin(v, SubSeq(Copies(cells(w), buf[v]), k + 1, size[w]), size[w], buf[v],
                    SubSeq(cells(v), k + 1, size[v]), <<>>)
  <2>1. k = Min({size[v], size[w]})
    BY DEF k
  <2> HIDE DEF k
  <2>2. /\ content' = [c \in Cells |-> content'[c]]
        /\ \A c \in Cells : content'[c] = IF c[1] = buf[v] /\ c[2] <= k
                                           THEN content[cells(w)[c[2]]] ELSE content[c]
    BY <1>3
  <2> QED
    BY <1>1, <1>3, <2>1, <2>2, CopyInPlace
<1> QED
  BY <1>2, <1>3 DEF CopyFrom

-------------------------------------------------------------------------------
(* Theorems *)

LEMMA OperationKeeps == VectorInv /\ Operation => VectorInv'
<1> SUFFICES ASSUME VectorInv, Operation PROVE VectorInv'
  OBVIOUS
<1>1. pc = "idle"
  BY DEF Operation
<1>2. PICK v \in Vectors :
          \/ \E p \in live \cup {Null} : push_back(v, p)
          \/ \E p \in Objects : emplace_new(v, p)
          \/ \E n \in 0..MaxLen : resize(v, n)
          \/ pop_back(v) \/ clear(v)
          \/ \E i, n \in 1..MaxLen : erase(v, i, n)
          \/ \E b \in Buffers : Reallocate(v, b)
          \/ \E n \in 1..MaxLen : \E s \in [1..n -> live \cup {Null}] : Fill(v, s)
          \/ \E w \in Vectors : CopyFrom(v, w) \/ MoveFrom(v, w) \/ swap(v, w)
          \/ \E i \in 1..MaxLen, p \in live \cup {Null} : Assign(v, i, p)
          \/ \E i, j \in 1..MaxLen, w \in Vectors : MoveAssign(v, i, w, j)
  BY DEF Operation
<1>3. CASE \E p \in live \cup {Null} : push_back(v, p)
  BY <1>1, <1>3, push_backKeeps
<1>4. CASE \E p \in Objects : emplace_new(v, p)
  BY <1>1, <1>4, emplace_newKeeps
<1>5. CASE \E n \in 0..MaxLen : resize(v, n)
  BY <1>1, <1>5, resizeKeeps
<1>6. CASE pop_back(v)
  BY <1>1, <1>6, pop_backKeeps
<1>7. CASE clear(v)
  BY <1>1, <1>7, clearKeeps
<1>8. CASE \E i, n \in 1..MaxLen : erase(v, i, n)
  BY <1>1, <1>8, eraseKeeps
<1>9. CASE \E b \in Buffers : Reallocate(v, b)
  BY <1>1, <1>9, ReallocateKeeps
<1>10. CASE \E n \in 1..MaxLen : \E s \in [1..n -> live \cup {Null}] : Fill(v, s)
  BY <1>1, <1>10, FillKeeps
<1>11. CASE \E w \in Vectors : CopyFrom(v, w)
  BY <1>1, <1>11, CopyFromKeeps
<1>12. CASE \E w \in Vectors : MoveFrom(v, w)
  BY <1>1, <1>12, MoveFromKeeps
<1>13. CASE \E w \in Vectors : swap(v, w)
  BY <1>1, <1>13, swapKeeps
<1>14. CASE \E i \in 1..MaxLen, p \in live \cup {Null} : Assign(v, i, p)
  BY <1>1, <1>14, AssignKeeps
<1>15. CASE \E i, j \in 1..MaxLen, w \in Vectors : MoveAssign(v, i, w, j)
  BY <1>1, <1>15, MoveAssignKeeps
<1> QED
  BY <1>2, <1>3, <1>4, <1>5, <1>6, <1>7, <1>8, <1>9, <1>10, <1>11, <1>12, <1>13, <1>14, <1>15

LEMMA StutterKeeps == VectorInv /\ UNCHANGED vars => VectorInv'
<1> SUFFICES ASSUME VectorInv, UNCHANGED vars PROVE VectorInv'
  OBVIOUS
<1> USE DEF vars
<1>1. TypeOK'
  BY DEF VectorInv, TypeOK, capacity
<1>2. Elements' = Elements /\ Extra' = Extra
  BY DEF Elements, Extra, Listed
<1>3. CellsInv'
  BY <1>2 DEF VectorInv, CellsInv, Occupied
<1>4. ExtraInv' /\ OpInv'
  BY <1>2 DEF VectorInv, ExtraInv, OpInv
<1>5. PlanTypes => PlanTypes'
  BY <1>2 DEF PlanTypes, Coming, Safe
<1>6. PlanAddsUp => PlanAddsUp'
  BY <1>2 DEF PlanAddsUp, Mine, Coming
<1>7. Promise => Promise'
  <2>1. Values' = Values
    BY DEF Values
  <2>2. ASSUME NEW s, Fulfils(op, Values, content, s) PROVE Fulfils(op', Values', content', s)
    BY <2>1, <2>2
  <2> QED
    BY <2>2 DEF Promise
<1> QED
  BY <1>1, <1>3, <1>4, <1>5, <1>6, <1>7 DEF VectorInv, BuildInv

\* The invariant holds always.
THEOREM VectorInvariant == Spec => []VectorInv
<1>1. Init => VectorInv
  BY InitInv
<1>2. VectorInv /\ [Next]_vars => VectorInv'
  BY OperationKeeps, BuildNextKeeps, RegisterThrowsKeeps, UndoKeeps, CommitKeeps, DropNextKeeps,
     CollectKeeps, StutterKeeps DEF Next
<1> QED
  BY <1>1, <1>2, PTL DEF Spec

\* Between operations of gc_vector every element is registered exactly once and
\* nothing else is, for any number of vectors, objects and buffers of any
\* capacity, whatever was copied, erased, moved, or failed to register.
THEOREM RangesAreElementsAlways == Spec => []RangesAreElements
<1>1. VectorInv => RangesAreElements
  <2> SUFFICES ASSUME VectorInv, pc = "idle"
               PROVE  ranges = [c \in Cells |-> IF c \in Elements THEN 1 ELSE 0]
    BY DEF RangesAreElements
  <2> QED
    BY IdleFacts
<1> QED
  BY <1>1, VectorInvariant, PTL

\* Whatever a gc_root points to has not been reclaimed, also between two steps of
\* an operation and while a failed one is taken back.
THEOREM RootsProtectAlways == Spec => []RootsProtect
<1>1. VectorInv => RootsProtect
  BY DEF VectorInv, CellsInv, RootsProtect
<1> QED
  BY <1>1, VectorInvariant, PTL

-------------------------------------------------------------------------------
(***************************************************************************)
(* The refinement.  A call that can throw fixes its outcome at its first   *)
(* step, and the outcome stays the same while it builds.  The client's     *)
(* view changes when the call commits, or at the first step of one that    *)
(* only gives up or overwrites elements; every other step leaves it alone. *)
(***************************************************************************)

TakesEffect(new, then) == pc = "idle" /\ Values' = new /\ Goal' = new /\ Phase' = then

Calls(v, s) ==
    /\ pc = "idle" /\ pc' = "build" /\ Len(s) <= MaxLen
    /\ Values' = Values /\ Goal' = [Values EXCEPT ![v] = s]

LEMMA Phases ==
    /\ pc = "idle" => Phase = "idle" /\ Goal = Values
    /\ pc = "build" => Phase = "calling"
    /\ pc = "undo" => Phase = "failing" /\ Goal = Values
    /\ pc = "drop" => Phase = "returning" /\ Goal = Values
BY DEF Phase, Goal

LEMMA NextPhases ==
    /\ pc' = "idle" => Phase' = "idle" /\ Goal' = Values'
    /\ pc' = "build" => Phase' = "calling"
    /\ pc' = "undo" => Phase' = "failing" /\ Goal' = Values'
    /\ pc' = "drop" => Phase' = "returning" /\ Goal' = Values'
BY DEF Phase, Goal

LEMMA EffectSteps ==
    ASSUME NEW v \in Vectors
    PROVE  /\ \A n \in 0..Len(Values[v]) :
                 TakesEffect([Values EXCEPT ![v] = SubSeq(Values[v], 1, n)], "returning")
                    => Abstract!Next
           /\ \A i \in 1..Len(Values[v]), n \in 0..MaxLen :
                 TakesEffect([Values EXCEPT ![v] = SubSeq(Values[v], 1, i - 1)
                                                     \o SubSeq(Values[v], i + n, Len(Values[v]))],
                             "returning") => Abstract!Next
           /\ \A i \in DOMAIN Values[v], p \in Objects \cup {Null} :
                 TakesEffect([Values EXCEPT ![v] = [Values[v] EXCEPT ![i] = p]], "idle")
                    => Abstract!Next
           /\ \A w \in Vectors :
                 TakesEffect([Values EXCEPT ![v] = Values[w], ![w] = <<>>], "returning")
                    => Abstract!Next
           /\ \A w \in Vectors :
                 TakesEffect([Values EXCEPT ![v] = Values[w], ![w] = Values[v]], "idle")
                    => Abstract!Next
           /\ \A w \in Vectors : \A i \in DOMAIN Values[v], j \in DOMAIN Values[w] :
                 TakesEffect([Values EXCEPT ![v][i] = Values[w][j], ![w][j] = Null], "idle")
                    => Abstract!Next
<1>0. ASSUME NEW new, NEW then, TakesEffect(new, then) PROVE Abstract!TakeEffect(new, then)
  BY <1>0, Phases DEF TakesEffect, Abstract!TakeEffect
<1>1. ASSUME NEW n \in 0..Len(Values[v]),
             TakesEffect([Values EXCEPT ![v] = SubSeq(Values[v], 1, n)], "returning")
      PROVE  Abstract!Next
  <2>1. Abstract!Truncate(v)
    BY <1>0, <1>1, Zenon DEF Abstract!Truncate
  <2> QED
    BY <2>1 DEF Abstract!Next
<1>2. ASSUME NEW i \in 1..Len(Values[v]), NEW n \in 0..MaxLen,
             TakesEffect([Values EXCEPT ![v] = SubSeq(Values[v], 1, i - 1)
                                                 \o SubSeq(Values[v], i + n, Len(Values[v]))],
                         "returning")
      PROVE  Abstract!Next
  <2>1. Abstract!Erase(v)
    BY <1>0, <1>2, Zenon DEF Abstract!Erase
  <2> QED
    BY <2>1 DEF Abstract!Next
<1>3. ASSUME NEW i \in DOMAIN Values[v], NEW p \in Objects \cup {Null},
             TakesEffect([Values EXCEPT ![v] = [Values[v] EXCEPT ![i] = p]], "idle")
      PROVE  Abstract!Next
  <2>1. Abstract!Set(v)
    BY <1>0, <1>3, Zenon DEF Abstract!Set
  <2> QED
    BY <2>1 DEF Abstract!Next
<1>4. ASSUME NEW w \in Vectors,
             TakesEffect([Values EXCEPT ![v] = Values[w], ![w] = <<>>], "returning")
      PROVE  Abstract!Next
  <2>1. Abstract!MoveFrom(v, w)
    BY <1>0, <1>4, Zenon DEF Abstract!MoveFrom
  <2> QED
    BY <2>1 DEF Abstract!Next
<1>5. ASSUME NEW w \in Vectors,
             TakesEffect([Values EXCEPT ![v] = Values[w], ![w] = Values[v]], "idle")
      PROVE  Abstract!Next
  <2>1. Abstract!Swap(v, w)
    BY <1>0, <1>5, Zenon DEF Abstract!Swap
  <2> QED
    BY <2>1 DEF Abstract!Next
<1>6. ASSUME NEW w \in Vectors, NEW i \in DOMAIN Values[v], NEW j \in DOMAIN Values[w],
             TakesEffect([Values EXCEPT ![v][i] = Values[w][j], ![w][j] = Null], "idle")
      PROVE  Abstract!Next
  <2>1. Abstract!MoveElement(v, w)
    BY <1>0, <1>6, Zenon DEF Abstract!MoveElement
  <2> QED
    BY <2>1 DEF Abstract!Next
<1> QED
  BY <1>1, <1>2, <1>3, <1>4, <1>5, <1>6

LEMMA CallSteps ==
    ASSUME NEW v \in Vectors, NEW s, Calls(v, s), Allowed(Values, v, s)
    PROVE  Abstract!Next
<1>1. Abstract!Call(v, s)
  BY Phases, NextPhases DEF Calls, Abstract!Call
<1>2. CASE \E p \in Objects \cup {Null} : s = Append(Values[v], p)
  <2>1. Abstract!Insert(v)
    BY <1>1, <1>2, Zenon DEF Abstract!Insert
  <2> QED
    BY <2>1 DEF Abstract!Next
<1>3. CASE \E n \in 0..(MaxLen - Len(Values[v])) : s = Values[v] \o [i \in 1..n |-> Null]
  <2>1. Abstract!ExtendWithNulls(v)
    BY <1>1, <1>3, Zenon DEF Abstract!ExtendWithNulls
  <2> QED
    BY <2>1 DEF Abstract!Next
<1>4. CASE Values[v] = <<>> /\ \E n \in 1..MaxLen : s \in [1..n -> Objects \cup {Null}]
  <2>1. Abstract!Fill(v)
    BY <1>1, <1>4, Zenon DEF Abstract!Fill
  <2> QED
    BY <2>1 DEF Abstract!Next
<1>5. CASE \E w \in Vectors : s = Values[w]
  <2>1. \E w \in Vectors : Abstract!Copy(v, w)
    BY <1>1, <1>5, Zenon DEF Abstract!Copy
  <2> QED
    BY <2>1 DEF Abstract!Next
<1> QED
  BY <1>2, <1>3, <1>4, <1>5 DEF Allowed

\* There is only one vector that a plan makes.
LEMMA OutcomeIs ==
    ASSUME NEW o, NEW vals, NEW con, NEW s, o.build \in Seq(Plans), o.size \in Nat,
           Fulfils(o, vals, con, s)
    PROVE  Outcome(o, con) = s
<1>1. DOMAIN o.build = 1..Len(o.build)
  BY LenProperties
<1>2. s \in [1..o.size -> Objects \cup {Null}]
  BY DEF Fulfils
<1>3. ASSUME NEW i \in 1..o.size PROVE Outcome(o, con)[i] = s[i]
  <2> DEFINE Here(k) == o.build[k].cell = Cell(o.buf, i)
  <2>1. CASE \E k \in DOMAIN o.build : Here(k)
    <3> DEFINE k == CHOOSE j \in DOMAIN o.build : Here(j)
    <3>1. k \in DOMAIN o.build /\ Here(k)
      BY <2>1
    <3>2. Outcome(o, con)[i] = o.build[k].value
      BY <2>1 DEF Outcome
    <3> HIDE DEF k
    <3>3. o.build[k].value = s[o.build[k].cell[2]]
      BY <1>1, <3>1 DEF Fulfils
    <3>4. o.build[k].cell[2] = i
      BY <3>1, CellFacts
    <3> QED
      BY <3>2, <3>3, <3>4
  <2>2. CASE ~\E k \in DOMAIN o.build : Here(k)
    <3>1. Outcome(o, con)[i] = con[Cell(o.buf, i)]
      BY <2>2 DEF Outcome
    <3>2. con[Cell(o.buf, i)] = s[i]
      BY <1>1, <2>2 DEF Fulfils
    <3> QED
      BY <3>1, <3>2
  <2> QED
    BY <2>1, <2>2
<1>4. Outcome(o, con) = [i \in 1..o.size |-> Outcome(o, con)[i]]
  BY DEF Outcome
<1>5. s = [i \in 1..o.size |-> s[i]]
  BY <1>2
<1> QED
  BY <1>3, <1>4, <1>5

LEMMA GoalIs ==
    ASSUME VectorInv, pc = "build", NEW s, Fulfils(op, Values, content, s)
    PROVE  Goal = [Values EXCEPT ![op.v] = s]
<1>1. op.build \in Seq(Plans) /\ op.size \in Nat
  BY MaxLenBounds DEF VectorInv, BuildInv, PlanTypes
<1>2. Outcome(op, content) = s
  BY <1>1, OutcomeIs
<1> QED
  BY <1>2 DEF Goal

LEMMA NextGoalIs ==
    ASSUME VectorInv', pc' = "build", NEW s, Fulfils(op', Values', content', s)
    PROVE  Goal' = [Values' EXCEPT ![op'.v] = s] /\ op'.v \in Vectors /\ Len(s) <= MaxLen
<1>1. op'.build \in Seq(Plans) /\ op'.size \in 0..MaxLen /\ op'.v \in Vectors
  BY DEF VectorInv, BuildInv, PlanTypes
<1>2. op'.size \in Nat /\ op'.size <= MaxLen
  BY <1>1, MaxLenBounds
<1>3. Outcome(op', content') = s
  BY <1>1, <1>2, OutcomeIs
<1>4. s \in [1..op'.size -> Objects \cup {Null}]
  BY DEF Fulfils
<1>5. Len(s) = op'.size
  BY <1>2, <1>4, FunctionIsSeq
<1> QED
  BY <1>1, <1>2, <1>3, <1>5 DEF Goal

\* A call that begins to build shows nothing yet.
LEMMA CallSeen ==
    ASSUME VectorInv', pc = "idle", pc' = "build", Values' = Values
    PROVE  Abstract!Next
<1>1. PICK s : Fulfils(op', Values', content', s)
  BY DEF VectorInv, BuildInv, Promise
<1>2. Goal' = [Values' EXCEPT ![op'.v] = s] /\ op'.v \in Vectors /\ Len(s) <= MaxLen
  BY <1>1, NextGoalIs
<1>3. Allowed(Values, op'.v, s)
  BY <1>1 DEF Fulfils
<1>4. Calls(op'.v, s)
  BY <1>2 DEF Calls
<1> QED
  BY <1>2, <1>3, <1>4, CallSteps

LEMMA SameValues ==
    ASSUME TypeOK, size' = size, buf' = buf, \A c \in Elements : content'[c] = content[c]
    PROVE  Values' = Values
<1>1. ASSUME NEW v \in Vectors, NEW i \in 1..size[v]
      PROVE  content'[Cell(buf[v], i)] = content[Cell(buf[v], i)]
  BY VectorFacts
<1> QED
  BY <1>1 DEF Values

LEMMA OneChanges ==
    ASSUME TypeOK, NEW v \in Vectors, NEW s,
           \A w \in Vectors \ {v} :
              /\ size'[w] = size[w] /\ buf'[w] = buf[w]
              /\ \A i \in 1..size[w] : content'[Cell(buf[w], i)] = content[Cell(buf[w], i)],
           s = [i \in 1..size'[v] |-> content'[Cell(buf'[v], i)]]
    PROVE  Values' = [Values EXCEPT ![v] = s]
<1>1. ASSUME NEW w \in Vectors PROVE Values'[w] = IF w = v THEN s ELSE Values[w]
  <2>1. Values'[w] = [i \in 1..size'[w] |-> content'[Cell(buf'[w], i)]]
    BY DEF Values
  <2>2. Values[w] = [i \in 1..size[w] |-> content[Cell(buf[w], i)]]
    BY DEF Values
  <2> QED
    BY <2>1, <2>2
<1>2. Values' = [w \in Vectors |-> Values'[w]] /\ Values = [w \in Vectors |-> Values[w]]
  BY DEF Values
<1> QED
  BY <1>1, <1>2

\* A step that the client does not see.
Unseen == Values' = Values /\ Phase' = Phase /\ Goal' = Goal

LEMMA CollectSeen == VectorInv /\ Collect => Unseen
<1> SUFFICES ASSUME VectorInv, Collect PROVE Unseen
  OBVIOUS
<1>1. Values' = Values
  BY SameValues DEF Collect, VectorInv
<1> QED
  BY <1>1 DEF Collect, Unseen, Phase, Goal

\* The call fails, and the vectors are what they were.
LEMMA RegisterThrowsSeen == VectorInv /\ RegisterThrows => Abstract!Next
<1> SUFFICES ASSUME VectorInv, RegisterThrows PROVE Abstract!Next
  OBVIOUS
<1>1. Values' = Values
  BY SameValues DEF RegisterThrows, VectorInv
<1>2. Abstract!Fail
  BY <1>1, Phases, NextPhases DEF RegisterThrows, Abstract!Fail
<1> QED
  BY <1>2 DEF Abstract!Next

\* Building goes on towards the same outcome.
LEMMA BuildNextSeen == VectorInv /\ BuildNext => Unseen
<1> SUFFICES ASSUME VectorInv, BuildNext PROVE Unseen
  OBVIOUS
<1> DEFINE r == Head(op.build)
<1>1. /\ op.build # <<>> /\ size' = size /\ buf' = buf /\ PlanTypes
      /\ content' = [content EXCEPT ![r.cell] = r.value]
  BY DEF BuildNext, ConstructRoot, VectorInv, BuildInv
<1>2. Len(op.build) \in Nat \ {0} /\ r = op.build[1]
  BY <1>1, HeadTailProperties, EmptySeq DEF PlanTypes
<1>3. r.cell \in Coming
  BY <1>2 DEF Coming
<1>4. r.cell \notin Elements
  BY <1>1, <1>3 DEF PlanTypes
<1>5. content \in [Cells -> Objects \cup {Null, Junk}] /\ Elements \subseteq Cells /\ TypeOK
  BY DEF VectorInv, TypeOK, Elements
<1> HIDE DEF r
<1>6. \A c \in Elements : content'[c] = content[c]
  BY <1>1, <1>4, <1>5
<1>7. Values' = Values
  BY <1>1, <1>5, <1>6, SameValues
<1>8. pc = "build" /\ pc' = "build" /\ op'.v = op.v
  BY DEF BuildNext, VectorInv, OpInv
<1>9. PICK s : Fulfils(op, Values, content, s) /\ Fulfils(op', Values', content', s)
  BY BuildNextKeeps DEF SamePromise
<1>10. Goal = [Values EXCEPT ![op.v] = s]
  BY <1>8, <1>9, GoalIs
<1>11. VectorInv'
  BY BuildNextKeeps
<1>12. Goal' = [Values' EXCEPT ![op'.v] = s]
  BY <1>8, <1>9, <1>11, NextGoalIs
<1>13. Phase' = Phase
  BY <1>8 DEF Phase
<1> QED
  BY <1>7, <1>8, <1>10, <1>12, <1>13 DEF Unseen

LEMMA DestroyedSeen ==
    ASSUME VectorInv, NEW c \in Extra, DestroyRoot(c), size' = size, buf' = buf
    PROVE  Values' = Values
<1>1. content \in [Cells -> Objects \cup {Null, Junk}] /\ Elements \subseteq Cells /\ TypeOK
  BY DEF VectorInv, TypeOK, Elements
<1>2. c \notin Elements
  BY DEF VectorInv, ExtraInv
<1>3. \A d \in Elements : content'[d] = content[d]
  BY <1>1, <1>2 DEF DestroyRoot
<1> QED
  BY <1>1, <1>3, SameValues

\* Cells go one by one, and then the call is over.
LEMMA UndoSeen == VectorInv /\ Undo => Abstract!Next \/ Unseen
<1> SUFFICES ASSUME VectorInv, Undo PROVE Abstract!Next \/ Unseen
  OBVIOUS
<1>1. Lists(fresh, Extra) /\ size' = size /\ buf' = buf /\ pc = "undo"
  BY DEF VectorInv, ExtraInv, Undo
<1>2. CASE fresh # <<>>
  <2>1. Last(fresh) \in Extra /\ DestroyRoot(Last(fresh)) /\ pc' = "undo"
    BY <1>1, <1>2, FrontOfList DEF Undo
  <2>2. Values' = Values
    BY <1>1, <2>1, DestroyedSeen
  <2> QED
    BY <1>1, <2>1, <2>2, Phases, NextPhases DEF Unseen
<1>3. CASE fresh = <<>>
  <2>1. Values' = Values /\ pc' = "idle"
    BY <1>3, SameValues DEF Undo, VectorInv
  <2>2. Abstract!Finish
    BY <1>1, <2>1, Phases, NextPhases DEF Abstract!Finish
  <2> QED
    BY <2>2 DEF Abstract!Next
<1> QED
  BY <1>2, <1>3

LEMMA DropNextSeen == VectorInv /\ DropNext => Abstract!Next \/ Unseen
<1> SUFFICES ASSUME VectorInv, DropNext PROVE Abstract!Next \/ Unseen
  OBVIOUS
<1>1. Lists(op.drop, Extra) /\ size' = size /\ buf' = buf /\ pc = "drop"
  BY DEF VectorInv, ExtraInv, DropNext
<1>2. CASE op.drop # <<>>
  <2>1. Head(op.drop) \in Extra /\ DestroyRoot(Head(op.drop)) /\ pc' = "drop"
    BY <1>1, <1>2, TailOfList DEF DropNext
  <2>2. Values' = Values
    BY <1>1, <2>1, DestroyedSeen
  <2> QED
    BY <1>1, <2>1, <2>2, Phases, NextPhases DEF Unseen
<1>3. CASE op.drop = <<>>
  <2>1. Values' = Values /\ pc' = "idle"
    BY <1>3, SameValues DEF DropNext, VectorInv
  <2>2. Abstract!Finish
    BY <1>1, <2>1, Phases, NextPhases DEF Abstract!Finish
  <2> QED
    BY <2>2 DEF Abstract!Next
<1> QED
  BY <1>2, <1>3

\* The promise of the operation that commits is kept.
LEMMA CommitSeen == VectorInv /\ Commit => Abstract!Next
<1> SUFFICES ASSUME VectorInv, Commit PROVE Abstract!Next
  OBVIOUS
<1> DEFINE v == op.v
<1>1. /\ op.build = <<>> /\ content' = content
      /\ size' = [size EXCEPT ![op.v] = op.size] /\ buf' = [buf EXCEPT ![op.v] = op.buf]
  BY DEF Commit
<1>2. PlanTypes /\ Promise /\ TypeOK
  BY DEF VectorInv, BuildInv, Commit
<1>3. v \in Vectors /\ op.size \in 0..MaxLen /\ op.size \in Nat
  BY <1>2, MaxLenBounds DEF PlanTypes
<1>4. PICK s : Fulfils(op, Values, content, s)
  BY <1>2 DEF Promise
<1>5. s \in [1..op.size -> Objects \cup {Null}] /\ Allowed(Values, v, s)
  BY <1>4 DEF Fulfils
<1>6. \A i \in 1..op.size : content[Cell(op.buf, i)] = s[i]
  <2>1. 1..Len(op.build) = {}
    BY <1>1
  <2> QED
    BY <1>4, <2>1 DEF Fulfils
<1>7. size \in [Vectors -> 0..MaxLen] /\ buf \in [Vectors -> 0..Len(Capacity)]
  BY <1>2 DEF TypeOK
<1>8. size'[v] = op.size /\ buf'[v] = op.buf
      /\ \A w \in Vectors \ {v} : size'[w] = size[w] /\ buf'[w] = buf[w]
  BY <1>1, <1>3, <1>7
<1>9. s = [i \in 1..size'[v] |-> content'[Cell(buf'[v], i)]]
  <2>1. s = [i \in 1..op.size |-> s[i]]
    BY <1>5
  <2>2. s = [i \in 1..op.size |-> content[Cell(op.buf, i)]]
    BY <1>6, <2>1
  <2> HIDE DEF v
  <2> QED
    BY <1>1, <1>8, <2>2
<1>10. \A w \in Vectors \ {v} :
          /\ size'[w] = size[w] /\ buf'[w] = buf[w]
          /\ \A i \in 1..size[w] : content'[Cell(buf[w], i)] = content[Cell(buf[w], i)]
  BY <1>1, <1>8
<1> HIDE DEF v
<1>11. Values' = [Values EXCEPT ![v] = s]
  BY <1>2, <1>3, <1>9, <1>10, OneChanges
<1>12. Goal = [Values EXCEPT ![v] = s]
  BY <1>4, GoalIs DEF Commit, v
<1>13. Abstract!Succeed
  BY <1>11, <1>12, Phases, NextPhases DEF Commit, Abstract!Succeed
<1> QED
  BY <1>13 DEF Abstract!Next

LEMMA NewValues ==
    ASSUME VectorInv, pc = "idle", VectorInv', NEW v \in Vectors
    PROVE  [i \in 1..size'[v] |-> content'[Cell(buf'[v], i)]] \in Seq(Objects \cup {Null, Junk})
           /\ Len([i \in 1..size'[v] |-> content'[Cell(buf'[v], i)]]) = size'[v]
           /\ size'[v] \in Nat /\ size'[v] <= MaxLen
<1> DEFINE s == [i \in 1..size'[v] |-> content'[Cell(buf'[v], i)]]
           T == Objects \cup {Null, Junk}
<1>1. /\ size'[v] \in 0..MaxLen /\ buf'[v] \in 0..Len(Capacity)
      /\ size'[v] <= IF buf'[v] = 0 THEN 0 ELSE Capacity[buf'[v]]
      /\ content' \in [Cells -> T]
  BY DEF VectorInv, TypeOK, capacity
<1>2. size'[v] \in Nat /\ size'[v] <= MaxLen
  BY <1>1, MaxLenBounds
<1>3. ASSUME NEW i \in 1..size'[v] PROVE content'[Cell(buf'[v], i)] \in T
  <2>1. buf'[v] \in Buffers /\ i \in 1..Capacity[buf'[v]]
    BY <1>1, <1>2, BufferFacts
  <2>2. Cell(buf'[v], i) \in Cells
    BY <2>1, CellFacts
  <2> QED
    BY <1>1, <2>2
<1>4. s \in [1..size'[v] -> T]
  BY <1>3
<1> HIDE DEF s, T
<1>5. s \in Seq(T) /\ Len(s) = size'[v]
  BY <1>2, <1>4, FunctionIsSeq
<1> QED
  BY <1>2, <1>5 DEF s, T

\* Giving up the last elements is a truncation.
LEMMA ShrinkSeen ==
    ASSUME VectorInv, VectorInv', pc = "idle", NEW v \in Vectors, NEW n \in 0..size[v], NEW b,
           b = buf[v] \/ (b = 0 /\ n = 0), Shrink(v, n, b), content' = content
    PROVE  Abstract!Next
<1> DEFINE s == [i \in 1..size'[v] |-> content'[Cell(buf'[v], i)]]
           u == Values[v]
           T == Objects \cup {Null, Junk}
<1>1. TypeOK /\ size[v] \in Nat /\ n \in Nat /\ n <= size[v]
  BY IdleFacts, VectorFacts
<1>2. size \in [Vectors -> 0..MaxLen] /\ buf \in [Vectors -> 0..Len(Capacity)]
  BY <1>1 DEF TypeOK
<1>3. size'[v] = n /\ buf'[v] = b
      /\ \A w \in Vectors \ {v} : size'[w] = size[w] /\ buf'[w] = buf[w]
  BY <1>2 DEF Shrink
<1>4. Values' = [Values EXCEPT ![v] = s]
  BY <1>1, <1>3, OneChanges
<1>5. s \in Seq(T) /\ Len(s) = n /\ n <= MaxLen
  <2>1. s \in Seq(T) /\ Len(s) = size'[v] /\ size'[v] <= MaxLen
    BY NewValues
  <2> HIDE DEF s, T
  <2> QED
    BY <1>3, <2>1
<1>6. u \in Seq(Objects \cup {Null}) /\ Len(u) = size[v]
      /\ \A i \in 1..size[v] : u[i] = content[Cell(buf[v], i)]
  BY ValuesFacts
<1>7. \A i \in 1..n : u[i] \in T
  <2> HIDE DEF u
  <2> QED
    BY <1>1, <1>6, ElementOfSeq
<1>8. /\ SubSeq(u, 1, n) \in Seq(T) /\ Len(SubSeq(u, 1, n)) = n
      /\ \A i \in 1..n : SubSeq(u, 1, n)[i] = u[i]
  <2> HIDE DEF u, T
  <2>1. /\ SubSeq(u, 1, n) \in Seq(T)
        /\ Len(SubSeq(u, 1, n)) = IF 1 <= n THEN n - 1 + 1 ELSE 0
        /\ \A i \in 1..(n - 1 + 1) : SubSeq(u, 1, n)[i] = u[1 + i - 1]
    BY <1>1, <1>7, SubSeqProperties
  <2> QED
    BY <1>1, <2>1
<1>9. ASSUME NEW i \in 1..n PROVE s[i] = u[i]
  <2>1. b = buf[v] /\ i \in 1..size'[v] /\ i \in 1..size[v]
    BY <1>1, <1>3
  <2>2. s[i] = content'[Cell(buf'[v], i)]
    BY <2>1
  <2> HIDE DEF u, s
  <2> QED
    BY <1>3, <1>6, <2>1, <2>2
<1> HIDE DEF u, s, T
<1>10. s = SubSeq(u, 1, n)
  BY <1>5, <1>8, <1>9, SeqEqual
<1>11. Values' = [Values EXCEPT ![v] = SubSeq(Values[v], 1, n)]
  BY <1>4, <1>10 DEF u
<1>12. n \in 0..Len(Values[v])
  BY <1>6 DEF u
<1>13. pc' = "drop"
  BY DEF Shrink
<1>14. TakesEffect([Values EXCEPT ![v] = SubSeq(Values[v], 1, n)], "returning")
  BY <1>11, <1>13, NextPhases DEF TakesEffect
<1> QED
  BY <1>12, <1>14, EffectSteps

LEMMA pop_backSeen ==
    ASSUME VectorInv, VectorInv', pc = "idle", NEW v \in Vectors, pop_back(v) PROVE Abstract!Next
<1>1. size[v] - 1 \in 0..size[v] /\ Shrink(v, size[v] - 1, buf[v]) /\ content' = content
  BY IdleFacts, VectorFacts DEF pop_back
<1> QED
  BY <1>1, ShrinkSeen

LEMMA clearSeen ==
    ASSUME VectorInv, VectorInv', pc = "idle", NEW v \in Vectors, clear(v) PROVE Abstract!Next
<1>1. 0 \in 0..size[v] /\ content' = content
  BY IdleFacts, VectorFacts DEF clear
<1>2. CASE Shrink(v, 0, buf[v])
  BY <1>1, <1>2, ShrinkSeen
<1>3. CASE Shrink(v, 0, 0)
  BY <1>1, <1>3, ShrinkSeen
<1> QED
  BY <1>2, <1>3 DEF clear

\* Every element after the gap moves down by its width.
LEMMA eraseSeen ==
    ASSUME VectorInv, VectorInv', pc = "idle", NEW v \in Vectors,
           NEW i \in 1..MaxLen, NEW n \in 1..MaxLen, erase(v, i, n)
    PROVE  Abstract!Next
<1> DEFINE s == [j \in 1..size'[v] |-> content'[Cell(buf'[v], j)]]
           u == Values[v]
           T == Objects \cup {Null, Junk}
           len == size[v]
           m == len - n
           head == SubSeq(u, 1, i - 1)
           tail == SubSeq(u, i + n, len)
<1>1. /\ TypeOK /\ len \in Nat /\ i \in Nat \ {0} /\ n \in Nat \ {0} /\ i + n - 1 <= len
      /\ m \in Nat /\ MaxLen \in Nat
  BY IdleFacts, VectorFacts, MaxLenBounds DEF erase
<1>2. size \in [Vectors -> 0..MaxLen] /\ buf \in [Vectors -> 0..Len(Capacity)]
  BY <1>1 DEF TypeOK
<1>3. size'[v] = m /\ buf'[v] = buf[v]
      /\ \A w \in Vectors \ {v} : size'[w] = size[w] /\ buf'[w] = buf[w]
  BY <1>2 DEF erase, Shrink
<1>4. \A c \in Cells : content'[c] =
          IF c[1] # buf[v] \/ c[2] < i \/ c[2] > len THEN content[c]
          ELSE IF c[2] <= m THEN content[Cell(c[1], c[2] + n)] ELSE Null
  BY DEF erase
<1>5. ASSUME NEW w \in Vectors \ {v}, NEW j \in 1..size[w]
      PROVE  content'[Cell(buf[w], j)] = content[Cell(buf[w], j)]
  <2> DEFINE c == Cell(buf[w], j)
  <2>1. c \in Cells /\ Mine(w, c) /\ c[1] # 0
    BY <1>1, VectorFacts
  <2>2. c[1] # buf[v]
    <3>1. c[1] = buf[w]
      BY CellFacts
    <3> QED
      BY <1>1, <2>1, <3>1 DEF TypeOK
  <2> HIDE DEF c
  <2>3. content'[c] = content[c]
    BY <1>4, <2>1, <2>2
  <2> QED
    BY <2>3 DEF c
<1>6. Values' = [Values EXCEPT ![v] = s]
  BY <1>1, <1>3, <1>5, OneChanges
<1>7. s \in Seq(T) /\ Len(s) = m /\ m <= MaxLen
  <2>1. s \in Seq(T) /\ Len(s) = size'[v] /\ size'[v] <= MaxLen
    BY NewValues
  <2> HIDE DEF s, T, m
  <2> QED
    BY <1>3, <2>1
<1>8. u \in Seq(Objects \cup {Null}) /\ Len(u) = len
      /\ \A j \in 1..len : u[j] = content[Cell(buf[v], j)]
  BY ValuesFacts
<1>9. \A j \in 1..len : u[j] \in T
  <2> HIDE DEF u, len
  <2> QED
    BY <1>1, <1>8, ElementOfSeq
<1>10. /\ head \in Seq(T) /\ Len(head) = i - 1
       /\ \A j \in 1..(i - 1) : head[j] = u[j]
  <2>1. \A j \in 1..(i - 1) : u[j] \in T
    BY <1>1, <1>9
  <2> HIDE DEF u, T
  <2>2. /\ head \in Seq(T) /\ Len(head) = IF 1 <= i - 1 THEN (i - 1) - 1 + 1 ELSE 0
        /\ \A j \in 1..((i - 1) - 1 + 1) : head[j] = u[1 + j - 1]
    BY <1>1, <2>1, SubSeqProperties
  <2> HIDE DEF head
  <2> QED
    BY <1>1, <2>2
<1>11. /\ tail \in Seq(T) /\ Len(tail) = len - (i + n) + 1
       /\ \A j \in 1..(len - (i + n) + 1) : tail[j] = u[i + n + j - 1]
  <2>1. \A j \in (i + n)..len : u[j] \in T
    BY <1>1, <1>9
  <2> HIDE DEF u, T, len
  <2>2. /\ tail \in Seq(T) /\ Len(tail) = IF i + n <= len THEN len - (i + n) + 1 ELSE 0
        /\ \A j \in 1..(len - (i + n) + 1) : tail[j] = u[(i + n) + j - 1]
    BY <1>1, <2>1, SubSeqProperties
  <2> HIDE DEF tail
  <2> QED
    BY <1>1, <2>2
<1>12. /\ head \o tail \in Seq(T) /\ Len(head \o tail) = m
       /\ \A j \in 1..m : (head \o tail)[j] = IF j <= i - 1 THEN u[j] ELSE u[j + n]
  <2> HIDE DEF head, tail, u, T, len
  <2>1. /\ head \o tail \in Seq(T) /\ Len(head \o tail) = Len(head) + Len(tail)
        /\ \A j \in 1..(Len(head) + Len(tail)) :
              (head \o tail)[j] = IF j <= Len(head) THEN head[j] ELSE tail[j - Len(head)]
    BY <1>10, <1>11, ConcatProperties
  <2>2. Len(head) + Len(tail) = m
    BY <1>1, <1>10, <1>11
  <2>3. ASSUME NEW j \in 1..m PROVE (head \o tail)[j] = IF j <= i - 1 THEN u[j] ELSE u[j + n]
    <3>1. CASE j <= i - 1
      BY <1>1, <1>10, <2>1, <2>2, <3>1
    <3>2. CASE ~(j <= i - 1)
      <4>1. (head \o tail)[j] = tail[j - (i - 1)]
        BY <1>1, <1>10, <2>1, <2>2, <3>2
      <4>2. j - (i - 1) \in 1..(len - (i + n) + 1) /\ i + n + (j - (i - 1)) - 1 = j + n
        BY <1>1, <3>2
      <4> QED
        BY <1>11, <3>2, <4>1, <4>2
    <3> QED
      BY <3>1, <3>2
  <2> QED
    BY <2>1, <2>2, <2>3
<1>13. ASSUME NEW j \in 1..m PROVE s[j] = IF j <= i - 1 THEN u[j] ELSE u[j + n]
  <2> DEFINE c == Cell(buf[v], j)
  <2>1. j \in 1..size'[v] /\ j \in 1..len /\ j + n \in 1..len /\ j \in Nat
    BY <1>1, <1>3
  <2>2. s[j] = content'[c]
    BY <1>3, <2>1
  <2>3. c \in Cells /\ c[1] = buf[v] /\ c[2] = j
    BY <1>1, <2>1, VectorFacts, CellFacts
  <2> HIDE DEF c
  <2>4. content'[c] = IF j < i THEN content[c] ELSE content[Cell(buf[v], j + n)]
    <3>1. ~(j > len) /\ j <= m
      BY <1>1, <2>1
    <3> QED
      BY <1>4, <2>3, <3>1
  <2>5. u[j] = content[c] /\ u[j + n] = content[Cell(buf[v], j + n)]
    BY <1>8, <2>1 DEF c
  <2>6. j < i <=> j <= i - 1
    BY <1>1, <2>1
  <2> HIDE DEF s, u
  <2> QED
    BY <2>2, <2>4, <2>5, <2>6
<1>14. s = head \o tail
  <2> DEFINE t == head \o tail
  <2>1. t \in Seq(T) /\ Len(t) = m /\ \A j \in 1..m : s[j] = t[j]
    BY <1>12, <1>13
  <2> HIDE DEF s, t, T, m
  <2>2. s = t
    BY <1>7, <2>1, SeqEqual
  <2> QED
    BY <2>2 DEF t
<1>15. i \in 1..Len(Values[v]) /\ n \in 0..MaxLen
  BY <1>1, <1>8
<1>16. Values' = [Values EXCEPT ![v] = SubSeq(Values[v], 1, i - 1)
                                         \o SubSeq(Values[v], i + n, Len(Values[v]))]
  <2>1. head \o tail = SubSeq(Values[v], 1, i - 1) \o SubSeq(Values[v], i + n, Len(Values[v]))
    BY <1>8
  <2> HIDE DEF s, head, tail
  <2> QED
    BY <1>6, <1>14, <2>1
<1>17. pc' = "drop"
  BY DEF erase, Shrink
<1>18. TakesEffect([Values EXCEPT ![v] = SubSeq(Values[v], 1, i - 1)
                                           \o SubSeq(Values[v], i + n, Len(Values[v]))],
                   "returning")
  BY <1>16, <1>17, NextPhases DEF TakesEffect
<1> QED
  BY <1>15, <1>18, EffectSteps

LEMMA MoveFromSeen ==
    ASSUME VectorInv, pc = "idle", NEW v \in Vectors, NEW w \in Vectors, MoveFrom(v, w)
    PROVE  Abstract!Next
<1>1. /\ v # w /\ size' = [size EXCEPT ![v] = size[w], ![w] = 0]
      /\ buf' = [buf EXCEPT ![v] = buf[w], ![w] = 0] /\ content' = content
  BY DEF MoveFrom
<1>2. size \in [Vectors -> 0..MaxLen] /\ buf \in [Vectors -> 0..Len(Capacity)]
  BY IdleFacts DEF TypeOK
<1>3. ASSUME NEW x \in Vectors
      PROVE  Values'[x] = IF x = w THEN <<>> ELSE IF x = v THEN Values[w] ELSE Values[x]
  <2>1. Values'[x] = [i \in 1..size'[x] |-> content[Cell(buf'[x], i)]]
    BY <1>1 DEF Values
  <2>2. Values[x] = [i \in 1..size[x] |-> content[Cell(buf[x], i)]]
        /\ Values[w] = [i \in 1..size[w] |-> content[Cell(buf[w], i)]]
    BY DEF Values
  <2>3. CASE x = w
    <3>1. size'[x] = 0
      BY <1>1, <1>2, <2>3
    <3>2. Values'[x] = [i \in 1..0 |-> content[Cell(buf'[x], i)]]
      BY <2>1, <3>1
    <3> QED
      BY <2>3, <3>2
  <2>4. CASE x = v
    <3>1. size'[x] = size[w] /\ buf'[x] = buf[w]
      BY <1>1, <1>2, <2>4
    <3> QED
      BY <1>1, <2>1, <2>2, <2>4, <3>1
  <2>5. CASE x # v /\ x # w
    <3>1. size'[x] = size[x] /\ buf'[x] = buf[x]
      BY <1>1, <1>2, <2>5
    <3> QED
      BY <2>1, <2>2, <2>5, <3>1
  <2> QED
    BY <2>3, <2>4, <2>5
<1>4. Values' = [x \in Vectors |-> Values'[x]] /\ Values = [x \in Vectors |-> Values[x]]
  BY DEF Values
<1>5. Values' = [Values EXCEPT ![v] = Values[w], ![w] = <<>>]
  BY <1>3, <1>4
<1>6. TakesEffect([Values EXCEPT ![v] = Values[w], ![w] = <<>>], "returning")
  BY <1>5, NextPhases DEF TakesEffect, MoveFrom
<1> QED
  BY <1>6, EffectSteps

LEMMA swapSeen ==
    ASSUME VectorInv, pc = "idle", NEW v \in Vectors, NEW w \in Vectors, swap(v, w)
    PROVE  Abstract!Next
<1>1. /\ v # w /\ size' = [size EXCEPT ![v] = size[w], ![w] = size[v]]
      /\ buf' = [buf EXCEPT ![v] = buf[w], ![w] = buf[v]] /\ content' = content
  BY DEF swap
<1>2. size \in [Vectors -> 0..MaxLen] /\ buf \in [Vectors -> 0..Len(Capacity)]
  BY IdleFacts DEF TypeOK
<1>3. ASSUME NEW x \in Vectors
      PROVE  Values'[x] = IF x = w THEN Values[v] ELSE IF x = v THEN Values[w] ELSE Values[x]
  <2>1. Values'[x] = [i \in 1..size'[x] |-> content[Cell(buf'[x], i)]]
    BY <1>1 DEF Values
  <2>2. /\ Values[x] = [i \in 1..size[x] |-> content[Cell(buf[x], i)]]
        /\ Values[w] = [i \in 1..size[w] |-> content[Cell(buf[w], i)]]
        /\ Values[v] = [i \in 1..size[v] |-> content[Cell(buf[v], i)]]
    BY DEF Values
  <2>3. /\ size'[x] = IF x = w THEN size[v] ELSE IF x = v THEN size[w] ELSE size[x]
        /\ buf'[x] = IF x = w THEN buf[v] ELSE IF x = v THEN buf[w] ELSE buf[x]
    BY <1>1, <1>2
  <2> QED
    BY <2>1, <2>2, <2>3
<1>4. Values' = [x \in Vectors |-> Values'[x]] /\ Values = [x \in Vectors |-> Values[x]]
  BY DEF Values
<1>5. Values' = [Values EXCEPT ![v] = Values[w], ![w] = Values[v]]
  BY <1>3, <1>4
<1>6. TakesEffect([Values EXCEPT ![v] = Values[w], ![w] = Values[v]], "idle")
  BY <1>5, NextPhases DEF TakesEffect, swap
<1> QED
  BY <1>6, EffectSteps

LEMMA AssignSeen ==
    ASSUME VectorInv, pc = "idle", NEW v \in Vectors, NEW i \in 1..MaxLen,
           NEW p \in live \cup {Null}, Assign(v, i, p)
    PROVE  Abstract!Next
<1> DEFINE c == Cell(buf[v], i)
           u == Values[v]
           s == [u EXCEPT ![i] = p]
<1>1. i <= size[v] /\ content' = [content EXCEPT ![c] = p] /\ size' = size /\ buf' = buf
  BY DEF Assign
<1>2. TypeOK /\ content \in [Cells -> Objects \cup {Null, Junk}] /\ p \in Objects \cup {Null}
      /\ size[v] \in Nat /\ size[v] <= MaxLen /\ i \in 1..size[v]
  BY <1>1, IdleFacts, VectorFacts DEF TypeOK
<1>3. c \in Cells /\ Mine(v, c)
  BY <1>2, VectorFacts
<1>4. ASSUME NEW w \in Vectors, NEW j \in 1..size[w]
      PROVE  content'[Cell(buf[w], j)] = IF w = v /\ j = i THEN p ELSE content[Cell(buf[w], j)]
  <2>1. Cell(buf[w], j) \in Cells /\ Mine(w, Cell(buf[w], j))
    BY <1>2, VectorFacts
  <2>2. Cell(buf[w], j) = c <=> w = v /\ j = i
    <3>1. ASSUME Cell(buf[w], j) = c PROVE w = v /\ j = i
      <4>1. Cell(buf[w], j)[2] = j /\ c[2] = i
        BY CellFacts
      <4>2. Mine(w, c)
        BY <2>1, <3>1
      <4> QED
        BY <1>2, <1>3, <3>1, <4>1, <4>2, VectorFacts
    <3> QED
      BY <3>1
  <2> HIDE DEF c
  <2> QED
    BY <1>1, <1>2, <1>3, <2>1, <2>2
<1>5. u = [j \in 1..size[v] |-> content[Cell(buf[v], j)]]
  BY DEF Values
<1>6. s = [j \in 1..size[v] |-> IF j = i THEN p ELSE content[Cell(buf[v], j)]]
  BY <1>5
<1> HIDE DEF s, u, c
<1>7. s = [j \in 1..size[v] |-> content'[Cell(buf[v], j)]]
  BY <1>4, <1>6
<1>8. s = [j \in 1..size'[v] |-> content'[Cell(buf'[v], j)]]
  BY <1>1, <1>7
<1>9. \A w \in Vectors \ {v} :
          /\ size'[w] = size[w] /\ buf'[w] = buf[w]
          /\ \A j \in 1..size[w] : content'[Cell(buf[w], j)] = content[Cell(buf[w], j)]
  BY <1>1, <1>4
<1>10. Values' = [Values EXCEPT ![v] = s]
  BY <1>2, <1>8, <1>9, OneChanges
<1>11. i \in DOMAIN Values[v]
  BY <1>2, <1>5 DEF u
<1>12. Values' = [Values EXCEPT ![v] = [Values[v] EXCEPT ![i] = p]]
  BY <1>10 DEF s, u
<1>13. TakesEffect([Values EXCEPT ![v] = [Values[v] EXCEPT ![i] = p]], "idle")
  BY <1>12, NextPhases DEF TakesEffect, Assign
<1> QED
  BY <1>2, <1>11, <1>13, EffectSteps

LEMMA MoveAssignSeen ==
    ASSUME VectorInv, pc = "idle", NEW v \in Vectors, NEW w \in Vectors,
           NEW i \in 1..MaxLen, NEW j \in 1..MaxLen, MoveAssign(v, i, w, j)
    PROVE  Abstract!Next
<1> DEFINE c1 == Cell(buf[v], i)
           c2 == Cell(buf[w], j)
<1>1. /\ i <= size[v] /\ j <= size[w] /\ <<v, i>> # <<w, j>>
      /\ content' = [content EXCEPT ![c1] = content[c2], ![c2] = Null]
      /\ size' = size /\ buf' = buf
  BY DEF MoveAssign
<1>2. TypeOK /\ content \in [Cells -> Objects \cup {Null, Junk}]
      /\ i \in 1..size[v] /\ j \in 1..size[w]
  BY <1>1, IdleFacts, VectorFacts
<1>3. /\ c1 \in Cells /\ Mine(v, c1) /\ c1[2] = i
      /\ c2 \in Cells /\ Mine(w, c2) /\ c2[2] = j
  BY <1>2, VectorFacts, CellFacts
<1>4. ASSUME NEW x \in Vectors, NEW k \in 1..size[x]
      PROVE  content'[Cell(buf[x], k)] =
                IF x = w /\ k = j THEN Null
                ELSE IF x = v /\ k = i THEN content[c2] ELSE content[Cell(buf[x], k)]
  <2> DEFINE d == Cell(buf[x], k)
  <2>1. d \in Cells /\ Mine(x, d) /\ d[2] = k
    BY <1>2, VectorFacts, CellFacts
  <2>2. d = c1 <=> x = v /\ k = i
    <3>1. ASSUME d = c1 PROVE x = v /\ k = i
      <4> HIDE DEF d, c1
      <4> QED
        BY <1>2, <1>3, <2>1, <3>1, VectorFacts
    <3> QED
      BY <3>1
  <2>3. d = c2 <=> x = w /\ k = j
    <3>1. ASSUME d = c2 PROVE x = w /\ k = j
      <4> HIDE DEF d, c2
      <4> QED
        BY <1>2, <1>3, <2>1, <3>1, VectorFacts
    <3> QED
      BY <3>1
  <2> HIDE DEF d, c1, c2
  <2>4. content'[d] = IF d = c2 THEN Null ELSE IF d = c1 THEN content[c2] ELSE content[d]
    BY <1>1, <1>2, <1>3, <2>1
  <2>5. content'[d] = IF x = w /\ k = j THEN Null
                      ELSE IF x = v /\ k = i THEN content[c2] ELSE content[d]
    BY <2>2, <2>3, <2>4
  <2> QED
    BY <2>5 DEF d
<1>5. \A x \in Vectors : Values[x] = [k \in 1..size[x] |-> content[Cell(buf[x], k)]]
  BY DEF Values
<1>6. Values[w][j] = content[c2]
  BY <1>2, <1>5
<1> HIDE DEF c1, c2
<1>7. ASSUME NEW x \in Vectors
      PROVE  Values'[x] = [k \in 1..size[x] |->
                IF x = w /\ k = j THEN Null
                ELSE IF x = v /\ k = i THEN Values[w][j] ELSE Values[x][k]]
  <2>1. Values'[x] = [k \in 1..size[x] |-> content'[Cell(buf[x], k)]]
    BY <1>1 DEF Values
  <2>2. \A k \in 1..size[x] :
          content'[Cell(buf[x], k)] =
            (IF x = w /\ k = j THEN Null
             ELSE IF x = v /\ k = i THEN Values[w][j] ELSE Values[x][k])
    <3> SUFFICES ASSUME NEW k \in 1..size[x]
                 PROVE  content'[Cell(buf[x], k)] =
                          (IF x = w /\ k = j THEN Null
                           ELSE IF x = v /\ k = i THEN Values[w][j] ELSE Values[x][k])
      OBVIOUS
    <3>1. Values[x][k] = content[Cell(buf[x], k)]
      BY <1>5
    <3> QED
      BY <1>4, <1>6, <3>1
  <2> QED
    BY <2>1, <2>2
<1>8. Values' = [x \in Vectors |-> Values'[x]] /\ Values = [x \in Vectors |-> Values[x]]
  BY DEF Values
<1>9. Values' = [Values EXCEPT ![v][i] = Values[w][j], ![w][j] = Null]
  <2> DEFINE a == Values[w][j]
             F == [Values EXCEPT ![v] = [Values[v] EXCEPT ![i] = a]]
             G == [F EXCEPT ![w] = [F[w] EXCEPT ![j] = Null]]
  <2>1. \A x \in Vectors : DOMAIN Values[x] = 1..size[x]
        /\ Values[x] = [k \in 1..size[x] |-> Values[x][k]]
    BY <1>5
  <2>2. F = [x \in Vectors |-> [k \in 1..size[x] |-> IF x = v /\ k = i THEN a ELSE Values[x][k]]]
    <3> HIDE DEF a
    <3>1. \A x \in Vectors :
             F[x] = [k \in 1..size[x] |-> IF x = v /\ k = i THEN a ELSE Values[x][k]]
      BY <1>8, <2>1
    <3>2. F = [x \in Vectors |-> F[x]]
      BY <1>8
    <3> HIDE DEF F
    <3> QED
      BY <3>1, <3>2
  <2> HIDE DEF F, a
  <2>3. \A x \in Vectors : G[x] = [k \in 1..size[x] |->
            IF x = w /\ k = j THEN Null ELSE IF x = v /\ k = i THEN a ELSE Values[x][k]]
    BY <2>2
  <2>4. G = [x \in Vectors |-> G[x]]
    BY <2>2
  <2>5. Values' = G
    <3> HIDE DEF G
    <3>1. ASSUME NEW x \in Vectors PROVE Values'[x] = G[x]
      BY <1>7, <2>3 DEF a
    <3> QED
      BY <1>8, <2>4, <3>1
  <2> QED
    BY <2>5 DEF G, F, a
<1>10. i \in DOMAIN Values[v] /\ j \in DOMAIN Values[w]
  BY <1>2, <1>5
<1>11. TakesEffect([Values EXCEPT ![v][i] = Values[w][j], ![w][j] = Null], "idle")
  BY <1>9, NextPhases DEF TakesEffect, MoveAssign
<1> QED
  BY <1>10, <1>11, EffectSteps

LEMMA GrowSeen ==
    ASSUME VectorInv, VectorInv', pc = "idle", NEW v, NEW t, NEW local, Grow(v, t, local),
           \A c \in Elements : content'[c] = content[c]
    PROVE  Abstract!Next
<1>1. size' = size /\ buf' = buf /\ TypeOK /\ pc' = "build"
  BY IdleFacts DEF Grow, Begin
<1>2. Values' = Values
  BY <1>1, SameValues
<1> QED
  BY <1>1, <1>2, CallSeen

LEMMA emplace_newSeen ==
    ASSUME VectorInv, VectorInv', pc = "idle", NEW v \in Vectors, NEW p \in Objects,
           emplace_new(v, p)
    PROVE  Abstract!Next
<1>1. content \in [Cells -> Objects \cup {Null, Junk}] /\ Elements \subseteq Cells
      /\ Created \notin Elements
  BY IdleFacts, VectorFacts
<1>2. Grow(v, <<p>>, <<Created>>) /\ content' = [content EXCEPT ![Created] = p]
  BY DEF emplace_new, ConstructRoot, Root
<1>3. \A c \in Elements : content'[c] = content[c]
  BY <1>1, <1>2
<1> QED
  BY <1>2, <1>3, GrowSeen

LEMMA resizeSeen ==
    ASSUME VectorInv, VectorInv', pc = "idle", NEW v \in Vectors, NEW n \in 0..MaxLen, resize(v, n)
    PROVE  Abstract!Next
<1>1. size[v] \in Nat /\ n \in Nat /\ content' = content
  BY IdleFacts, VectorFacts, MaxLenBounds DEF resize
<1>2. CASE n < size[v]
  <2>1. Shrink(v, n, buf[v]) /\ n \in 0..size[v]
    BY <1>1, <1>2 DEF resize
  <2> QED
    BY <1>1, <2>1, ShrinkSeen
<1>3. CASE ~(n < size[v])
  <2> DEFINE t == [i \in 1..(n - size[v]) |-> Null]
  <2>1. Grow(v, t, <<>>)
    BY <1>3 DEF resize
  <2> HIDE DEF t
  <2> QED
    BY <1>1, <2>1, GrowSeen
<1> QED
  BY <1>2, <1>3

\* Copying over elements in place shows at once, as a copied prefix, and the copy
\* of the whole is what the call is for.
LEMMA CopyFromSeen ==
    ASSUME VectorInv, VectorInv', pc = "idle", NEW v \in Vectors, NEW w \in Vectors,
           CopyFrom(v, w)
    PROVE  Abstract!Next
<1> DEFINE k == Min({size[v], size[w]})
           s == [i \in DOMAIN Values[v] |-> IF i \in DOMAIN Values[w]
                                            THEN Values[w][i] ELSE Values[v][i]]
<1>1. /\ v # w /\ size' = size /\ buf' = buf /\ pc' = "build" /\ op'.v = v
      /\ ranges' = ranges /\ live' = live /\ args' = args
  BY DEF CopyFrom, Begin
<1>2. TypeOK /\ size[v] \in Nat /\ size[w] \in Nat /\ size[v] <= MaxLen
  BY IdleFacts, VectorFacts
<1>3. CASE content' = content
  <2>1. Values' = Values
    BY <1>1, <1>2, <1>3, SameValues
  <2> QED
    BY <1>1, <2>1, CallSeen
<1>4. CASE /\ size[w] <= capacity(v)
           /\ content' = [c \in Cells |-> IF c[1] = buf[v] /\ c[2] <= k
                                          THEN content[cells(w)[c[2]]] ELSE content[c]]
           /\ Begin(v, SubSeq(Copies(cells(w), buf[v]), k + 1, size[w]), size[w], buf[v],
                    SubSeq(cells(v), k + 1, size[v]), <<>>)
  <2>1. k = IF size[v] <= size[w] THEN size[v] ELSE size[w]
    BY <1>2, MinOfTwo
  <2> HIDE DEF k
  <2>3. ASSUME NEW x \in Vectors, NEW i \in 1..size[x]
        PROVE  content'[Cell(buf[x], i)] =
                  IF x = v /\ i <= k THEN content[cells(w)[i]] ELSE content[Cell(buf[x], i)]
    <3> DEFINE c == Cell(buf[x], i)
    <3>1. c \in Cells /\ Mine(x, c) /\ c[1] # 0
      BY <1>2, VectorFacts
    <3>2. c[1] = buf[x] /\ c[2] = i
      BY CellFacts
    <3> HIDE DEF c
    <3>3. c[1] = buf[v] <=> x = v
      BY <1>2, <3>1, <3>2 DEF TypeOK
    <3>4. content'[c] = IF x = v /\ i <= k THEN content[cells(w)[i]] ELSE content[c]
      BY <1>4, <3>1, <3>2, <3>3
    <3> QED
      BY <3>4 DEF c
  <2>4. s = [i \in 1..size[v] |-> IF i \in 1..size[w] THEN content[Cell(buf[w], i)]
                                  ELSE content[Cell(buf[v], i)]]
    <3>1. /\ DOMAIN Values[v] = 1..size[v] /\ DOMAIN Values[w] = 1..size[w]
          /\ \A i \in 1..size[v] : Values[v][i] = content[Cell(buf[v], i)]
          /\ \A i \in 1..size[w] : Values[w][i] = content[Cell(buf[w], i)]
      <4>1. ASSUME NEW x \in Vectors
            PROVE  /\ DOMAIN Values[x] = 1..size[x]
                   /\ \A i \in 1..size[x] : Values[x][i] = content[Cell(buf[x], i)]
        <5>1. Values[x] = [i \in 1..size[x] |-> content[Cell(buf[x], i)]]
          BY DEF Values
        <5> QED
          BY <5>1
      <4> QED
        BY <4>1
    <3>2. s = [i \in 1..size[v] |-> IF i \in 1..size[w] THEN Values[w][i] ELSE Values[v][i]]
      BY <3>1
    <3> HIDE DEF s
    <3> QED
      BY <3>1, <3>2
  <2>5. ASSUME NEW i \in 1..size[v] PROVE content'[Cell(buf[v], i)] = s[i]
    <3>1. i <= k <=> i \in 1..size[w]
      BY <1>2, <2>1
    <3>2. i \in 1..size[w] => cells(w)[i] = Cell(buf[w], i)
      BY DEF cells
    <3> HIDE DEF s
    <3> QED
      BY <2>3, <2>4, <3>1, <3>2
  <2> HIDE DEF s
  <2>6. s = [i \in 1..size'[v] |-> content'[Cell(buf'[v], i)]]
    <3>1. s = [i \in 1..size[v] |-> s[i]]
      BY <2>4
    <3>2. s = [i \in 1..size[v] |-> content'[Cell(buf[v], i)]]
      BY <2>5, <3>1
    <3> QED
      BY <1>1, <3>2
  <2>7. \A x \in Vectors \ {v} :
          /\ size'[x] = size[x] /\ buf'[x] = buf[x]
          /\ \A i \in 1..size[x] : content'[Cell(buf[x], i)] = content[Cell(buf[x], i)]
    BY <1>1, <2>3
  <2>8. Values' = [Values EXCEPT ![v] = s]
    BY <1>2, <2>6, <2>7, OneChanges
  <2>9. k = Min({size[v], size[w]})
    BY DEF k
  <2>10. /\ content' = [c \in Cells |-> content'[c]]
         /\ \A c \in Cells : content'[c] = IF c[1] = buf[v] /\ c[2] <= k
                                            THEN content[cells(w)[c[2]]] ELSE content[c]
    BY <1>4
  <2>11. Fulfils(op', Values', content', Values[w])
    BY <1>1, <1>4, <2>9, <2>10, CopyInPlace
  <2>12. Goal' = [Values' EXCEPT ![v] = Values[w]]
    BY <1>1, <2>11, NextGoalIs
  <2>13. Values = [x \in Vectors |-> Values[x]]
    BY DEF Values
  <2>14. Goal' = [Values EXCEPT ![v] = Values[w]]
    BY <2>8, <2>12, <2>13
  <2>15. Abstract!CopyInPlace(v, w)
    BY <1>1, <2>8, <2>14, Phases, NextPhases DEF Abstract!CopyInPlace, s
  <2> QED
    BY <2>15 DEF Abstract!Next
<1> QED
  BY <1>3, <1>4 DEF CopyFrom

LEMMA OperationSeen == VectorInv /\ VectorInv' /\ Operation => Abstract!Next
<1> SUFFICES ASSUME VectorInv, VectorInv', Operation PROVE Abstract!Next
  OBVIOUS
<1>1. pc = "idle"
  BY DEF Operation
<1>2. PICK v \in Vectors :
          \/ \E p \in live \cup {Null} : push_back(v, p)
          \/ \E p \in Objects : emplace_new(v, p)
          \/ \E n \in 0..MaxLen : resize(v, n)
          \/ pop_back(v) \/ clear(v)
          \/ \E i, n \in 1..MaxLen : erase(v, i, n)
          \/ \E b \in Buffers : Reallocate(v, b)
          \/ \E n \in 1..MaxLen : \E s \in [1..n -> live \cup {Null}] : Fill(v, s)
          \/ \E w \in Vectors : CopyFrom(v, w) \/ MoveFrom(v, w) \/ swap(v, w)
          \/ \E i \in 1..MaxLen, p \in live \cup {Null} : Assign(v, i, p)
          \/ \E i, j \in 1..MaxLen, w \in Vectors : MoveAssign(v, i, w, j)
  BY DEF Operation
<1>3. CASE \E p \in live \cup {Null} : push_back(v, p)
  BY <1>1, <1>3, GrowSeen DEF push_back
<1>4. CASE \E p \in Objects : emplace_new(v, p)
  BY <1>1, <1>4, emplace_newSeen
<1>5. CASE \E n \in 0..MaxLen : resize(v, n)
  BY <1>1, <1>5, resizeSeen
<1>6. CASE pop_back(v)
  BY <1>1, <1>6, pop_backSeen
<1>7. CASE clear(v)
  BY <1>1, <1>7, clearSeen
<1>8. CASE \E i, n \in 1..MaxLen : erase(v, i, n)
  BY <1>1, <1>8, eraseSeen
<1>9. CASE \E b \in Buffers : Reallocate(v, b)
  <2>1. size' = size /\ buf' = buf /\ content' = content /\ pc' = "build" /\ TypeOK
    BY <1>1, <1>9, IdleFacts DEF Reallocate, Begin
  <2>2. Values' = Values
    BY <2>1, SameValues
  <2> QED
    BY <1>1, <2>1, <2>2, CallSeen
<1>10. CASE \E n \in 1..MaxLen : \E s \in [1..n -> live \cup {Null}] : Fill(v, s)
  BY <1>1, <1>10, GrowSeen DEF Fill
<1>11. CASE \E w \in Vectors : CopyFrom(v, w)
  BY <1>1, <1>11, CopyFromSeen
<1>12. CASE \E w \in Vectors : MoveFrom(v, w)
  BY <1>1, <1>12, MoveFromSeen
<1>13. CASE \E w \in Vectors : swap(v, w)
  BY <1>1, <1>13, swapSeen
<1>14. CASE \E i \in 1..MaxLen, p \in live \cup {Null} : Assign(v, i, p)
  BY <1>1, <1>14, AssignSeen
<1>15. CASE \E i, j \in 1..MaxLen, w \in Vectors : MoveAssign(v, i, w, j)
  BY <1>1, <1>15, MoveAssignSeen
<1> QED
  BY <1>2, <1>3, <1>4, <1>5, <1>6, <1>7, <1>8, <1>9, <1>10, <1>11, <1>12, <1>13, <1>14, <1>15

\* gc_vector implements vectors of pointers on which a call that runs to its end
\* shows exactly the outcome it was made for, at once, and a call during which
\* register_root_range throws leaves every vector with the elements it had, but
\* for the common prefix that copy assignment within the capacity overwrites: for
\* any number of vectors, objects and buffers, whichever registration fails.
THEOREM VectorsRefine == Spec => AllOrNothing
<1>1. Init => Abstract!Init
  <2> SUFFICES ASSUME Init PROVE Abstract!Init
    OBVIOUS
  <2>1. ASSUME NEW v \in Vectors
        PROVE  [i \in 1..size[v] |-> content[Cell(buf[v], i)]] = <<>>
    <3>1. size[v] = 0
      BY DEF Init
    <3>2. [i \in 1..0 |-> content[Cell(buf[v], i)]] = <<>>
      OBVIOUS
    <3> QED
      BY <3>1, <3>2
  <2>2. Values = [v \in Vectors |-> <<>>]
    BY <2>1 DEF Values
  <2>3. pc = "idle"
    BY DEF Init
  <2> QED
    BY <2>2, <2>3, Phases DEF Abstract!Init
<1>2. VectorInv /\ VectorInv' /\ [Next]_vars => Abstract!Next \/ Unseen
  <2>1. UNCHANGED vars => Unseen
    BY DEF vars, Unseen, Values, Phase, Goal
  <2> QED
    BY <2>1, OperationSeen, BuildNextSeen, RegisterThrowsSeen, UndoSeen, CommitSeen, DropNextSeen,
       CollectSeen DEF Next
<1>3. VectorInv /\ VectorInv' /\ [Next]_vars => [Abstract!Next]_(Abstract!vars)
  BY <1>2 DEF Unseen, Abstract!vars
<1> QED
  BY <1>1, <1>3, VectorInvariant, PTL DEF Spec, AllOrNothing, Abstract!Spec
===============================================================================
