------------------------------ MODULE RootVector ------------------------------
(***************************************************************************)
(* gc_root and gc_vector.  A gc_root is a cell that registers its own      *)
(* address as a root range for as long as it exists; a gc_vector is a      *)
(* std::vector of them.  Registering and unregistering are safepoints, and *)
(* registering can run out of memory, so every operation that builds or    *)
(* destroys several cells can be interrupted by a collection between any   *)
(* two of them and can fail at each one.                                   *)
(*                                                                         *)
(* One thread operates on the vectors and another one collects.  The       *)
(* stack scan is left out on purpose: an exact root must not need it.  The *)
(* pointers passed in by the caller are held by the caller (args).         *)
(* std::vector is not in the repository; what is modelled is what its      *)
(* users may rely on: growth copies the old elements, because the move     *)
(* constructor of gc_root may throw, the new element is built before or    *)
(* after them, and a failure destroys what was built.                      *)
(***************************************************************************)
EXTENDS Integers, SequencesExt

CONSTANTS
    Vectors,
    Objects,
    Null,      \* the null pointer
    Junk,      \* content of memory that holds no gc_root
    Capacity   \* capacities of the buffers the allocator can provide

ASSUME RootVectorAssumption ==
    /\ Null \notin Objects /\ Junk \notin Objects \cup {Null}
    /\ Capacity \in Seq(Nat \ {0}) /\ Capacity # <<>>

Buffers == DOMAIN Capacity
Cell(b, i) == <<b, i>>
Created == Cell(0, 1)   \* the local variable of emplace_new
Cells == {Created} \cup UNION {{Cell(b, i) : i \in 1..Capacity[b]} : b \in Buffers}
MaxLen == Max({Capacity[b] : b \in Buffers})

VARIABLES
    size,     \* elements of each vector
    buf,      \* its buffer, or 0
    content,  \* the pointer in each cell
    ranges,   \* how often each cell is in registered_root_ranges_
    live,     \* objects not yet reclaimed
    args,     \* objects the caller holds during the call
    pc, op,   \* the operation in progress
    fresh     \* cells it has built

vars == <<size, buf, content, ranges, live, args, pc, op, fresh>>

Idle == [v |-> Null, build |-> <<>>, drop |-> <<>>, size |-> 0, buf |-> 0]

Init ==
    /\ size = [v \in Vectors |-> 0]
    /\ buf = [v \in Vectors |-> 0]
    /\ content = [c \in Cells |-> Junk]
    /\ ranges = [c \in Cells |-> 0]
    /\ live = {} /\ args = {}
    /\ pc = "idle" /\ op = Idle /\ fresh = <<>>

cells(v) == [i \in 1..size[v] |-> Cell(buf[v], i)]
capacity(v) == IF buf[v] = 0 THEN 0 ELSE Capacity[buf[v]]
FreeBuffers == Buffers \ {buf[v] : v \in Vectors}

-------------------------------------------------------------------------------
(* gc_root *)

\* A plan to build a root in a cell: its value, and the root it is copied from.
Root(cell, value, from) == [cell |-> cell, value |-> value, from |-> from]
Copies(from, b) == [i \in DOMAIN from |-> Root(Cell(b, i), content[from[i]], from[i])]
Roots(b, after, s) == [i \in DOMAIN s |-> Root(Cell(b, after + i), s[i], Created)]

\* gc_root(gc_root&&), had vector growth used it.
MoveRoot(r) ==
    /\ content' = [content EXCEPT ![r.from] = IF r.from = Created THEN @ ELSE Null,
                                  ![r.cell] = r.value]
    /\ ranges' = [ranges EXCEPT ![r.cell] = @ + 1]

\* The pointer is in place before the range is published, and the range is
\* published before the thread can park.
ConstructRoot(r) ==
    /\ content' = [content EXCEPT ![r.cell] = r.value]
    /\ ranges' = [ranges EXCEPT ![r.cell] = @ + 1]

\* The range stays registered.
DestroyKeepsRange(c) ==
    /\ ranges' = ranges
    /\ content' = [content EXCEPT ![c] = Junk]

\* unregister_self parks first; the range goes after that.
DestroyRoot(c) ==
    /\ ranges' = [ranges EXCEPT ![c] = IF @ > 0 THEN @ - 1 ELSE @]
    /\ content' = [content EXCEPT ![c] = Junk]

-------------------------------------------------------------------------------
(* Operations: what to build, what the vector is then, what to destroy *)

Begin(v, build, n, b, drop, local) ==
    /\ pc' = "build" /\ fresh' = local
    /\ op' = [v |-> v, build |-> build, size |-> n, buf |-> b, drop |-> drop \o local]
    /\ UNCHANGED <<size, buf>>

\* Appending the values s, in place or in a larger buffer with the new elements
\* built first or last.  The roots in local go when the call ends, either way.
Grow(v, s, local) ==
    LET n == size[v] + Len(s)
    IN  IF n <= capacity(v)
        THEN Begin(v, Roots(buf[v], size[v], s), n, buf[v], <<>>, local)
        ELSE \E b \in FreeBuffers :
                /\ n <= Capacity[b]
                /\ \/ Begin(v, Roots(b, size[v], s) \o Copies(cells(v), b), n, b, cells(v), local)
                   \/ Begin(v, Copies(cells(v), b) \o Roots(b, size[v], s), n, b, cells(v), local)

\* The elements after the first n are given up and then destroyed.
Shrink(v, n, b) ==
    /\ size' = [size EXCEPT ![v] = n]
    /\ buf' = [buf EXCEPT ![v] = b]
    /\ pc' = "drop" /\ fresh' = <<>>
    /\ op' = [Idle EXCEPT !.drop = SubSeq(cells(v), n + 1, size[v])]

push_back(v, p) ==
    /\ Grow(v, <<p>>, <<>>)
    /\ args' = {p} \ {Null}
    /\ UNCHANGED <<content, ranges, live>>

\* emplace_new without the local root.
EmplaceUnrooted(v, p) ==
    /\ p \notin live /\ live' = live \cup {p}
    /\ Grow(v, <<p>>, <<>>)
    /\ UNCHANGED <<content, ranges, args>>

\* gc_new, the local root, and push_back of that root.  Nothing parks between
\* the end of gc_new and the registration of the local root.
emplace_new(v, p) ==
    /\ p \notin live /\ live' = live \cup {p}
    /\ Grow(v, <<p>>, <<Created>>)
    /\ ConstructRoot(Root(Created, p, Created))
    /\ UNCHANGED args

resize(v, n) ==
    /\ n # size[v]
    /\ IF n < size[v] THEN Shrink(v, n, buf[v])
       ELSE Grow(v, [i \in 1..(n - size[v]) |-> Null], <<>>)
    /\ UNCHANGED <<content, ranges, live, args>>

pop_back(v) ==
    /\ size[v] > 0
    /\ Shrink(v, size[v] - 1, buf[v])
    /\ UNCHANGED <<content, ranges, live, args>>

\* clear keeps the buffer, ~gc_vector does not.
clear(v) ==
    /\ buf[v] # 0
    /\ Shrink(v, 0, buf[v]) \/ Shrink(v, 0, 0)
    /\ UNCHANGED <<content, ranges, live, args>>

\* The elements behind the gap are moved down one by one, without a safepoint,
\* and the last ones destroyed.
erase(v, i, n) ==
    LET m == size[v] - n
    IN  /\ n > 0 /\ i + n - 1 <= size[v]
        /\ content' = [c \in Cells |->
             IF c[1] # buf[v] \/ c[2] < i \/ c[2] > size[v] THEN content[c]
             ELSE IF c[2] <= m THEN content[Cell(c[1], c[2] + n)] ELSE Null]
        /\ Shrink(v, m, buf[v])
        /\ UNCHANGED <<ranges, live, args>>

\* reserve and shrink_to_fit: the same elements in another buffer.
Reallocate(v, b) ==
    /\ b \in FreeBuffers /\ Capacity[b] >= size[v] /\ size[v] > 0
    /\ Begin(v, Copies(cells(v), b), size[v], b, cells(v), <<>>)
    /\ UNCHANGED <<content, ranges, live, args>>

\* A new vector from an initializer list, with its pointers held by the caller.
Fill(v, s) ==
    /\ buf[v] = 0
    /\ Grow(v, s, <<>>)
    /\ args' = Range(s) \ {Null}
    /\ UNCHANGED <<content, ranges, live>>

\* Copy construction and copy assignment: into a new buffer if the old one is
\* too small, else over the existing elements, building or destroying the rest.
CopyFrom(v, w) ==
    LET s == cells(w)
        k == Min({size[v], size[w]})
    IN  /\ v # w
        /\ \/ /\ size[w] > capacity(v)
              /\ \E b \in FreeBuffers : size[w] <= Capacity[b]
                                          /\ Begin(v, Copies(s, b), size[w], b, cells(v), <<>>)
              /\ UNCHANGED content
           \/ /\ size[w] <= capacity(v)
              /\ content' = [c \in Cells |-> IF c[1] = buf[v] /\ c[2] <= k
                                             THEN content[s[c[2]]] ELSE content[c]]
              /\ Begin(v, SubSeq(Copies(s, buf[v]), k + 1, size[w]), size[w], buf[v],
                       SubSeq(cells(v), k + 1, size[v]), <<>>)
        /\ UNCHANGED <<ranges, live, args>>

\* The buffer changes hands and its cells stay where they are registered; the
\* previous elements of v are destroyed.
MoveFrom(v, w) ==
    /\ v # w
    /\ size' = [size EXCEPT ![v] = size[w], ![w] = 0]
    /\ buf' = [buf EXCEPT ![v] = buf[w], ![w] = 0]
    /\ pc' = "drop" /\ fresh' = <<>>
    /\ op' = [Idle EXCEPT !.drop = cells(v)]
    /\ UNCHANGED <<content, ranges, live, args>>

swap(v, w) ==
    /\ v # w
    /\ size' = [size EXCEPT ![v] = size[w], ![w] = size[v]]
    /\ buf' = [buf EXCEPT ![v] = buf[w], ![w] = buf[v]]
    /\ UNCHANGED <<content, ranges, live, args, pc, op, fresh>>

\* operator=(gc_root&&) between elements; assigning an element to itself is a no-op.
MoveAssign(v, i, w, j) ==
    /\ i <= size[v] /\ j <= size[w] /\ <<v, i>> # <<w, j>>
    /\ content' = [content EXCEPT ![Cell(buf[v], i)] = content[Cell(buf[w], j)],
                                  ![Cell(buf[w], j)] = Null]
    /\ UNCHANGED <<size, buf, ranges, live, args, pc, op, fresh>>

\* operator= on an element, from a pointer, from null or from another root.
Assign(v, i, p) ==
    /\ i <= size[v]
    /\ content' = [content EXCEPT ![Cell(buf[v], i)] = p]
    /\ UNCHANGED <<size, buf, ranges, live, args, pc, op, fresh>>

-------------------------------------------------------------------------------
(* The operation in progress *)

BuildNext ==
    /\ pc = "build" /\ op.build # <<>>
    /\ ConstructRoot(Head(op.build))
    /\ fresh' = Append(fresh, Head(op.build).cell)
    /\ op' = [op EXCEPT !.build = Tail(@)]
    /\ UNCHANGED <<size, buf, live, args, pc>>

\* register_root_range cannot grow its vector.
RegisterThrows ==
    /\ pc = "build" /\ op.build # <<>>
    /\ pc' = "undo"
    /\ UNCHANGED <<size, buf, content, ranges, live, args, op, fresh>>

Undo ==
    /\ pc = "undo"
    /\ IF fresh # <<>>
       THEN /\ DestroyRoot(Last(fresh))
            /\ fresh' = Front(fresh)
            /\ UNCHANGED <<pc, op, args>>
       ELSE /\ pc' = "idle" /\ op' = Idle /\ args' = {}
            /\ UNCHANGED <<content, ranges, fresh>>
    /\ UNCHANGED <<size, buf, live>>

Commit ==
    /\ pc = "build" /\ op.build = <<>>
    /\ size' = [size EXCEPT ![op.v] = op.size]
    /\ buf' = [buf EXCEPT ![op.v] = op.buf]
    /\ pc' = "drop"
    /\ UNCHANGED <<content, ranges, live, args, op, fresh>>

DropNext ==
    /\ pc = "drop"
    /\ IF op.drop # <<>>
       THEN /\ DestroyRoot(Head(op.drop))
            /\ op' = [op EXCEPT !.drop = Tail(@)]
            /\ UNCHANGED <<pc, fresh, args>>
       ELSE /\ pc' = "idle" /\ op' = Idle /\ fresh' = <<>> /\ args' = {}
            /\ UNCHANGED <<content, ranges>>
    /\ UNCHANGED <<size, buf, live>>

\* The collecting thread keeps what the registered cells point to.
Collect ==
    /\ live' = live \cap (args \cup {content[c] : c \in {d \in Cells : ranges[d] > 0}})
    /\ live' # live
    /\ UNCHANGED <<size, buf, content, ranges, args, pc, op, fresh>>

Operation ==
    /\ pc = "idle"
    /\ \E v \in Vectors :
          \/ \E p \in live \cup {Null} : push_back(v, p)
          \/ \E p \in Objects : emplace_new(v, p)
          \/ \E n \in 0..MaxLen : resize(v, n)
          \/ pop_back(v) \/ clear(v)
          \/ \E i, n \in 1..MaxLen : erase(v, i, n)
          \/ \E b \in Buffers : Reallocate(v, b)
          \/ \E n \in 1..MaxLen : \E s \in [1..n -> live \cup {Null}] : Fill(v, s)
          \/ \E w \in Vectors : CopyFrom(v, w) \/ MoveFrom(v, w) \/ swap(v, w)
          \/ \E i \in 1..MaxLen, p \in live \cup {Null} : Assign(v, i, p)
          \/ \E i, j \in 1..MaxLen, w \in Vectors : MoveAssign(v, i, w, j)

Next == Operation \/ BuildNext \/ RegisterThrows \/ Undo \/ Commit \/ DropNext \/ Collect

Spec == Init /\ [][Next]_vars

-------------------------------------------------------------------------------
(* Properties *)

Elements == {c \in Cells : \E v \in Vectors : c[1] = buf[v] /\ c[2] <= size[v]}

\* Vectors own different buffers and fit into them.
TypeOK ==
    /\ size \in [Vectors -> 0..MaxLen] /\ buf \in [Vectors -> 0..Len(Capacity)]
    /\ \A v, w \in Vectors : size[v] <= capacity(v) /\ (v # w /\ buf[v] # 0 => buf[v] # buf[w])
    /\ content \in [Cells -> Objects \cup {Null, Junk}]
    /\ ranges \in [Cells -> Nat]
    /\ live \subseteq Objects /\ args \subseteq Objects
    /\ pc \in {"idle", "build", "undo", "drop"}

\* Between operations the registered ranges are the elements, each once: none is
\* missing after growth, erasure or a failure, and none is left behind in memory
\* that has been given back.
RangesAreElements ==
    pc = "idle" => ranges = [c \in Cells |-> IF c \in Elements THEN 1 ELSE 0]

\* Whatever a root points to has not been reclaimed, also in the middle of an
\* operation, without help from the stack scan.
RootsProtect == \A c \in Cells : content[c] # Junk => content[c] \in live \cup {Null}

\* The vectors as the client sees them, what the operation in progress will make
\* of them if nothing throws, and how far it is.
Values == [v \in Vectors |-> [i \in 1..size[v] |-> content[Cell(buf[v], i)]]]

Outcome(o, con) ==
    [i \in 1..o.size |->
        IF \E k \in DOMAIN o.build : o.build[k].cell = Cell(o.buf, i)
        THEN o.build[CHOOSE k \in DOMAIN o.build : o.build[k].cell = Cell(o.buf, i)].value
        ELSE con[Cell(o.buf, i)]]

Goal == IF pc = "build" THEN [Values EXCEPT ![op.v] = Outcome(op, content)] ELSE Values

Phase ==
    CASE pc = "idle" -> "idle"
      [] pc = "build" -> "calling"
      [] pc = "undo" -> "failing"
      [] pc = "drop" -> "returning"

\* Seen from outside, an operation that is carried out shows all of the outcome
\* it was called for, and one during which register_root_range throws leaves
\* every vector as it was, but for the prefix that copy assignment within the
\* capacity has overwritten.
Abstract == INSTANCE PointerVectors WITH
    Pointers <- Objects, values <- Values, phase <- Phase, goal <- Goal

AllOrNothing == Abstract!Spec
===============================================================================
