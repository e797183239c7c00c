-------------------------------- MODULE Layout --------------------------------
(***************************************************************************)
(* Where things lie in a block: construct_array computes the payload of an *)
(* array, malloc_internal the block around a payload, ChunkHeader packs    *)
(* the result into narrow fields, and everyone else (payload_begin,        *)
(* free_block_memory, the byte counters, the array's destructor) works     *)
(* from those fields.  One behaviour is one allocation.                    *)
(*                                                                         *)
(* size_t and addresses are numbers up to MaxWord and sums wrap.  The mask *)
(* & ~(alignment - 1) clears the remainder, alignments being powers of 2.  *)
(***************************************************************************)
EXTENDS Integers

CONSTANTS
    Bits,        \* width of size_t
    HeaderSize,  \* sizeof(ChunkHeader)
    WordSize,    \* sizeof(size_t), also its alignment
    MaxAlign,    \* alignof(max_align_t)
    MaxOffset    \* numeric_limits<uint16_t>::max()

Powers == {2^k : k \in 0..(Bits - 1)}

\* The static_asserts of ChunkHeader, and what the platform promises.
ASSUME LayoutAssumption ==
    /\ Bits \in Nat \ {0}
    /\ {HeaderSize, WordSize, MaxAlign} \subseteq Powers
    /\ HeaderSize >= WordSize
    /\ MaxOffset \in HeaderSize..(2^Bits - 1)

\* What the powers are, for provers that do not know exponentiation.
ASSUME PowersDouble == \A k \in 1..Bits : 2^k = 2 * 2^(k - 1)

MaxWord == 2^Bits - 1
Plus(a, b) == (a + b) % (MaxWord + 1)
Times(a, b) == (a * b) % (MaxWord + 1)

VARIABLES
    type,        \* sizeof(T) and alignof(T)
    elements,    \* the count of construct_array, or Single for gc_new
    ask,         \* arguments of malloc_internal: payload_size and alignment
    prefix_size, \* array_elements_offset<T>(), 0 for gc_new
    raw,         \* the address, size and alignment operator new was called with
    header,      \* size, payload_offset and alignment_shift
    phase

layoutVars == <<type, elements, ask, prefix_size, raw, header, phase>>

Single == -1
Zero == [size |-> 0, alignment |-> 1]
NoBlock == [base |-> 0, size |-> 0, alignment |-> MaxAlign]
NoHeader == [size |-> 0, payload_offset |-> 0, alignment_shift |-> 0]

\* A C++ type: its size is a positive multiple of its alignment.
Types == {y \in [size : 1..MaxWord, alignment : Powers] : y.size % y.alignment = 0}

LayoutInit ==
    /\ type \in Types
    /\ elements \in {Single} \cup (0..MaxWord)
    /\ ask = Zero /\ prefix_size = 0
    /\ raw = NoBlock /\ header = NoHeader
    /\ phase = "call"

\* One too careful.
AddWouldReachLimit(lhs, rhs) == lhs >= MaxWord - rhs

add_would_overflow(lhs, rhs) == lhs > MaxWord - rhs

multiply_would_overflow(lhs, rhs) == rhs # 0 /\ lhs > MaxWord \div rhs

\* (value + alignment - 1) & ~(alignment - 1)
RoundUp(value, alignment) ==
    LET sum == Plus(value, alignment - 1) IN sum - (sum % alignment)

has_single_bit(x) == x \in Powers

array_elements_offset == RoundUp(WordSize, type.alignment)

Larger(a, b) == IF a >= b THEN a ELSE b

-------------------------------------------------------------------------------
\* bad_alloc, or no array for no elements.
Reject ==
    /\ phase' = "rejected"
    /\ UNCHANGED <<type, elements, ask, prefix_size, raw, header>>

gc_new ==
    /\ phase = "call" /\ elements = Single
    /\ ask' = type
    /\ phase' = "malloc"
    /\ UNCHANGED <<type, elements, prefix_size, raw, header>>

construct_array ==
    /\ phase = "call" /\ elements # Single
    /\ LET elems_size == Times(type.size, elements)
       IN  IF \/ elements = 0
              \/ multiply_would_overflow(type.size, elements)
              \/ add_would_overflow(array_elements_offset, elems_size)
           THEN Reject
           ELSE /\ prefix_size' = array_elements_offset
                /\ ask' = [size |-> Plus(array_elements_offset, elems_size),
                           alignment |-> Larger(type.alignment, WordSize)]
                /\ phase' = "malloc"
                /\ UNCHANGED <<type, elements, raw, header>>

normalize_alignment(alignment) == Larger(alignment, MaxAlign)

\* The memory is wherever the allocator has room for it, suitably aligned.
Bases(n, alignment) == {a \in 1..MaxWord : a % alignment = 0 /\ a + n <= MaxWord}

\* static_cast to uint16_t, and countr_zero into a uint8_t.
Pack(size, offset, alignment) ==
    [size |-> size, payload_offset |-> offset % (MaxOffset + 1),
     alignment_shift |-> CHOOSE k \in 0..(Bits - 1) : 2^k = alignment]

\* malloc_internal that lets the offset be cut to 16 bits.
MallocTruncates ==
    /\ phase = "malloc"
    /\ LET alignment == normalize_alignment(ask.alignment)
           p_offset == RoundUp(HeaderSize, alignment)
           total_size == Plus(p_offset, ask.size)
       IN  IF add_would_overflow(p_offset, ask.size)
           THEN Reject
           ELSE \E base \in Bases(total_size, alignment) :
                   /\ raw' = [base |-> base, size |-> total_size, alignment |-> alignment]
                   /\ header' = Pack(ask.size, p_offset, alignment)
                   /\ phase' = "allocated"
                   /\ UNCHANGED <<type, elements, ask, prefix_size>>

malloc_internal ==
    /\ phase = "malloc"
    /\ LET alignment == normalize_alignment(ask.alignment)
           p_offset == RoundUp(HeaderSize, alignment)
           total_size == Plus(p_offset, ask.size)
       IN  IF \/ ask.size = 0 \/ ~has_single_bit(ask.alignment)
              \/ add_would_overflow(HeaderSize, alignment - 1)
              \/ p_offset > MaxOffset
              \/ add_would_overflow(p_offset, ask.size)
           THEN Reject
           ELSE \E base \in Bases(total_size, alignment) :
                   /\ raw' = [base |-> base, size |-> total_size, alignment |-> alignment]
                   /\ header' = Pack(ask.size, p_offset, alignment)
                   /\ phase' = "allocated"
                   /\ UNCHANGED <<type, elements, ask, prefix_size>>

LayoutNext == gc_new \/ construct_array \/ malloc_internal

LayoutSpec == LayoutInit /\ [][LayoutNext]_layoutVars

-------------------------------------------------------------------------------
(* What is read back from the header *)

payload_begin == Plus(raw.base, header.payload_offset)
payload_end == Plus(payload_begin, header.size)
block_allocation_size == Plus(header.payload_offset, header.size)
allocation_alignment == 2^header.alignment_shift
Element(i) == Plus(Plus(payload_begin, prefix_size), Times(i, type.size))

(* Properties *)

\* Fields in their ranges, and never less than the platform's own alignment.
LayoutTypeOK ==
    /\ type \in Types /\ elements \in Single..MaxWord
    /\ prefix_size \in 0..MaxWord
    /\ ask.size \in 0..MaxWord /\ ask.alignment \in Powers
    /\ raw.base + raw.size \in 0..MaxWord
    /\ raw.alignment \in {p \in Powers : p >= MaxAlign}
    /\ header.payload_offset \in 0..MaxOffset
    /\ phase \in {"call", "malloc", "allocated", "rejected"}

\* In the memory that was obtained lie, one after the other and without
\* overlap, the header, the count prefix of an array and all the elements, each
\* aligned for its type; and the header gives operator delete and the byte
\* counters back the alignment and size that operator new was called with.
LayoutSound ==
    phase = "allocated" =>
        /\ raw.base + HeaderSize <= payload_begin
        /\ raw.base <= payload_end /\ payload_end = raw.base + raw.size
        /\ block_allocation_size = raw.size
        /\ allocation_alignment = raw.alignment
        /\ elements # Single => prefix_size >= WordSize /\ payload_begin % WordSize = 0
        /\ LET n == IF elements = Single THEN 1 ELSE elements
           IN  /\ payload_begin + prefix_size + n * type.size = payload_end
               /\ Element(0) % type.alignment = 0

\* A request is turned down only if its true size cannot be represented, its
\* alignment does not fit the header, or it is for no elements.
RejectsOnlyImpossible ==
    phase = "rejected" =>
        LET n == IF elements = Single THEN 1 ELSE elements
            front == IF elements = Single THEN 0 ELSE Larger(WordSize, type.alignment)
            offset == Larger(HeaderSize, Larger(type.alignment, MaxAlign))
        IN  \/ n = 0
            \/ offset > MaxOffset
            \/ offset + front + n * type.size > MaxWord
===============================================================================
