----------------------------- MODULE RootScanner ------------------------------
(***************************************************************************)
(* Reading root memory word by word: scan_words over one range, and the    *)
(* scans that call it, over an explicit range, over the stack of a parked  *)
(* thread, and over the registers, the stack and the writable segments of  *)
(* the loaded images for the collecting thread (the Linux build).          *)
(*                                                                         *)
(* Addresses are numbers up to MaxWord and arithmetic on them wraps.  The  *)
(* values of the words are left out: what matters is which are visited.    *)
(***************************************************************************)
EXTENDS Integers, SequencesExt

CONSTANTS
    MaxWord,     \* the last address, UINTPTR_MAX
    word_size,   \* sizeof(std::uintptr_t)
    Poisoned,    \* addresses of words ASan would report; {} in other builds
    FakeFrames,  \* ASan's fake stack frames: begin, end and the real stack top
    Registers,   \* where the jmp_buf lies
    Marker,      \* the address of local_marker
    Segments,    \* program headers the loader may report
    MaxImages    \* bound: how many of them it reports

Address == 0..MaxWord

ASSUME RootScannerAssumption ==
    /\ MaxWord \in Nat /\ word_size \in 1..MaxWord /\ MaxImages \in Nat
    /\ FakeFrames \subseteq [begin : Address, end : Address, real : Address]
    /\ Registers \in Address \X Address
    /\ Marker \in Address
    /\ Segments \subseteq [load : BOOLEAN, rw : BOOLEAN, addr : Address,
                           vaddr : Address, memsz : Address]

Plus(a, b) == (a + b) % (MaxWord + 1)
Minus(a, b) == (a - b) % (MaxWord + 1)

VARIABLES
    pc,          \* "call", "next", "words", then "done" or "threw"
    ranges,      \* ranges still to be scanned
    images,      \* segments still to be scanned, in the order of the loader
    cur, finish, \* the loop variable of scan_words and its limit
    visited,     \* words handed to the visitor
    in_loader,   \* inside dl_iterate_phdr, under the loader's lock
    error,       \* LinuxScanContext::error is set
    expected     \* history: words this scan should visit

scanVars == <<pc, ranges, images, cur, finish, visited, in_loader, error, expected>>

ScanInit ==
    /\ pc = "call"
    /\ ranges = <<>> /\ images = <<>>
    /\ cur = 0 /\ finish = 0
    /\ visited = {} /\ expected = {}
    /\ in_loader = FALSE /\ error = FALSE

-------------------------------------------------------------------------------
(* What the documentation of scan_range asks for, in plain arithmetic *)

WordsIn(r) ==
    LET low == Min({r[1], r[2]})
        high == Max({r[1], r[2]})
    IN  IF r[1] = 0 \/ r[2] = 0 THEN {}
        ELSE {a \in low..high : a % word_size = 0 /\ a + word_size <= high} \ Poisoned

Base(g) == Plus(g.addr, g.vaddr)

SegmentWords(g) ==
    IF g.load /\ g.rw /\ Base(g) + g.memsz <= MaxWord
    THEN WordsIn(<<Base(g), Base(g) + g.memsz>>) ELSE {}

Begin(rs, gs) ==
    /\ pc = "call" /\ pc' = "next"
    /\ ranges' = rs /\ images' = gs
    /\ expected' = UNION ({WordsIn(r) : r \in Range(rs)} \cup {SegmentWords(g) : g \in Range(gs)})
    /\ UNCHANGED <<cur, finish, visited, in_loader, error>>

-------------------------------------------------------------------------------
(* Entry points *)

scan_range(begin, end) == Begin(<<<<begin, end>>>>, <<>>)

\* With the frame in ASan's fake stack, that frame and then the real stack.
scan_stack_range(top, bottom) ==
    IF top = 0 \/ bottom = 0 THEN <<>>
    ELSE LET frames == {f \in FakeFrames : f.begin <= top /\ top < f.end}
         IN  IF frames = {} THEN <<<<top, bottom>>>>
             ELSE LET f == CHOOSE f \in frames : TRUE
                  IN  <<<<f.begin, f.end>>, <<f.real, bottom>>>>

scan_thread_stack(top, bottom) == Begin(scan_stack_range(top, bottom), <<>>)

scan(bottom, gs) == Begin(<<Registers>> \o scan_stack_range(Marker, bottom), gs)

-------------------------------------------------------------------------------
(* scan_words *)

Low(r) == Min({r[1], r[2]})
High(r) == Max({r[1], r[2]})

Padding(r) == (word_size - (Low(r) % word_size)) % word_size

\* Compares after adding.
SkipsByAdding(r) == r[1] = 0 \/ r[2] = 0 \/ Plus(Low(r), Padding(r)) > High(r)

\* The early returns: a null endpoint, or an end before the first aligned word.
Skips(r) == r[1] = 0 \/ r[2] = 0 \/ Minus(High(r), Low(r)) < Padding(r)

\* From the beginning of scan_words to its loop.
scan_words(r) ==
    /\ pc' = IF Skips(r) THEN "next" ELSE "words"
    /\ cur' = IF Skips(r) THEN cur ELSE Plus(Low(r), Padding(r))
    /\ finish' = IF Skips(r) THEN finish ELSE High(r)

\* cur + word_size <= finish
RemainsByAdding == Plus(cur, word_size) <= finish

\* finish - cur >= word_size
WordRemains == Minus(finish, cur) >= word_size

\* A poisoned word is skipped without advancing.
VisitStuck ==
    /\ pc = "words" /\ WordRemains
    /\ visited' = IF cur \in Poisoned THEN visited ELSE visited \cup {cur}
    /\ cur' = IF cur \in Poisoned THEN cur ELSE Plus(cur, word_size)
    /\ UNCHANGED <<pc, ranges, images, finish, in_loader, error, expected>>

VisitWord ==
    /\ pc = "words" /\ WordRemains
    /\ visited' = IF cur \in Poisoned THEN visited ELSE visited \cup {cur}
    /\ cur' = Plus(cur, word_size)
    /\ UNCHANGED <<pc, ranges, images, finish, in_loader, error, expected>>

EndOfWords ==
    /\ pc = "words" /\ ~WordRemains
    /\ pc' = "next"
    /\ UNCHANGED <<ranges, images, cur, finish, visited, in_loader, error, expected>>

\* The exception of the visitor leaves through the loader.
ThrowsThroughLoader ==
    /\ pc = "words" /\ WordRemains /\ cur \notin Poisoned
    /\ pc' = "threw"
    /\ UNCHANGED <<ranges, images, cur, finish, visited, in_loader, error, expected>>

\* The visitor runs out of memory.  Under the loader the exception is kept, and
\* the callback returns 1, which ends the iteration; elsewhere it goes straight
\* to the caller.
VisitorThrows ==
    /\ pc = "words" /\ WordRemains /\ cur \notin Poisoned
    /\ IF in_loader
       THEN /\ pc' = "next" /\ error' = TRUE /\ images' = <<>>
       ELSE /\ pc' = "threw" /\ UNCHANGED <<error, images>>
    /\ UNCHANGED <<ranges, cur, finish, visited, in_loader, expected>>

-------------------------------------------------------------------------------
(* The ranges, then the images *)

\* The next scan_words: registers, then a fake frame, then the stack.
NextRange ==
    /\ pc = "next" /\ ranges # <<>>
    /\ scan_words(Head(ranges))
    /\ ranges' = Tail(ranges)
    /\ UNCHANGED <<images, visited, in_loader, error, expected>>

\* Only writable loaded segments, and none that would wrap.
SkipsSegment(g) == ~g.load \/ ~g.rw \/ g.memsz = 0 \/ g.memsz > MaxWord - Base(g)

scan_linux_image ==
    /\ pc = "next" /\ ranges = <<>> /\ images # <<>>
    /\ LET g == Head(images)
       IN  IF SkipsSegment(g) THEN UNCHANGED <<pc, cur, finish>>
           ELSE scan_words(<<Base(g), Plus(Base(g), g.memsz)>>)
    /\ images' = Tail(images)
    /\ in_loader' = TRUE
    /\ UNCHANGED <<ranges, visited, error, expected>>

\* The error is dropped.
ReturnQuietly ==
    /\ pc = "next" /\ ranges = <<>> /\ images = <<>>
    /\ pc' = "done" /\ in_loader' = FALSE
    /\ UNCHANGED <<ranges, images, cur, finish, visited, error, expected>>

\* dl_iterate_phdr has returned; a kept exception is thrown again.
Return ==
    /\ pc = "next" /\ ranges = <<>> /\ images = <<>>
    /\ pc' = IF error THEN "threw" ELSE "done"
    /\ in_loader' = FALSE
    /\ UNCHANGED <<ranges, images, cur, finish, visited, error, expected>>

-------------------------------------------------------------------------------
Step == VisitWord \/ EndOfWords \/ VisitorThrows \/ NextRange \/ scan_linux_image \/ Return

ScanNext ==
    \/ \E a, b \in Address : scan_range(a, b) \/ scan_thread_stack(a, b)
    \/ \E b \in Address, gs \in SeqOf(Segments, MaxImages) : scan(b, gs)
    \/ Step

\* A scan that was started runs on by itself.
ScanSpec == ScanInit /\ [][ScanNext]_scanVars /\ WF_scanVars(Step)

-------------------------------------------------------------------------------
(* Properties *)

\* Reads are aligned.
ScanTypeOK ==
    /\ pc \in {"call", "next", "words", "done", "threw"}
    /\ cur \in Address /\ finish \in Address
    /\ pc = "words" => cur % word_size = 0
    /\ visited \subseteq Address /\ expected \subseteq Address
    /\ in_loader \in BOOLEAN /\ error \in BOOLEAN

\* No word outside the ranges asked for is ever read, wherever in the address
\* space they lie: padding and the last partial word do not wrap around.
ReadsInBounds == visited \subseteq expected

\* A scan that returns has read every complete aligned word of every range, and
\* a visitor's exception was not lost.
ScanComplete == pc = "done" => visited = expected /\ ~error

\* No exception unwinds through the C code of the loader while it holds its lock.
LoaderNotUnwound == pc = "threw" => ~in_loader

\* Every scan ends, also at the top of the address space.
ScanEnds == pc = "next" ~> pc \in {"done", "threw"}
===============================================================================
