------------------------------- MODULE WeakRefs -------------------------------
(***************************************************************************)
(* gc_weak_ptr and the registry weak_refs_ behind it.                      *)
(*                                                                         *)
(* A handle tests and copies its encoded word without the manager's lock,  *)
(* then calls the manager, which may park it for a collection first.  So   *)
(* every call is two steps, Test (what precedes the lock) and its body,    *)
(* and collections, which rewrite the words of handles, come in between.   *)
(* A member function is the sequence of its calls; the thread works it off.*)
(* Both class templates, T and T[], have the same code.                    *)
(*                                                                         *)
(* Addresses and words are numbers below Modulus, the span of uintptr_t.   *)
(* How objects come to be reachable is the matter of module Collector:     *)
(* here the application holds a set of blocks.                             *)
(***************************************************************************)
EXTENDS Naturals, Sequences

CONSTANTS
    Threads,
    Handles,    \* places where a gc_weak_ptr can be constructed
    Modulus,    \* 2^w for a w-bit uintptr_t
    Blocks,     \* payload_begin of the blocks that can be allocated
    BlockSize,  \* payload_end - payload_begin
    Pointers    \* what p.get() can be: managed, unmanaged, null

Payload(b) == b .. (b + BlockSize - 1)

\* "Supported flat-address platforms" keep the addresses of a program in the lower
\* half, so that "encoded words avoid ordinary heap addresses".
ASSUME AddressAssumption ==
    /\ Modulus \in Nat \ {0} /\ BlockSize \in Nat \ {0}
    /\ Blocks \subseteq Nat \ {0}
    /\ \A b \in Blocks : 2 * (b + BlockSize) <= Modulus
    /\ \A b, c \in Blocks : b # c => Payload(b) \cap Payload(c) = {}
    /\ Pointers \subseteq 0 .. (Modulus - 1)
    /\ \A p \in Pointers : 2 * p <= Modulus

nullptr == 0

\* The pointer stored as it is.
encode_not(p) == p

\* std::uintptr_t{0} - p
encode_weak_ptr(p) == (Modulus - p) % Modulus

VARIABLES
    allocations,   \* keys of allocations_
    strong,        \* blocks the application reaches through strong pointers
    constructed,   \* handles between the start of their construction and
                   \* the end of their destruction
    encoded_ptr,   \* the word in each handle
    weak_refs,     \* the entries: target and storage (a handle)
    todo,          \* the calls left of the member function a thread is in
    inside         \* threads past the Test of their first call

vars == <<allocations, strong, constructed, encoded_ptr, weak_refs, todo, inside>>
heap == <<allocations, strong>>

Entry(p, h) == [target |-> p, storage |-> h]
EntriesOf(h) == {e \in weak_refs : e.storage = h}

(***************************************************************************)
(* The calls.  "make" and "copy" construct their handle to; "move" is a    *)
(* move construction or the second half of a move assignment; "reset" and  *)
(* "drop" (destructor) end a registration; "lock" reads.                   *)
(***************************************************************************)
Make(p, h) == [op |-> "make", from |-> h, to |-> h, ptr |-> p]
Call(op, g, h) == [op |-> op, from |-> g, to |-> h, ptr |-> nullptr]
Copy(g, h) == Call("copy", g, h)
Move(g, h) == Call("move", g, h)
Reset(h) == Call("reset", h, h)
Drop(h) == Call("drop", h, h)
Lock(h) == Call("lock", h, h)

Calls ==
    [op : {"make", "copy", "move", "reset", "drop", "lock"},
     from : Handles, to : Handles, ptr : Pointers \cup {nullptr}]

\* The calls a thread has not finished.
Unfinished(t) == {todo[t][i] : i \in DOMAIN todo[t]}

\* copy and lock take a const handle; everything else changes its handles.
Written(c) ==
    CASE c.op = "lock" -> {}
      [] c.op = "copy" -> {c.to}
      [] OTHER -> {c.from, c.to}

\* The rule for objects shared by threads: any number of readers or one writer.
Readable(h) == \A t \in Threads : \A c \in Unfinished(t) : h \notin Written(c)
Writable(h) == \A t \in Threads : \A c \in Unfinished(t) : h \notin {c.from, c.to}

TypeOK ==
    /\ allocations \in SUBSET Blocks
    /\ strong \in SUBSET Blocks
    /\ constructed \in SUBSET Handles
    /\ encoded_ptr \in [Handles -> 0 .. (Modulus - 1)]
    /\ weak_refs \subseteq [target : Pointers, storage : Handles]
    /\ todo \in [Threads -> Seq(Calls)]
    /\ inside \in SUBSET Threads

Init ==
    /\ allocations = {}
    /\ strong = {}
    /\ constructed = {}
    /\ encoded_ptr = [h \in Handles |-> 0]
    /\ weak_refs = {}
    /\ todo = [t \in Threads |-> <<>>]
    /\ inside = {}

-------------------------------------------------------------------------------
(* Member functions *)

\* A pointer the application may pass: into an object it reaches, null, or to
\* something that is not managed.
Passable(p) ==
    /\ p \in Pointers
    /\ \A b \in Blocks : p \in Payload(b) => b \in strong

Begin(t, calls, new) ==
    /\ todo[t] = <<>>
    /\ todo' = [todo EXCEPT ![t] = calls]
    /\ constructed' = constructed \cup new
    /\ UNCHANGED <<heap, encoded_ptr, weak_refs, inside>>

Vacant(h) == h \notin constructed /\ Writable(h)

Construct(t, h) ==
    /\ Vacant(h)
    /\ \/ \E p \in Pointers : Passable(p) /\ Begin(t, <<Make(p, h)>>, {h})
       \/ \E g \in constructed :
             \/ Readable(g) /\ Begin(t, <<Copy(g, h)>>, {h})
             \/ Writable(g) /\ Begin(t, <<Move(g, h)>>, {h})

\* Assignments from a handle or a pointer build a replacement r and move it in.
AssignThrough(t, h, r) ==
    /\ h \in constructed /\ Writable(h)
    /\ Vacant(r)
    /\ LET replace(build) == Begin(t, <<build, Reset(h), Move(r, h), Drop(r)>>, {r})
       IN  \/ \E p \in Pointers : Passable(p) /\ replace(Make(p, r))
           \/ \E g \in constructed \ {h} : Readable(g) /\ replace(Copy(g, r))

AssignMoving(t, h) ==
    /\ h \in constructed /\ Writable(h)
    /\ \E g \in constructed \ {h} :
          Writable(g) /\ Begin(t, <<Reset(h), Move(g, h)>>, {})

ResetOrDestroy(t, h) ==
    /\ h \in constructed /\ Writable(h)
    /\ Begin(t, <<Reset(h)>>, {}) \/ Begin(t, <<Drop(h)>>, {})

Promote(t, h) ==
    /\ h \in constructed /\ Readable(h)
    /\ Begin(t, <<Lock(h)>>, {})

-------------------------------------------------------------------------------
(* The calls *)

First(t, op) == todo[t] # <<>> /\ Head(todo[t]).op = op

\* The call is done; a destructor gives the storage back.
Finish(t) ==
    /\ todo' = [todo EXCEPT ![t] = Tail(@)]
    /\ inside' = inside \ {t}
    /\ constructed' = IF Head(todo[t]).op = "drop"
                      THEN constructed \ {Head(todo[t]).to} ELSE constructed

\* Without the lock: fill the new word, and call the manager unless it is zero.
\* (For "reset" and "drop" that word is the handle's own.)
Test(t) ==
    /\ todo[t] # <<>> /\ t \notin inside
    /\ LET c == Head(todo[t])
           w == IF c.op = "make" THEN encode_weak_ptr(c.ptr) ELSE encoded_ptr[c.from]
       IN  /\ c.op \in {"make", "move", "reset", "drop"}
           /\ encoded_ptr' = [encoded_ptr EXCEPT ![c.to] = w]
           /\ IF w = 0
              THEN Finish(t)
              ELSE /\ inside' = inside \cup {t}
                   /\ UNCHANGED <<todo, constructed>>
    /\ UNCHANGED <<heap, weak_refs>>

Managed(p) == \E b \in allocations : p \in Payload(b)

register_weak_ref(t) ==
    /\ t \in inside /\ First(t, "make")
    /\ LET c == Head(todo[t])
       IN  IF Managed(c.ptr)
           THEN /\ weak_refs' = weak_refs \cup {Entry(c.ptr, c.to)}
                /\ UNCHANGED encoded_ptr
           ELSE /\ encoded_ptr' = [encoded_ptr EXCEPT ![c.to] = 0]
                /\ UNCHANGED weak_refs
    /\ Finish(t)
    /\ UNCHANGED heap

\* weak_refs_ cannot grow: the constructor throws, so the handle never was, and
\* the rest of an assignment is not executed.
RegisterThrows(t) ==
    /\ \/ t \in inside /\ First(t, "make") /\ Managed(Head(todo[t]).ptr)
       \/ First(t, "copy") /\ EntriesOf(Head(todo[t]).from) # {}
    /\ encoded_ptr' = [encoded_ptr EXCEPT ![Head(todo[t]).to] = 0]
    /\ constructed' = constructed \ {Head(todo[t]).to}
    /\ todo' = [todo EXCEPT ![t] = <<>>]
    /\ inside' = inside \ {t}
    /\ UNCHANGED <<heap, weak_refs>>

\* No lookup outside the lock: the entry alone decides.
copy_weak_ref(t) ==
    /\ First(t, "copy")
    /\ LET c == Head(todo[t])
       IN  \/ \E e \in EntriesOf(c.from) :
                /\ weak_refs' = weak_refs \cup {Entry(e.target, c.to)}
                /\ encoded_ptr' = [encoded_ptr EXCEPT ![c.to] = encoded_ptr[c.from]]
           \/ /\ EntriesOf(c.from) = {}
              /\ encoded_ptr' = [encoded_ptr EXCEPT ![c.to] = 0]
              /\ UNCHANGED weak_refs
    /\ Finish(t)
    /\ UNCHANGED heap

\* update_weak_ref without its last line.
UpdateKeepsWord(t) ==
    /\ t \in inside /\ First(t, "move")
    /\ LET c == Head(todo[t])
       IN  /\ encoded_ptr' = [encoded_ptr EXCEPT ![c.from] = 0]
           /\ weak_refs' = {IF e.storage = c.from THEN Entry(e.target, c.to) ELSE e :
                               e \in weak_refs}
    /\ Finish(t)
    /\ UNCHANGED heap

\* The source may have expired since its word was copied; then the copy is
\* taken back.  Either way the caller zeroes the source.
update_weak_ref(t) ==
    /\ t \in inside /\ First(t, "move")
    /\ LET c == Head(todo[t])
       IN  \/ \E e \in EntriesOf(c.from) :
                /\ weak_refs' = (weak_refs \ {e}) \cup {Entry(e.target, c.to)}
                /\ encoded_ptr' = [encoded_ptr EXCEPT ![c.to] = encoded_ptr[c.from],
                                                      ![c.from] = 0]
           \/ /\ EntriesOf(c.from) = {}
              /\ encoded_ptr' = [encoded_ptr EXCEPT ![c.to] = 0, ![c.from] = 0]
              /\ UNCHANGED weak_refs
    /\ Finish(t)
    /\ UNCHANGED heap

\* An entry that is gone already is no error.
unregister_weak_ref(t) ==
    /\ t \in inside /\ (First(t, "reset") \/ First(t, "drop"))
    /\ LET h == Head(todo[t]).to
       IN  /\ \/ \E e \in EntriesOf(h) : weak_refs' = weak_refs \ {e}
              \/ EntriesOf(h) = {} /\ UNCHANGED weak_refs
           /\ encoded_ptr' = [encoded_ptr EXCEPT ![h] = 0]
    /\ Finish(t)
    /\ UNCHANGED heap

\* lock(): the caller owns what it gets.
read_weak_ref(t) ==
    /\ First(t, "lock")
    /\ strong' = strong \cup
          {b \in Blocks : \E e \in EntriesOf(Head(todo[t]).from) : e.target \in Payload(b)}
    /\ Finish(t)
    /\ UNCHANGED <<allocations, encoded_ptr, weak_refs>>

-------------------------------------------------------------------------------
(* The heap *)

Allocate(b) ==
    /\ b \notin allocations
    /\ allocations' = allocations \cup {b}
    /\ strong' = strong \cup {b}
    /\ UNCHANGED <<constructed, encoded_ptr, weak_refs, todo, inside>>

\* A caller keeps the gc_ptr it has passed until the call returns.
Passed(b) == \E t \in Threads : \E c \in Unfinished(t) : c.op = "make" /\ c.ptr \in Payload(b)

Release(b) ==
    /\ b \in strong /\ ~Passed(b)
    /\ strong' = strong \ {b}
    /\ UNCHANGED <<allocations, constructed, encoded_ptr, weak_refs, todo, inside>>

\* The entries whose targets lie in dying blocks go, and zero their storage.
invalidate_weak_refs(dying) ==
    LET gone == {e \in weak_refs : \E b \in dying : e.target \in Payload(b)}
    IN  /\ weak_refs' = weak_refs \ gone
        /\ encoded_ptr' = [h \in Handles |-> IF \E e \in gone : e.storage = h
                                             THEN 0 ELSE encoded_ptr[h]]

\* Handles are on stacks, in globals and in objects, so the scan reads their
\* words like any others.
SeenIn(words) == {b \in allocations : \E w \in words : w \in Payload(b)}

collect ==
    /\ LET kept == (allocations \cap strong)
                   \cup SeenIn({encoded_ptr[h] : h \in constructed})
       IN  /\ allocations' = kept
           /\ invalidate_weak_refs(allocations \ kept)
    /\ UNCHANGED <<strong, constructed, todo, inside>>

\* Every object goes.  shutdown itself does not look at pending calls: that strong
\* pointers "must be reset before further use" is the client's duty, so a shutdown
\* while a construction from one is under way is not modelled.
shutdown ==
    /\ \A b \in allocations : ~Passed(b)
    /\ allocations' = {}
    /\ strong' = {}
    /\ weak_refs' = {}
    /\ encoded_ptr' = [h \in Handles |-> IF EntriesOf(h) # {} THEN 0 ELSE encoded_ptr[h]]
    /\ UNCHANGED <<constructed, todo, inside>>

-------------------------------------------------------------------------------
Next ==
    \/ \E t \in Threads :
          \/ \E h \in Handles :
                \/ Construct(t, h) \/ AssignMoving(t, h)
                \/ ResetOrDestroy(t, h) \/ Promote(t, h)
          \/ \E h, r \in Handles : h # r /\ AssignThrough(t, h, r)
          \/ Test(t)
          \/ register_weak_ref(t) \/ RegisterThrows(t)
          \/ copy_weak_ref(t) \/ update_weak_ref(t)
          \/ unregister_weak_ref(t) \/ read_weak_ref(t)
    \/ \E b \in Blocks : Allocate(b) \/ Release(b)
    \/ collect
    \/ shutdown

Spec == Init /\ [][Next]_vars

-------------------------------------------------------------------------------
(* Properties *)

\* The word of h is a copy whose registration is still to come.
Tentative(h) ==
    \E t \in inside : todo[t] # <<>> /\ Head(todo[t]).op \in {"make", "move"}
                                     /\ Head(todo[t]).to = h

\* Handles and registry agree.  A handle has at most one entry, for the pointer
\* its word encodes; an entry's storage is a handle that exists (the collector
\* writes to it); and the word that reset() and the destructor test is non-zero
\* exactly if there is an entry for them to remove, except while a constructor
\* or an assignment waits for the manager.
RegistryAgrees ==
    /\ \A e \in weak_refs :
          /\ e.storage \in constructed
          /\ encoded_ptr[e.storage] = encode_weak_ptr(e.target)
          /\ encoded_ptr[e.storage] # 0
          /\ \A f \in EntriesOf(e.storage) : f = e
    /\ \A h \in constructed : encoded_ptr[h] # 0 /\ ~Tentative(h) => EntriesOf(h) # {}
    /\ \A h \in Handles : Tentative(h) => EntriesOf(h) = {}

denotes ==
    [h \in Handles |-> IF EntriesOf(h) = {} THEN nullptr
                       ELSE (CHOOSE e \in EntriesOf(h) : TRUE).target]

Abstract == INSTANCE WeakHandles WITH
                Objects <- Blocks, live <- allocations, Empty <- nullptr

\* gc_weak_ptr, with its unlocked tests and calls that wait for collections,
\* behaves as if every operation happened at once: handles never outlive their
\* object, never come to mean a new object at the address, never keep an object
\* alive, and moving or copying one loses nothing.
ImplementsWeakHandles == Abstract!Spec
===============================================================================
