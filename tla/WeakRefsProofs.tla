---------------------------- MODULE WeakRefsProofs ----------------------------
(***************************************************************************)
(* Machine-checked proofs about weak references, for any number of         *)
(* threads, handles and blocks.                                            *)
(***************************************************************************)
EXTENDS WeakRefs, SequenceTheorems, TLAPS

-------------------------------------------------------------------------------
(* The inductive invariant *)

\* What the member functions leave to do: a build comes first, a move into a
\* handle that existed comes right after its reset, a destructor comes last.
WellFormed(s) ==
    /\ s \in Seq(Calls)
    /\ \A i \in 1..Len(s) :
          /\ i > 1 => s[i].op \in {"reset", "move", "drop"}
          /\ i > 1 /\ s[i].op = "move" => s[i - 1].op = "reset" /\ s[i - 1].to = s[i].to
          /\ s[i].op = "drop" => i = Len(s)
          /\ s[i].op \in {"make", "reset", "drop", "lock"} => s[i].from = s[i].to
          /\ s[i].op = "move" => s[i].from # s[i].to
          /\ s[i].op = "make" => s[i].ptr \in Pointers

Orderly == \A t \in Threads : WellFormed(todo[t])

\* No thread touches a handle that another one is changing.
Exclusive ==
    \A t, u \in Threads :
        t # u => \A c \in Unfinished(t), d \in Unfinished(u) : Written(c) \cap {d.from, d.to} = {}

\* Calls work on handles that exist, with pointers to what the caller holds.
TargetsExist == \A t \in Threads : \A c \in Unfinished(t) : c.to \in constructed
ArgumentsHeld ==
    \A t \in Threads : \A c \in Unfinished(t) :
        c.op = "make" => \A b \in Blocks : c.ptr \in Payload(b) => b \in strong

\* Before its Test a call that fills a handle finds it empty.
FindsEmpty(t) ==
    todo[t] # <<>> /\ t \notin inside /\ todo[t][1].op \in {"make", "copy", "move"}
        => encoded_ptr[todo[t][1].to] = 0

\* After its Test a call waits for the manager; a constructor's word is in place.
Waits(t) ==
    t \in inside =>
        /\ todo[t] # <<>> /\ todo[t][1].op \in {"make", "move", "reset", "drop"}
        /\ todo[t][1].op = "make" =>
              /\ encoded_ptr[todo[t][1].to] = encode_weak_ptr(todo[t][1].ptr)
              /\ encoded_ptr[todo[t][1].to] # 0

\* Storage without a handle is clear, and every word encodes a pointer.
WordsEncode ==
    \A h \in Handles :
        /\ h \notin constructed => encoded_ptr[h] = 0
        /\ encoded_ptr[h] = 0 \/ \E p \in Pointers : p # 0 /\ encoded_ptr[h] = encode_weak_ptr(p)

\* Entries are about blocks that exist, and so is what the application holds.
EntriesLive == \A e \in weak_refs : \E b \in allocations : e.target \in Payload(b)
StrongLive == strong \subseteq allocations

CallsInv ==
    /\ Orderly /\ Exclusive /\ TargetsExist /\ ArgumentsHeld
    /\ \A t \in Threads : FindsEmpty(t) /\ Waits(t)

WeakInv == TypeOK /\ CallsInv /\ WordsEncode /\ EntriesLive /\ StrongLive /\ RegistryAgrees
-------------------------------------------------------------------------------
(* Addresses and words *)

\* Negation maps only null to zero, and takes addresses out of the heap.
LEMMA EncodedWord ==
    ASSUME NEW p \in Pointers
    PROVE  /\ encode_weak_ptr(p) \in 0..(Modulus - 1)
           /\ encode_weak_ptr(p) = 0 <=> p = 0
           /\ p # 0 => \A b \in Blocks : encode_weak_ptr(p) \notin Payload(b)
<1>1. Modulus \in Nat /\ p \in Nat /\ p < Modulus /\ 2 * p <= Modulus
  BY AddressAssumption
<1>2. CASE p = 0
  <2>1. Modulus % Modulus = 0
    BY <1>1, <1>2
  <2> QED
    BY <1>1, <1>2, <2>1 DEF encode_weak_ptr
<1>3. CASE p # 0
  <2>1. encode_weak_ptr(p) = Modulus - p
    BY <1>1, <1>3 DEF encode_weak_ptr
  <2>2. ASSUME NEW b \in Blocks PROVE Modulus - p \notin Payload(b)
    <3>1. b \in Nat /\ BlockSize \in Nat /\ 2 * (b + BlockSize) <= Modulus
      BY AddressAssumption
    <3> QED
      BY <1>1, <3>1 DEF Payload
  <2> QED
    BY <1>1, <1>3, <2>1, <2>2
<1> QED
  BY <1>2, <1>3

LEMMA NullIsUnmanaged == \A b \in Blocks : 0 \notin Payload(b)
BY AddressAssumption DEF Payload

LEMMA OneBlockPerAddress ==
    ASSUME NEW b \in Blocks, NEW c \in Blocks, NEW p, p \in Payload(b), p \in Payload(c)
    PROVE  b = c
BY AddressAssumption
-------------------------------------------------------------------------------
(* Lists of calls *)

LEMMA FirstCall ==
    ASSUME TypeOK, NEW t \in Threads, todo[t] # <<>>
    PROVE  /\ Head(todo[t]) = todo[t][1]
           /\ todo[t][1] \in Calls /\ todo[t][1] \in Unfinished(t)
           /\ Len(todo[t]) \in Nat /\ Len(todo[t]) > 0
<1>1. todo[t] \in Seq(Calls)
  BY DEF TypeOK
<1>2. Len(todo[t]) \in Nat /\ Len(todo[t]) > 0 /\ DOMAIN todo[t] = 1..Len(todo[t])
  BY <1>1, EmptySeq, LenProperties
<1>3. todo[t][1] \in Calls
  BY <1>1, <1>2, ElementOfSeq
<1>4. Head(todo[t]) = todo[t][1]
  BY <1>1
<1>5. todo[t][1] \in Unfinished(t)
  BY <1>2 DEF Unfinished
<1> QED
  BY <1>2, <1>3, <1>4, <1>5

\* What is left after the first call.
LEMMA RestOfCalls ==
    ASSUME NEW s, WellFormed(s), s # <<>>
    PROVE  /\ WellFormed(Tail(s))
           /\ {Tail(s)[i] : i \in DOMAIN Tail(s)} \subseteq {s[i] : i \in DOMAIN s}
           /\ s[1].op = "drop" => Tail(s) = <<>>
           /\ Tail(s) # <<>> =>
                /\ Tail(s)[1] = s[2]
                /\ s[2].op \in {"reset", "move", "drop"}
                /\ s[2].op = "move" => s[1].op = "reset" /\ s[1].to = s[2].to
<1> DEFINE n == Len(s)
<1>1. s \in Seq(Calls) /\ n \in Nat /\ n > 0 /\ DOMAIN s = 1..n
  BY EmptySeq, LenProperties DEF WellFormed
<1>2. /\ Tail(s) \in Seq(Calls) /\ Len(Tail(s)) = n - 1
      /\ \A i \in 1..(n - 1) : Tail(s)[i] = s[i + 1]
  BY <1>1, HeadTailProperties
<1>3. DOMAIN Tail(s) = 1..(n - 1)
  BY <1>2, LenProperties
<1>4. \A i \in 1..(n - 1) : i + 1 \in 1..n /\ i + 1 > 1 /\ (i + 1) - 1 = i
  BY <1>1
<1> HIDE DEF n
<1>5. ASSUME NEW i \in 1..(n - 1)
      PROVE  /\ i > 1 => Tail(s)[i].op \in {"reset", "move", "drop"}
             /\ i > 1 /\ Tail(s)[i].op = "move" =>
                   Tail(s)[i - 1].op = "reset" /\ Tail(s)[i - 1].to = Tail(s)[i].to
             /\ Tail(s)[i].op = "drop" => i = n - 1
             /\ Tail(s)[i].op \in {"make", "reset", "drop", "lock"} => Tail(s)[i].from = Tail(s)[i].to
             /\ Tail(s)[i].op = "move" => Tail(s)[i].from # Tail(s)[i].to
             /\ Tail(s)[i].op = "make" => Tail(s)[i].ptr \in Pointers
  <2>1. i + 1 \in 1..n /\ i + 1 > 1 /\ Tail(s)[i] = s[i + 1]
    BY <1>1, <1>2, <1>4
  <2>2. /\ s[i + 1].op \in {"reset", "move", "drop"}
        /\ s[i + 1].op = "move" => s[i].op = "reset" /\ s[i].to = s[i + 1].to
        /\ s[i + 1].op = "drop" => i + 1 = n
        /\ s[i + 1].op \in {"make", "reset", "drop", "lock"} => s[i + 1].from = s[i + 1].to
        /\ s[i + 1].op = "move" => s[i + 1].from # s[i + 1].to
        /\ s[i + 1].op = "make" => s[i + 1].ptr \in Pointers
    BY <1>4, <2>1 DEF WellFormed, n
  <2>3. i > 1 => i - 1 \in 1..(n - 1) /\ Tail(s)[i - 1] = s[i]
    BY <1>1, <1>2
  <2> QED
    BY <1>1, <2>1, <2>2, <2>3
<1>6. WellFormed(Tail(s))
  BY <1>2, <1>5 DEF WellFormed
<1>7. {Tail(s)[i] : i \in DOMAIN Tail(s)} \subseteq {s[i] : i \in DOMAIN s}
  BY <1>1, <1>2, <1>3, <1>4
<1>8. s[1].op = "drop" => Tail(s) = <<>>
  <2>0. 1 \in 1..Len(s)
    BY <1>1 DEF n
  <2>1. s[1].op = "drop" => n = 1
    BY <2>0 DEF WellFormed, n
  <2>2. n = 1 => Len(Tail(s)) = 0
    BY <1>1, <1>2
  <2> QED
    BY <1>2, <2>1, <2>2, EmptySeq
<1>9. ASSUME Tail(s) # <<>>
      PROVE  /\ Tail(s)[1] = s[2]
             /\ s[2].op \in {"reset", "move", "drop"}
             /\ s[2].op = "move" => s[1].op = "reset" /\ s[1].to = s[2].to
  <2>1. n - 1 > 0
    BY <1>1, <1>2, <1>9, EmptySeq
  <2>2. 1 \in 1..(n - 1) /\ 2 \in 1..n
    BY <1>1, <2>1
  <2>3. 2 \in 1..Len(s) /\ 2 > 1 /\ 2 - 1 = 1
    BY <2>2 DEF n
  <2>4. /\ s[2].op \in {"reset", "move", "drop"}
        /\ s[2].op = "move" => s[2 - 1].op = "reset" /\ s[2 - 1].to = s[2].to
    BY <2>3 DEF WellFormed
  <2>5. Tail(s)[1] = s[1 + 1]
    BY <1>2, <2>2
  <2> QED
    BY <2>3, <2>4, <2>5
<1> QED
  BY <1>6, <1>7, <1>8, <1>9

LEMMA WrittenIsTouched ==
    ASSUME NEW c \in Calls
    PROVE  /\ Written(c) \subseteq {c.from, c.to}
           /\ c.op # "lock" => c.to \in Written(c)
           /\ c.op \notin {"lock", "copy"} => c.from \in Written(c)
BY DEF Written

LEMMA UnfinishedAreCalls ==
    ASSUME TypeOK, NEW t \in Threads PROVE Unfinished(t) \subseteq Calls
<1>1. todo[t] \in Seq(Calls)
  BY DEF TypeOK
<1> QED
  BY <1>1, LenProperties, ElementOfSeq DEF Unfinished
-------------------------------------------------------------------------------
(***************************************************************************)
(* A thread ends its current call c: it goes on with the rest of its       *)
(* member function, or an exception drops that.  Whatever happens to the   *)
(* handles c may change, the other threads do not notice.                  *)
(***************************************************************************)
EndsCall(t, rest) ==
    /\ rest = Tail(todo[t]) \/ rest = <<>>
    /\ todo' = [todo EXCEPT ![t] = rest]
    /\ inside' = inside \ {t}
    /\ \/ constructed' = constructed
       \/ constructed' = constructed \ {todo[t][1].to} /\ rest = <<>> /\ todo[t][1].op # "lock"

\* The words that a call may change.
WritesOnly(c) ==
    /\ encoded_ptr' \in [Handles -> 0..(Modulus - 1)]
    /\ \A h \in Handles : h \notin Written(c) => encoded_ptr'[h] = encoded_ptr[h]

LEMMA FinishEndsCall ==
    ASSUME TypeOK, Orderly, NEW t \in Threads, todo[t] # <<>>, Finish(t)
    PROVE  EndsCall(t, Tail(todo[t]))
<1>1. Head(todo[t]) = todo[t][1]
  BY FirstCall
<1>2. WellFormed(todo[t])
  BY DEF Orderly
<1>3. todo[t][1].op = "drop" => Tail(todo[t]) = <<>>
  BY <1>2, RestOfCalls
<1> QED
  BY <1>1, <1>3 DEF Finish, EndsCall

LEMMA EndKeepsCalls ==
    ASSUME TypeOK, CallsInv, NEW t \in Threads, todo[t] # <<>>, NEW rest, EndsCall(t, rest),
           WritesOnly(todo[t][1]), strong \subseteq strong',
           todo[t][1].op = "reset" => encoded_ptr'[todo[t][1].to] = 0
    PROVE  /\ CallsInv' /\ todo' \in [Threads -> Seq(Calls)]
           /\ inside' \in SUBSET Threads /\ constructed' \in SUBSET Handles
<1> DEFINE c == todo[t][1]
<1>1. c \in Calls /\ c \in Unfinished(t)
  BY FirstCall
<1>2. WellFormed(todo[t])
  BY DEF CallsInv, Orderly
<1>3. /\ WellFormed(rest)
      /\ {rest[i] : i \in DOMAIN rest} \subseteq Unfinished(t)
      /\ rest # <<>> => /\ rest[1].op \in {"reset", "move", "drop"}
                        /\ rest[1].op = "move" => c.op = "reset" /\ c.to = rest[1].to
  <2>1. CASE rest = Tail(todo[t])
    BY <1>2, <2>1, RestOfCalls DEF Unfinished
  <2>2. CASE rest = <<>>
    <3>1. rest \in Seq(Calls) /\ Len(rest) = 0 /\ DOMAIN rest = {}
      BY <2>2
    <3> QED
      BY <2>2, <3>1 DEF WellFormed
  <2> QED
    BY <2>1, <2>2 DEF EndsCall
<1>4. /\ todo'[t] = rest /\ \A u \in Threads : u # t => todo'[u] = todo[u]
      /\ inside' = inside \ {t}
  BY DEF EndsCall, TypeOK
<1>5. /\ \A u \in Threads : Unfinished(u)' \subseteq Unfinished(u)
      /\ \A u \in Threads : u # t => Unfinished(u)' = Unfinished(u)
  <2>1. ASSUME NEW u \in Threads, u # t PROVE Unfinished(u)' = Unfinished(u)
    BY <1>4, <2>1 DEF Unfinished
  <2>2. Unfinished(t)' = {rest[i] : i \in DOMAIN rest}
    BY <1>4 DEF Unfinished
  <2> QED
    BY <1>3, <2>1, <2>2
<1>6. todo' \in [Threads -> Seq(Calls)]
  BY <1>3 DEF EndsCall, TypeOK, WellFormed
<1>7. Orderly'
  <2>1. ASSUME NEW u \in Threads PROVE WellFormed(todo'[u])
    BY <1>3, <1>4 DEF CallsInv, Orderly
  <2> QED
    BY <2>1 DEF Orderly, WellFormed
<1>8. Exclusive'
  BY <1>5 DEF CallsInv, Exclusive
<1>9. TargetsExist'
  <2> SUFFICES ASSUME NEW u \in Threads, NEW d \in Unfinished(u)' PROVE d.to \in constructed'
    BY DEF TargetsExist
  <2>1. d \in Unfinished(u) /\ d.to \in constructed
    BY <1>5 DEF CallsInv, TargetsExist
  <2>2. CASE constructed' = constructed
    BY <2>1, <2>2
  <2>3. CASE constructed' = constructed \ {c.to} /\ rest = <<>> /\ c.op # "lock"
    <3>1. u # t
      BY <1>4, <2>3 DEF Unfinished
    <3>2. c.to \in Written(c)
      BY <1>1, <2>3, WrittenIsTouched
    <3>3. Written(c) \cap {d.from, d.to} = {}
      BY <1>1, <2>1, <3>1 DEF CallsInv, Exclusive
    <3> QED
      BY <2>1, <2>3, <3>2, <3>3
  <2> QED
    BY <2>2, <2>3 DEF EndsCall
<1>10. ArgumentsHeld'
  BY <1>5 DEF CallsInv, ArgumentsHeld
<1>11. ASSUME NEW u \in Threads PROVE FindsEmpty(u)' /\ Waits(u)'
  <2>1. CASE u = t
    <3>1. u \notin inside'
      BY <1>4, <2>1
    <3> QED
      BY <1>3, <1>4, <2>1, <3>1 DEF FindsEmpty, Waits
  <2>2. CASE u # t
    <3>1. todo'[u] = todo[u] /\ (u \in inside' <=> u \in inside)
      BY <1>4, <2>2
    <3>2. CASE todo[u] = <<>>
      BY <3>1, <3>2 DEF FindsEmpty, Waits, CallsInv
    <3>3. CASE todo[u] # <<>>
      <4>1. todo[u][1] \in Calls /\ todo[u][1] \in Unfinished(u)
        BY <3>3, FirstCall
      <4>2. todo[u][1].to \in Handles /\ todo[u][1].to \notin Written(c)
        BY <1>1, <2>2, <4>1 DEF CallsInv, Exclusive, Calls
      <4>3. encoded_ptr'[todo[u][1].to] = encoded_ptr[todo[u][1].to]
        BY <4>2 DEF WritesOnly
      <4> QED
        BY <3>1, <4>3 DEF FindsEmpty, Waits, CallsInv
    <3> QED
      BY <3>2, <3>3
  <2> QED
    BY <2>1, <2>2
<1>12. inside' \in SUBSET Threads /\ constructed' \in SUBSET Handles
  BY DEF EndsCall, TypeOK
<1> QED
  BY <1>6, <1>7, <1>8, <1>9, <1>10, <1>11, <1>12 DEF CallsInv

\* The handle of the call that ends is settled, the others are as tentative as before.
LEMMA EndSettles ==
    ASSUME TypeOK, CallsInv, NEW t \in Threads, todo[t] # <<>>, NEW rest, EndsCall(t, rest)
    PROVE  \A h : /\ h # todo[t][1].to => (Tentative(h)' <=> Tentative(h))
                  /\ h = todo[t][1].to /\ todo[t][1].op # "lock" => ~Tentative(h)'
<1> DEFINE c == todo[t][1]
<1>1. /\ \A u \in Threads : u # t => todo'[u] = todo[u]
      /\ inside' = inside \ {t} /\ inside \subseteq Threads
  BY DEF EndsCall, TypeOK
<1>2. Head(todo[t]) = c /\ c \in Calls /\ c \in Unfinished(t)
  BY FirstCall
<1>3. ASSUME NEW CONSTANT h, h # c.to PROVE Tentative(h)' <=> Tentative(h)
  BY <1>1, <1>2, <1>3 DEF Tentative
<1>4. ASSUME NEW CONSTANT h, h = c.to, c.op # "lock", Tentative(h)' PROVE FALSE
  <2>0. PICK u \in inside' : todo'[u] # <<>> /\ Head(todo'[u]).to = h
    BY <1>4 DEF Tentative
  <2>1. u \in inside /\ u # t /\ todo[u] # <<>> /\ Head(todo[u]).to = c.to
    BY <1>1, <1>4, <2>0
  <2>2. u \in Threads /\ Head(todo[u]) = todo[u][1] /\ todo[u][1] \in Unfinished(u)
    BY <1>1, <2>1, FirstCall
  <2>3. c.to \in Written(c)
    BY <1>2, <1>4, WrittenIsTouched
  <2> QED
    BY <1>2, <2>1, <2>2, <2>3 DEF CallsInv, Exclusive
<1> QED
  BY <1>3, <1>4
-------------------------------------------------------------------------------
(* The calls *)

LEMMA ZeroIsAWord ==
    ASSUME TypeOK, NEW h \in Handles PROVE 0 \in 0..(Modulus - 1)
<1>1. encoded_ptr[h] \in 0..(Modulus - 1) /\ Modulus \in Nat
  BY AddressAssumption DEF TypeOK
<1> QED
  BY <1>1

LEMMA NoWordNoEntry ==
    ASSUME RegistryAgrees, NEW h, encoded_ptr[h] = 0 PROVE EntriesOf(h) = {}
BY DEF RegistryAgrees, EntriesOf

LEMMA OneEntry ==
    ASSUME RegistryAgrees, NEW h, NEW e \in EntriesOf(h)
    PROVE  /\ EntriesOf(h) = {e} /\ e \in weak_refs /\ e.storage = h
           /\ encoded_ptr[h] = encode_weak_ptr(e.target) /\ encoded_ptr[h] # 0
BY DEF RegistryAgrees, EntriesOf

\* What a thread knows about the call it is in.
LEMMA CurrentCall ==
    ASSUME WeakInv, NEW t \in Threads, todo[t] # <<>>
    PROVE  /\ Head(todo[t]) = todo[t][1] /\ todo[t][1] \in Calls /\ todo[t][1] \in Unfinished(t)
           /\ todo[t][1].to \in Handles /\ todo[t][1].from \in Handles
           /\ todo[t][1].to \in constructed
           /\ todo[t][1].op = "make" => todo[t][1].ptr \in Pointers
           /\ todo[t][1].op \in {"make", "reset", "drop", "lock"} => todo[t][1].from = todo[t][1].to
           /\ todo[t][1].op = "move" => todo[t][1].from # todo[t][1].to
<1>1. /\ Head(todo[t]) = todo[t][1] /\ todo[t][1] \in Calls /\ todo[t][1] \in Unfinished(t)
      /\ 1 \in 1..Len(todo[t])
  BY FirstCall DEF WeakInv
<1>2. WellFormed(todo[t])
  BY DEF WeakInv, CallsInv, Orderly
<1>3. /\ todo[t][1].op = "make" => todo[t][1].ptr \in Pointers
      /\ todo[t][1].op \in {"make", "reset", "drop", "lock"} => todo[t][1].from = todo[t][1].to
      /\ todo[t][1].op = "move" => todo[t][1].from # todo[t][1].to
  BY <1>1, <1>2 DEF WellFormed
<1>4. todo[t][1].to \in constructed
  BY <1>1 DEF WeakInv, CallsInv, TargetsExist
<1>5. todo[t][1].to \in Handles /\ todo[t][1].from \in Handles
  BY <1>1 DEF Calls
<1> QED
  BY <1>1, <1>3, <1>4, <1>5

\* The parts of the invariant that the end of a call settles by itself.
LEMMA CallEnds ==
    ASSUME WeakInv, NEW t \in Threads, todo[t] # <<>>, NEW rest, EndsCall(t, rest),
           WritesOnly(todo[t][1]), strong \subseteq strong', strong' \subseteq allocations',
           todo[t][1].op = "reset" => encoded_ptr'[todo[t][1].to] = 0,
           allocations' = allocations,
           weak_refs' \subseteq [target : Pointers, storage : Handles]
    PROVE  /\ TypeOK' /\ CallsInv' /\ StrongLive'
           /\ \A h : /\ h # todo[t][1].to => (Tentative(h)' <=> Tentative(h))
                     /\ h = todo[t][1].to /\ todo[t][1].op # "lock" => ~Tentative(h)'
<1>1. TypeOK /\ CallsInv
  BY DEF WeakInv
<1>2. /\ CallsInv' /\ todo' \in [Threads -> Seq(Calls)]
      /\ inside' \in SUBSET Threads /\ constructed' \in SUBSET Handles
  BY <1>1, EndKeepsCalls
<1>3. \A h : /\ h # todo[t][1].to => (Tentative(h)' <=> Tentative(h))
             /\ h = todo[t][1].to /\ todo[t][1].op # "lock" => ~Tentative(h)'
  BY <1>1, EndSettles
<1>4. TypeOK'
  BY <1>1, <1>2 DEF TypeOK, WritesOnly
<1> QED
  BY <1>2, <1>3, <1>4 DEF StrongLive

\* Agreement, one handle at a time.
HandleAgrees(h) ==
    /\ \A e \in EntriesOf(h) :
          /\ h \in constructed
          /\ encoded_ptr[h] = encode_weak_ptr(e.target) /\ encoded_ptr[h] # 0
          /\ EntriesOf(h) = {e}
    /\ h \in constructed /\ encoded_ptr[h] # 0 /\ ~Tentative(h) => EntriesOf(h) # {}
    /\ Tentative(h) => EntriesOf(h) = {}

LEMMA AgreesByHandle ==
    ASSUME RegistryAgrees, NEW h \in Handles PROVE HandleAgrees(h)
BY DEF RegistryAgrees, HandleAgrees, EntriesOf

LEMMA AllHandlesAgree ==
    ASSUME TypeOK', \A h \in Handles : HandleAgrees(h)' PROVE RegistryAgrees'
<1>1. ASSUME NEW e \in weak_refs'
      PROVE  /\ e.storage \in constructed'
             /\ encoded_ptr'[e.storage] = encode_weak_ptr(e.target)
             /\ encoded_ptr'[e.storage] # 0
             /\ \A f \in weak_refs' : f.storage = e.storage => f = e
  <2>1. PICK h \in Handles : h = e.storage
    BY DEF TypeOK
  <2>2. e \in EntriesOf(h)'
    BY <2>1 DEF EntriesOf
  <2>3. HandleAgrees(h)'
    OBVIOUS
  <2>4. EntriesOf(h)' = {f \in weak_refs' : f.storage = h}
    BY DEF EntriesOf
  <2> QED
    BY <2>1, <2>2, <2>3, <2>4 DEF HandleAgrees
<1>2. constructed' \subseteq Handles
  BY DEF TypeOK
<1> QED
  BY <1>1, <1>2 DEF HandleAgrees, RegistryAgrees, EntriesOf

\* A handle that a step leaves alone goes on agreeing.
LEMMA HandleLeftAlone ==
    ASSUME NEW CONSTANT h, HandleAgrees(h), EntriesOf(h)' = EntriesOf(h),
           encoded_ptr'[h] = encoded_ptr[h], h \in constructed' <=> h \in constructed,
           Tentative(h)' <=> Tentative(h)
    PROVE  HandleAgrees(h)'
BY DEF HandleAgrees

LEMMA RegisterKeeps ==
    ASSUME WeakInv, NEW t \in Threads, register_weak_ref(t) PROVE WeakInv'
<1> DEFINE c == todo[t][1]
           e == Entry(c.ptr, c.to)
<1>1. todo[t] # <<>> /\ t \in inside /\ Head(todo[t]).op = "make" /\ Finish(t)
  BY DEF register_weak_ref, First
<1>2. /\ Head(todo[t]) = c /\ c \in Calls /\ c.op = "make" /\ c.to \in Handles
      /\ c.to \in constructed /\ c.ptr \in Pointers
  BY <1>1, CurrentCall
<1>3. encoded_ptr[c.to] = encode_weak_ptr(c.ptr) /\ encoded_ptr[c.to] # 0
  BY <1>1, <1>2 DEF WeakInv, CallsInv, Waits
<1>4. Tentative(c.to)
  BY <1>1, <1>2 DEF Tentative
<1>5. EntriesOf(c.to) = {}
  BY <1>2, <1>4 DEF WeakInv, RegistryAgrees
<1>6. EndsCall(t, Tail(todo[t])) /\ constructed' = constructed
  BY <1>1, <1>2, FinishEndsCall DEF WeakInv, CallsInv, Finish
<1>7. UNCHANGED <<allocations, strong>>
  BY DEF register_weak_ref, heap
<1>8. encoded_ptr \in [Handles -> 0..(Modulus - 1)]
  BY DEF WeakInv, TypeOK
<1>9. CASE Managed(c.ptr)
  <2>1. weak_refs' = weak_refs \cup {e} /\ encoded_ptr' = encoded_ptr
    BY <1>2, <1>9 DEF register_weak_ref
  <2>2. e.target = c.ptr /\ e.storage = c.to /\ e \in [target : Pointers, storage : Handles]
    BY <1>2 DEF Entry
  <2> HIDE DEF e
  <2>3. WritesOnly(c) /\ weak_refs' \subseteq [target : Pointers, storage : Handles]
    BY <1>8, <2>1, <2>2 DEF WritesOnly, WeakInv, TypeOK
  <2>4. /\ TypeOK' /\ CallsInv' /\ StrongLive'
        /\ \A h : (h # c.to => (Tentative(h)' <=> Tentative(h))) /\ (h = c.to => ~Tentative(h)')
    BY <1>1, <1>2, <1>6, <1>7, <2>3, CallEnds DEF WeakInv, StrongLive
  <2>5. EntriesLive'
    BY <1>7, <1>9, <2>1, <2>2 DEF WeakInv, EntriesLive, Managed
  <2>6. WordsEncode'
    BY <1>6, <2>1 DEF WeakInv, WordsEncode
  <2>7. \A h : EntriesOf(h)' = IF h = c.to THEN {e} ELSE EntriesOf(h)
    BY <1>5, <2>1, <2>2 DEF EntriesOf
  <2>8. ASSUME NEW CONSTANT h \in Handles PROVE HandleAgrees(h)'
    <3>1. CASE h = c.to
      BY <1>2, <1>3, <1>6, <2>1, <2>2, <2>4, <2>7, <3>1 DEF HandleAgrees
    <3>2. CASE h # c.to
      BY <1>6, <2>1, <2>4, <2>7, <3>2, HandleLeftAlone, AgreesByHandle DEF WeakInv
    <3> QED
      BY <3>1, <3>2
  <2> QED
    BY <2>4, <2>5, <2>6, <2>8, AllHandlesAgree DEF WeakInv
<1>10. CASE ~Managed(c.ptr)
  <2>1. weak_refs' = weak_refs /\ encoded_ptr' = [encoded_ptr EXCEPT ![c.to] = 0]
    BY <1>2, <1>10 DEF register_weak_ref
  <2>2. c.to \in Written(c)
    BY <1>2, WrittenIsTouched
  <2>3. 0 \in 0..(Modulus - 1)
    BY <1>2, ZeroIsAWord DEF WeakInv
  <2>4. WritesOnly(c) /\ weak_refs' \subseteq [target : Pointers, storage : Handles]
    BY <1>8, <2>1, <2>2, <2>3 DEF WritesOnly, WeakInv, TypeOK
  <2>5. /\ TypeOK' /\ CallsInv' /\ StrongLive'
        /\ \A h : (h # c.to => (Tentative(h)' <=> Tentative(h))) /\ (h = c.to => ~Tentative(h)')
    BY <1>1, <1>2, <1>6, <1>7, <2>4, CallEnds DEF WeakInv, StrongLive
  <2>6. EntriesLive'
    BY <1>7, <2>1 DEF WeakInv, EntriesLive
  <2>7. \A h \in Handles : encoded_ptr'[h] = IF h = c.to THEN 0 ELSE encoded_ptr[h]
    BY <1>8, <2>1
  <2>8. WordsEncode'
    BY <1>6, <2>7 DEF WeakInv, WordsEncode
  <2>9. \A h : EntriesOf(h)' = EntriesOf(h)
    BY <2>1 DEF EntriesOf
  <2>10. ASSUME NEW CONSTANT h \in Handles PROVE HandleAgrees(h)'
    <3>1. CASE h = c.to
      BY <1>5, <2>5, <2>7, <2>9, <3>1 DEF HandleAgrees
    <3>2. CASE h # c.to
      BY <1>6, <2>5, <2>7, <2>9, <3>2, HandleLeftAlone, AgreesByHandle DEF WeakInv
    <3> QED
      BY <3>1, <3>2
  <2> QED
    BY <2>5, <2>6, <2>8, <2>10, AllHandlesAgree DEF WeakInv
<1> QED
  BY <1>9, <1>10

\* The handle is given up before anything was registered for it.
LEMMA ThrowsKeeps ==
    ASSUME WeakInv, NEW t \in Threads, RegisterThrows(t) PROVE WeakInv'
<1> DEFINE c == todo[t][1]
<1>1. todo[t] # <<>> /\ Head(todo[t]).op \in {"make", "copy"}
      /\ (Head(todo[t]).op = "make" => t \in inside)
  BY DEF RegisterThrows, First
<1>2. /\ Head(todo[t]) = c /\ c \in Calls /\ c.op \in {"make", "copy"} /\ c.to \in Handles
  BY <1>1, CurrentCall
<1>3. EntriesOf(c.to) = {}
  <2>1. CASE c.op = "make"
    <3>1. Tentative(c.to)
      BY <1>1, <1>2, <2>1 DEF Tentative
    <3> QED
      BY <1>2, <3>1 DEF WeakInv, RegistryAgrees
  <2>2. CASE c.op = "copy"
    <3>1. t \notin inside
      BY <2>2 DEF WeakInv, CallsInv, Waits
    <3>2. encoded_ptr[c.to] = 0
      BY <1>1, <2>2, <3>1 DEF WeakInv, CallsInv, FindsEmpty
    <3> QED
      BY <3>2, NoWordNoEntry DEF WeakInv
  <2> QED
    BY <1>2, <2>1, <2>2
<1>4. /\ EndsCall(t, <<>>) /\ constructed' = constructed \ {c.to}
      /\ encoded_ptr' = [encoded_ptr EXCEPT ![c.to] = 0]
      /\ weak_refs' = weak_refs /\ UNCHANGED <<allocations, strong>>
  BY <1>1, <1>2 DEF RegisterThrows, EndsCall, heap
<1>5. encoded_ptr \in [Handles -> 0..(Modulus - 1)] /\ 0 \in 0..(Modulus - 1)
  BY <1>2, ZeroIsAWord DEF WeakInv, TypeOK
<1>6. \A h \in Handles : encoded_ptr'[h] = IF h = c.to THEN 0 ELSE encoded_ptr[h]
  BY <1>4, <1>5
<1>7. WritesOnly(c) /\ weak_refs' \subseteq [target : Pointers, storage : Handles]
  BY <1>2, <1>4, <1>5, <1>6, WrittenIsTouched DEF WritesOnly, WeakInv, TypeOK
<1>8. /\ TypeOK' /\ CallsInv' /\ StrongLive'
      /\ \A h : (h # c.to => (Tentative(h)' <=> Tentative(h))) /\ (h = c.to => ~Tentative(h)')
  BY <1>1, <1>2, <1>4, <1>7, CallEnds DEF WeakInv, StrongLive
<1>9. EntriesLive' /\ WordsEncode'
  BY <1>4, <1>6 DEF WeakInv, EntriesLive, WordsEncode
<1>10. \A h : EntriesOf(h)' = EntriesOf(h)
  BY <1>4 DEF EntriesOf
<1>11. ASSUME NEW CONSTANT h \in Handles PROVE HandleAgrees(h)'
  <2>1. CASE h = c.to
    BY <1>3, <1>6, <1>8, <1>10, <2>1 DEF HandleAgrees
  <2>2. CASE h # c.to
    BY <1>4, <1>6, <1>8, <1>10, <2>2, HandleLeftAlone, AgreesByHandle DEF WeakInv
  <2> QED
    BY <2>1, <2>2
<1> QED
  BY <1>8, <1>9, <1>11, AllHandlesAgree DEF WeakInv

LEMMA CopyKeeps ==
    ASSUME WeakInv, NEW t \in Threads, copy_weak_ref(t) PROVE WeakInv'
<1> DEFINE c == todo[t][1]
<1>1. todo[t] # <<>> /\ Head(todo[t]).op = "copy" /\ Finish(t) /\ UNCHANGED <<allocations, strong>>
  BY DEF copy_weak_ref, First, heap
<1>2. /\ Head(todo[t]) = c /\ c \in Calls /\ c.op = "copy" /\ c.to \in Handles /\ c.from \in Handles
      /\ c.to \in constructed
  BY <1>1, CurrentCall
<1>3. encoded_ptr[c.to] = 0 /\ EntriesOf(c.to) = {}
  <2>1. t \notin inside
    BY <1>2 DEF WeakInv, CallsInv, Waits
  <2>2. encoded_ptr[c.to] = 0
    BY <1>1, <1>2, <2>1 DEF WeakInv, CallsInv, FindsEmpty
  <2> QED
    BY <2>2, NoWordNoEntry DEF WeakInv
<1>4. EndsCall(t, Tail(todo[t])) /\ constructed' = constructed
  BY <1>1, <1>2, FinishEndsCall DEF WeakInv, CallsInv, Finish
<1>5. encoded_ptr \in [Handles -> 0..(Modulus - 1)] /\ 0 \in 0..(Modulus - 1)
  BY <1>2, ZeroIsAWord DEF WeakInv, TypeOK
<1>6. ASSUME NEW e \in EntriesOf(c.from),
             weak_refs' = weak_refs \cup {Entry(e.target, c.to)},
             encoded_ptr' = [encoded_ptr EXCEPT ![c.to] = encoded_ptr[c.from]]
      PROVE  WeakInv'
  <2> DEFINE f == Entry(e.target, c.to)
  <2>1. /\ e \in weak_refs /\ encoded_ptr[c.from] = encode_weak_ptr(e.target)
        /\ encoded_ptr[c.from] # 0
    BY OneEntry DEF WeakInv
  <2>2. f.target = e.target /\ f.storage = c.to /\ f \in [target : Pointers, storage : Handles]
    BY <1>2, <2>1 DEF Entry, WeakInv, TypeOK
  <2> HIDE DEF f
  <2>3. \A h \in Handles : encoded_ptr'[h] = IF h = c.to THEN encoded_ptr[c.from] ELSE encoded_ptr[h]
    BY <1>5, <1>6
  <2>4. WritesOnly(c) /\ weak_refs' \subseteq [target : Pointers, storage : Handles]
    <3>1. weak_refs' \subseteq [target : Pointers, storage : Handles]
      BY <1>6, <2>2 DEF WeakInv, TypeOK, f
    <3> QED
      BY <1>2, <1>5, <1>6, <2>3, <3>1, WrittenIsTouched DEF WritesOnly
  <2>5. /\ TypeOK' /\ CallsInv' /\ StrongLive'
        /\ \A h : (h # c.to => (Tentative(h)' <=> Tentative(h))) /\ (h = c.to => ~Tentative(h)')
    BY <1>1, <1>2, <1>4, <2>4, CallEnds DEF WeakInv, StrongLive
  <2>6. weak_refs' = weak_refs \cup {f}
    BY <1>6 DEF f
  <2>7. EntriesLive'
    BY <1>1, <2>1, <2>2, <2>6 DEF WeakInv, EntriesLive
  <2>8. WordsEncode'
    BY <1>2, <1>4, <2>3 DEF WeakInv, WordsEncode
  <2>9. \A h : EntriesOf(h)' = IF h = c.to THEN {f} ELSE EntriesOf(h)
    BY <1>3, <2>2, <2>6 DEF EntriesOf
  <2>10. ASSUME NEW CONSTANT h \in Handles PROVE HandleAgrees(h)'
    <3>1. CASE h = c.to
      BY <1>2, <1>4, <2>1, <2>2, <2>3, <2>5, <2>9, <3>1 DEF HandleAgrees
    <3>2. CASE h # c.to
      BY <1>4, <2>3, <2>5, <2>9, <3>2, HandleLeftAlone, AgreesByHandle DEF WeakInv
    <3> QED
      BY <3>1, <3>2
  <2> QED
    BY <2>5, <2>7, <2>8, <2>10, AllHandlesAgree DEF WeakInv
<1>7. ASSUME encoded_ptr' = [encoded_ptr EXCEPT ![c.to] = 0], weak_refs' = weak_refs
      PROVE  WeakInv'
  <2>1. encoded_ptr' = encoded_ptr
    BY <1>3, <1>5, <1>7
  <2>2. WritesOnly(c) /\ weak_refs' \subseteq [target : Pointers, storage : Handles]
    BY <1>5, <1>7, <2>1 DEF WritesOnly, WeakInv, TypeOK
  <2>3. /\ TypeOK' /\ CallsInv' /\ StrongLive'
        /\ \A h : (h # c.to => (Tentative(h)' <=> Tentative(h))) /\ (h = c.to => ~Tentative(h)')
    BY <1>1, <1>2, <1>4, <2>2, CallEnds DEF WeakInv, StrongLive
  <2>4. EntriesLive' /\ WordsEncode'
    BY <1>1, <1>4, <1>7, <2>1 DEF WeakInv, EntriesLive, WordsEncode
  <2>5. \A h : EntriesOf(h)' = EntriesOf(h)
    BY <1>7 DEF EntriesOf
  <2>6. ASSUME NEW CONSTANT h \in Handles PROVE HandleAgrees(h)'
    <3>1. CASE h = c.to
      BY <1>3, <2>1, <2>3, <2>5, <3>1 DEF HandleAgrees
    <3>2. CASE h # c.to
      BY <1>4, <2>1, <2>3, <2>5, <3>2, HandleLeftAlone, AgreesByHandle DEF WeakInv
    <3> QED
      BY <3>1, <3>2
  <2> QED
    BY <2>3, <2>4, <2>6, AllHandlesAgree DEF WeakInv
<1> QED
  BY <1>2, <1>6, <1>7 DEF copy_weak_ref

LEMMA UpdateKeeps ==
    ASSUME WeakInv, NEW t \in Threads, update_weak_ref(t) PROVE WeakInv'
<1> DEFINE c == todo[t][1]
<1>1. /\ todo[t] # <<>> /\ t \in inside /\ Head(todo[t]).op = "move" /\ Finish(t)
      /\ UNCHANGED <<allocations, strong>>
  BY DEF update_weak_ref, First, heap
<1>2. /\ Head(todo[t]) = c /\ c \in Calls /\ c.op = "move" /\ c.to \in Handles /\ c.from \in Handles
      /\ c.to \in constructed /\ c.from # c.to
  BY <1>1, CurrentCall
<1>3. EntriesOf(c.to) = {}
  <2>1. Tentative(c.to)
    BY <1>1, <1>2 DEF Tentative
  <2> QED
    BY <1>2, <2>1 DEF WeakInv, RegistryAgrees
<1>4. EndsCall(t, Tail(todo[t])) /\ constructed' = constructed
  BY <1>1, <1>2, FinishEndsCall DEF WeakInv, CallsInv, Finish
<1>5. encoded_ptr \in [Handles -> 0..(Modulus - 1)] /\ 0 \in 0..(Modulus - 1)
  BY <1>2, ZeroIsAWord DEF WeakInv, TypeOK
<1>6. c.to \in Written(c) /\ c.from \in Written(c)
  BY <1>2, WrittenIsTouched
\* Nobody else is about to fill the handle that is emptied.
<1>7. ~Tentative(c.from)
  <2> SUFFICES ASSUME Tentative(c.from) PROVE FALSE
    OBVIOUS
  <2>1. PICK u \in inside : todo[u] # <<>> /\ Head(todo[u]).to = c.from
    BY DEF Tentative
  <2>2. u \in Threads
    BY DEF WeakInv, TypeOK
  <2>3. Head(todo[u]) = todo[u][1] /\ todo[u][1] \in Unfinished(u) /\ c \in Unfinished(t)
    BY <1>1, <2>1, <2>2, CurrentCall
  <2>4. u # t
    BY <1>2, <2>1
  <2> QED
    BY <1>6, <2>1, <2>2, <2>3, <2>4 DEF WeakInv, CallsInv, Exclusive
<1>8. ASSUME NEW e \in EntriesOf(c.from),
             weak_refs' = (weak_refs \ {e}) \cup {Entry(e.target, c.to)},
             encoded_ptr' = [encoded_ptr EXCEPT ![c.to] = encoded_ptr[c.from], ![c.from] = 0]
      PROVE  WeakInv'
  <2> DEFINE f == Entry(e.target, c.to)
  <2>1. /\ e \in weak_refs /\ encoded_ptr[c.from] = encode_weak_ptr(e.target)
        /\ encoded_ptr[c.from] # 0 /\ EntriesOf(c.from) = {e} /\ e.storage = c.from
    BY OneEntry DEF WeakInv
  <2>2. f.target = e.target /\ f.storage = c.to /\ f \in [target : Pointers, storage : Handles]
    BY <1>2, <2>1 DEF Entry, WeakInv, TypeOK
  <2>3. weak_refs' = (weak_refs \ {e}) \cup {f}
    BY <1>8
  <2> HIDE DEF f
  <2>4. \A h \in Handles : encoded_ptr'[h] = IF h = c.to THEN encoded_ptr[c.from]
                                             ELSE IF h = c.from THEN 0 ELSE encoded_ptr[h]
    BY <1>2, <1>5, <1>8
  <2>5. WritesOnly(c) /\ weak_refs' \subseteq [target : Pointers, storage : Handles]
    <3>1. weak_refs' \subseteq [target : Pointers, storage : Handles]
      BY <2>2, <2>3 DEF WeakInv, TypeOK
    <3> QED
      BY <1>2, <1>5, <1>6, <1>8, <2>4, <3>1 DEF WritesOnly
  <2>6. /\ TypeOK' /\ CallsInv' /\ StrongLive'
        /\ \A h : (h # c.to => (Tentative(h)' <=> Tentative(h))) /\ (h = c.to => ~Tentative(h)')
    BY <1>1, <1>2, <1>4, <2>5, CallEnds DEF WeakInv, StrongLive
  <2>7. EntriesLive'
    BY <1>1, <2>1, <2>2, <2>3 DEF WeakInv, EntriesLive
  <2>8. WordsEncode'
    BY <1>2, <1>4, <2>4 DEF WeakInv, WordsEncode
  <2>9. \A h : EntriesOf(h)' = IF h = c.to THEN {f} ELSE IF h = c.from THEN {} ELSE EntriesOf(h)
    <3>1. ASSUME NEW CONSTANT h PROVE EntriesOf(h)' = {g \in (weak_refs \ {e}) \cup {f} : g.storage = h}
      BY <2>3 DEF EntriesOf
    <3> QED
      BY <1>2, <1>3, <2>1, <2>2, <3>1 DEF EntriesOf
  <2>10. ASSUME NEW CONSTANT h \in Handles PROVE HandleAgrees(h)'
    <3>1. CASE h = c.to
      BY <1>2, <1>4, <2>1, <2>2, <2>4, <2>6, <2>9, <3>1 DEF HandleAgrees
    <3>2. CASE h = c.from
      BY <1>2, <2>4, <2>9, <3>2 DEF HandleAgrees
    <3>3. CASE h # c.to /\ h # c.from
      BY <1>4, <2>4, <2>6, <2>9, <3>3, HandleLeftAlone, AgreesByHandle DEF WeakInv
    <3> QED
      BY <3>1, <3>2, <3>3
  <2> QED
    BY <2>6, <2>7, <2>8, <2>10, AllHandlesAgree DEF WeakInv
<1>9. ASSUME EntriesOf(c.from) = {}, weak_refs' = weak_refs,
             encoded_ptr' = [encoded_ptr EXCEPT ![c.to] = 0, ![c.from] = 0]
      PROVE  WeakInv'
  <2>1. \A h \in Handles : encoded_ptr'[h] = IF h = c.to \/ h = c.from THEN 0 ELSE encoded_ptr[h]
    BY <1>2, <1>5, <1>9
  <2>2. WritesOnly(c) /\ weak_refs' \subseteq [target : Pointers, storage : Handles]
    <3>1. weak_refs' \subseteq [target : Pointers, storage : Handles]
      BY <1>9 DEF WeakInv, TypeOK
    <3> QED
      BY <1>2, <1>5, <1>6, <1>9, <2>1, <3>1 DEF WritesOnly
  <2>3. /\ TypeOK' /\ CallsInv' /\ StrongLive'
        /\ \A h : (h # c.to => (Tentative(h)' <=> Tentative(h))) /\ (h = c.to => ~Tentative(h)')
    BY <1>1, <1>2, <1>4, <2>2, CallEnds DEF WeakInv, StrongLive
  <2>4. EntriesLive' /\ WordsEncode'
    BY <1>1, <1>4, <1>9, <2>1 DEF WeakInv, EntriesLive, WordsEncode
  <2>5. \A h : EntriesOf(h)' = EntriesOf(h)
    BY <1>9 DEF EntriesOf
  <2>6. ASSUME NEW CONSTANT h \in Handles PROVE HandleAgrees(h)'
    <3>1. CASE h = c.to \/ h = c.from
      BY <1>3, <1>9, <2>1, <2>5, <3>1 DEF HandleAgrees
    <3>2. CASE h # c.to /\ h # c.from
      BY <1>4, <2>1, <2>3, <2>5, <3>2, HandleLeftAlone, AgreesByHandle DEF WeakInv
    <3> QED
      BY <3>1, <3>2
  <2> QED
    BY <2>3, <2>4, <2>6, AllHandlesAgree DEF WeakInv
<1> QED
  BY <1>2, <1>8, <1>9 DEF update_weak_ref

LEMMA UnregisterKeeps ==
    ASSUME WeakInv, NEW t \in Threads, unregister_weak_ref(t) PROVE WeakInv'
<1> DEFINE c == todo[t][1]
<1>1. /\ todo[t] # <<>> /\ Head(todo[t]).op \in {"reset", "drop"} /\ Finish(t)
      /\ UNCHANGED <<allocations, strong>>
  BY DEF unregister_weak_ref, First, heap
<1>2. /\ Head(todo[t]) = c /\ c \in Calls /\ c.op \in {"reset", "drop"} /\ c.to \in Handles
      /\ c.to \in Written(c)
  BY <1>1, CurrentCall, WrittenIsTouched
<1>3. /\ EndsCall(t, Tail(todo[t]))
      /\ constructed' = IF c.op = "drop" THEN constructed \ {c.to} ELSE constructed
  BY <1>1, <1>2, FinishEndsCall DEF WeakInv, CallsInv, Finish
<1>4. encoded_ptr \in [Handles -> 0..(Modulus - 1)] /\ 0 \in 0..(Modulus - 1)
  BY <1>2, ZeroIsAWord DEF WeakInv, TypeOK
<1>5. encoded_ptr' = [encoded_ptr EXCEPT ![c.to] = 0]
  BY <1>2 DEF unregister_weak_ref
<1>6. \A h \in Handles : encoded_ptr'[h] = IF h = c.to THEN 0 ELSE encoded_ptr[h]
  BY <1>4, <1>5
<1>7. weak_refs' = weak_refs \ EntriesOf(c.to)
  <2>1. CASE EntriesOf(c.to) = {}
    BY <1>2, <2>1 DEF unregister_weak_ref
  <2>2. ASSUME NEW e \in EntriesOf(c.to), weak_refs' = weak_refs \ {e}
        PROVE  weak_refs' = weak_refs \ EntriesOf(c.to)
    BY <2>2, OneEntry DEF WeakInv
  <2> QED
    BY <1>2, <2>1, <2>2 DEF unregister_weak_ref
<1>8. WritesOnly(c) /\ weak_refs' \subseteq [target : Pointers, storage : Handles]
  <2>1. weak_refs' \subseteq [target : Pointers, storage : Handles]
    BY <1>7 DEF WeakInv, TypeOK
  <2> QED
    BY <1>2, <1>4, <1>5, <1>6, <2>1 DEF WritesOnly
<1>9. /\ TypeOK' /\ CallsInv' /\ StrongLive'
      /\ \A h : (h # c.to => (Tentative(h)' <=> Tentative(h))) /\ (h = c.to => ~Tentative(h)')
  BY <1>1, <1>2, <1>3, <1>6, <1>8, CallEnds DEF WeakInv, StrongLive
<1>10. EntriesLive' /\ WordsEncode'
  BY <1>1, <1>3, <1>6, <1>7 DEF WeakInv, EntriesLive, WordsEncode
<1>11. \A h : EntriesOf(h)' = IF h = c.to THEN {} ELSE EntriesOf(h)
  BY <1>7 DEF EntriesOf
<1>12. ASSUME NEW CONSTANT h \in Handles PROVE HandleAgrees(h)'
  <2>1. CASE h = c.to
    BY <1>6, <1>11, <2>1 DEF HandleAgrees
  <2>2. CASE h # c.to
    BY <1>3, <1>6, <1>9, <1>11, <2>2, HandleLeftAlone, AgreesByHandle DEF WeakInv
  <2> QED
    BY <2>1, <2>2
<1> QED
  BY <1>9, <1>10, <1>12, AllHandlesAgree DEF WeakInv

LEMMA ReadKeeps ==
    ASSUME WeakInv, NEW t \in Threads, read_weak_ref(t) PROVE WeakInv'
<1> DEFINE c == todo[t][1]
           got == {b \in Blocks : \E e \in EntriesOf(c.from) : e.target \in Payload(b)}
<1>1. /\ todo[t] # <<>> /\ Head(todo[t]).op = "lock" /\ Finish(t)
      /\ UNCHANGED <<allocations, encoded_ptr, weak_refs>>
  BY DEF read_weak_ref, First
<1>2. /\ Head(todo[t]) = c /\ c \in Calls /\ c.op = "lock"
  BY <1>1, CurrentCall
<1>3. EndsCall(t, Tail(todo[t])) /\ constructed' = constructed
  BY <1>1, <1>2, FinishEndsCall DEF WeakInv, CallsInv, Finish
<1>4. strong' = strong \cup got
  BY <1>2 DEF read_weak_ref
<1>5. got \subseteq allocations
  <2> SUFFICES ASSUME NEW b \in Blocks, NEW e \in weak_refs, e.target \in Payload(b)
               PROVE  b \in allocations
    BY DEF EntriesOf
  <2>1. PICK a \in allocations : e.target \in Payload(a)
    BY DEF WeakInv, EntriesLive
  <2>2. a \in Blocks
    BY DEF WeakInv, TypeOK
  <2> QED
    BY <2>1, <2>2, OneBlockPerAddress
<1>6. strong \subseteq strong' /\ strong' \subseteq allocations' /\ strong' \in SUBSET Blocks
  BY <1>1, <1>4, <1>5 DEF WeakInv, StrongLive, TypeOK
<1>7. WritesOnly(c) /\ weak_refs' \subseteq [target : Pointers, storage : Handles]
  BY <1>1 DEF WritesOnly, WeakInv, TypeOK
<1>8. t \notin inside
  BY <1>2 DEF WeakInv, CallsInv, Waits
<1>9. /\ TypeOK' /\ CallsInv' /\ StrongLive'
      /\ \A h : h # c.to => (Tentative(h)' <=> Tentative(h))
  BY <1>1, <1>2, <1>3, <1>6, <1>7, CallEnds
<1>10. \A h : Tentative(h)' <=> Tentative(h)
  BY <1>3, <1>8 DEF Tentative, EndsCall, WeakInv, TypeOK
<1>11. EntriesLive' /\ WordsEncode'
  BY <1>1, <1>3 DEF WeakInv, EntriesLive, WordsEncode
<1>12. \A h : EntriesOf(h)' = EntriesOf(h)
  BY <1>1 DEF EntriesOf
<1>13. ASSUME NEW CONSTANT h \in Handles PROVE HandleAgrees(h)'
  BY <1>1, <1>3, <1>10, <1>12, HandleLeftAlone, AgreesByHandle DEF WeakInv
<1> QED
  BY <1>9, <1>11, <1>13, AllHandlesAgree DEF WeakInv

LEMMA TestKeeps ==
    ASSUME WeakInv, NEW t \in Threads, Test(t) PROVE WeakInv'
<1> DEFINE c == todo[t][1]
           w == IF c.op = "make" THEN encode_weak_ptr(c.ptr) ELSE encoded_ptr[c.from]
<1>1. /\ todo[t] # <<>> /\ t \notin inside /\ UNCHANGED <<allocations, strong, weak_refs>>
  BY DEF Test, heap
<1>2. /\ Head(todo[t]) = c /\ c \in Calls /\ c \in Unfinished(t)
      /\ c.to \in Handles /\ c.from \in Handles /\ c.to \in constructed
      /\ c.op = "make" => c.ptr \in Pointers
      /\ c.op \in {"reset", "drop"} => c.from = c.to
  BY <1>1, CurrentCall
<1>3. /\ c.op \in {"make", "move", "reset", "drop"}
      /\ encoded_ptr' = [encoded_ptr EXCEPT ![c.to] = w]
      /\ \/ w = 0 /\ Finish(t)
         \/ w # 0 /\ inside' = inside \cup {t} /\ UNCHANGED <<todo, constructed>>
  BY <1>2 DEF Test
<1>4. /\ c.op \in {"make", "move"} => encoded_ptr[c.to] = 0
      /\ c.op \in {"reset", "drop"} => encoded_ptr[c.to] = w
  BY <1>1, <1>2 DEF WeakInv, CallsInv, FindsEmpty
<1>5. /\ encoded_ptr \in [Handles -> 0..(Modulus - 1)]
      /\ w = 0 \/ \E p \in Pointers : p # 0 /\ w = encode_weak_ptr(p)
  <2>1. CASE c.op = "make"
    BY <1>2, <2>1, EncodedWord DEF WeakInv, TypeOK
  <2>2. CASE c.op # "make"
    BY <1>2, <2>2 DEF WeakInv, TypeOK, WordsEncode
  <2> QED
    BY <2>1, <2>2
<1>6. w \in 0..(Modulus - 1)
  <2>1. CASE c.op = "make"
    BY <1>2, <2>1, EncodedWord
  <2>2. CASE c.op # "make"
    BY <1>2, <1>5, <2>2
  <2> QED
    BY <2>1, <2>2
<1>6a. c.op = "make" => w = encode_weak_ptr(c.ptr)
  OBVIOUS
<1> HIDE DEF w
<1>7. \A h \in Handles : encoded_ptr'[h] = IF h = c.to THEN w ELSE encoded_ptr[h]
  BY <1>3, <1>5
<1>8. WritesOnly(c) /\ weak_refs' \subseteq [target : Pointers, storage : Handles]
  <2>1. c.to \in Written(c)
    BY <1>2, <1>3, WrittenIsTouched
  <2>2. encoded_ptr' \in [Handles -> 0..(Modulus - 1)]
    BY <1>3, <1>5, <1>6
  <2> QED
    BY <1>1, <1>7, <2>1, <2>2 DEF WritesOnly, WeakInv, TypeOK
<1>9. \A h : EntriesOf(h)' = EntriesOf(h)
  BY <1>1 DEF EntriesOf
<1>10. EntriesLive' /\ StrongLive'
  BY <1>1 DEF WeakInv, EntriesLive, StrongLive
<1>11. CASE w = 0 /\ Finish(t)
  <2>1. /\ EndsCall(t, Tail(todo[t]))
        /\ constructed' = IF c.op = "drop" THEN constructed \ {c.to} ELSE constructed
    BY <1>1, <1>2, <1>11, FinishEndsCall DEF WeakInv, CallsInv, Finish
  <2>2. encoded_ptr[c.to] = 0
    BY <1>3, <1>4, <1>11
  <2>3. EntriesOf(c.to) = {}
    BY <2>2, NoWordNoEntry DEF WeakInv
  <2>4. /\ TypeOK' /\ CallsInv' /\ StrongLive'
        /\ \A h : (h # c.to => (Tentative(h)' <=> Tentative(h))) /\ (h = c.to => ~Tentative(h)')
    BY <1>1, <1>2, <1>3, <1>7, <1>8, <1>11, <2>1, CallEnds DEF WeakInv, StrongLive
  <2>5. WordsEncode'
    BY <1>7, <1>11, <2>1 DEF WeakInv, WordsEncode
  <2>6. ASSUME NEW CONSTANT h \in Handles PROVE HandleAgrees(h)'
    <3>1. CASE h = c.to
      BY <1>7, <1>9, <1>11, <2>3, <2>4, <3>1 DEF HandleAgrees
    <3>2. CASE h # c.to
      BY <1>7, <1>9, <2>1, <2>4, <3>2, HandleLeftAlone, AgreesByHandle DEF WeakInv
    <3> QED
      BY <3>1, <3>2
  <2> QED
    BY <1>10, <2>4, <2>5, <2>6, AllHandlesAgree DEF WeakInv
<1>12. CASE w # 0 /\ inside' = inside \cup {t} /\ UNCHANGED <<todo, constructed>>
  <2>1. TypeOK'
    BY <1>1, <1>8, <1>12 DEF WeakInv, TypeOK, WritesOnly
  <2>2. \A u \in Threads : Unfinished(u)' = Unfinished(u)
    BY <1>12 DEF Unfinished
  <2>3. Orderly' /\ Exclusive' /\ TargetsExist' /\ ArgumentsHeld'
    BY <1>1, <1>12, <2>2 DEF WeakInv, CallsInv, Orderly, Exclusive, TargetsExist, ArgumentsHeld,
       WellFormed
  <2>4. ASSUME NEW u \in Threads PROVE FindsEmpty(u)' /\ Waits(u)'
    <3>1. CASE u = t
      BY <1>1, <1>2, <1>3, <1>6a, <1>7, <1>12, <3>1 DEF FindsEmpty, Waits
    <3>2. CASE u # t
      <4>1. u \in inside' <=> u \in inside
        BY <1>12, <3>2
      <4>2. CASE todo[u] = <<>>
        BY <1>12, <4>1, <4>2 DEF FindsEmpty, Waits, WeakInv, CallsInv
      <4>3. CASE todo[u] # <<>>
        <5>1. todo[u][1] \in Unfinished(u) /\ todo[u][1].to \in Handles
          BY <4>3, CurrentCall
        <5>2. c.to \in Written(c)
          BY <1>2, <1>3, WrittenIsTouched
        <5>3. todo[u][1].to # c.to
          BY <1>2, <3>2, <5>1, <5>2 DEF WeakInv, CallsInv, Exclusive
        <5>4. encoded_ptr'[todo[u][1].to] = encoded_ptr[todo[u][1].to]
          BY <1>7, <5>1, <5>3
        <5> QED
          BY <1>12, <4>1, <5>4 DEF FindsEmpty, Waits, WeakInv, CallsInv
      <4> QED
        BY <4>2, <4>3
    <3> QED
      BY <3>1, <3>2
  <2>5. WordsEncode'
    BY <1>2, <1>5, <1>7, <1>12 DEF WeakInv, WordsEncode
  <2>6. \A h : Tentative(h)' <=> Tentative(h) \/ (h = c.to /\ c.op \in {"make", "move"})
    BY <1>1, <1>2, <1>12 DEF Tentative
  <2>7. ASSUME NEW CONSTANT h \in Handles PROVE HandleAgrees(h)'
    <3>1. CASE h = c.to /\ c.op \in {"make", "move"}
      <4>1. EntriesOf(c.to) = {}
        BY <1>4, <3>1, NoWordNoEntry DEF WeakInv
      <4> QED
        BY <1>9, <2>6, <3>1, <4>1 DEF HandleAgrees
    <3>2. CASE h # c.to \/ c.op \in {"reset", "drop"}
      <4>1. encoded_ptr'[h] = encoded_ptr[h]
        BY <1>4, <1>7, <3>2
      <4>2. Tentative(h)' <=> Tentative(h)
        BY <2>6, <3>2
      <4> QED
        BY <1>9, <1>12, <4>1, <4>2, HandleLeftAlone, AgreesByHandle DEF WeakInv
    <3> QED
      BY <1>3, <3>1, <3>2
  <2> QED
    BY <1>10, <2>1, <2>3, <2>4, <2>5, <2>7, AllHandlesAgree DEF WeakInv, CallsInv
<1> QED
  BY <1>3, <1>11, <1>12
-------------------------------------------------------------------------------
(***************************************************************************)
(* The member functions.  A thread that starts one has no call under way,  *)
(* and the rule for shared objects keeps its handles apart from those of   *)
(* other threads.                                                          *)
(***************************************************************************)
\* What a call needs of the state in which its member function starts.
Permitted(c, new) ==
    /\ c.to \in constructed \cup new
    /\ \A h \in Written(c) : Writable(h)
    /\ Readable(c.from) /\ Readable(c.to)
    /\ c.op = "make" => Passable(c.ptr)

LEMMA WritableIsReadable ==
    ASSUME TypeOK, NEW h, Writable(h) PROVE Readable(h)
<1>1. \A t \in Threads : \A c \in Unfinished(t) : Written(c) \subseteq {c.from, c.to}
  BY UnfinishedAreCalls, WrittenIsTouched
<1> QED
  BY <1>1 DEF Writable, Readable

LEMMA BeginKeeps ==
    ASSUME WeakInv, NEW t \in Threads, NEW calls, NEW new \in SUBSET Handles,
           Begin(t, calls, new), WellFormed(calls), calls # <<>>,
           \A i \in DOMAIN calls : Permitted(calls[i], new),
           calls[1].op \in {"make", "copy", "move"} => encoded_ptr[calls[1].to] = 0
    PROVE  WeakInv'
<1>1. /\ todo[t] = <<>> /\ todo' = [todo EXCEPT ![t] = calls]
      /\ constructed' = constructed \cup new
      /\ UNCHANGED <<allocations, strong, encoded_ptr, weak_refs, inside>>
  BY DEF Begin, heap
<1>2. t \notin inside
  BY <1>1 DEF WeakInv, CallsInv, Waits
<1>3. todo'[t] = calls /\ \A u \in Threads : u # t => todo'[u] = todo[u]
  BY <1>1 DEF WeakInv, TypeOK
<1>4. todo' \in [Threads -> Seq(Calls)]
  BY <1>1 DEF WeakInv, TypeOK, WellFormed
<1>5. TypeOK'
  BY <1>1, <1>4 DEF WeakInv, TypeOK
<1>6. \A u \in Threads : u # t => Unfinished(u)' = Unfinished(u)
  BY <1>3 DEF Unfinished
<1>7. Unfinished(t)' = {calls[i] : i \in DOMAIN calls}
  BY <1>3 DEF Unfinished
<1>8. \A c \in Unfinished(t)' : Permitted(c, new)
  BY <1>7
<1>9. Orderly'
  <2>1. ASSUME NEW u \in Threads PROVE WellFormed(todo'[u])
    BY <1>3 DEF WeakInv, CallsInv, Orderly
  <2> QED
    BY <2>1 DEF Orderly, WellFormed
<1>10. Exclusive'
  <2> SUFFICES ASSUME NEW u \in Threads, NEW v \in Threads, u # v,
                      NEW c \in Unfinished(u)', NEW d \in Unfinished(v)'
               PROVE  Written(c) \cap {d.from, d.to} = {}
    BY DEF Exclusive, Written
  <2>1. CASE u # t /\ v # t
    BY <1>6, <2>1 DEF WeakInv, CallsInv, Exclusive
  <2>2. CASE u = t
    <3>1. d \in Unfinished(v) /\ \A h \in Written(c) : Writable(h)
      BY <1>6, <1>8, <2>2 DEF Permitted
    <3> QED
      BY <3>1 DEF Writable
  <2>3. CASE v = t
    <3>1. c \in Unfinished(u) /\ Readable(d.from) /\ Readable(d.to)
      BY <1>6, <1>8, <2>3 DEF Permitted
    <3> QED
      BY <3>1 DEF Readable
  <2> QED
    BY <2>1, <2>2, <2>3
<1>11. TargetsExist'
  <2> SUFFICES ASSUME NEW u \in Threads, NEW c \in Unfinished(u)' PROVE c.to \in constructed'
    BY DEF TargetsExist
  <2>1. CASE u = t
    BY <1>1, <1>8, <2>1 DEF Permitted
  <2>2. CASE u # t
    BY <1>1, <1>6, <2>2 DEF WeakInv, CallsInv, TargetsExist
  <2> QED
    BY <2>1, <2>2
<1>12. ArgumentsHeld'
  <2> SUFFICES ASSUME NEW u \in Threads, NEW c \in Unfinished(u)', c.op = "make",
                      NEW b \in Blocks, c.ptr \in Payload(b)
               PROVE  b \in strong'
    BY DEF ArgumentsHeld
  <2>1. CASE u = t
    BY <1>1, <1>8, <2>1 DEF Permitted, Passable
  <2>2. CASE u # t
    BY <1>1, <1>6, <2>2 DEF WeakInv, CallsInv, ArgumentsHeld
  <2> QED
    BY <2>1, <2>2
<1>13. ASSUME NEW u \in Threads PROVE FindsEmpty(u)' /\ Waits(u)'
  <2>1. CASE u = t
    BY <1>1, <1>2, <1>3, <2>1 DEF FindsEmpty, Waits
  <2>2. CASE u # t
    BY <1>1, <1>3, <2>2 DEF FindsEmpty, Waits, WeakInv, CallsInv
  <2> QED
    BY <2>1, <2>2
<1>14. EntriesLive' /\ StrongLive' /\ WordsEncode'
  BY <1>1 DEF WeakInv, EntriesLive, StrongLive, WordsEncode
<1>15. \A h : (Tentative(h)' <=> Tentative(h)) /\ EntriesOf(h)' = EntriesOf(h)
  BY <1>1, <1>2, <1>3 DEF Tentative, EntriesOf, WeakInv, TypeOK
<1>16. ASSUME NEW CONSTANT h \in Handles PROVE HandleAgrees(h)'
  <2>1. CASE h \in constructed
    BY <1>1, <1>15, <2>1, HandleLeftAlone, AgreesByHandle DEF WeakInv
  <2>2. CASE h \notin constructed
    <3>1. encoded_ptr[h] = 0
      BY <2>2 DEF WeakInv, WordsEncode
    <3>2. EntriesOf(h) = {}
      BY <3>1, NoWordNoEntry DEF WeakInv
    <3> QED
      BY <1>1, <1>15, <3>1, <3>2 DEF HandleAgrees
  <2> QED
    BY <2>1, <2>2
<1> QED
  BY <1>5, <1>9, <1>10, <1>11, <1>12, <1>13, <1>14, <1>16, AllHandlesAgree DEF WeakInv, CallsInv

LEMMA MakeCall ==
    ASSUME NEW p \in Pointers, NEW h \in Handles
    PROVE  /\ Make(p, h) \in Calls /\ Make(p, h).op = "make" /\ Make(p, h).ptr = p
           /\ Make(p, h).from = h /\ Make(p, h).to = h /\ Written(Make(p, h)) = {h}
BY DEF Make, Calls, Written

LEMMA OtherCalls ==
    ASSUME NEW op \in {"copy", "move", "reset", "drop", "lock"}, NEW g \in Handles, NEW h \in Handles
    PROVE  /\ Call(op, g, h) \in Calls /\ Call(op, g, h).op = op
           /\ Call(op, g, h).from = g /\ Call(op, g, h).to = h
           /\ Written(Call(op, g, h)) =
                 IF op = "lock" THEN {} ELSE IF op = "copy" THEN {h} ELSE {g, h}
BY DEF Call, Calls, Written

\* The from and to of a call by itself.
Regular(c) ==
    /\ c \in Calls
    /\ c.op \in {"make", "reset", "drop", "lock"} => c.from = c.to
    /\ c.op = "move" => c.from # c.to
    /\ c.op = "make" => c.ptr \in Pointers

LEMMA OneCall ==
    ASSUME NEW c, Regular(c)
    PROVE  /\ WellFormed(<<c>>) /\ <<c>> # <<>> /\ <<c>>[1] = c
           /\ \A i \in DOMAIN <<c>> : <<c>>[i] = c
BY DEF WellFormed, Regular

LEMMA ResetAndMove ==
    ASSUME NEW c, NEW d, Regular(c), Regular(d), c.op = "reset", d.op = "move", c.to = d.to
    PROVE  /\ WellFormed(<<c, d>>) /\ <<c, d>> # <<>> /\ <<c, d>>[1] = c
           /\ \A i \in DOMAIN <<c, d>> : <<c, d>>[i] \in {c, d}
BY DEF WellFormed, Regular

LEMMA BuildAndReplace ==
    ASSUME NEW b, NEW c, NEW d, NEW e, Regular(b), Regular(c), Regular(d), Regular(e),
           b.op \in {"make", "copy"}, c.op = "reset", d.op = "move", e.op = "drop", c.to = d.to
    PROVE  /\ WellFormed(<<b, c, d, e>>) /\ <<b, c, d, e>> # <<>> /\ <<b, c, d, e>>[1] = b
           /\ \A i \in DOMAIN <<b, c, d, e>> : <<b, c, d, e>>[i] \in {b, c, d, e}
<1> DEFINE s == <<b, c, d, e>>
<1>1. s \in Seq(Calls) /\ Len(s) = 4 /\ DOMAIN s = 1..4
  BY DEF Regular
<1>2. s[1] = b /\ s[2] = c /\ s[3] = d /\ s[4] = e
  OBVIOUS
<1>3. \A i \in 1..4 : i = 1 \/ i = 2 \/ i = 3 \/ i = 4
  OBVIOUS
<1> HIDE DEF s
<1>4. ASSUME NEW i \in 1..4
      PROVE  /\ i > 1 => s[i].op \in {"reset", "move", "drop"}
             /\ i > 1 /\ s[i].op = "move" => s[i - 1].op = "reset" /\ s[i - 1].to = s[i].to
             /\ s[i].op = "drop" => i = 4
             /\ Regular(s[i]) /\ s[i] \in {b, c, d, e}
  BY <1>2, <1>3
<1>5. WellFormed(s)
  BY <1>1, <1>4 DEF WellFormed, Regular
<1>6. s # <<>>
  BY DEF s
<1> QED
  BY <1>1, <1>2, <1>4, <1>5, <1>6 DEF s

LEMMA VacantIsClear ==
    ASSUME WeakInv, NEW h \in Handles, Vacant(h)
    PROVE  encoded_ptr[h] = 0 /\ Writable(h) /\ Readable(h) /\ h \notin constructed
BY WritableIsReadable DEF WeakInv, WordsEncode, Vacant

LEMMA ConstructKeeps ==
    ASSUME WeakInv, NEW t \in Threads, NEW h \in Handles, Construct(t, h) PROVE WeakInv'
<1>1. encoded_ptr[h] = 0 /\ Writable(h) /\ Readable(h) /\ h \notin constructed
  BY VacantIsClear DEF Construct
<1>2. constructed \subseteq Handles /\ TypeOK /\ {h} \in SUBSET Handles
  BY DEF WeakInv, TypeOK
<1>3. ASSUME NEW p \in Pointers, Passable(p), Begin(t, <<Make(p, h)>>, {h}) PROVE WeakInv'
  <2> DEFINE c == Make(p, h)
  <2>1. /\ Regular(c) /\ Permitted(c, {h}) /\ c.to = h
    BY <1>1, <1>3, MakeCall DEF Regular, Permitted
  <2>2. Begin(t, <<c>>, {h})
    BY <1>3
  <2> HIDE DEF c
  <2> QED
    BY <1>1, <1>2, <2>1, <2>2, OneCall, BeginKeeps
<1>4. ASSUME NEW g \in constructed, Readable(g), Begin(t, <<Copy(g, h)>>, {h}) PROVE WeakInv'
  <2> DEFINE c == Copy(g, h)
  <2>1. /\ Regular(c) /\ Permitted(c, {h}) /\ c.to = h
    BY <1>1, <1>2, <1>4, OtherCalls DEF Copy, Regular, Permitted
  <2>2. Begin(t, <<c>>, {h})
    BY <1>4
  <2> HIDE DEF c
  <2> QED
    BY <1>1, <1>2, <2>1, <2>2, OneCall, BeginKeeps
<1>5. ASSUME NEW g \in constructed, Writable(g), Begin(t, <<Move(g, h)>>, {h}) PROVE WeakInv'
  <2> DEFINE c == Move(g, h)
  <2>1. Readable(g)
    BY <1>2, <1>5, WritableIsReadable
  <2>2. /\ Regular(c) /\ Permitted(c, {h}) /\ c.to = h
    BY <1>1, <1>2, <1>5, <2>1, OtherCalls DEF Move, Regular, Permitted
  <2>3. Begin(t, <<c>>, {h})
    BY <1>5
  <2> HIDE DEF c
  <2> QED
    BY <1>1, <1>2, <2>2, <2>3, OneCall, BeginKeeps
<1> QED
  BY <1>3, <1>4, <1>5 DEF Construct

LEMMA AssignThroughKeeps ==
    ASSUME WeakInv, NEW t \in Threads, NEW h \in Handles, NEW r \in Handles, h # r,
           AssignThrough(t, h, r)
    PROVE  WeakInv'
<1>1. encoded_ptr[r] = 0 /\ Writable(r) /\ Readable(r) /\ r \notin constructed
  BY VacantIsClear DEF AssignThrough
<1>2. constructed \subseteq Handles /\ TypeOK /\ {r} \in SUBSET Handles
  BY DEF WeakInv, TypeOK
<1>3. h \in constructed /\ Writable(h) /\ Readable(h)
  BY <1>2, WritableIsReadable DEF AssignThrough
<1> DEFINE c == Reset(h)
           d == Move(r, h)
           e == Drop(r)
<1>4. /\ Regular(c) /\ Regular(d) /\ Regular(e)
      /\ Permitted(c, {r}) /\ Permitted(d, {r}) /\ Permitted(e, {r})
      /\ c.op = "reset" /\ d.op = "move" /\ e.op = "drop" /\ c.to = d.to
  BY <1>1, <1>3, OtherCalls DEF Reset, Move, Drop, Regular, Permitted
<1> HIDE DEF c, d, e
<1>5. ASSUME NEW b, Regular(b), Permitted(b, {r}), b.op \in {"make", "copy"}, b.to = r,
             Begin(t, <<b, c, d, e>>, {r})
      PROVE  WeakInv'
  <2> DEFINE s == <<b, c, d, e>>
  <2>1. /\ WellFormed(s) /\ s # <<>> /\ s[1] = b /\ \A i \in DOMAIN s : s[i] \in {b, c, d, e}
    BY <1>4, <1>5, BuildAndReplace
  <2>2. Begin(t, s, {r})
    BY <1>5
  <2> HIDE DEF s
  <2>3. \A i \in DOMAIN s : Permitted(s[i], {r})
    BY <1>4, <1>5, <2>1
  <2> QED
    BY <1>1, <1>2, <1>5, <2>1, <2>2, <2>3, BeginKeeps
<1>6. ASSUME NEW p \in Pointers, Passable(p), Begin(t, <<Make(p, r), c, d, e>>, {r}) PROVE WeakInv'
  <2> DEFINE b == Make(p, r)
  <2>1. Regular(b) /\ Permitted(b, {r}) /\ b.op = "make" /\ b.to = r
    BY <1>1, <1>6, MakeCall DEF Regular, Permitted
  <2>2. Begin(t, <<b, c, d, e>>, {r})
    BY <1>6
  <2> HIDE DEF b
  <2> QED
    BY <1>5, <2>1, <2>2
<1>7. ASSUME NEW g \in constructed, Readable(g), Begin(t, <<Copy(g, r), c, d, e>>, {r}) PROVE WeakInv'
  <2> DEFINE b == Copy(g, r)
  <2>1. Regular(b) /\ Permitted(b, {r}) /\ b.op = "copy" /\ b.to = r
    BY <1>1, <1>2, <1>7, OtherCalls DEF Copy, Regular, Permitted
  <2>2. Begin(t, <<b, c, d, e>>, {r})
    BY <1>7
  <2> HIDE DEF b
  <2> QED
    BY <1>5, <2>1, <2>2
<1> QED
  BY <1>6, <1>7 DEF AssignThrough, c, d, e

LEMMA AssignMovingKeeps ==
    ASSUME WeakInv, NEW t \in Threads, NEW h \in Handles, AssignMoving(t, h) PROVE WeakInv'
<1>1. constructed \subseteq Handles /\ TypeOK /\ {} \in SUBSET Handles
  BY DEF WeakInv, TypeOK
<1>2. h \in constructed /\ Writable(h) /\ Readable(h)
  BY <1>1, WritableIsReadable DEF AssignMoving
<1>3. PICK g \in constructed \ {h} : Writable(g) /\ Begin(t, <<Reset(h), Move(g, h)>>, {})
  BY DEF AssignMoving
<1>4. Readable(g)
  BY <1>1, <1>3, WritableIsReadable
<1> DEFINE c == Reset(h)
           d == Move(g, h)
           s == <<c, d>>
<1>5. /\ Regular(c) /\ Regular(d) /\ Permitted(c, {}) /\ Permitted(d, {})
      /\ c.op = "reset" /\ d.op = "move" /\ c.to = d.to
  BY <1>1, <1>2, <1>3, <1>4, OtherCalls DEF Reset, Move, Regular, Permitted
<1>6. Begin(t, s, {})
  BY <1>3
<1> HIDE DEF c, d
<1>7. /\ WellFormed(s) /\ s # <<>> /\ s[1] = c /\ \A i \in DOMAIN s : s[i] \in {c, d}
  BY <1>5, ResetAndMove
<1> HIDE DEF s
<1>8. \A i \in DOMAIN s : Permitted(s[i], {})
  BY <1>5, <1>7
<1> QED
  BY <1>1, <1>5, <1>6, <1>7, <1>8, BeginKeeps

LEMMA SingleCallKeeps ==
    ASSUME WeakInv, NEW t \in Threads, NEW h \in Handles, h \in constructed, Readable(h),
           NEW op \in {"reset", "drop", "lock"}, op # "lock" => Writable(h),
           Begin(t, <<Call(op, h, h)>>, {})
    PROVE  WeakInv'
<1> DEFINE c == Call(op, h, h)
<1>1. /\ Regular(c) /\ Permitted(c, {}) /\ c.op = op
  BY OtherCalls DEF Regular, Permitted
<1>2. Begin(t, <<c>>, {}) /\ {} \in SUBSET Handles
  OBVIOUS
<1> HIDE DEF c
<1> QED
  BY <1>1, <1>2, OneCall, BeginKeeps
-------------------------------------------------------------------------------
(* The heap *)

LEMMA WordsAreNotAddresses ==
    ASSUME WeakInv PROVE SeenIn({encoded_ptr[h] : h \in constructed}) = {}
<1> SUFFICES ASSUME NEW b \in allocations, NEW h \in constructed, encoded_ptr[h] \in Payload(b)
             PROVE  FALSE
  BY DEF SeenIn
<1>1. b \in Blocks /\ h \in Handles
  BY DEF WeakInv, TypeOK
<1>2. CASE encoded_ptr[h] = 0
  BY <1>1, <1>2, NullIsUnmanaged
<1>3. CASE encoded_ptr[h] # 0
  <2>1. PICK p \in Pointers : p # 0 /\ encoded_ptr[h] = encode_weak_ptr(p)
    BY <1>1, <1>3 DEF WeakInv, WordsEncode
  <2> QED
    BY <1>1, <2>1, EncodedWord
<1> QED
  BY <1>2, <1>3

\* Threads see nothing of a step of the heap but words that became zero.
LEMMA HeapKeepsCalls ==
    ASSUME WeakInv, UNCHANGED <<constructed, todo, inside>>,
           encoded_ptr' \in [Handles -> 0..(Modulus - 1)],
           \A h \in Handles : \/ encoded_ptr'[h] = encoded_ptr[h]
                              \/ encoded_ptr'[h] = 0 /\ EntriesOf(h) # {},
           \A b \in Blocks : Passed(b) /\ b \in strong => b \in strong'
    PROVE  CallsInv' /\ WordsEncode' /\ \A h : Tentative(h)' <=> Tentative(h)
<1>1. \A u \in Threads : Unfinished(u)' = Unfinished(u)
  BY DEF Unfinished
<1>2. Orderly' /\ Exclusive' /\ TargetsExist'
  BY <1>1 DEF WeakInv, CallsInv, Orderly, Exclusive, TargetsExist, WellFormed
<1>3. ArgumentsHeld'
  BY <1>1 DEF WeakInv, CallsInv, ArgumentsHeld, Passed
<1>4. \A h : Tentative(h)' <=> Tentative(h)
  BY DEF Tentative
<1>5. ASSUME NEW u \in Threads PROVE FindsEmpty(u)' /\ Waits(u)'
  <2>1. CASE todo[u] = <<>>
    BY <2>1 DEF FindsEmpty, Waits, WeakInv, CallsInv
  <2>2. CASE todo[u] # <<>>
    <3>1. todo[u][1].to \in Handles /\ Head(todo[u]) = todo[u][1]
      BY <2>2, CurrentCall
    <3>2. ASSUME u \in inside, todo[u][1].op = "make"
          PROVE  encoded_ptr'[todo[u][1].to] = encoded_ptr[todo[u][1].to]
      <4>1. Tentative(todo[u][1].to)
        BY <2>2, <3>1, <3>2 DEF Tentative
      <4>2. EntriesOf(todo[u][1].to) = {}
        BY <3>1, <4>1 DEF WeakInv, RegistryAgrees
      <4> QED
        BY <3>1, <4>2
    <3>3. encoded_ptr[todo[u][1].to] = 0 => encoded_ptr'[todo[u][1].to] = 0
      BY <3>1
    <3> QED
      BY <3>2, <3>3 DEF FindsEmpty, Waits, WeakInv, CallsInv
  <2> QED
    BY <2>1, <2>2
<1>6. WordsEncode'
  BY DEF WeakInv, WordsEncode
<1> QED
  BY <1>2, <1>3, <1>4, <1>5, <1>6 DEF CallsInv

LEMMA AllocateReleaseKeeps ==
    ASSUME WeakInv, NEW b \in Blocks, Allocate(b) \/ Release(b) PROVE WeakInv'
<1>1. /\ UNCHANGED <<constructed, encoded_ptr, weak_refs, todo, inside>>
      /\ allocations \subseteq allocations' /\ allocations' \in SUBSET Blocks
      /\ strong' \subseteq allocations'
      /\ \A a \in Blocks : Passed(a) /\ a \in strong => a \in strong'
  BY DEF Allocate, Release, WeakInv, TypeOK, StrongLive
<1>2. encoded_ptr' \in [Handles -> 0..(Modulus - 1)] /\ encoded_ptr' = encoded_ptr
  BY <1>1 DEF WeakInv, TypeOK
<1>3. CallsInv' /\ WordsEncode' /\ \A h : Tentative(h)' <=> Tentative(h)
  BY <1>1, <1>2, HeapKeepsCalls
<1>4. TypeOK'
  BY <1>1 DEF WeakInv, TypeOK
<1>5. EntriesLive' /\ StrongLive'
  BY <1>1 DEF WeakInv, EntriesLive, StrongLive
<1>6. \A h : EntriesOf(h)' = EntriesOf(h)
  BY <1>1 DEF EntriesOf
<1>7. ASSUME NEW CONSTANT h \in Handles PROVE HandleAgrees(h)'
  BY <1>1, <1>3, <1>6, HandleLeftAlone, AgreesByHandle DEF WeakInv
<1> QED
  BY <1>3, <1>4, <1>5, <1>7, AllHandlesAgree DEF WeakInv

\* The entries that go take the words of their handles with them.
LEMMA InvalidateKeeps ==
    ASSUME WeakInv, UNCHANGED <<constructed, todo, inside>>, NEW gone \in SUBSET weak_refs,
           weak_refs' = weak_refs \ gone,
           encoded_ptr' = [h \in Handles |-> IF \E e \in gone : e.storage = h
                                             THEN 0 ELSE encoded_ptr[h]],
           allocations' \subseteq allocations, strong' \subseteq allocations',
           \A e \in weak_refs \ gone : \E b \in allocations' : e.target \in Payload(b),
           \A b \in Blocks : Passed(b) /\ b \in strong => b \in strong'
    PROVE  WeakInv'
<1>1. \A h \in Handles : encoded_ptr'[h] = IF \E e \in gone : e.storage = h THEN 0 ELSE encoded_ptr[h]
  OBVIOUS
<1>2. encoded_ptr' \in [Handles -> 0..(Modulus - 1)]
  <2>1. ASSUME NEW h \in Handles PROVE encoded_ptr'[h] \in 0..(Modulus - 1)
    BY <1>1, ZeroIsAWord DEF WeakInv, TypeOK
  <2> QED
    BY <2>1
<1>3. \A h \in Handles : (\E e \in gone : e.storage = h) => EntriesOf(h) # {}
  BY DEF EntriesOf
<1>4. CallsInv' /\ WordsEncode' /\ \A h : Tentative(h)' <=> Tentative(h)
  BY <1>1, <1>2, <1>3, HeapKeepsCalls
<1>5. TypeOK'
  BY <1>2 DEF WeakInv, TypeOK
<1>6. EntriesLive' /\ StrongLive'
  BY DEF EntriesLive, StrongLive
<1>7. ASSUME NEW CONSTANT h \in Handles PROVE HandleAgrees(h)'
  <2>1. CASE \E e \in gone : e.storage = h
    <3>1. PICK e \in gone : e.storage = h
      BY <2>1
    <3>2. EntriesOf(h) = {e}
      BY <3>1, OneEntry DEF EntriesOf, WeakInv
    <3>3. EntriesOf(h)' = {}
      BY <3>1, <3>2 DEF EntriesOf
    <3> QED
      BY <1>1, <2>1, <3>3 DEF HandleAgrees
  <2>2. CASE ~\E e \in gone : e.storage = h
    <3>1. EntriesOf(h)' = EntriesOf(h)
      BY <2>2 DEF EntriesOf
    <3> QED
      BY <1>1, <1>4, <2>2, <3>1, HandleLeftAlone, AgreesByHandle DEF WeakInv
  <2> QED
    BY <2>1, <2>2
<1> QED
  BY <1>4, <1>5, <1>6, <1>7, AllHandlesAgree DEF WeakInv

\* What a collection keeps is what the application holds.
LEMMA CollectEffect ==
    ASSUME WeakInv, collect
    PROVE  /\ allocations' = allocations \cap strong /\ invalidate_weak_refs(allocations \ strong)
           /\ UNCHANGED <<strong, constructed, todo, inside>>
<1>1. (allocations \cap strong) \cup SeenIn({encoded_ptr[h] : h \in constructed}) = allocations \cap strong
  BY WordsAreNotAddresses
<1>2. allocations \ (allocations \cap strong) = allocations \ strong
  OBVIOUS
<1> QED
  BY <1>1, <1>2 DEF collect

LEMMA CollectKeeps == ASSUME WeakInv, collect PROVE WeakInv'
<1> DEFINE dying == allocations \ strong
           gone == {e \in weak_refs : \E b \in dying : e.target \in Payload(b)}
<1>1. /\ allocations' = allocations \cap strong /\ UNCHANGED <<strong, constructed, todo, inside>>
      /\ weak_refs' = weak_refs \ gone
      /\ encoded_ptr' = [h \in Handles |-> IF \E e \in gone : e.storage = h
                                           THEN 0 ELSE encoded_ptr[h]]
  BY CollectEffect DEF invalidate_weak_refs
<1>2. \A e \in weak_refs \ gone : \E b \in allocations' : e.target \in Payload(b)
  BY <1>1 DEF WeakInv, EntriesLive
<1>3. gone \in SUBSET weak_refs /\ strong' \subseteq allocations'
  BY <1>1 DEF WeakInv, StrongLive
<1> HIDE DEF gone
<1> QED
  BY <1>1, <1>2, <1>3, InvalidateKeeps

LEMMA ShutdownKeeps == ASSUME WeakInv, shutdown PROVE WeakInv'
<1>1. /\ allocations' = {} /\ strong' = {} /\ weak_refs' = weak_refs \ weak_refs
      /\ UNCHANGED <<constructed, todo, inside>>
  BY DEF shutdown
<1>2. encoded_ptr' = [h \in Handles |-> IF \E e \in weak_refs : e.storage = h
                                        THEN 0 ELSE encoded_ptr[h]]
  BY DEF shutdown, EntriesOf
<1>3. \A b \in Blocks : Passed(b) /\ b \in strong => b \in strong'
  BY DEF shutdown, WeakInv, StrongLive
<1> QED
  BY <1>1, <1>2, <1>3, InvalidateKeeps
-------------------------------------------------------------------------------
(* Registry and handles agree *)

LEMMA WeakInit == ASSUME Init PROVE WeakInv
<1>1. TypeOK
  <2>1. 0 \in 0..(Modulus - 1)
    BY AddressAssumption
  <2> QED
    BY <2>1 DEF Init, TypeOK
<1>2. ASSUME NEW t \in Threads PROVE todo[t] = <<>> /\ Unfinished(t) = {}
  <2>1. todo[t] = <<>> /\ DOMAIN <<>> = {}
    BY DEF Init
  <2> QED
    BY <2>1 DEF Unfinished
<1>3. WellFormed(<<>>)
  BY DEF WellFormed
<1>4. CallsInv
  BY <1>2, <1>3 DEF Init, CallsInv, Orderly, Exclusive, TargetsExist, ArgumentsHeld, FindsEmpty, Waits
<1>5. WordsEncode /\ EntriesLive /\ StrongLive
  BY DEF Init, WordsEncode, EntriesLive, StrongLive
<1>6. RegistryAgrees
  BY DEF Init, RegistryAgrees, EntriesOf, Tentative
<1> QED
  BY <1>1, <1>4, <1>5, <1>6 DEF WeakInv

LEMMA WeakStep == ASSUME WeakInv, [Next]_vars PROVE WeakInv'
<1>1. CASE UNCHANGED vars
  <2>1. UNCHANGED <<allocations, strong, constructed, encoded_ptr, weak_refs, todo, inside>>
    BY <1>1 DEF vars
  <2>2. /\ weak_refs' = weak_refs \ {} /\ {} \in SUBSET weak_refs
        /\ encoded_ptr' = [h \in Handles |-> IF \E e \in {} : e.storage = h THEN 0 ELSE encoded_ptr[h]]
    BY <2>1 DEF WeakInv, TypeOK
  <2>3. \A e \in weak_refs \ {} : \E b \in allocations' : e.target \in Payload(b)
    BY <2>1 DEF WeakInv, EntriesLive
  <2> QED
    BY <2>1, <2>2, <2>3, InvalidateKeeps DEF WeakInv, StrongLive
<1>2. ASSUME NEW t \in Threads, NEW h \in Handles,
             \/ Construct(t, h) \/ AssignMoving(t, h)
             \/ ResetOrDestroy(t, h) \/ Promote(t, h)
      PROVE  WeakInv'
  <2>1. CASE ResetOrDestroy(t, h)
    <3>1. h \in constructed /\ Writable(h) /\ Readable(h)
      BY <2>1, WritableIsReadable DEF ResetOrDestroy, WeakInv
    <3>2. Begin(t, <<Call("reset", h, h)>>, {}) \/ Begin(t, <<Call("drop", h, h)>>, {})
      BY <2>1 DEF ResetOrDestroy, Reset, Drop
    <3> QED
      BY <3>1, <3>2, SingleCallKeeps
  <2>2. CASE Promote(t, h)
    <3>1. h \in constructed /\ Readable(h) /\ Begin(t, <<Call("lock", h, h)>>, {})
      BY <2>2 DEF Promote, Lock
    <3> QED
      BY <3>1, SingleCallKeeps
  <2> QED
    BY <1>2, <2>1, <2>2, ConstructKeeps, AssignMovingKeeps
<1>3. ASSUME NEW t \in Threads, NEW h \in Handles, NEW r \in Handles, h # r, AssignThrough(t, h, r)
      PROVE  WeakInv'
  BY <1>3, AssignThroughKeeps
<1>4. ASSUME NEW t \in Threads,
             \/ Test(t) \/ register_weak_ref(t) \/ RegisterThrows(t) \/ copy_weak_ref(t)
             \/ update_weak_ref(t) \/ unregister_weak_ref(t) \/ read_weak_ref(t)
      PROVE  WeakInv'
  BY <1>4, TestKeeps, RegisterKeeps, ThrowsKeeps, CopyKeeps, UpdateKeeps, UnregisterKeeps, ReadKeeps
<1>5. ASSUME NEW b \in Blocks, Allocate(b) \/ Release(b) PROVE WeakInv'
  BY <1>5, AllocateReleaseKeeps
<1>6. CASE collect
  BY <1>6, CollectKeeps
<1>7. CASE shutdown
  BY <1>7, ShutdownKeeps
<1> QED
  BY <1>1, <1>2, <1>3, <1>4, <1>5, <1>6, <1>7 DEF Next

LEMMA WeakInvariant == Spec => []WeakInv
BY WeakInit, WeakStep, PTL DEF Spec

\* The words of gc_weak_ptr handles, the registry weak_refs_ and the calls under
\* way keep to their types.
THEOREM TypeCorrect == Spec => []TypeOK
<1>1. WeakInv => TypeOK
  BY DEF WeakInv
<1> QED
  BY <1>1, WeakInvariant, PTL

\* Handles and registry agree at every moment, with any number of threads in the
\* member functions of gc_weak_ptr and collections between an unlocked test and
\* the call that follows it: the collector writes only to handles that exist, and
\* no destructor leaves an entry behind.
THEOREM HandlesAndRegistryAgree == Spec => []RegistryAgrees
<1>1. WeakInv => RegistryAgrees
  BY DEF WeakInv
<1> QED
  BY <1>1, WeakInvariant, PTL
-------------------------------------------------------------------------------
(***************************************************************************)
(* Refinement.  What a handle denotes is the target of its entry, so the   *)
(* step of the abstract handle is the step that changes the entry; tests   *)
(* and the start of a member function are invisible.                       *)
(***************************************************************************)
LEMMA ChooseOnly ==
    ASSUME NEW S, NEW e, S = {e} PROVE (CHOOSE x \in S : TRUE) = e
OBVIOUS

LEMMA DenotesNow ==
    ASSUME RegistryAgrees, NEW h \in Handles
    PROVE  /\ EntriesOf(h) = {} => denotes[h] = 0
           /\ \A e \in EntriesOf(h) : denotes[h] = e.target
<1>1. \A e \in EntriesOf(h) : EntriesOf(h) = {e}
  BY OneEntry
<1> QED
  BY <1>1, ChooseOnly DEF denotes, nullptr

LEMMA DenotesThen ==
    ASSUME RegistryAgrees', NEW h \in Handles
    PROVE  /\ EntriesOf(h)' = {} => denotes'[h] = 0
           /\ \A e \in EntriesOf(h)' : denotes'[h] = e.target
<1>1. \A e \in EntriesOf(h)' : EntriesOf(h)' = {e}
  BY DEF RegistryAgrees, EntriesOf
<1>2. denotes'[h] = IF EntriesOf(h)' = {} THEN 0 ELSE (CHOOSE e \in EntriesOf(h)' : TRUE).target
  BY DEF denotes, nullptr
<1> QED
  BY <1>1, <1>2, ChooseOnly

LEMMA DenotesSame ==
    ASSUME NEW CONSTANT h \in Handles, EntriesOf(h)' = EntriesOf(h) PROVE denotes'[h] = denotes[h]
BY DEF denotes

LEMMA DenotesIsFunction ==
    /\ denotes = [h \in Handles |-> denotes[h]]
    /\ denotes' = [h \in Handles |-> denotes'[h]]
BY DEF denotes

LEMMA UnchangedRegistry ==
    ASSUME weak_refs' = weak_refs PROVE denotes' = denotes
BY DEF denotes, EntriesOf

LEMMA RegisterIsAim ==
    ASSUME WeakInv, WeakInv', NEW t \in Threads, register_weak_ref(t)
    PROVE  Abstract!Next \/ UNCHANGED <<allocations, strong, denotes>>
<1> DEFINE c == todo[t][1]
           e == Entry(c.ptr, c.to)
<1>1. todo[t] # <<>> /\ t \in inside /\ Head(todo[t]).op = "make" /\ UNCHANGED <<allocations, strong>>
  BY DEF register_weak_ref, First, heap
<1>2. /\ Head(todo[t]) = c /\ c.op = "make" /\ c.to \in Handles /\ c \in Unfinished(t)
  BY <1>1, CurrentCall
<1>3. CASE weak_refs' = weak_refs
  BY <1>1, <1>3, UnchangedRegistry
<1>4. CASE Managed(c.ptr) /\ weak_refs' = weak_refs \cup {e}
  <2>1. PICK b \in allocations : c.ptr \in Payload(b)
    BY <1>4 DEF Managed
  <2>2. b \in Blocks /\ b \in strong
    BY <1>2, <2>1 DEF WeakInv, TypeOK, CallsInv, ArgumentsHeld
  <2>3. e.target = c.ptr /\ e.storage = c.to
    BY DEF Entry
  <2> HIDE DEF e
  <2>4. PICK h \in Handles : h = c.to
    BY <1>2
  <2>5. e \in EntriesOf(h)'
    BY <1>4, <2>3, <2>4 DEF EntriesOf
  <2>6. denotes'[h] = c.ptr
    BY <2>3, <2>5, DenotesThen DEF WeakInv
  <2>7. ASSUME NEW CONSTANT g \in Handles, g # h PROVE denotes'[g] = denotes[g]
    <3>1. EntriesOf(g)' = EntriesOf(g)
      BY <1>4, <2>3, <2>4, <2>7 DEF EntriesOf
    <3> QED
      BY <3>1, DenotesSame
  <2>8. denotes' = [denotes EXCEPT ![h] = c.ptr]
    BY <2>6, <2>7, DenotesIsFunction
  <2>9. Abstract!Aim(h, b, c.ptr)
    BY <1>1, <2>1, <2>2, <2>8 DEF Abstract!Aim
  <2> QED
    BY <2>1, <2>2, <2>9 DEF Abstract!Next
<1> QED
  BY <1>2, <1>3, <1>4 DEF register_weak_ref

LEMMA CopyIsCopy ==
    ASSUME WeakInv, WeakInv', NEW t \in Threads, copy_weak_ref(t)
    PROVE  Abstract!Next \/ UNCHANGED <<allocations, strong, denotes>>
<1> DEFINE c == todo[t][1]
<1>1. todo[t] # <<>> /\ Head(todo[t]).op = "copy" /\ UNCHANGED <<allocations, strong>>
  BY DEF copy_weak_ref, First, heap
<1>2. Head(todo[t]) = c /\ c.op = "copy" /\ c.to \in Handles /\ c.from \in Handles
  BY <1>1, CurrentCall
<1>3. CASE weak_refs' = weak_refs
  BY <1>1, <1>3, UnchangedRegistry
<1>4. ASSUME NEW e \in EntriesOf(c.from), weak_refs' = weak_refs \cup {Entry(e.target, c.to)}
      PROVE  Abstract!Next
  <2> DEFINE f == Entry(e.target, c.to)
  <2>1. f.target = e.target /\ f.storage = c.to /\ weak_refs' = weak_refs \cup {f}
    BY <1>4 DEF Entry
  <2> HIDE DEF f
  <2>2. PICK h \in Handles, g \in Handles : h = c.to /\ g = c.from
    BY <1>2
  <2>3. f \in EntriesOf(h)'
    BY <2>1, <2>2 DEF EntriesOf
  <2>4. denotes'[h] = e.target /\ denotes[g] = e.target
    BY <2>1, <2>2, <2>3, DenotesNow, DenotesThen DEF WeakInv
  <2>5. ASSUME NEW CONSTANT k \in Handles, k # h PROVE denotes'[k] = denotes[k]
    <3>1. EntriesOf(k)' = EntriesOf(k)
      BY <2>1, <2>2, <2>5 DEF EntriesOf
    <3> QED
      BY <3>1, DenotesSame
  <2>6. denotes' = [denotes EXCEPT ![h] = denotes[g]]
    BY <2>4, <2>5, DenotesIsFunction
  <2>7. Abstract!Copy(g, h)
    BY <1>1, <2>6 DEF Abstract!Copy
  <2> QED
    BY <2>7 DEF Abstract!Next
<1> QED
  BY <1>2, <1>3, <1>4 DEF copy_weak_ref

LEMMA UpdateIsMove ==
    ASSUME WeakInv, WeakInv', NEW t \in Threads, update_weak_ref(t)
    PROVE  Abstract!Next \/ UNCHANGED <<allocations, strong, denotes>>
<1> DEFINE c == todo[t][1]
<1>1. todo[t] # <<>> /\ Head(todo[t]).op = "move" /\ UNCHANGED <<allocations, strong>>
  BY DEF update_weak_ref, First, heap
<1>2. Head(todo[t]) = c /\ c.op = "move" /\ c.to \in Handles /\ c.from \in Handles /\ c.from # c.to
  BY <1>1, CurrentCall
<1>3. CASE weak_refs' = weak_refs
  BY <1>1, <1>3, UnchangedRegistry
<1>4. ASSUME NEW e \in EntriesOf(c.from),
             weak_refs' = (weak_refs \ {e}) \cup {Entry(e.target, c.to)}
      PROVE  Abstract!Next
  <2> DEFINE f == Entry(e.target, c.to)
  <2>1. f.target = e.target /\ f.storage = c.to /\ weak_refs' = (weak_refs \ {e}) \cup {f}
    BY <1>4 DEF Entry
  <2> HIDE DEF f
  <2>2. PICK h \in Handles, g \in Handles : h = c.to /\ g = c.from
    BY <1>2
  <2>3. EntriesOf(g) = {e} /\ e.storage = g
    BY <2>2, OneEntry DEF WeakInv
  <2>4. f \in EntriesOf(h)'
    BY <2>1, <2>2 DEF EntriesOf
  <2>5. EntriesOf(g)' = {}
    <3>1. EntriesOf(g)' = {d \in (weak_refs \ {e}) \cup {f} : d.storage = g}
      BY <2>1 DEF EntriesOf
    <3> QED
      BY <1>2, <2>1, <2>2, <2>3, <3>1 DEF EntriesOf
  <2>6. denotes'[h] = e.target /\ denotes[g] = e.target /\ denotes'[g] = 0
    BY <2>1, <2>2, <2>4, <2>5, DenotesNow, DenotesThen DEF WeakInv
  <2>7. ASSUME NEW CONSTANT k \in Handles, k # h, k # g PROVE denotes'[k] = denotes[k]
    <3>1. EntriesOf(k)' = EntriesOf(k)
      <4>1. EntriesOf(k)' = {d \in (weak_refs \ {e}) \cup {f} : d.storage = k}
        BY <2>1 DEF EntriesOf
      <4> QED
        BY <2>1, <2>2, <2>3, <2>7, <4>1 DEF EntriesOf
    <3> QED
      BY <3>1, DenotesSame
  <2>8. denotes' = [denotes EXCEPT ![h] = denotes[g], ![g] = nullptr]
    BY <1>2, <2>2, <2>6, <2>7, DenotesIsFunction DEF nullptr
  <2>9. Abstract!Move(g, h)
    BY <1>1, <2>8 DEF Abstract!Move
  <2> QED
    BY <2>9 DEF Abstract!Next
<1> QED
  BY <1>2, <1>3, <1>4 DEF update_weak_ref

LEMMA UnregisterIsClear ==
    ASSUME WeakInv, WeakInv', NEW t \in Threads, unregister_weak_ref(t)
    PROVE  Abstract!Next \/ UNCHANGED <<allocations, strong, denotes>>
<1> DEFINE c == todo[t][1]
<1>1. todo[t] # <<>> /\ UNCHANGED <<allocations, strong>>
  BY DEF unregister_weak_ref, First, heap
<1>2. Head(todo[t]) = c /\ c.to \in Handles
  BY <1>1, CurrentCall
<1>3. CASE weak_refs' = weak_refs
  BY <1>1, <1>3, UnchangedRegistry
<1>4. ASSUME NEW e \in EntriesOf(c.to), weak_refs' = weak_refs \ {e} PROVE Abstract!Next
  <2>1. PICK h \in Handles : h = c.to
    BY <1>2
  <2>2. EntriesOf(h) = {e} /\ e.storage = h
    BY <1>4, <2>1, OneEntry DEF WeakInv
  <2>3. EntriesOf(h)' = {}
    BY <1>4, <2>2 DEF EntriesOf
  <2>4. denotes'[h] = 0
    BY <2>3, DenotesThen DEF WeakInv
  <2>5. ASSUME NEW CONSTANT k \in Handles, k # h PROVE denotes'[k] = denotes[k]
    <3>1. EntriesOf(k)' = EntriesOf(k)
      BY <1>4, <2>2, <2>5 DEF EntriesOf
    <3> QED
      BY <3>1, DenotesSame
  <2>6. denotes' = [denotes EXCEPT ![h] = nullptr]
    BY <2>4, <2>5, DenotesIsFunction DEF nullptr
  <2>7. Abstract!Clear(h)
    BY <1>1, <2>6 DEF Abstract!Clear
  <2> QED
    BY <2>7 DEF Abstract!Next
<1> QED
  BY <1>2, <1>3, <1>4 DEF unregister_weak_ref

LEMMA ReadIsLock ==
    ASSUME WeakInv, NEW t \in Threads, read_weak_ref(t)
    PROVE  Abstract!Next \/ UNCHANGED <<allocations, strong, denotes>>
<1> DEFINE c == todo[t][1]
           got == {b \in Blocks : \E e \in EntriesOf(c.from) : e.target \in Payload(b)}
<1>1. todo[t] # <<>> /\ UNCHANGED <<allocations, weak_refs>>
  BY DEF read_weak_ref, First
<1>2. Head(todo[t]) = c /\ c.from \in Handles
  BY <1>1, CurrentCall
<1>3. strong' = strong \cup got
  BY <1>2 DEF read_weak_ref
<1>4. denotes' = denotes
  BY <1>1, UnchangedRegistry
<1>5. CASE got = {}
  <2>1. strong' = strong
    BY <1>3, <1>5
  <2> QED
    BY <1>1, <1>4, <2>1
<1>6. CASE got # {}
  <2>1. PICK b \in Blocks, e \in EntriesOf(c.from) : e.target \in Payload(b)
    BY <1>6
  <2>2. EntriesOf(c.from) = {e}
    BY <2>1, OneEntry DEF WeakInv
  <2>3. got = {b}
    BY <2>1, <2>2, OneBlockPerAddress
  <2>4. denotes[c.from] = e.target
    BY <1>2, <2>1, DenotesNow DEF WeakInv
  <2>5. Abstract!Lock(c.from, b)
    BY <1>1, <1>3, <1>4, <2>1, <2>3, <2>4 DEF Abstract!Lock
  <2> QED
    BY <1>2, <2>5 DEF Abstract!Next
<1> QED
  BY <1>5, <1>6

LEMMA CollectIsCollect == ASSUME WeakInv, WeakInv', collect PROVE Abstract!Next
<1> DEFINE dying == allocations \ strong
           gone == {e \in weak_refs : \E b \in dying : e.target \in Payload(b)}
<1>1. allocations' = allocations \cap strong /\ strong' = strong /\ weak_refs' = weak_refs \ gone
  BY CollectEffect DEF invalidate_weak_refs
<1>2. dying \subseteq Blocks
  BY DEF WeakInv, TypeOK
<1>3. ASSUME NEW h \in Handles
      PROVE  denotes'[h] = IF \E o \in dying : denotes[h] \in Payload(o) THEN nullptr ELSE denotes[h]
  <2>1. CASE EntriesOf(h) = {}
    <3>1. denotes[h] = 0 /\ ~\E o \in dying : 0 \in Payload(o)
      BY <1>2, <2>1, NullIsUnmanaged, DenotesNow DEF WeakInv
    <3>2. EntriesOf(h)' = {}
      BY <1>1, <2>1 DEF EntriesOf
    <3> QED
      BY <3>1, <3>2, DenotesThen DEF WeakInv
  <2>2. ASSUME NEW e \in EntriesOf(h)
        PROVE  denotes'[h] = IF \E o \in dying : denotes[h] \in Payload(o) THEN nullptr ELSE denotes[h]
    <3>1. EntriesOf(h) = {e} /\ denotes[h] = e.target /\ e \in weak_refs /\ e.storage = h
      BY OneEntry, DenotesNow DEF WeakInv
    <3>2. CASE e \in gone
      <4>1. EntriesOf(h)' = {}
        BY <1>1, <3>1, <3>2 DEF EntriesOf
      <4>2. denotes'[h] = 0
        BY <4>1, DenotesThen DEF WeakInv
      <4> QED
        BY <3>1, <3>2, <4>2 DEF nullptr
    <3>3. CASE e \notin gone
      <4>1. e \in EntriesOf(h)'
        BY <1>1, <3>1, <3>3 DEF EntriesOf
      <4>2. denotes'[h] = e.target
        BY <4>1, DenotesThen DEF WeakInv
      <4> QED
        BY <3>1, <3>3, <4>2
    <3> QED
      BY <3>2, <3>3
  <2> QED
    BY <2>1, <2>2
<1>4. denotes' = Abstract!Without(allocations \ strong)
  BY <1>3, DenotesIsFunction DEF Abstract!Without
<1>5. Abstract!Collect
  BY <1>1, <1>4 DEF Abstract!Collect
<1> QED
  BY <1>5 DEF Abstract!Next

LEMMA ShutdownIsShutdown == ASSUME WeakInv', shutdown PROVE Abstract!Next
<1>1. allocations' = {} /\ strong' = {} /\ weak_refs' = {}
  BY DEF shutdown
<1>2. \A h \in Handles : denotes'[h] = 0
  BY <1>1, DenotesThen DEF WeakInv, EntriesOf
<1>3. denotes' = [h \in Handles |-> nullptr]
  BY <1>2, DenotesIsFunction DEF nullptr
<1>4. Abstract!Shutdown
  BY <1>1, <1>3 DEF Abstract!Shutdown
<1> QED
  BY <1>4 DEF Abstract!Next

LEMMA StepRefines ==
    ASSUME WeakInv, WeakInv', [Next]_vars PROVE [Abstract!Next]_(Abstract!vars)
<1> SUFFICES Abstract!Next \/ UNCHANGED <<allocations, strong, denotes>>
  BY DEF Abstract!vars
<1>1. ASSUME UNCHANGED <<allocations, strong, weak_refs>>
      PROVE  UNCHANGED <<allocations, strong, denotes>>
  BY <1>1, UnchangedRegistry
<1>2. ASSUME NEW t \in Threads,
             \/ \E h \in Handles : \/ Construct(t, h) \/ AssignMoving(t, h)
                                   \/ ResetOrDestroy(t, h) \/ Promote(t, h)
             \/ \E h, r \in Handles : AssignThrough(t, h, r)
      PROVE  UNCHANGED <<allocations, strong, weak_refs>>
  <2>1. \E calls, new : Begin(t, calls, new)
    BY <1>2 DEF Construct, AssignMoving, ResetOrDestroy, Promote, AssignThrough
  <2> QED
    BY <2>1 DEF Begin, heap
<1>3. ASSUME NEW t \in Threads, Test(t) \/ RegisterThrows(t)
      PROVE  UNCHANGED <<allocations, strong, weak_refs>>
  BY <1>3 DEF Test, RegisterThrows, heap
<1>4. ASSUME NEW t \in Threads,
             \/ register_weak_ref(t) \/ copy_weak_ref(t) \/ update_weak_ref(t)
             \/ unregister_weak_ref(t) \/ read_weak_ref(t)
      PROVE  Abstract!Next \/ UNCHANGED <<allocations, strong, denotes>>
  BY <1>4, RegisterIsAim, CopyIsCopy, UpdateIsMove, UnregisterIsClear, ReadIsLock
<1>5. ASSUME NEW b \in Blocks, Allocate(b) \/ Release(b) PROVE Abstract!Next
  <2>1. denotes' = denotes
    BY <1>5, UnchangedRegistry DEF Allocate, Release
  <2>2. Abstract!Create(b) \/ Abstract!Forget(b)
    BY <1>5, <2>1 DEF Allocate, Release, Abstract!Create, Abstract!Forget
  <2> QED
    BY <2>2 DEF Abstract!Next
<1>6. CASE UNCHANGED vars
  BY <1>1, <1>6 DEF vars
<1> QED
  BY <1>1, <1>2, <1>3, <1>4, <1>5, <1>6, CollectIsCollect, ShutdownIsShutdown DEF Next

\* gc_weak_ptr implements weak references in which every operation happens at
\* once: each step of the unlocked tests, of the manager's calls and of a
\* collection is a step of the abstract handles or invisible to them.  Handles
\* never outlive their object, never denote a later object at its address and
\* never keep an object alive.
THEOREM RefinesWeakHandles == Spec => ImplementsWeakHandles
<1>1. Init => Abstract!Init
  <2> SUFFICES ASSUME Init PROVE Abstract!Init
    OBVIOUS
  <2>1. allocations = {} /\ strong = {} /\ weak_refs = {}
    BY DEF Init
  <2>2. denotes = [h \in Handles |-> nullptr]
    BY <2>1 DEF denotes, EntriesOf
  <2> QED
    BY <2>1, <2>2 DEF Abstract!Init
<1>2. WeakInv /\ WeakInv' /\ [Next]_vars => [Abstract!Next]_(Abstract!vars)
  BY StepRefines
<1> QED
  BY <1>1, <1>2, WeakInvariant, PTL DEF Spec, ImplementsWeakHandles, Abstract!Spec
===============================================================================
