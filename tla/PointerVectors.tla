---------------------------- MODULE PointerVectors ----------------------------
(***************************************************************************)
(* What gc_vector promises its clients: vectors of pointers on which one   *)
(* call is in progress at a time.  A call that only gives up, exchanges or *)
(* overwrites elements takes effect at once.  A call that needs memory     *)
(* fixes its outcome (goal) when it is made; until it is over the vectors  *)
(* stay as they were, and then either all of the outcome shows or, if it   *)
(* throws, nothing.  Only copy assignment within the capacity may have     *)
(* replaced the common prefix by then.                                     *)
(***************************************************************************)
EXTENDS SequencesExt

CONSTANTS Vectors, Pointers, Null, MaxLen

VARIABLES
    values,  \* the elements of each vector
    phase,   \* of the call: idle, calling, and then failing or returning
    goal     \* the vectors when the call succeeds

vars == <<values, phase, goal>>

Init ==
    /\ values = [v \in Vectors |-> <<>>]
    /\ phase = "idle"
    /\ goal = values

-------------------------------------------------------------------------------
(* Calls that cannot throw *)

TakeEffect(new, then) == phase = "idle" /\ values' = new /\ goal' = new /\ phase' = then

Truncate(v) ==
    \E n \in 0..Len(values[v]) :
        TakeEffect([values EXCEPT ![v] = SubSeq(values[v], 1, n)], "returning")

Erase(v) ==
    \E i \in 1..Len(values[v]), n \in 0..MaxLen :
        TakeEffect([values EXCEPT ![v] = SubSeq(values[v], 1, i - 1)
                                           \o SubSeq(values[v], i + n, Len(values[v]))],
                   "returning")

MoveFrom(v, w) == TakeEffect([values EXCEPT ![v] = values[w], ![w] = <<>>], "returning")

Swap(v, w) == TakeEffect([values EXCEPT ![v] = values[w], ![w] = values[v]], "idle")

Set(v) ==
    \E i \in DOMAIN values[v], p \in Pointers \cup {Null} :
        TakeEffect([values EXCEPT ![v] = [values[v] EXCEPT ![i] = p]], "idle")

MoveElement(v, w) ==
    \E i \in DOMAIN values[v], j \in DOMAIN values[w] :
        TakeEffect([values EXCEPT ![v][i] = values[w][j], ![w][j] = Null], "idle")

-------------------------------------------------------------------------------
(* Calls that may throw *)

Call(v, s) ==
    /\ phase = "idle" /\ phase' = "calling"
    /\ Len(s) <= MaxLen /\ goal' = [values EXCEPT ![v] = s]
    /\ UNCHANGED values

Insert(v) == \E p \in Pointers \cup {Null} : Call(v, Append(values[v], p))

ExtendWithNulls(v) ==
    \E n \in 0..(MaxLen - Len(values[v])) : Call(v, values[v] \o [i \in 1..n |-> Null])

Fill(v) ==
    \E n \in 1..MaxLen : \E s \in [1..n -> Pointers \cup {Null}] : values[v] = <<>> /\ Call(v, s)

\* A copy, or the same elements in other memory.
Copy(v, w) == Call(v, values[w])

CopyInPlace(v, w) ==
    /\ phase = "idle" /\ phase' = "calling"
    /\ values' = [values EXCEPT ![v] = [i \in DOMAIN values[v] |->
                     IF i \in DOMAIN values[w] THEN values[w][i] ELSE values[v][i]]]
    /\ goal' = [values EXCEPT ![v] = values[w]]

Succeed == phase = "calling" /\ phase' = "returning" /\ values' = goal /\ UNCHANGED goal

Fail == phase = "calling" /\ phase' = "failing" /\ goal' = values /\ UNCHANGED values

\* The call returns or throws.
Finish == phase \in {"failing", "returning"} /\ phase' = "idle" /\ UNCHANGED <<values, goal>>

Next ==
    \/ \E v \in Vectors :
          Truncate(v) \/ Erase(v) \/ Set(v) \/ Insert(v) \/ ExtendWithNulls(v) \/ Fill(v)
    \/ \E v, w \in Vectors :
          MoveFrom(v, w) \/ Swap(v, w) \/ MoveElement(v, w) \/ Copy(v, w) \/ CopyInPlace(v, w)
    \/ Succeed \/ Fail \/ Finish

Spec == Init /\ [][Next]_vars
===============================================================================
