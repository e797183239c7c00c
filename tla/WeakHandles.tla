----------------------------- MODULE WeakHandles -----------------------------
(***************************************************************************)
(* What weak references promise: a handle is empty or holds a pointer into *)
(* an object that exists.  An object that nobody holds strongly goes away  *)
(* in the next collection whatever handles there are, and takes their      *)
(* pointers with it; a new object at the same address is not what an old   *)
(* handle meant.  Every operation happens at once.                         *)
(***************************************************************************)
EXTENDS Naturals

CONSTANTS Objects,     \* addresses of objects
          Payload(_),  \* the addresses in an object
          Handles,
          Empty        \* nullptr

VARIABLES live,     \* objects that exist
          strong,   \* objects the application can reach
          denotes   \* the pointer in each handle

vars == <<live, strong, denotes>>

Init ==
    /\ live = {}
    /\ strong = {}
    /\ denotes = [h \in Handles |-> Empty]

Without(dead) ==
    [h \in Handles |-> IF \E o \in dead : denotes[h] \in Payload(o)
                       THEN Empty ELSE denotes[h]]

Create(o) ==
    /\ o \notin live
    /\ live' = live \cup {o}
    /\ strong' = strong \cup {o}
    /\ UNCHANGED denotes

Forget(o) ==
    /\ strong' = strong \ {o}
    /\ UNCHANGED <<live, denotes>>

Aim(h, o, p) ==
    /\ o \in strong
    /\ p \in Payload(o)
    /\ denotes' = [denotes EXCEPT ![h] = p]
    /\ UNCHANGED <<live, strong>>

Clear(h) ==
    /\ denotes' = [denotes EXCEPT ![h] = Empty]
    /\ UNCHANGED <<live, strong>>

Copy(g, h) ==
    /\ denotes' = [denotes EXCEPT ![h] = denotes[g]]
    /\ UNCHANGED <<live, strong>>

Move(g, h) ==
    /\ denotes' = [denotes EXCEPT ![h] = denotes[g], ![g] = Empty]
    /\ UNCHANGED <<live, strong>>

Lock(h, o) ==
    /\ denotes[h] \in Payload(o)
    /\ strong' = strong \cup {o}
    /\ UNCHANGED <<live, denotes>>

Collect ==
    /\ live' = live \cap strong
    /\ denotes' = Without(live \ strong)
    /\ UNCHANGED strong

Shutdown ==
    /\ live' = {}
    /\ strong' = {}
    /\ denotes' = [h \in Handles |-> Empty]

Next ==
    \/ \E o \in Objects : Create(o) \/ Forget(o)
    \/ \E h \in Handles, o \in Objects : Lock(h, o) \/ \E p \in Payload(o) : Aim(h, o, p)
    \/ \E h \in Handles : Clear(h)
    \/ \E g, h \in Handles : Copy(g, h) \/ Move(g, h)
    \/ Collect
    \/ Shutdown

Spec == Init /\ [][Next]_vars
=============================================================================
