------------------------------ MODULE RootScopes ------------------------------
(***************************************************************************)
(* The root range registry, the RAII objects over it (ScopedRootRange and  *)
(* ScopedRootObject) and over thread registration                          *)
(* (ScopedThreadRegistration).  Each call of the manager is one step, so   *)
(* a reset, which makes two, can be overtaken by other threads in between. *)
(***************************************************************************)
EXTENDS Integers, FiniteSets, SequencesExt

CONSTANTS
    Scopes,     \* ScopedRootRange and ScopedRootObject instances
    ObjectScopes, \* the latter
    Endpoints,  \* pairs of addresses a client passes; 0 is the null pointer
    MaxManual,  \* bound on ranges registered without a scope
    Threads,
    Anchors,    \* stack bottoms
    MaxDepth    \* bound on nested thread scopes

None == <<0, 0>>

ASSUME RootScopesAssumption ==
    /\ IsFiniteSet(Scopes) /\ ObjectScopes \subseteq Scopes
    /\ Endpoints \subseteq Nat \X Nat /\ None \in Endpoints
    /\ Anchors \subseteq Nat \ {0}
    /\ MaxManual \in Nat /\ MaxDepth \in Nat

VARIABLES
    ranges,     \* registered_root_ranges_: how often each pair is in it
    scope,      \* begin_ and end_, and registered_
    incoming,   \* the range a reset in progress has registered, or None
    manual,     \* ranges registered directly by clients
    bottom,     \* stack_bottom of each thread, 0 if it is not registered
    own_bottom, \* what the thread registered itself, outside any scope
    nest        \* thread scopes of each thread, outermost first

vars == <<ranges, scope, incoming, manual, bottom, own_bottom, nest>>
range_vars == <<ranges, scope, incoming, manual>>
thread_vars == <<bottom, own_bottom, nest>>

Proper(r) == r[1] # 0 /\ r[2] # 0 /\ r[1] # r[2]
Normal(r) == IF r[1] > r[2] THEN <<r[2], r[1]>> ELSE r
Keys == {Normal(r) : r \in {q \in Endpoints : Proper(q)}}
Empty == [range |-> None, registered |-> FALSE]

Init ==
    /\ ranges = [k \in Keys |-> 0]
    /\ scope = [s \in Scopes |-> Empty]
    /\ incoming = [s \in Scopes |-> None]
    /\ manual = [k \in Keys |-> 0]
    /\ bottom = [t \in Threads |-> 0]
    /\ own_bottom = [t \in Threads |-> 0]
    /\ nest = [t \in Threads |-> <<>>]

-------------------------------------------------------------------------------
(* The registry *)

register_root_range(r) ==
    ranges' = IF Proper(r) THEN [ranges EXCEPT ![Normal(r)] = @ + 1] ELSE ranges

\* Every equal entry goes.
UnregisterAll(r) ==
    ranges' = IF Proper(r) THEN [ranges EXCEPT ![Normal(r)] = 0] ELSE ranges

\* The first equal entry goes, if there is one.
unregister_root_range(r) ==
    ranges' = IF Proper(r) THEN [ranges EXCEPT ![Normal(r)] = IF @ > 0 THEN @ - 1 ELSE 0]
              ELSE ranges

ManualRegister(r) ==
    /\ Proper(r) => manual[Normal(r)] < MaxManual
    /\ register_root_range(r)
    /\ manual' = IF Proper(r) THEN [manual EXCEPT ![Normal(r)] = @ + 1] ELSE manual
    /\ UNCHANGED <<scope, incoming, thread_vars>>

\* Clients take back what they have registered.
ManualUnregister(r) ==
    /\ Proper(r) /\ manual[Normal(r)] > 0
    /\ unregister_root_range(r)
    /\ manual' = [manual EXCEPT ![Normal(r)] = @ - 1]
    /\ UNCHANGED <<scope, incoming, thread_vars>>

-------------------------------------------------------------------------------
(* Scopes *)

\* A ScopedRootObject has the same members as a ScopedRootRange, and its range
\* is that of one object or nothing.
Accepts(s, r) == s \in ObjectScopes => r = None \/ (Proper(r) /\ Normal(r) = r)

\* The first half of reset(begin, end), and of the constructor.  If the registry
\* is out of memory reset throws here, and nothing has happened.
ResetRegister(s, r) ==
    /\ incoming[s] = None /\ Proper(r) /\ Accepts(s, r)
    /\ register_root_range(r)
    /\ incoming' = [incoming EXCEPT ![s] = r]
    /\ UNCHANGED <<scope, manual, thread_vars>>

\* The second half; for a range that is not proper, all of reset.  The
\* destructor is a reset to nothing.
ResetReplace(s, r) ==
    /\ incoming[s] = (IF Proper(r) THEN r ELSE None) /\ Accepts(s, r)
    /\ IF scope[s].registered THEN unregister_root_range(scope[s].range) ELSE UNCHANGED ranges
    /\ scope' = [scope EXCEPT ![s] = [range |-> r, registered |-> Proper(r)]]
    /\ incoming' = [incoming EXCEPT ![s] = None]
    /\ UNCHANGED <<manual, thread_vars>>

\* Move construction and move assignment.
MoveFrom(s, q) ==
    /\ s # q /\ (s \in ObjectScopes) = (q \in ObjectScopes)
    /\ incoming[s] = None /\ incoming[q] = None
    /\ IF scope[s].registered THEN unregister_root_range(scope[s].range) ELSE UNCHANGED ranges
    /\ scope' = [scope EXCEPT ![s] = scope[q], ![q] = Empty]
    /\ UNCHANGED <<incoming, manual, thread_vars>>

-------------------------------------------------------------------------------
(* Threads *)

\* register_stack_bottom and unregister_current_thread, called outside any scope.
ManualThread(t, b) ==
    /\ nest[t] = <<>>
    /\ bottom' = [bottom EXCEPT ![t] = b]
    /\ own_bottom' = [own_bottom EXCEPT ![t] = b]
    /\ UNCHANGED <<nest, range_vars>>

\* Every scope owns the registration.
EnterOwning(t, b) ==
    /\ Len(nest[t]) < MaxDepth
    /\ bottom' = [bottom EXCEPT ![t] = b]
    /\ nest' = [nest EXCEPT ![t] = Append(@, [owns_registration |-> TRUE, anchor |-> b])]
    /\ UNCHANGED <<own_bottom, range_vars>>

\* ScopedThreadRegistration registers unless the thread already is.
EnterThreadScope(t, b) ==
    LET owns == bottom[t] = 0
    IN  /\ Len(nest[t]) < MaxDepth
        /\ bottom' = IF owns THEN [bottom EXCEPT ![t] = b] ELSE bottom
        /\ nest' = [nest EXCEPT ![t] = Append(@, [owns_registration |-> owns, anchor |-> b])]
        /\ UNCHANGED <<own_bottom, range_vars>>

LeaveThreadScope(t) ==
    /\ nest[t] # <<>>
    /\ bottom' = IF Last(nest[t]).owns_registration THEN [bottom EXCEPT ![t] = 0] ELSE bottom
    /\ nest' = [nest EXCEPT ![t] = Front(@)]
    /\ UNCHANGED <<own_bottom, range_vars>>

-------------------------------------------------------------------------------
Next ==
    \/ \E r \in Endpoints : ManualRegister(r) \/ ManualUnregister(r)
    \/ \E s \in Scopes, r \in Endpoints : ResetRegister(s, r) \/ ResetReplace(s, r)
    \/ \E s, q \in Scopes : MoveFrom(s, q)
    \/ \E t \in Threads, b \in Anchors \cup {0} : ManualThread(t, b)
    \/ \E t \in Threads, b \in Anchors : EnterThreadScope(t, b)
    \/ \E t \in Threads : LeaveThreadScope(t)

Spec == Init /\ [][Next]_vars

-------------------------------------------------------------------------------
(* Properties *)

\* A scope that is registered has a range that can be unregistered.
TypeOK ==
    /\ ranges \in [Keys -> Nat] /\ manual \in [Keys -> 0..MaxManual]
    /\ scope \in [Scopes -> [range : Endpoints, registered : BOOLEAN]]
    /\ \A s \in Scopes : scope[s].registered = Proper(scope[s].range)
    /\ incoming \in [Scopes -> Endpoints]
    /\ bottom \in [Threads -> Anchors \cup {0}] /\ own_bottom \in [Threads -> Anchors \cup {0}]
    /\ \A t \in Threads : Len(nest[t]) <= MaxDepth

\* Every range is in the registry once for each scope that has it, for each
\* reset that is about to take it and for each direct registration, at every
\* moment: scopes that share a range do not take it from each other, a reset
\* leaves no gap, a move neither loses nor doubles an entry, and endpoints may
\* be given in either order.
RangesBalanced ==
    \A k \in Keys :
        ranges[k] = manual[k]
            + Cardinality({s \in Scopes : scope[s].registered /\ Normal(scope[s].range) = k})
            + Cardinality({s \in Scopes : Proper(incoming[s]) /\ Normal(incoming[s]) = k})

\* A thread in a scope is registered, with the outermost stack bottom, and when
\* the last scope ends it is what it was before the first.
ThreadsBalanced ==
    \A t \in Threads :
        bottom[t] = IF own_bottom[t] # 0 \/ nest[t] = <<>> THEN own_bottom[t]
                    ELSE Head(nest[t]).anchor
===============================================================================
