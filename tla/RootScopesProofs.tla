--------------------------- MODULE RootScopesProofs ---------------------------
(***************************************************************************)
(* Machine-checked proofs about root ranges and thread registrations, for  *)
(* any number of scopes, threads, ranges and nested thread scopes.         *)
(***************************************************************************)
EXTENDS RootScopes, FiniteSetTheorems, SequenceTheorems, TLAPS

-------------------------------------------------------------------------------
(***************************************************************************)
(* Root ranges.  The registry's count of a range is compared with three    *)
(* others, one of a counter and two of sets of scopes, so each action is   *)
(* described by what it adds to and takes from those sets.                 *)
(***************************************************************************)

\* The scopes that have range k, and the resets that are about to take it.
Holders(k) == {s \in Scopes : scope[s].registered /\ Normal(scope[s].range) = k}
Arriving(k) == {s \in Scopes : Proper(incoming[s]) /\ Normal(incoming[s]) = k}

RangeTypes ==
    /\ ranges \in [Keys -> Nat] /\ manual \in [Keys -> 0..MaxManual]
    /\ scope \in [Scopes -> [range : Endpoints, registered : BOOLEAN]]
    /\ \A s \in Scopes : scope[s].registered = Proper(scope[s].range)
    /\ incoming \in [Scopes -> Endpoints]

Balance(k) == ranges[k] = manual[k] + Cardinality(Holders(k)) + Cardinality(Arriving(k))

RangesInv == RangeTypes /\ \A k \in Keys : Balance(k)

LEMMA NoneIsImproper == Proper(None) = FALSE
BY DEF Proper, None

LEMMA KeyOfProper == ASSUME NEW r \in Endpoints, Proper(r) PROVE Normal(r) \in Keys
BY DEF Keys

LEMMA CountsAreNat ==
    ASSUME NEW k
    PROVE  /\ IsFiniteSet(Holders(k)) /\ Cardinality(Holders(k)) \in Nat
           /\ IsFiniteSet(Arriving(k)) /\ Cardinality(Arriving(k)) \in Nat
<1>1. Holders(k) \in SUBSET Scopes /\ Arriving(k) \in SUBSET Scopes
  BY DEF Holders, Arriving
<1>2. IsFiniteSet(Holders(k)) /\ IsFiniteSet(Arriving(k))
  BY <1>1, FS_Subset, RootScopesAssumption
<1> QED
  BY <1>2, FS_CardinalityType

\* A member makes a finite set count at least one.
LEMMA MemberCounts ==
    ASSUME NEW S, IsFiniteSet(S), NEW x \in S PROVE Cardinality(S) > 0
<1>1. Cardinality(S) \in Nat
  BY FS_CardinalityType
<1>2. Cardinality(S) # 0
  BY FS_EmptySet
<1> QED
  BY <1>1, <1>2

LEMMA RangesInit == Init => RangesInv
<1> SUFFICES ASSUME Init PROVE RangesInv
  OBVIOUS
<1>1. RangeTypes
  <2>1. 0 \in 0..MaxManual
    BY RootScopesAssumption
  <2>2. ASSUME NEW s \in Scopes
        PROVE  /\ scope[s] \in [range : Endpoints, registered : BOOLEAN]
               /\ scope[s].registered = Proper(scope[s].range)
    BY RootScopesAssumption, NoneIsImproper DEF Init, Empty
  <2> QED
    BY RootScopesAssumption, <2>1, <2>2 DEF Init, RangeTypes
<1>2. ASSUME NEW k \in Keys PROVE Balance(k)
  <2>1. Holders(k) = {} /\ Arriving(k) = {}
    BY NoneIsImproper DEF Init, Holders, Arriving, Empty
  <2>2. Cardinality({}) = 0
    BY FS_EmptySet
  <2> QED
    BY <2>1, <2>2 DEF Init, Balance
<1> QED
  BY <1>1, <1>2 DEF RangesInv

\* One registration adds one to one range.
LEMMA RegisterAddsOne ==
    ASSUME RangesInv, NEW r \in Endpoints, Proper(r), register_root_range(r)
    PROVE  /\ ranges' \in [Keys -> Nat]
           /\ \A k \in Keys : ranges'[k] = IF k = Normal(r) THEN ranges[k] + 1 ELSE ranges[k]
BY KeyOfProper DEF RangesInv, RangeTypes, register_root_range

\* One unregistration takes one from one range that is there.
LEMMA UnregisterTakesOne ==
    ASSUME RangesInv, NEW r \in Endpoints, Proper(r), unregister_root_range(r),
           ranges[Normal(r)] > 0
    PROVE  /\ ranges' \in [Keys -> Nat]
           /\ \A k \in Keys : ranges'[k] = IF k = Normal(r) THEN ranges[k] - 1 ELSE ranges[k]
BY KeyOfProper DEF RangesInv, RangeTypes, unregister_root_range

\* A scope gives up its range: the registry has it, and has it once less.
LEMMA ScopeGivesUp ==
    ASSUME RangesInv, NEW s \in Scopes,
           IF scope[s].registered THEN unregister_root_range(scope[s].range) ELSE UNCHANGED ranges
    PROVE  /\ ranges' \in [Keys -> Nat]
           /\ \A k \in Keys : ranges'[k] = IF s \in Holders(k) THEN ranges[k] - 1 ELSE ranges[k]
<1>1. CASE ~scope[s].registered
  BY <1>1 DEF RangesInv, RangeTypes, Holders
<1>2. CASE scope[s].registered
  <2> DEFINE r == scope[s].range
  <2>1. r \in Endpoints /\ Proper(r)
    BY <1>2 DEF RangesInv, RangeTypes
  <2>2. Normal(r) \in Keys
    BY <2>1, KeyOfProper
  <2>3. s \in Holders(Normal(r))
    BY <1>2 DEF Holders
  <2>4. Cardinality(Holders(Normal(r))) > 0
    BY <2>3, CountsAreNat, MemberCounts
  <2>5. ranges[Normal(r)] > 0
    <3>1. manual[Normal(r)] \in Nat
      BY <2>2, RootScopesAssumption DEF RangesInv, RangeTypes
    <3> QED
      BY <2>2, <2>4, <3>1, CountsAreNat DEF RangesInv, Balance
  <2>6. \A k \in Keys : s \in Holders(k) <=> k = Normal(r)
    BY <1>2 DEF Holders
  <2> HIDE DEF r
  <2>7. unregister_root_range(r)
    BY <1>2 DEF r
  <2> QED
    BY <2>1, <2>5, <2>6, <2>7, UnregisterTakesOne
<1> QED
  BY <1>1, <1>2
-------------------------------------------------------------------------------
LEMMA ManualRegisterKeeps ==
    ASSUME RangesInv, NEW r \in Endpoints, ManualRegister(r) PROVE RangesInv'
<1>1. \A k \in Keys : Holders(k)' = Holders(k) /\ Arriving(k)' = Arriving(k)
  BY DEF ManualRegister, Holders, Arriving
<1>2. CASE ~Proper(r)
  BY <1>1, <1>2 DEF ManualRegister, register_root_range, RangesInv, RangeTypes, Balance
<1>3. CASE Proper(r)
  <2>1. Normal(r) \in Keys /\ manual[Normal(r)] \in 0..MaxManual /\ manual[Normal(r)] < MaxManual
    BY <1>3, KeyOfProper DEF ManualRegister, RangesInv, RangeTypes
  <2>2. manual' \in [Keys -> 0..MaxManual]
    BY <1>3, <2>1, RootScopesAssumption DEF ManualRegister, RangesInv, RangeTypes
  <2>3. /\ ranges' \in [Keys -> Nat]
        /\ \A k \in Keys : ranges'[k] = IF k = Normal(r) THEN ranges[k] + 1 ELSE ranges[k]
    BY <1>3, RegisterAddsOne DEF ManualRegister
  <2>4. ASSUME NEW k \in Keys PROVE Balance(k)'
    <3>1. manual'[k] = IF k = Normal(r) THEN manual[k] + 1 ELSE manual[k]
      BY <1>3 DEF ManualRegister, RangesInv, RangeTypes
    <3>2. manual[k] \in Nat /\ ranges[k] \in Nat
      BY RootScopesAssumption DEF RangesInv, RangeTypes
    <3> QED
      BY <1>1, <2>3, <3>1, <3>2, CountsAreNat DEF RangesInv, Balance
  <2> QED
    BY <2>2, <2>3, <2>4 DEF ManualRegister, RangesInv, RangeTypes
<1> QED
  BY <1>2, <1>3

LEMMA ManualUnregisterKeeps ==
    ASSUME RangesInv, NEW r \in Endpoints, ManualUnregister(r) PROVE RangesInv'
<1>1. \A k \in Keys : Holders(k)' = Holders(k) /\ Arriving(k)' = Arriving(k)
  BY DEF ManualUnregister, Holders, Arriving
<1>2. Proper(r) /\ Normal(r) \in Keys /\ manual[Normal(r)] \in 0..MaxManual /\ manual[Normal(r)] > 0
  BY KeyOfProper DEF ManualUnregister, RangesInv, RangeTypes
<1>3. ranges[Normal(r)] > 0
  BY <1>2, RootScopesAssumption, CountsAreNat DEF RangesInv, Balance
<1>4. manual' \in [Keys -> 0..MaxManual]
  BY <1>2, RootScopesAssumption DEF ManualUnregister, RangesInv, RangeTypes
<1>5. /\ ranges' \in [Keys -> Nat]
      /\ \A k \in Keys : ranges'[k] = IF k = Normal(r) THEN ranges[k] - 1 ELSE ranges[k]
  BY <1>2, <1>3, UnregisterTakesOne DEF ManualUnregister
<1>6. ASSUME NEW k \in Keys PROVE Balance(k)'
  <2>1. manual'[k] = IF k = Normal(r) THEN manual[k] - 1 ELSE manual[k]
    BY DEF ManualUnregister, RangesInv, RangeTypes
  <2>2. manual[k] \in Nat /\ ranges[k] \in Nat
    BY RootScopesAssumption DEF RangesInv, RangeTypes
  <2> QED
    BY <1>1, <1>5, <2>1, <2>2, CountsAreNat DEF RangesInv, Balance
<1> QED
  BY <1>4, <1>5, <1>6 DEF ManualUnregister, RangesInv, RangeTypes

LEMMA ResetRegisterKeeps ==
    ASSUME RangesInv, NEW s \in Scopes, NEW r \in Endpoints, ResetRegister(s, r)
    PROVE  RangesInv'
<1>1. incoming' \in [Scopes -> Endpoints]
  BY DEF ResetRegister, RangesInv, RangeTypes
<1>2. /\ ranges' \in [Keys -> Nat]
      /\ \A k \in Keys : ranges'[k] = IF k = Normal(r) THEN ranges[k] + 1 ELSE ranges[k]
  BY RegisterAddsOne DEF ResetRegister
<1>3. ASSUME NEW k \in Keys PROVE Balance(k)'
  <2>1. Holders(k)' = Holders(k)
    BY DEF ResetRegister, Holders
  <2>2. s \notin Arriving(k)
    BY NoneIsImproper DEF ResetRegister, Arriving
  <2>3. Arriving(k)' = IF k = Normal(r) THEN Arriving(k) \cup {s} ELSE Arriving(k)
    BY <2>2 DEF ResetRegister, Arriving, RangesInv, RangeTypes
  <2>4. Cardinality(Arriving(k) \cup {s}) = Cardinality(Arriving(k)) + 1
    BY <2>2, CountsAreNat, FS_AddElement
  <2>5. manual'[k] = manual[k] /\ manual[k] \in Nat /\ ranges[k] \in Nat
    BY RootScopesAssumption DEF ResetRegister, RangesInv, RangeTypes
  <2> QED
    BY <1>2, <2>1, <2>3, <2>4, <2>5, CountsAreNat DEF RangesInv, Balance
<1> QED
  BY <1>1, <1>2, <1>3 DEF ResetRegister, RangesInv, RangeTypes

LEMMA ResetReplaceKeeps ==
    ASSUME RangesInv, NEW s \in Scopes, NEW r \in Endpoints, ResetReplace(s, r)
    PROVE  RangesInv'
<1>1. incoming' \in [Scopes -> Endpoints]
  BY RootScopesAssumption DEF ResetReplace, RangesInv, RangeTypes
<1>2. Proper(r) \in BOOLEAN
  BY DEF Proper
<1>3. /\ scope' \in [Scopes -> [range : Endpoints, registered : BOOLEAN]]
      /\ \A q \in Scopes : scope'[q].registered = Proper(scope'[q].range)
  BY <1>2 DEF ResetReplace, RangesInv, RangeTypes
<1>4. /\ ranges' \in [Keys -> Nat]
      /\ \A k \in Keys : ranges'[k] = IF s \in Holders(k) THEN ranges[k] - 1 ELSE ranges[k]
  BY ScopeGivesUp DEF ResetReplace
<1>5. ASSUME NEW k \in Keys PROVE Balance(k)'
  <2> DEFINE takes == Proper(r) /\ Normal(r) = k
             others == Holders(k) \ {s}
  <2>1. /\ IsFiniteSet(others) /\ Cardinality(others) \in Nat
        /\ Cardinality(others) = IF s \in Holders(k) THEN Cardinality(Holders(k)) - 1
                                                     ELSE Cardinality(Holders(k))
    BY CountsAreNat, FS_RemoveElement, FS_CardinalityType
  <2>2. Holders(k)' = IF takes THEN others \cup {s} ELSE others
    BY DEF ResetReplace, Holders, RangesInv, RangeTypes
  <2>3. Cardinality(others \cup {s}) = Cardinality(others) + 1
    BY <2>1, FS_AddElement
  <2>4. s \in Arriving(k) <=> takes
    BY NoneIsImproper DEF ResetReplace, Arriving
  <2>5. Arriving(k)' = Arriving(k) \ {s}
    BY NoneIsImproper DEF ResetReplace, Arriving, RangesInv, RangeTypes
  <2>6. Cardinality(Arriving(k)') = IF takes THEN Cardinality(Arriving(k)) - 1
                                            ELSE Cardinality(Arriving(k))
    BY <2>4, <2>5, CountsAreNat, FS_RemoveElement
  <2>7. manual'[k] = manual[k] /\ manual[k] \in Nat /\ ranges[k] \in Nat
    BY RootScopesAssumption DEF ResetReplace, RangesInv, RangeTypes
  <2>8. Cardinality(Holders(k)') = IF takes THEN Cardinality(others) + 1 ELSE Cardinality(others)
    BY <2>2, <2>3
  <2> HIDE DEF takes, others
  <2> QED
    BY <1>4, <2>1, <2>6, <2>7, <2>8, CountsAreNat DEF RangesInv, Balance
<1> QED
  BY <1>1, <1>3, <1>4, <1>5 DEF ResetReplace, RangesInv, RangeTypes

LEMMA MoveFromKeeps ==
    ASSUME RangesInv, NEW s \in Scopes, NEW q \in Scopes, MoveFrom(s, q)
    PROVE  RangesInv'
<1>1. /\ scope' \in [Scopes -> [range : Endpoints, registered : BOOLEAN]]
      /\ \A t \in Scopes : scope'[t].registered = Proper(scope'[t].range)
  <2>1. /\ Empty \in [range : Endpoints, registered : BOOLEAN]
        /\ Empty.registered = Proper(Empty.range)
    BY NoneIsImproper, RootScopesAssumption DEF Empty
  <2>2. /\ scope[q] \in [range : Endpoints, registered : BOOLEAN]
        /\ scope[q].registered = Proper(scope[q].range)
    BY DEF RangesInv, RangeTypes
  <2> QED
    BY <2>1, <2>2 DEF MoveFrom, RangesInv, RangeTypes
<1>2. /\ ranges' \in [Keys -> Nat]
      /\ \A k \in Keys : ranges'[k] = IF s \in Holders(k) THEN ranges[k] - 1 ELSE ranges[k]
  BY ScopeGivesUp DEF MoveFrom
<1>3. ASSUME NEW k \in Keys PROVE Balance(k)'
  <2> DEFINE others == Holders(k) \ {s}
  <2>1. /\ IsFiniteSet(others) /\ Cardinality(others) \in Nat
        /\ Cardinality(others) = IF s \in Holders(k) THEN Cardinality(Holders(k)) - 1
                                                     ELSE Cardinality(Holders(k))
    BY CountsAreNat, FS_RemoveElement, FS_CardinalityType
  <2>2. Cardinality(Holders(k)') = Cardinality(others)
    <3>1. CASE q \notin Holders(k)
      <4>1. Holders(k)' = others
        BY <3>1 DEF MoveFrom, Holders, Empty, RangesInv, RangeTypes
      <4> QED
        BY <4>1
    <3>2. CASE q \in Holders(k)
      <4>1. Holders(k)' = (others \ {q}) \cup {s}
        BY <3>2 DEF MoveFrom, Holders, Empty, RangesInv, RangeTypes
      <4>2. q \in others /\ s \notin others \ {q}
        BY <3>2 DEF MoveFrom
      <4>3. IsFiniteSet(others \ {q}) /\ Cardinality(others \ {q}) = Cardinality(others) - 1
        BY <2>1, <4>2, FS_RemoveElement
      <4>4. Cardinality((others \ {q}) \cup {s}) = Cardinality(others \ {q}) + 1
        BY <4>2, <4>3, FS_AddElement
      <4> QED
        BY <2>1, <4>1, <4>3, <4>4
    <3> QED
      BY <3>1, <3>2
  <2>3. Arriving(k)' = Arriving(k)
    BY DEF MoveFrom, Arriving
  <2>4. manual'[k] = manual[k] /\ manual[k] \in Nat /\ ranges[k] \in Nat
    BY RootScopesAssumption DEF MoveFrom, RangesInv, RangeTypes
  <2> HIDE DEF others
  <2> QED
    BY <1>2, <2>1, <2>2, <2>3, <2>4, CountsAreNat DEF RangesInv, Balance
<1> QED
  BY <1>1, <1>2, <1>3 DEF MoveFrom, RangesInv, RangeTypes

\* Thread scopes do not touch the registry of ranges.
LEMMA UnchangedRangesKeep ==
    ASSUME RangesInv, UNCHANGED range_vars PROVE RangesInv'
BY DEF range_vars, RangesInv, RangeTypes, Balance, Holders, Arriving

LEMMA RangesStep == ASSUME RangesInv, [Next]_vars PROVE RangesInv'
<1>1. CASE UNCHANGED vars
  BY <1>1, UnchangedRangesKeep DEF vars, range_vars
<1>2. ASSUME NEW r \in Endpoints, ManualRegister(r) \/ ManualUnregister(r) PROVE RangesInv'
  BY <1>2, ManualRegisterKeeps, ManualUnregisterKeeps
<1>3. ASSUME NEW s \in Scopes, NEW r \in Endpoints, ResetRegister(s, r) \/ ResetReplace(s, r)
      PROVE  RangesInv'
  BY <1>3, ResetRegisterKeeps, ResetReplaceKeeps
<1>4. ASSUME NEW s \in Scopes, NEW q \in Scopes, MoveFrom(s, q) PROVE RangesInv'
  BY <1>4, MoveFromKeeps
<1>5. ASSUME NEW t \in Threads, NEW b \in Anchors \cup {0}, ManualThread(t, b) PROVE RangesInv'
  BY <1>5, UnchangedRangesKeep DEF ManualThread
<1>6. ASSUME NEW t \in Threads, NEW b \in Anchors, EnterThreadScope(t, b) PROVE RangesInv'
  BY <1>6, UnchangedRangesKeep DEF EnterThreadScope
<1>7. ASSUME NEW t \in Threads, LeaveThreadScope(t) PROVE RangesInv'
  BY <1>7, UnchangedRangesKeep DEF LeaveThreadScope
<1> QED
  BY <1>1, <1>2, <1>3, <1>4, <1>5, <1>6, <1>7 DEF Next

\* The registry of root ranges agrees at every moment with the scopes, resets
\* in progress and direct registrations that account for it: register_root_range
\* and unregister_root_range, called in two halves by reset and by moves of any
\* number of scopes in any order, never lose, double or steal an entry.
THEOREM RegistryIsBalanced == Spec => []RangesBalanced
<1>1. RangesInv => RangesBalanced
  BY DEF RangesInv, Balance, Holders, Arriving, RangesBalanced
<1> QED
  BY <1>1, RangesInit, RangesStep, PTL DEF Spec
-------------------------------------------------------------------------------
(***************************************************************************)
(* Thread registrations.  Only the outermost scope of a thread can own     *)
(* its registration, and it does exactly when the thread had none.         *)
(***************************************************************************)
Entries == [owns_registration : BOOLEAN, anchor : Anchors]

ThreadTypes ==
    /\ nest \in [Threads -> Seq(Entries)]
    /\ bottom \in [Threads -> Anchors \cup {0}] /\ own_bottom \in [Threads -> Anchors \cup {0}]

\* Who owns the registration, and what the stack bottom is.
OuterOwns(t) ==
    /\ Len(nest[t]) <= MaxDepth
    /\ \A i \in 2..Len(nest[t]) : ~nest[t][i].owns_registration
    /\ Len(nest[t]) > 0 => nest[t][1].owns_registration = (own_bottom[t] = 0)
    /\ bottom[t] = IF own_bottom[t] # 0 \/ Len(nest[t]) = 0 THEN own_bottom[t]
                   ELSE nest[t][1].anchor

ThreadsInv == ThreadTypes /\ \A t \in Threads : OuterOwns(t)

LEMMA ThreadsInit == Init => ThreadsInv
BY RootScopesAssumption DEF Init, ThreadsInv, ThreadTypes, OuterOwns

LEMMA UnchangedThreadsKeep ==
    ASSUME ThreadsInv, UNCHANGED thread_vars PROVE ThreadsInv'
BY DEF thread_vars, ThreadsInv, ThreadTypes, OuterOwns

LEMMA ManualThreadKeeps ==
    ASSUME ThreadsInv, NEW t \in Threads, NEW b \in Anchors \cup {0}, ManualThread(t, b)
    PROVE  ThreadsInv'
BY RootScopesAssumption DEF ManualThread, range_vars, ThreadsInv, ThreadTypes, OuterOwns

LEMMA EnterKeeps ==
    ASSUME ThreadsInv, NEW t \in Threads, NEW b \in Anchors, EnterThreadScope(t, b)
    PROVE  ThreadsInv'
<1> DEFINE e == [owns_registration |-> bottom[t] = 0, anchor |-> b]
           n == Len(nest[t])
<1>1. e \in Entries /\ e.owns_registration = (bottom[t] = 0) /\ e.anchor = b
  BY DEF Entries
<1>2. nest[t] \in Seq(Entries) /\ n \in Nat /\ n < MaxDepth /\ MaxDepth \in Nat
  BY RootScopesAssumption DEF EnterThreadScope, ThreadsInv, ThreadTypes
<1> HIDE DEF e
<1>3. /\ nest'[t] = Append(nest[t], e)
      /\ nest' = [nest EXCEPT ![t] = Append(nest[t], e)]
  BY DEF e, EnterThreadScope, ThreadsInv, ThreadTypes
<1>4. /\ nest'[t] \in Seq(Entries) /\ Len(nest'[t]) = n + 1
      /\ \A i \in 1..n : nest'[t][i] = nest[t][i]
      /\ nest'[t][n + 1] = e
  BY <1>1, <1>2, <1>3, AppendProperties
<1>5. ThreadTypes'
  <2>1. nest' \in [Threads -> Seq(Entries)]
    BY <1>3, <1>4 DEF ThreadsInv, ThreadTypes
  <2> QED
    BY <2>1 DEF EnterThreadScope, ThreadsInv, ThreadTypes
<1>6. OuterOwns(t)'
  <2>0. /\ own_bottom' = own_bottom
        /\ bottom'[t] = IF bottom[t] = 0 THEN b ELSE bottom[t]
        /\ bottom[t] \in Nat /\ own_bottom[t] \in Nat /\ b \in Nat \ {0}
    <3>1. bottom \in [Threads -> Anchors \cup {0}] /\ own_bottom[t] \in Anchors \cup {0}
      BY DEF ThreadsInv, ThreadTypes
    <3>2. own_bottom' = own_bottom /\ bottom' = IF bottom[t] = 0 THEN [bottom EXCEPT ![t] = b] ELSE bottom
      BY DEF EnterThreadScope
    <3>3. \A a \in Anchors : a \in Nat /\ a # 0
      BY RootScopesAssumption
    <3>4. bottom[t] \in Nat /\ own_bottom[t] \in Nat /\ b \in Nat \ {0}
      BY <3>1, <3>3
    <3>5. bottom'[t] = IF bottom[t] = 0 THEN b ELSE bottom[t]
      BY <3>1, <3>2
    <3> QED
      BY <3>2, <3>4, <3>5
  <2> HIDE DEF n
  <2>1. CASE n = 0
    <3>1. bottom[t] = own_bottom[t]
      BY <2>1 DEF n, ThreadsInv, OuterOwns
    <3> QED
      BY <1>1, <1>2, <1>4, <2>0, <2>1, <3>1 DEF OuterOwns
  <2>2. CASE n > 0
    <3>1. /\ bottom[t] = IF own_bottom[t] # 0 THEN own_bottom[t] ELSE nest[t][1].anchor
          /\ nest[t][1].owns_registration = (own_bottom[t] = 0)
          /\ \A i \in 2..n : ~nest[t][i].owns_registration
      BY <1>2, <2>2 DEF n, ThreadsInv, OuterOwns
    <3>2. nest[t][1] \in Entries
      BY <1>2, <2>2, ElementOfSeq DEF n
    <3>3. nest[t][1].anchor # 0
      BY <3>2, RootScopesAssumption DEF Entries
    <3>4. bottom[t] # 0
      BY <3>1, <3>3
    <3>5. ~e.owns_registration
      BY <1>1, <3>4
    <3>6. nest'[t][1] = nest[t][1]
      BY <1>2, <1>4, <2>2
    <3>7. \A i \in 2..(n + 1) : ~nest'[t][i].owns_registration
      BY <1>2, <1>4, <3>1, <3>5
    <3> QED
      BY <1>2, <1>4, <2>0, <3>1, <3>4, <3>6, <3>7 DEF OuterOwns
  <2> QED
    BY <1>2, <2>1, <2>2
<1>7. ASSUME NEW u \in Threads, u # t PROVE OuterOwns(u)'
  <2>1. nest'[u] = nest[u] /\ bottom'[u] = bottom[u] /\ own_bottom'[u] = own_bottom[u]
    BY <1>7 DEF EnterThreadScope, ThreadsInv, ThreadTypes
  <2> QED
    BY <2>1 DEF ThreadsInv, OuterOwns
<1> QED
  BY <1>5, <1>6, <1>7 DEF ThreadsInv

LEMMA LeaveKeeps ==
    ASSUME ThreadsInv, NEW t \in Threads, LeaveThreadScope(t)
    PROVE  ThreadsInv'
<1> DEFINE n == Len(nest[t])
<1>1. nest[t] \in Seq(Entries) /\ nest[t] # <<>>
  BY DEF LeaveThreadScope, ThreadsInv, ThreadTypes
<1>2. n \in Nat /\ n > 0
  BY <1>1, EmptySeq, LenProperties
<1>3. \A i \in 1..(n - 1) : nest[t][i] \in Entries
  BY <1>1, <1>2, ElementOfSeq
<1>4. /\ SubSeq(nest[t], 1, n - 1) \in Seq(Entries)
      /\ Len(SubSeq(nest[t], 1, n - 1)) = n - 1
      /\ \A i \in 1..(n - 1) : SubSeq(nest[t], 1, n - 1)[i] = nest[t][i]
  <2>1. n - 1 \in Int /\ 1 \in Int /\ (n - 1) - 1 + 1 = n - 1
    BY <1>2
  <2>2. /\ SubSeq(nest[t], 1, n - 1) \in Seq(Entries)
        /\ Len(SubSeq(nest[t], 1, n - 1)) = IF 1 <= n - 1 THEN (n - 1) - 1 + 1 ELSE 0
        /\ \A i \in 1..((n - 1) - 1 + 1) : SubSeq(nest[t], 1, n - 1)[i] = nest[t][1 + i - 1]
    BY ONLY <1>3, <2>1, SubSeqProperties
  <2> QED
    BY <1>2, <2>2
<1>5. nest' = [nest EXCEPT ![t] = SubSeq(nest[t], 1, n - 1)]
  BY DEF LeaveThreadScope, Front
<1>6. /\ nest'[t] \in Seq(Entries) /\ Len(nest'[t]) = n - 1
      /\ \A i \in 1..(n - 1) : nest'[t][i] = nest[t][i]
  BY <1>4, <1>5 DEF ThreadsInv, ThreadTypes
<1>7. /\ own_bottom' = own_bottom
      /\ bottom' = IF nest[t][n].owns_registration THEN [bottom EXCEPT ![t] = 0] ELSE bottom
  BY DEF LeaveThreadScope, Last
<1>8. ThreadTypes'
  <2>1. nest' \in [Threads -> Seq(Entries)]
    BY <1>5, <1>6 DEF ThreadsInv, ThreadTypes
  <2>2. bottom' \in [Threads -> Anchors \cup {0}]
    BY <1>7 DEF ThreadsInv, ThreadTypes
  <2> QED
    BY <1>7, <2>1, <2>2 DEF ThreadsInv, ThreadTypes
<1>9. OuterOwns(t)'
  <2>1. /\ n <= MaxDepth /\ MaxDepth \in Nat
        /\ \A i \in 2..n : ~nest[t][i].owns_registration
        /\ nest[t][1].owns_registration = (own_bottom[t] = 0)
        /\ bottom[t] = IF own_bottom[t] # 0 THEN own_bottom[t] ELSE nest[t][1].anchor
    BY <1>2, RootScopesAssumption DEF ThreadsInv, OuterOwns
  <2>2. bottom'[t] = IF nest[t][n].owns_registration THEN 0 ELSE bottom[t]
    BY <1>7 DEF ThreadsInv, ThreadTypes
  <2> HIDE DEF n
  <2>3. CASE n = 1
    <3>1. bottom'[t] = own_bottom[t]
      BY <2>1, <2>2, <2>3
    <3> QED
      BY <1>6, <1>7, <2>1, <2>3, <3>1 DEF OuterOwns
  <2>4. CASE n > 1
    <3>1. ~nest[t][n].owns_registration
      BY <1>2, <2>1, <2>4
    <3>2. bottom'[t] = bottom[t]
      BY <2>2, <3>1
    <3>3. nest'[t][1] = nest[t][1] /\ Len(nest'[t]) > 0
      BY <1>2, <1>6, <2>4
    <3>4. \A i \in 2..(n - 1) : ~nest'[t][i].owns_registration
      BY <1>2, <1>6, <2>1
    <3> QED
      BY <1>2, <1>6, <1>7, <2>1, <3>2, <3>3, <3>4 DEF OuterOwns
  <2> QED
    BY <1>2, <2>3, <2>4
<1>10. ASSUME NEW u \in Threads, u # t PROVE OuterOwns(u)'
  <2>1. nest'[u] = nest[u] /\ bottom'[u] = bottom[u] /\ own_bottom'[u] = own_bottom[u]
    BY <1>5, <1>7, <1>10 DEF ThreadsInv, ThreadTypes
  <2> QED
    BY <2>1 DEF ThreadsInv, OuterOwns
<1> QED
  BY <1>8, <1>9, <1>10 DEF ThreadsInv

LEMMA ThreadsStep == ASSUME ThreadsInv, [Next]_vars PROVE ThreadsInv'
<1>1. CASE UNCHANGED vars
  BY <1>1, UnchangedThreadsKeep DEF vars, thread_vars
<1>2. ASSUME NEW r \in Endpoints, ManualRegister(r) \/ ManualUnregister(r) PROVE ThreadsInv'
  BY <1>2, UnchangedThreadsKeep DEF ManualRegister, ManualUnregister
<1>3. ASSUME NEW s \in Scopes, NEW r \in Endpoints, ResetRegister(s, r) \/ ResetReplace(s, r)
      PROVE  ThreadsInv'
  BY <1>3, UnchangedThreadsKeep DEF ResetRegister, ResetReplace
<1>4. ASSUME NEW s \in Scopes, NEW q \in Scopes, MoveFrom(s, q) PROVE ThreadsInv'
  BY <1>4, UnchangedThreadsKeep DEF MoveFrom
<1>5. ASSUME NEW t \in Threads, NEW b \in Anchors \cup {0}, ManualThread(t, b) PROVE ThreadsInv'
  BY <1>5, ManualThreadKeeps
<1>6. ASSUME NEW t \in Threads, NEW b \in Anchors, EnterThreadScope(t, b) PROVE ThreadsInv'
  BY <1>6, EnterKeeps
<1>7. ASSUME NEW t \in Threads, LeaveThreadScope(t) PROVE ThreadsInv'
  BY <1>7, LeaveKeeps
<1> QED
  BY <1>1, <1>2, <1>3, <1>4, <1>5, <1>6, <1>7 DEF Next

\* However deep ScopedThreadRegistration objects nest, inside or outside a
\* registration of the thread's own, the thread keeps the outermost stack bottom
\* while it is in a scope and gets back what it had when the last one ends.
THEOREM RegistrationsAreBalanced == Spec => []ThreadsBalanced
<1>1. ThreadsInv => ThreadsBalanced
  <2> SUFFICES ASSUME ThreadsInv, NEW t \in Threads
               PROVE  bottom[t] = IF own_bottom[t] # 0 \/ nest[t] = <<>> THEN own_bottom[t]
                                  ELSE Head(nest[t]).anchor
    BY DEF ThreadsBalanced
  <2>1. nest[t] \in Seq(Entries)
    BY DEF ThreadsInv, ThreadTypes
  <2>2. Len(nest[t]) = 0 <=> nest[t] = <<>>
    BY <2>1, EmptySeq
  <2>3. nest[t] # <<>> => Head(nest[t]) = nest[t][1]
    BY <2>1
  <2> QED
    BY <2>2, <2>3 DEF ThreadsInv, OuterOwns
<1> QED
  BY <1>1, ThreadsInit, ThreadsStep, PTL DEF Spec

\* The types of the two parts together, as the run checks them.
THEOREM TypeCorrect == Spec => []TypeOK
<1>1. RangesInv /\ ThreadsInv => TypeOK
  BY DEF RangesInv, RangeTypes, ThreadsInv, ThreadTypes, OuterOwns, TypeOK
<1> QED
  BY <1>1, RangesInit, RangesStep, ThreadsInit, ThreadsStep, PTL DEF Spec
===============================================================================
