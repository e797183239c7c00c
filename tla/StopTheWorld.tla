----------------------------- MODULE StopTheWorld -----------------------------
(***************************************************************************)
(* The cooperative stop-the-world protocol of GC_Manager                   *)
(* (src/src/GCManager.cpp, cooperate_with_stop_the_world_locked and its    *)
(* callers).                                                               *)
(*                                                                         *)
(* Every public operation takes mutex_, calls cooperate_..._locked and then*)
(* runs its body under the same lock.  A stretch of code that runs without *)
(* giving up mutex_ is one action here; the lock is given up in exactly    *)
(* three places: around setjmp in cooperate, inside a wait on              *)
(* stop_the_world_cv_, and when the operation returns.                     *)
(*                                                                         *)
(* stop_the_world_cv_ is modelled with its notifications: a waiting thread *)
(* in asleep re-evaluates its predicate only after a notify_all.           *)
(***************************************************************************)

CONSTANTS
    Threads,    \* the threads of the process
    NoThread,   \* std::thread::id(), the id of no thread
    UseOps      \* operations whose body leaves the protocol's state alone

StopOps == {"collect", "snapshot", "shutdown"}

ASSUME ThreadAssumption == NoThread \notin Threads
ASSUME OpsAssumption ==
    /\ UseOps \cap (StopOps \cup {"register", "unregister"}) = {}
    /\ "none" \notin UseOps

Ops == {"register", "unregister"} \cup StopOps \cup UseOps

VARIABLES
    registered,  \* threads with an entry in threads_ (stack_bottom is set)
    paused,      \* threads whose ThreadState::paused_for_collection is set
    requested,   \* stop_the_world_requested_
    collecting,  \* collecting_
    collector,   \* collector_thread_
    pc,          \* where each thread is, see below
    pending,     \* the operation a thread inside GC_Manager is executing
    asleep       \* threads in stop_the_world_cv_.wait, not notified since

protocolVars == <<registered, paused, requested, collecting, collector, pc,
                  pending, asleep>>

(***************************************************************************)
(* "run"      in application code (for the collector: in a finalizer that  *)
(*            destroy_blocks calls)                                        *)
(* "setjmp"   in cooperate, lock given up to capture the registers         *)
(* "parked"   a registered thread waiting in cooperate                     *)
(* "blocked"  an unregistered thread waiting in cooperate                  *)
(* "gather"   in wait_for_other_threads_to_pause_locked                    *)
(* "release"  past the lock scope, about to call release_stop_the_world    *)
(***************************************************************************)
Places == {"run", "setjmp", "parked", "blocked", "gather", "release"}

TypeOK ==
    /\ registered \in SUBSET Threads
    /\ paused \in SUBSET Threads
    /\ requested \in BOOLEAN
    /\ collecting \in BOOLEAN
    /\ collector \in Threads \cup {NoThread}
    /\ pc \in [Threads -> Places]
    /\ pending \in [Threads -> Ops \cup {"none"}]
    /\ asleep \in SUBSET Threads

Init ==
    /\ registered = {}
    /\ paused = {}
    /\ requested = FALSE
    /\ collecting = FALSE
    /\ collector = NoThread
    /\ pc = [t \in Threads |-> "run"]
    /\ pending = [t \in Threads |-> "none"]
    /\ asleep = {}

-------------------------------------------------------------------------------
(* cooperate_with_stop_the_world_locked *)

\* cooperate returns at once, and a blocked thread's wait ends.
Unobstructed(t) == ~requested \/ collector = t

\* The first look finds a stop in progress and the thread has no ThreadState:
\* it waits on the condition variable without being counted as paused.
BlockUnregistered(t, op) ==
    /\ pc[t] = "run"
    /\ ~Unobstructed(t)
    /\ t \notin registered
    /\ pc' = [pc EXCEPT ![t] = "blocked"]
    /\ pending' = [pending EXCEPT ![t] = op]
    /\ asleep' = asleep \cup {t}
    /\ UNCHANGED <<registered, paused, requested, collecting, collector>>

\* The first look finds a stop in progress and the thread is registered: it
\* unlocks and captures its registers with setjmp.
CaptureRegisters(t, op) ==
    /\ pc[t] = "run"
    /\ ~Unobstructed(t)
    /\ t \in registered
    /\ pc' = [pc EXCEPT ![t] = "setjmp"]
    /\ pending' = [pending EXCEPT ![t] = op]
    /\ UNCHANGED <<registered, paused, requested, collecting, collector, asleep>>

\* Parks without telling the collector.
ParkWithoutNotify(t) ==
    /\ pc[t] = "setjmp"
    /\ ~Unobstructed(t)
    /\ pc' = [pc EXCEPT ![t] = "parked"]
    /\ paused' = paused \cup {t}
    /\ asleep' = asleep \cup {t}
    /\ UNCHANGED <<registered, requested, collecting, collector, pending>>

\* Locked again, the stop is still (or again) in progress: publish the parked
\* stack and registers, set the flag, notify_all and wait.  The second lookup
\* of the ThreadState cannot fail, only the thread itself erases its entry.
Park(t) ==
    /\ pc[t] = "setjmp"
    /\ ~Unobstructed(t)
    /\ pc' = [pc EXCEPT ![t] = "parked"]
    /\ paused' = paused \cup {t}
    /\ asleep' = {t}
    /\ UNCHANGED <<registered, requested, collecting, collector, pending>>

\* Thread t holds mutex_ and cooperate returns: the body of op runs now.
Passes(t, op) ==
    \/ pc[t] = "run" /\ Unobstructed(t)
    \/ pc[t] = "setjmp" /\ pending[t] = op /\ Unobstructed(t)
    \/ pc[t] = "parked" /\ pending[t] = op /\ t \notin asleep /\ ~requested
    \/ pc[t] = "blocked" /\ pending[t] = op /\ t \notin asleep /\ Unobstructed(t)

\* Returns with paused_for_collection still set.
LeaveKeepingFlag(t) ==
    /\ pc' = [pc EXCEPT ![t] = "run"]
    /\ pending' = [pending EXCEPT ![t] = "none"]
    /\ UNCHANGED paused

\* cooperate clears the ThreadState's parking fields, the body ran, and the
\* operation returns to application code.
Leave(t) ==
    /\ pc' = [pc EXCEPT ![t] = "run"]
    /\ pending' = [pending EXCEPT ![t] = "none"]
    /\ paused' = paused \ {t}

-------------------------------------------------------------------------------
(* Operations *)

\* Enters the thread while a stop is in progress.
RegisterWithoutCooperating(t) ==
    /\ pc[t] = "run"
    /\ Leave(t)
    /\ registered' = registered \cup {t}
    /\ UNCHANGED <<requested, collecting, collector, asleep>>

\* Enters collector_thread_ where the caller's id belongs.
RegisterCollectorId(t) ==
    /\ Passes(t, "register")
    /\ Leave(t)
    /\ registered' = registered \cup {collector}
    /\ UNCHANGED <<requested, collecting, collector, asleep>>

register_stack_bottom(t) ==
    /\ Passes(t, "register")
    /\ Leave(t)
    /\ registered' = registered \cup {t}
    /\ UNCHANGED <<requested, collecting, collector, asleep>>

\* Leaves while a stop is in progress.
UnregisterWithoutCooperating(t) ==
    /\ pc[t] = "run"
    /\ Leave(t)
    /\ registered' = registered \ {t}
    /\ UNCHANGED <<requested, collecting, collector, asleep>>

unregister_current_thread(t) ==
    /\ Passes(t, "unregister")
    /\ Leave(t)
    /\ registered' = registered \ {t}
    /\ UNCHANGED <<requested, collecting, collector, asleep>>

\* safepoint, is_current_thread_registered, stats, is_live, the threshold and
\* byte-count accessors, and the critical sections of the allocation, root and
\* weak-reference operations.
Use(t, op) ==
    /\ op \in UseOps
    /\ Passes(t, op)
    /\ Leave(t)
    /\ UNCHANGED <<registered, requested, collecting, collector, asleep>>

\* The predicate of wait_for_other_threads_to_pause_locked.
AllPaused(t) == \A u \in registered \ {t} : u \in paused

\* collect, live_objects, object_info and shutdown become the collector and
\* wait; if everyone is paused already the wait returns without sleeping.
\* (Then the scan runs in the same critical section.  Another thread's step
\* between the two commutes with this one, so two actions show the same.)
BeginStop(t, op) ==
    /\ op \in StopOps
    /\ Passes(t, op)
    /\ ~collecting
    /\ op = "collect" => t \in registered
    /\ collecting' = TRUE
    /\ collector' = t
    /\ requested' = TRUE
    /\ pc' = [pc EXCEPT ![t] = "gather"]
    /\ pending' = [pending EXCEPT ![t] = op]
    /\ paused' = paused \ {t}
    /\ asleep' = IF AllPaused(t) THEN asleep ELSE asleep \cup {t}
    /\ UNCHANGED registered

\* A recursive call (the caller is the collector, running a finalizer): collect
\* and shutdown return, a snapshot reads the heap without stopping anyone.  An
\* unregistered thread's collect throws std::logic_error.
ReturnEarly(t, op) ==
    /\ op \in StopOps
    /\ Passes(t, op)
    /\ collecting \/ (op = "collect" /\ t \notin registered)
    /\ Leave(t)
    /\ UNCHANGED <<registered, requested, collecting, collector, asleep>>

\* Does not wait for the other threads.
StopWithoutWaiting(t) ==
    /\ pc[t] = "gather"
    /\ pending[t] \in {"collect", "shutdown"}
    /\ pc' = [pc EXCEPT ![t] = "run"]
    /\ pending' = [pending EXCEPT ![t] = "none"]
    /\ asleep' = asleep \ {t}
    /\ UNCHANGED <<registered, paused, requested, collecting, collector>>

\* The collector's wait is over: it scans, marks and sweeps (or detaches every
\* block) under the lock, unlocks, and enters destroy_blocks.
Detach(t) ==
    /\ pc[t] = "gather"
    /\ t \notin asleep
    /\ AllPaused(t)
    /\ pending[t] \in {"collect", "shutdown"}
    /\ pc' = [pc EXCEPT ![t] = "run"]
    /\ pending' = [pending EXCEPT ![t] = "none"]
    /\ UNCHANGED <<registered, paused, requested, collecting, collector, asleep>>

\* A snapshot is complete, or an exception leaves collect or shutdown through
\* its catch block: the lock scope ends, release_stop_the_world is next.
Unwind(t) ==
    /\ pc[t] = "gather"
    /\ t \notin asleep
    /\ AllPaused(t)
    /\ pc' = [pc EXCEPT ![t] = "release"]
    /\ UNCHANGED <<registered, paused, requested, collecting, collector, pending,
                   asleep>>

\* A notified thread finds its predicate false and waits again.
WaitAgain(t) ==
    /\ t \notin asleep
    /\ \/ pc[t] = "parked" /\ requested
       \/ pc[t] = "blocked" /\ ~Unobstructed(t)
       \/ pc[t] = "gather" /\ ~AllPaused(t)
    /\ asleep' = asleep \cup {t}
    /\ UNCHANGED <<registered, paused, requested, collecting, collector, pc, pending>>

\* Leaves the waiting threads asleep.
ReleaseWithoutNotify(t) ==
    /\ collector = t
    /\ pc[t] \in {"run", "release"}
    /\ collector' = NoThread
    /\ requested' = FALSE
    /\ collecting' = FALSE
    /\ pc' = [pc EXCEPT ![t] = "run"]
    /\ pending' = [pending EXCEPT ![t] = "none"]
    /\ UNCHANGED <<registered, paused, asleep>>

\* The finalizers have returned, or the stop is abandoned.
release_stop_the_world(t) ==
    /\ collector = t
    /\ pc[t] \in {"run", "release"}
    /\ collector' = NoThread
    /\ requested' = FALSE
    /\ collecting' = FALSE
    /\ pc' = [pc EXCEPT ![t] = "run"]
    /\ pending' = [pending EXCEPT ![t] = "none"]
    /\ asleep' = {}
    /\ UNCHANGED <<registered, paused>>

ThreadStep(t) ==
    \/ \E op \in Ops : BlockUnregistered(t, op)
    \/ \E op \in Ops : CaptureRegisters(t, op)
    \/ Park(t)
    \/ WaitAgain(t)
    \/ register_stack_bottom(t)
    \/ unregister_current_thread(t)
    \/ \E op \in UseOps : Use(t, op)
    \/ \E op \in StopOps : BeginStop(t, op)
    \/ \E op \in StopOps : ReturnEarly(t, op)
    \/ Detach(t)
    \/ Unwind(t)
    \/ release_stop_the_world(t)

Next == \E t \in Threads : ThreadStep(t)

Spec == Init /\ [][Next]_protocolVars

(***************************************************************************)
(* Fairness: while a stop is requested a registered thread eventually      *)
(* enters GC_Manager (README, "Every registered thread must periodically   *)
(* call gc::safepoint() or a manager API"), a thread that can take mutex_  *)
(* eventually does, and finalizers return.  Weak fairness only: std::mutex *)
(* does not promise a thread that keeps losing the race anything.          *)
(***************************************************************************)
Cooperates(t) == \E op \in Ops : CaptureRegisters(t, op)

\* Thread t, waiting inside cooperate, gets the lock and runs its body.
Resumes(t) ==
    /\ pc[t] \in {"setjmp", "parked", "blocked"}
    /\ \/ register_stack_bottom(t)
       \/ unregister_current_thread(t)
       \/ \E op \in UseOps : Use(t, op)
       \/ \E op \in StopOps : BeginStop(t, op)
       \/ \E op \in StopOps : ReturnEarly(t, op)

Fairness ==
    \A t \in Threads :
        /\ WF_protocolVars(Cooperates(t))
        /\ WF_protocolVars(Park(t))
        /\ WF_protocolVars(WaitAgain(t))
        /\ WF_protocolVars(Resumes(t))
        /\ WF_protocolVars(Detach(t) \/ Unwind(t))
        /\ WF_protocolVars(release_stop_the_world(t))

FairSpec == Spec /\ Fairness

-------------------------------------------------------------------------------
(* Properties *)

\* The flag the collector trusts tells the truth: paused_for_collection is set
\* for exactly the threads that are inside the wait of cooperate, also when a
\* second stop begins before the threads parked for the first have woken.
PausedIsParked == paused = {t \in Threads : pc[t] = "parked"}

\* From the scan to release_stop_the_world, finalizers included, every other
\* registered thread sits in cooperate: no mutator runs while blocks are
\* scanned, detached, finalized or freed.
WorldStopped ==
    requested /\ pc[collector] # "gather" =>
        \A t \in registered \ {collector} : pc[t] = "parked"

\* Nobody sleeps on stop_the_world_cv_ with a predicate that already holds:
\* each change that makes one true is followed by notify_all before the
\* waiter could miss it.
NoLostWakeup ==
    \A t \in asleep :
        \/ pc[t] = "parked" /\ requested
        \/ pc[t] = "blocked" /\ ~Unobstructed(t)
        \/ pc[t] = "gather" /\ ~AllPaused(t)

\* While a stop is requested no thread but the collector joins or leaves the
\* set threads_ that the collector waits for and scans.
MembershipFrozen ==
    [][requested => registered' \ {collector} = registered \ {collector}]_protocolVars

\* Every stop ends: the collector is not left waiting for a thread that parked
\* unseen, and it does not wait for one that can no longer park.
StopEnds == requested ~> ~requested

\* Once stops cease, a thread waiting in cooperate returns to its caller.
WaitersReturn ==
    <>[]~requested => \A t \in Threads : []<>(pc[t] = "run")
===============================================================================
