--------------------------- MODULE FilumWaitGroup ---------------------------
(***************************************************************************)
(* The wait group of std.filum: the runtime's PenguNativeWaitGroup         *)
(* (pengu_parser/pengu_runtime.c), a counter behind a mutex and one        *)
(* condition variable, used the way std/filum.pengu tells its callers to:  *)
(* add before a unit of work starts, done when it finishes.                *)
(*                                                                         *)
(* As in FilumChan one action is one critical section.  Units are started  *)
(* by a program thread or by a unit that is running (nested work); any     *)
(* number of threads wait.                                                 *)
(***************************************************************************)
EXTENDS Integers, FiniteSets

CONSTANTS Units,        \* the units of work of the program
          Waiters,      \* the threads that call wait
          FreeContract  \* who may be inside wait when free is called:
                        \*   "never", "quiescent" or "parked" (see FilumChan)

ASSUME WaitGroupAssumption ==
    /\ IsFiniteSet(Units)
    /\ FreeContract \in {"never", "quiescent", "parked"}

VARIABLES count,    \* nwg->count
          handle,   \* "live", "closing" (free gave the mutex back), "freed"
          unit,     \* where each unit is
          at,       \* where each waiter is
          owed      \* history: the units a waiter found unfinished at its call

vars == <<count, handle, unit, at, owed>>

UnitStates == {"new", "added", "lost", "running", "finished", "done"}
WaiterStates == {"idle", "wait", "parked", "woken"}

Pending == {u \in Units : unit[u] \in {"added", "lost", "running", "finished"}}
Parked == {w \in Waiters : at[w] = "parked"}

Init ==
    /\ count = 0
    /\ handle = "live"
    /\ unit = [u \in Units |-> "new"]
    /\ at = [w \in Waiters |-> "idle"]
    /\ owed = [w \in Waiters |-> {}]

-----------------------------------------------------------------------------
\* pthread_cond_broadcast(&nwg->cv)
WokenAll == [w \in Waiters |-> IF at[w] = "parked" THEN "woken" ELSE at[w]]

\* BUG: one waiter is signalled instead of all
WokenOne(new) ==
    IF Parked = {} THEN new = at
    ELSE \E w \in Parked : new = [at EXCEPT ![w] = "woken"]

\* BUG: a signal instead of a broadcast
AddDeltaSignals(delta) ==
    IF count + delta <= 0
    THEN count' = 0 /\ WokenOne(at')
    ELSE count' = count + delta /\ UNCHANGED at

(* pengu_c_filum_wait_group_add: the counter never goes below zero. *)
AddDelta(delta) ==
    IF count + delta <= 0
    THEN count' = 0 /\ at' = WokenAll
    ELSE count' = count + delta /\ UNCHANGED at

\* BUG: the unit is started first and adds itself
AddBySelf(u) ==
    /\ handle = "live"
    /\ unit[u] = "new"
    /\ unit' = [unit EXCEPT ![u] = "added"]
    /\ UNCHANGED <<count, at, handle, owed>>

(* wg.add(1) before the unit is started. *)
Add(u) ==
    /\ handle = "live"
    /\ unit[u] = "new"
    /\ unit' = [unit EXCEPT ![u] = "added"]
    /\ AddDelta(1)
    /\ UNCHANGED <<handle, owed>>

\* filum.go: a detached thread runs the unit
Go(u) ==
    /\ unit[u] = "added"
    /\ unit' = [unit EXCEPT ![u] = "running"]
    /\ UNCHANGED <<count, handle, at, owed>>

\* the thread cannot be created: go returns as if it had been
GoFails(u) ==
    /\ unit[u] = "added"
    /\ unit' = [unit EXCEPT ![u] = "lost"]
    /\ UNCHANGED <<count, handle, at, owed>>

FinishWork(u) ==
    /\ unit[u] = "running"
    /\ unit' = [unit EXCEPT ![u] = "finished"]
    /\ UNCHANGED <<count, handle, at, owed>>

\* wg.done: add(-1)
Done(u) ==
    /\ handle # "freed"
    /\ unit[u] = "finished"
    /\ unit' = [unit EXCEPT ![u] = "done"]
    /\ AddDelta(-1)
    /\ UNCHANGED <<handle, owed>>

-----------------------------------------------------------------------------
CallWait(w) ==
    /\ handle = "live"
    /\ at[w] = "idle"
    /\ at' = [at EXCEPT ![w] = "wait"]
    /\ owed' = [owed EXCEPT ![w] = Pending]
    /\ UNCHANGED <<count, handle, unit>>

WaitRuns(w) == at[w] \in {"wait", "woken"} /\ handle # "freed"

\* BUG: "if" instead of "while": a woken waiter returns
ParkOnce(w) ==
    /\ WaitRuns(w)
    /\ count > 0
    /\ at' = [at EXCEPT ![w] = IF @ = "wait" THEN "parked" ELSE "idle"]
    /\ UNCHANGED <<count, handle, unit, owed>>

\* while (nwg->count > 0) pthread_cond_wait(&nwg->cv, &nwg->mtx)
Park(w) ==
    /\ WaitRuns(w)
    /\ count > 0
    /\ at' = [at EXCEPT ![w] = "parked"]
    /\ UNCHANGED <<count, handle, unit, owed>>

Return(w) ==
    /\ WaitRuns(w)
    /\ count <= 0
    /\ at' = [at EXCEPT ![w] = "idle"]
    /\ UNCHANGED <<count, handle, unit, owed>>

SpuriousWake(w) ==
    /\ handle = "live"
    /\ at[w] = "parked"
    /\ at' = [at EXCEPT ![w] = "woken"]
    /\ UNCHANGED <<count, handle, unit, owed>>

-----------------------------------------------------------------------------
(* The caller of free must own the group: no unit will use it any more.    *)
MayFree ==
    /\ \A u \in Units : unit[u] = "done"
    /\ \/ FreeContract = "quiescent" /\ \A w \in Waiters : at[w] = "idle"
       \/ FreeContract = "parked" /\ \A w \in Waiters : at[w] \in {"idle", "parked", "woken"}

\* lock; count = 0; broadcast; unlock
FreeRelease ==
    /\ handle = "live"
    /\ MayFree
    /\ handle' = "closing"
    /\ count' = 0
    /\ at' = WokenAll
    /\ UNCHANGED <<unit, owed>>

\* pthread_mutex_destroy, pthread_cond_destroy, free(wg)
FreeDestroy ==
    /\ handle = "closing"
    /\ handle' = "freed"
    /\ UNCHANGED <<count, unit, at, owed>>

UnitStep(u) == Go(u) \/ FinishWork(u) \/ Done(u)
WaiterStep(w) == Park(w) \/ Return(w)

Next ==
    \/ \E u \in Units : Add(u) \/ Go(u) \/ GoFails(u) \/ FinishWork(u) \/ Done(u)
    \/ \E w \in Waiters : CallWait(w) \/ Park(w) \/ Return(w) \/ SpuriousWake(w)
    \/ FreeRelease \/ FreeDestroy

Spec == Init /\ [][Next]_vars

(* Units that were added run and finish, and a thread that wants the mutex *)
(* gets it.  Nobody has to add, to call wait or to free.                   *)
FairSpec == Spec /\ (\A u \in Units : WF_vars(UnitStep(u)))
                 /\ (\A w \in Waiters : WF_vars(WaiterStep(w)))

-----------------------------------------------------------------------------
TypeOK ==
    /\ count \in 0 .. Cardinality(Units)
    /\ handle \in {"live", "closing", "freed"}
    /\ unit \in [Units -> UnitStates]
    /\ at \in [Waiters -> WaiterStates]
    /\ owed \in [Waiters -> SUBSET Units]

(* The counter is the number of units that are not done: the clamp at zero *)
(* never swallows a decrement when add comes before the unit starts.       *)
CountsPending == count = Cardinality(Pending)

(* Nobody sleeps when there is nothing to wait for. *)
NobodySleepsAtZero == count = 0 => Parked = {}

(* When wait returns, every unit that was unfinished at the call is done,  *)
(* also the nested ones the caller could see, whatever wakes it up.        *)
WaitCoversWork ==
    [][\A w \in Waiters : at[w] # "idle" /\ at'[w] = "idle"
          => \A u \in owed[w] : unit'[u] = "done"]_vars

(* A wait returns once nothing is pending, unless new work is added first. *)
WaitReturns ==
    \A w \in Waiters : (at[w] # "idle" /\ Pending = {}) ~> (at[w] = "idle" \/ Pending # {})

(* "Release anyone parked in `wait` before destroying the primitives they  *)
(* are parked on" (pengu_runtime.c:628): a waiter that was parked when     *)
(* free started is out of wait by the time the mutex is destroyed.         *)
WaitersOutBeforeFree == handle = "freed" => \A w \in Waiters : at[w] = "idle"
=============================================================================
