----------------------------- MODULE FilumOnce -----------------------------
(***************************************************************************)
(* The once guard of std.filum (PenguNativeOnce in                         *)
(* pengu_parser/pengu_runtime.c): a flag that is tested without the mutex, *)
(* then tested again under it around the callback.                         *)
(*                                                                         *)
(* A thread is a stack of do_once frames, because the callback may call    *)
(* do_once on the same guard.  The unlocked test races with the store of   *)
(* the flag; what a thread that takes the fast path sees of the callback's *)
(* writes is therefore a choice on a machine that reorders stores.         *)
(***************************************************************************)
EXTENDS Integers, Sequences, FiniteSets

CONSTANTS Threads,
          None,        \* no owner
          Recursive,   \* TRUE: CRITICAL_SECTION, the owner may lock again
          Nested,      \* TRUE: the callback calls do_once on its own guard
          WeakMemory,  \* TRUE: stores may become visible out of order
          MaxDepth     \* bound: frames of one thread

ASSUME OnceAssumption ==
    /\ None \notin Threads
    /\ {Recursive, Nested, WeakMemory} \subseteq BOOLEAN
    /\ MaxDepth \in Nat \ {0}

VARIABLES done,     \* no->done
          owner,    \* the thread that holds the mutex, or None
          held,     \* how many times it holds it
          stack,    \* the frames of each thread, the running one last
          started,  \* how many times the callback was entered
          finished, \* TRUE: a callback has returned
          sees,     \* the threads to which its writes are visible
          guard     \* "live" or "freed"

onceVars == <<done, owner, held, stack, started, finished, sees, guard>>

Frames == {"test", "lock", "check", "fn", "set", "unlock"}

Depth(t) == Len(stack[t])
At(t, frame) == Depth(t) > 0 /\ stack[t][Depth(t)] = frame
Goto(t, frame) == stack' = [stack EXCEPT ![t][Depth(t)] = frame]
Pop(t) == stack' = [stack EXCEPT ![t] = SubSeq(@, 1, Depth(t) - 1)]

OnceInit ==
    /\ done = 0
    /\ owner = None
    /\ held = 0
    /\ stack = [t \in Threads |-> <<>>]
    /\ started = 0
    /\ finished = FALSE
    /\ sees = {}
    /\ guard = "live"

-----------------------------------------------------------------------------
Call(t) ==
    /\ guard = "live"
    /\ stack[t] = <<>>
    /\ stack' = [stack EXCEPT ![t] = <<"test">>]
    /\ UNCHANGED <<done, owner, held, started, finished, sees, guard>>

\* if (no->done) return;
FastReturn(t) ==
    /\ At(t, "test")
    /\ done = 1
    /\ Pop(t)
    /\ sees' \in {sees \union {t}} \union (IF WeakMemory THEN {sees} ELSE {})
    /\ UNCHANGED <<done, owner, held, started, finished, guard>>

FastMiss(t) ==
    /\ At(t, "test")
    /\ done = 0
    /\ Goto(t, "lock")
    /\ UNCHANGED <<done, owner, held, started, finished, sees, guard>>

(* Taking the mutex makes everything visible that was done under it. *)
Lock(t) ==
    /\ At(t, "lock")
    /\ owner \in {None} \union (IF Recursive THEN {t} ELSE {})
    /\ owner' = t
    /\ held' = held + 1
    /\ Goto(t, "check")
    /\ sees' = IF finished THEN sees \union {t} ELSE sees
    /\ UNCHANGED <<done, started, finished, guard>>

\* BUG: the flag is not tested again under the mutex
CheckOmitted(t) ==
    /\ At(t, "check")
    /\ Goto(t, "fn") /\ started' = started + 1
    /\ UNCHANGED <<done, owner, held, finished, sees, guard>>

\* BUG: the flag is set before the callback runs
CheckSetsFirst(t) ==
    /\ At(t, "check")
    /\ \/ done = 0 /\ Goto(t, "fn") /\ started' = started + 1 /\ done' = 1
       \/ done = 1 /\ Goto(t, "unlock") /\ UNCHANGED <<started, done>>
    /\ UNCHANGED <<owner, held, finished, sees, guard>>

\* BUG: the path that finds the flag set leaves the mutex locked
CheckReturnsLocked(t) ==
    /\ At(t, "check")
    /\ \/ done = 0 /\ Goto(t, "fn") /\ started' = started + 1
       \/ done = 1 /\ Pop(t) /\ UNCHANGED started
    /\ UNCHANGED <<done, owner, held, finished, sees, guard>>

\* if (!no->done) fn();
Check(t) ==
    /\ At(t, "check")
    /\ \/ done = 0 /\ Goto(t, "fn") /\ started' = started + 1
       \/ done = 1 /\ Goto(t, "unlock") /\ UNCHANGED started
    /\ UNCHANGED <<done, owner, held, finished, sees, guard>>

CallbackNests(t) ==
    /\ Nested
    /\ At(t, "fn")
    /\ Depth(t) < MaxDepth
    /\ stack' = [stack EXCEPT ![t] = Append(@, "test")]
    /\ UNCHANGED <<done, owner, held, started, finished, sees, guard>>

CallbackReturns(t) ==
    /\ At(t, "fn")
    /\ Goto(t, "set")
    /\ finished' = TRUE
    /\ sees' = {t}
    /\ UNCHANGED <<done, owner, held, started, guard>>

\* no->done = 1;
SetDone(t) ==
    /\ At(t, "set")
    /\ done' = 1
    /\ Goto(t, "unlock")
    /\ UNCHANGED <<owner, held, started, finished, sees, guard>>

Unlock(t) ==
    /\ At(t, "unlock")
    /\ Pop(t)
    /\ held' = held - 1
    /\ owner' = IF held = 1 THEN None ELSE owner
    /\ UNCHANGED <<done, started, finished, sees, guard>>

(* pengu_c_filum_once_free: the caller owns the guard, nobody is inside. *)
Free ==
    /\ guard = "live"
    /\ \A t \in Threads : stack[t] = <<>>
    /\ guard' = "freed"
    /\ UNCHANGED <<done, owner, held, stack, started, finished, sees>>

Step(t) ==
    \/ FastReturn(t) \/ FastMiss(t) \/ Lock(t) \/ Check(t)
    \/ CallbackReturns(t) \/ SetDone(t) \/ Unlock(t)

OnceNext == (\E t \in Threads : Call(t) \/ CallbackNests(t) \/ Step(t)) \/ Free

OnceSpec == OnceInit /\ [][OnceNext]_onceVars

(* A thread inside do_once goes on, and the callback returns.  The mutex   *)
(* need not be fair: once the flag is set nobody queues for it again.      *)
OnceFairSpec == OnceSpec /\ \A t \in Threads : WF_onceVars(Step(t))

-----------------------------------------------------------------------------
OnceTypeOK ==
    /\ done \in 0 .. 1
    /\ owner \in Threads \union {None}
    /\ held \in 0 .. (IF Recursive THEN MaxDepth ELSE 1)
    /\ stack \in [Threads -> Seq(Frames)]
    /\ started \in Nat
    /\ finished \in BOOLEAN
    /\ sees \subseteq Threads
    /\ guard \in {"live", "freed"}

(* "Runs callback f exactly once across every goroutine sharing this Once" *)
(* (std/filum.pengu:329): the callback is never entered a second time.     *)
RunsOnce == started <= 1

(* A do_once that returns to the program returns after the callback: the   *)
(* callback has finished and its writes are visible to the caller.         *)
ReturnSeesCallback ==
    [][\A t \in Threads : Depth(t) > 0 /\ stack'[t] = <<>>
          => finished' /\ t \in sees']_onceVars

\* t waits for the mutex that it holds itself
WaitsForItself(t) == At(t, "lock") /\ owner = t /\ ~Recursive

(* Every call returns, also those that find the callback running, unless   *)
(* the callback has reached its own guard on a mutex that is not recursive *)
(* (pengu_runtime.c:312).                                                  *)
EveryCallReturns ==
    \A t \in Threads :
        (Depth(t) > 0) ~> (stack[t] = <<>> \/ \E u \in Threads : WaitsForItself(u))
=============================================================================
