---------------------------- MODULE MCFilumSync ----------------------------
(* Instances of the small primitives of std.filum for TLC: a wait group, a *)
(* once guard and an atomic integer.  They share nothing, so a behaviour   *)
(* is one of one primitive, drawn in the initial state; the other two      *)
(* stay as they were made.                                                 *)
EXTENDS FilumWaitGroup, FilumOnce, FilumAtomicInt

VARIABLE subject   \* the primitive used

syncVars == <<subject, vars, onceVars, atomicVars>>

SyncInit ==
    /\ subject \in {"wait group", "once", "atomic int"}
    /\ Init
    /\ OnceInit
    /\ AtomicInit

WaitGroupStep == subject = "wait group" /\ Next /\ UNCHANGED <<subject, onceVars, atomicVars>>
OnceStep == subject = "once" /\ OnceNext /\ UNCHANGED <<subject, vars, atomicVars>>
AtomicStep == subject = "atomic int" /\ AtomicNext /\ UNCHANGED <<subject, vars, onceVars>>

SyncNext == WaitGroupStep \/ OnceStep \/ AtomicStep

(* The fairness of FilumWaitGroup and of FilumOnce.  None of these actions *)
(* is enabled in a primitive that nobody has called, so it asks nothing of *)
(* the two that stay as they were made.                                    *)
SyncSpec ==
    /\ SyncInit /\ [][SyncNext]_syncVars
    /\ \A u \in Units : WF_vars(UnitStep(u))
    /\ \A w \in Waiters : WF_vars(WaiterStep(w))
    /\ \A t \in Threads : WF_onceVars(Step(t))
=============================================================================
