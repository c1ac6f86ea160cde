-------------------------- MODULE FilumSyncProofs --------------------------
(***************************************************************************)
(* Three small primitives of std.filum.                                    *)
(*                                                                         *)
(* Wait group: the counter is the number of unfinished units, nobody       *)
(* sleeps on a zero counter and a wait that returns covers the work it was *)
(* called for, for any set of waiters and any finite set of units.         *)
(*                                                                         *)
(* Once guard: the callback runs once and nobody returns before it, for    *)
(* any number of threads: with the pthread mutex, whether or not the       *)
(* callback reaches its own guard, and with a recursive one as long as it  *)
(* does not.                                                               *)
(*                                                                         *)
(* Atomic integer: whatever the widths of int and long, it is the register *)
(* of the API, but for a compare_swap after an addition that overflowed.   *)
(***************************************************************************)
EXTENDS FilumWaitGroup, FilumOnce, FilumAtomicInt,
        FiniteSetTheorems, SequenceTheorems, TLAPS

-----------------------------------------------------------------------------
(* The wait group.                                                         *)

(* What a waiter was owed has been added before it called. *)
OwedWasAdded == \A w \in Waiters : \A u \in owed[w] : unit[u] # "new"

WaitGroupTyped ==
    /\ count \in Nat
    /\ handle \in {"live", "closing", "freed"}
    /\ unit \in [Units -> UnitStates]
    /\ at \in [Waiters -> WaiterStates]
    /\ owed \in [Waiters -> SUBSET Units]

WaitGroupInv == WaitGroupTyped /\ CountsPending /\ NobodySleepsAtZero /\ OwedWasAdded

(* Pending is a finite set, so its cardinality is a number. *)
LEMMA PendingFinite ==
    /\ IsFiniteSet(Pending)
    /\ Cardinality(Pending) \in Nat
    /\ Cardinality(Pending) <= Cardinality(Units)
    /\ Cardinality(Units) \in Nat
  <1>1. Pending \subseteq Units
    BY DEF Pending
  <1> QED BY <1>1, WaitGroupAssumption, FS_Subset, FS_CardinalityType

(* A counter of zero says that no unit is pending. *)
LEMMA ZeroMeansNone ==
    ASSUME CountsPending, count = 0
    PROVE  Pending = {}
  BY PendingFinite, FS_EmptySet DEF CountsPending

(* An added unit makes one more pending unit. *)
LEMMA PendingGrows ==
    ASSUME WaitGroupTyped, NEW u \in Units, unit[u] = "new",
           unit' = [unit EXCEPT ![u] = "added"]
    PROVE  Cardinality(Pending') = Cardinality(Pending) + 1
  <1>1. u \notin Pending /\ Pending' = Pending \union {u}
    BY DEF Pending, WaitGroupTyped
  <1> QED BY <1>1, PendingFinite, FS_AddElement

(* A unit that is done makes one less. *)
LEMMA PendingShrinks ==
    ASSUME WaitGroupTyped, NEW u \in Units, unit[u] = "finished",
           unit' = [unit EXCEPT ![u] = "done"]
    PROVE  u \in Pending /\ Cardinality(Pending') = Cardinality(Pending) - 1
  <1>1. u \in Pending /\ Pending' = Pending \ {u}
    BY DEF Pending, WaitGroupTyped
  <1> QED BY <1>1, PendingFinite, FS_RemoveElement

-----------------------------------------------------------------------------
LEMMA WaitGroupStarts == Init => WaitGroupInv
  <1> SUFFICES ASSUME Init PROVE WaitGroupInv
    OBVIOUS
  <1>1. Pending = {} /\ Parked = {}
    BY DEF Init, Pending, Parked
  <1>2. Cardinality(Pending) = 0
    BY <1>1, FS_EmptySet
  <1> QED BY <1>1, <1>2 DEF Init, WaitGroupInv, WaitGroupTyped, CountsPending, NobodySleepsAtZero,
             OwedWasAdded, UnitStates, WaiterStates

(* Only Add and Done change which units are pending. *)
LEMMA AddPreserves ==
    ASSUME WaitGroupInv, NEW u \in Units, Add(u)
    PROVE  WaitGroupInv'
  <1> USE DEF WaitGroupInv
  <1>1. Cardinality(Pending') = Cardinality(Pending) + 1
    BY PendingGrows DEF Add
  <1>2. count' = count + 1 /\ at' = at
    BY DEF Add, AddDelta, WaitGroupTyped
  <1>3. WaitGroupTyped'
    BY <1>2 DEF Add, WaitGroupTyped, UnitStates
  <1>4. CountsPending'
    BY <1>1, <1>2 DEF CountsPending
  <1>5. NobodySleepsAtZero'
    BY <1>2 DEF NobodySleepsAtZero, WaitGroupTyped
  <1>6. OwedWasAdded'
    BY DEF OwedWasAdded, Add, WaitGroupTyped
  <1> QED BY <1>3, <1>4, <1>5, <1>6

LEMMA DonePreserves ==
    ASSUME WaitGroupInv, NEW u \in Units, Done(u)
    PROVE  WaitGroupInv'
  <1> USE DEF WaitGroupInv
  <1>1. Cardinality(Pending') = Cardinality(Pending) - 1 /\ u \in Pending
    BY PendingShrinks DEF Done
  <1>2. count >= 1
    BY <1>1, PendingFinite, ZeroMeansNone DEF WaitGroupTyped
  <1>3. /\ count' = count - 1
        /\ count' = 0 => at' = WokenAll
        /\ count' # 0 => at' = at
    BY <1>2 DEF Done, AddDelta, WaitGroupTyped
  <1>4. WaitGroupTyped'
    BY <1>2, <1>3 DEF Done, WaitGroupTyped, UnitStates, WaiterStates, WokenAll
  <1>5. CountsPending'
    BY <1>1, <1>3 DEF CountsPending
  <1>6. NobodySleepsAtZero'
    BY <1>3 DEF NobodySleepsAtZero, WokenAll, Parked, WaitGroupTyped
  <1>7. OwedWasAdded'
    BY DEF OwedWasAdded, Done, WaitGroupTyped
  <1> QED BY <1>4, <1>5, <1>6, <1>7

(* Everything else leaves the pending units alone. *)
LEMMA UnitPreserves ==
    ASSUME WaitGroupInv, NEW u \in Units, Go(u) \/ GoFails(u) \/ FinishWork(u)
    PROVE  WaitGroupInv'
  <1> USE DEF WaitGroupInv, Go, GoFails, FinishWork
  <1>1. Pending' = Pending
    BY DEF Pending, WaitGroupTyped
  <1>2. WaitGroupTyped'
    BY DEF WaitGroupTyped, UnitStates
  <1>3. CountsPending' /\ NobodySleepsAtZero'
    BY <1>1 DEF CountsPending, NobodySleepsAtZero, Parked
  <1>4. OwedWasAdded'
    BY DEF OwedWasAdded, WaitGroupTyped
  <1> QED BY <1>2, <1>3, <1>4

LEMMA WaiterPreserves ==
    ASSUME WaitGroupInv, NEW w \in Waiters,
           CallWait(w) \/ Park(w) \/ Return(w) \/ SpuriousWake(w)
    PROVE  WaitGroupInv'
  <1> USE DEF WaitGroupInv, CallWait, Park, Return, SpuriousWake, WaitRuns
  <1>1. Pending' = Pending /\ count' = count
    BY DEF Pending
  <1>2. WaitGroupTyped'
    BY DEF WaitGroupTyped, WaiterStates, Pending
  <1>3. CountsPending'
    BY <1>1 DEF CountsPending
  <1>4. NobodySleepsAtZero'
    BY <1>1 DEF NobodySleepsAtZero, Parked, WaitGroupTyped
  <1>5. OwedWasAdded'
    BY DEF OwedWasAdded, WaitGroupTyped, Pending
  <1> QED BY <1>2, <1>3, <1>4, <1>5

LEMMA FreePreserves ==
    ASSUME WaitGroupInv, FreeRelease \/ FreeDestroy
    PROVE  WaitGroupInv'
  <1> USE DEF WaitGroupInv
  <1>1. CASE FreeRelease
    <2>1. Pending = {} /\ Pending' = {}
      BY <1>1 DEF FreeRelease, MayFree, Pending, WaitGroupTyped
    <2>2. Cardinality(Pending') = 0
      BY <2>1, FS_EmptySet
    <2>3. WaitGroupTyped'
      BY <1>1 DEF FreeRelease, WaitGroupTyped, WokenAll, WaiterStates
    <2>4. CountsPending' /\ NobodySleepsAtZero' /\ OwedWasAdded'
      BY <1>1, <2>2 DEF FreeRelease, CountsPending, NobodySleepsAtZero,
         OwedWasAdded, WokenAll, Parked, WaitGroupTyped
    <2> QED BY <2>3, <2>4
  <1>2. CASE FreeDestroy
    <2>1. Pending' = Pending
      BY <1>2 DEF FreeDestroy, Pending
    <2> QED BY <1>2, <2>1 DEF FreeDestroy, WaitGroupTyped, CountsPending,
               NobodySleepsAtZero, OwedWasAdded, Parked
  <1> QED BY <1>1, <1>2

LEMMA WaitGroupSteps == WaitGroupInv /\ [Next]_vars => WaitGroupInv'
  <1> SUFFICES ASSUME WaitGroupInv, [Next]_vars PROVE WaitGroupInv'
    OBVIOUS
  <1>1. ASSUME NEW u \in Units, Add(u) PROVE WaitGroupInv'
    BY <1>1, AddPreserves
  <1>2. ASSUME NEW u \in Units, Done(u) PROVE WaitGroupInv'
    BY <1>2, DonePreserves
  <1>3. ASSUME NEW u \in Units, Go(u) \/ GoFails(u) \/ FinishWork(u) PROVE WaitGroupInv'
    BY <1>3, UnitPreserves
  <1>4. ASSUME NEW w \in Waiters,
               CallWait(w) \/ Park(w) \/ Return(w) \/ SpuriousWake(w)
        PROVE WaitGroupInv'
    BY <1>4, WaiterPreserves
  <1>5. CASE FreeRelease \/ FreeDestroy
    BY <1>5, FreePreserves
  <1>6. CASE UNCHANGED vars
    <2>1. Pending' = Pending /\ Parked' = Parked
      BY <1>6 DEF vars, Pending, Parked
    <2> QED BY <1>6, <2>1 DEF vars, WaitGroupInv, WaitGroupTyped, CountsPending,
               NobodySleepsAtZero, OwedWasAdded
  <1> QED BY <1>1, <1>2, <1>3, <1>4, <1>5, <1>6 DEF Next

THEOREM WaitGroupInductive == Spec => []WaitGroupInv
  BY WaitGroupStarts, WaitGroupSteps, PTL DEF Spec

-----------------------------------------------------------------------------
(* pengu_c_filum_wait_group_add: the counter is a number between zero and  *)
(* the units there are, so the clamp at zero never hides a done.           *)
THEOREM WaitGroupTypeCorrect == Spec => []TypeOK
  <1>1. WaitGroupInv => TypeOK
    BY PendingFinite DEF WaitGroupInv, WaitGroupTyped, CountsPending, TypeOK
  <1> QED BY <1>1, WaitGroupInductive, PTL

(* wait_group_add, wait_group_done: the counter is the number of units     *)
(* that were added and are not done.                                       *)
THEOREM WaitGroupCounts == Spec => []CountsPending
  <1>1. WaitGroupInv => CountsPending
    BY DEF WaitGroupInv
  <1> QED BY <1>1, WaitGroupInductive, PTL

(* wait_group_wait: no thread sleeps on a counter of zero, so no wake-up   *)
(* of add or free is lost.                                                 *)
THEOREM WaitGroupNobodySleeps == Spec => []NobodySleepsAtZero
  <1>1. WaitGroupInv => NobodySleepsAtZero
    BY DEF WaitGroupInv
  <1> QED BY <1>1, WaitGroupInductive, PTL

(* wait_group_wait: when it returns, every unit that was pending at its    *)
(* call is done, whatever woke the waiter.                                 *)
THEOREM WaitGroupCovers == Spec => WaitCoversWork
  <1> DEFINE Covers == \A w \in Waiters : at[w] # "idle" /\ at'[w] = "idle"
                         => \A u \in owed[w] : unit'[u] = "done"
  <1>1. WaitGroupInv /\ [Next]_vars => [Covers]_vars
    <2> SUFFICES ASSUME WaitGroupInv, [Next]_vars, NEW w \in Waiters,
                        at[w] # "idle", at'[w] = "idle", NEW u \in owed[w]
                 PROVE  unit'[u] = "done"
      OBVIOUS
    <2>1. Return(w)
      <3>1. at' # at
        OBVIOUS
      <3>2. ASSUME NEW v \in Units, Add(v) \/ Done(v) PROVE FALSE
        BY <3>2 DEF Add, Done, AddDelta, WokenAll, WaitGroupInv, WaitGroupTyped
      <3>3. ASSUME NEW v \in Units, Go(v) \/ GoFails(v) \/ FinishWork(v) PROVE FALSE
        BY <3>1, <3>3 DEF Go, GoFails, FinishWork
      <3>4. ASSUME NEW x \in Waiters, CallWait(x) \/ Park(x) \/ SpuriousWake(x) PROVE FALSE
        BY <3>4 DEF CallWait, Park, SpuriousWake, WaitGroupInv, WaitGroupTyped
      <3>5. ASSUME NEW x \in Waiters, Return(x) PROVE Return(w)
        BY <3>5 DEF Return, WaitGroupInv, WaitGroupTyped
      <3>6. ~FreeRelease /\ ~FreeDestroy
        BY <3>1 DEF FreeRelease, FreeDestroy, WokenAll, WaitGroupInv, WaitGroupTyped
      <3>7. ~UNCHANGED vars
        BY <3>1 DEF vars
      <3> QED BY <3>2, <3>3, <3>4, <3>5, <3>6, <3>7 DEF Next
    <2>2. Pending = {} /\ unit' = unit
      BY <2>1, ZeroMeansNone DEF Return, WaitGroupInv, WaitGroupTyped
    <2>3. u \in Units /\ unit[u] \in UnitStates /\ unit[u] # "new"
      BY DEF WaitGroupInv, WaitGroupTyped, OwedWasAdded
    <2> QED BY <2>2, <2>3 DEF Pending, UnitStates
  <1> HIDE DEF Covers
  <1>2. Spec => [][Covers]_vars
    BY <1>1, WaitGroupInductive, PTL DEF Spec
  <1> QED BY <1>2 DEF Covers, WaitCoversWork

-----------------------------------------------------------------------------
(* The once guard.                                                         *)

\* The guards the theorems are about.
Sane == ~(Recursive /\ Nested)

Inside == {"check", "fn", "set", "unlock"}

\* The frames of a thread: one, or the callback with a nested call on top,
\* which never gets past the mutex.
Shapes == {<<>>} \cup {<<f>> : f \in Frames} \cup {<<"fn", "test">>, <<"fn", "lock">>}

OuterIn(t, fs) == stack[t] # <<>> /\ stack[t][1] \in fs

\* Whoever is inside holds the mutex, and nobody else does.
Excluded == \A t \in Threads : owner = t <=> OuterIn(t, Inside)

\* The flag, the callback and its count agree.
Agree ==
    /\ started = IF finished \/ \E t \in Threads : OuterIn(t, {"fn"}) THEN 1 ELSE 0
    /\ \A t \in Threads : OuterIn(t, {"fn"}) => ~finished
    /\ \A t \in Threads : OuterIn(t, {"set"}) => finished /\ done = 0
    /\ finished /\ done = 0 => \E t \in Threads : OuterIn(t, {"set"})
    /\ done = 1 => finished
    /\ \A t \in Threads : OuterIn(t, {"unlock"}) => done = 1

\* A thread that is inside once the callback has finished sees what it did.
InsideSees == finished => \A t \in Threads : OuterIn(t, Inside) => t \in sees

\* Nested calls there are only if the callback makes them.
NestsIfNested ==
    Nested \/ \A t \in Threads : stack[t] \notin {<<"fn", "test">>, <<"fn", "lock">>}

OnceInv ==
    /\ stack \in [Threads -> Shapes]
    /\ done \in {0, 1} /\ finished \in BOOLEAN
    /\ owner \in Threads \cup {None}
    /\ held = IF owner = None THEN 0 ELSE 1
    /\ Excluded /\ Agree /\ InsideSees /\ NestsIfNested

-----------------------------------------------------------------------------
(* The moves of a thread between its shapes.                                *)
LEMMA ShapeMoves ==
    /\ \A f \in Frames : /\ <<f>> # <<>> /\ Len(<<f>>) = 1 /\ <<f>>[1] = f
                         /\ SubSeq(<<f>>, 1, 0) = <<>>
                         /\ \A g \in Frames : [<<f>> EXCEPT ![1] = g] = <<g>>
    /\ \A f \in {"test", "lock"} :
         /\ <<"fn", f>> # <<>> /\ Len(<<"fn", f>>) = 2
         /\ <<"fn", f>>[1] = "fn" /\ <<"fn", f>>[2] = f
         /\ [<<"fn", f>> EXCEPT ![2] = "lock"] = <<"fn", "lock">>
    /\ Append(<<"fn">>, "test") = <<"fn", "test">>
    /\ Len(<<>>) = 0
  <1>1. ASSUME NEW f, NEW g
        PROVE  /\ <<f>> # <<>> /\ Len(<<f>>) = 1 /\ <<f>>[1] = f
               /\ SubSeq(<<f>>, 1, 0) = <<>>
               /\ [<<f>> EXCEPT ![1] = g] = <<g>>
    OBVIOUS
  <1>2. ASSUME NEW f
        PROVE  /\ <<"fn", f>> # <<>> /\ Len(<<"fn", f>>) = 2
               /\ <<"fn", f>>[1] = "fn" /\ <<"fn", f>>[2] = f
               /\ [<<"fn", f>> EXCEPT ![2] = "lock"] = <<"fn", "lock">>
    OBVIOUS
  <1>3. ASSUME NEW f, NEW g  PROVE Append(<<f>>, g) = <<f, g>>
    <2> DEFINE S == {f, g}
    <2>1. /\ <<f>> \in Seq(S) /\ <<f, g>> \in Seq(S) /\ g \in S
          /\ Len(<<f>>) = 1 /\ Len(<<f, g>>) = 2
      OBVIOUS
    <2>2. /\ Append(<<f>>, g) \in Seq(S) /\ Len(Append(<<f>>, g)) = 2
          /\ Append(<<f>>, g)[1] = f /\ Append(<<f>>, g)[2] = g
      BY <2>1, AppendProperties
    <2>3. \A i \in 1..2 : Append(<<f>>, g)[i] = <<f, g>>[i]
      BY <2>2
    <2> HIDE DEF S
    <2> QED BY <2>1, <2>2, <2>3, SeqEqual
  <1>4. Len(<<>>) = 0
    OBVIOUS
  <1> QED BY <1>1, <1>2, <1>3, <1>4

(* The frame that runs is the only one, or a nested call. *)
LEMMA Running ==
    ASSUME stack \in [Threads -> Shapes], NEW t \in Threads, NEW f \in Frames,
           At(t, f)
    PROVE  \/ stack[t] = <<f>> /\ Depth(t) = 1
           \/ f \in {"test", "lock"} /\ stack[t] = <<"fn", f>> /\ Depth(t) = 2
  <1>1. stack[t] \in Shapes
    OBVIOUS
  <1>2. CASE stack[t] = <<>>
    BY <1>2, ShapeMoves DEF At, Depth
  <1>3. CASE stack[t] \in {<<g>> : g \in Frames}
    <2>1. PICK g \in Frames : stack[t] = <<g>>
      BY <1>3
    <2> QED BY <2>1, ShapeMoves DEF At, Depth
  <1>4. CASE stack[t] \in {<<"fn", "test">>, <<"fn", "lock">>}
    <2>1. PICK g \in {"test", "lock"} : stack[t] = <<"fn", g>>
      BY <1>4
    <2> QED BY <2>1, ShapeMoves DEF At, Depth
  <1> QED BY <1>1, <1>2, <1>3, <1>4 DEF Shapes

(* Going on with the only frame replaces it. *)
LEMMA TheFrame ==
    ASSUME NEW t \in Threads, NEW f \in Frames, stack[t] = <<f>>, Depth(t) = 1
    PROVE  /\ Pop(t) => stack' = [stack EXCEPT ![t] = <<>>]
           /\ \A g \in Frames : Goto(t, g) => stack' = [stack EXCEPT ![t] = <<g>>]
           /\ \A g \in Frames : <<g>> \in Shapes /\ <<>> \in Shapes
  BY ShapeMoves DEF Pop, Goto, Shapes

LEMMA OneFrame ==
    ASSUME stack \in [Threads -> Shapes], NEW t \in Threads,
           NEW f \in Frames \ {"test", "lock"}, At(t, f)
    PROVE  /\ stack[t] = <<f>> /\ OuterIn(t, {f})
           /\ Pop(t) => stack' = [stack EXCEPT ![t] = <<>>]
           /\ \A g \in Frames : Goto(t, g) => stack' = [stack EXCEPT ![t] = <<g>>]
           /\ \A g \in Frames : <<g>> \in Shapes /\ <<>> \in Shapes
  <1>1. stack[t] = <<f>> /\ Depth(t) = 1
    BY Running
  <1>2. f \in Frames
    OBVIOUS
  <1> QED BY <1>1, <1>2, TheFrame, ShapeMoves DEF OuterIn

-----------------------------------------------------------------------------
LEMMA OnceStarts ==
    ASSUME Sane, OnceInit
    PROVE  OnceInv
  <1>1. stack \in [Threads -> Shapes] /\ \A t \in Threads : stack[t] = <<>>
    BY DEF OnceInit, Shapes
  <1>2. \A t \in Threads : \A fs : ~OuterIn(t, fs)
    BY <1>1 DEF OuterIn
  <1>3. Excluded
    BY <1>2, OnceAssumption DEF Excluded, OnceInit
  <1>4. Agree /\ InsideSees
    BY <1>2 DEF Agree, InsideSees, OnceInit
  <1>5. NestsIfNested
    BY <1>1 DEF NestsIfNested
  <1> QED BY <1>1, <1>3, <1>4, <1>5 DEF OnceInv, OnceInit

(* What a move of one thread leaves alone, and where it takes it. *)
LEMMA OneMoves ==
    ASSUME stack \in [Threads -> Shapes], NEW t \in Threads, NEW s \in Shapes,
           stack' = [stack EXCEPT ![t] = s]
    PROVE  /\ stack' \in [Threads -> Shapes] /\ stack'[t] = s
           /\ \A u \in Threads \ {t} : stack'[u] = stack[u]
  OBVIOUS

(* A step that changes no outer frame, flag or owner keeps the invariant. *)
LEMMA OnceStays ==
    ASSUME OnceInv, stack' \in [Threads -> Shapes], NestsIfNested',
           \A t \in Threads : \/ stack'[t] = stack[t]
                              \/ ~OuterIn(t, Inside) /\ ~OuterIn(t, Inside)'
                              \/ OuterIn(t, {"fn"}) /\ OuterIn(t, {"fn"})',
           UNCHANGED <<done, owner, held, started, finished>>,
           sees \subseteq sees'
    PROVE  OnceInv'
  <1>1. \A t \in Threads : /\ OuterIn(t, Inside)' <=> OuterIn(t, Inside)
                           /\ OuterIn(t, {"fn"})' <=> OuterIn(t, {"fn"})
                           /\ OuterIn(t, {"set"})' <=> OuterIn(t, {"set"})
                           /\ OuterIn(t, {"unlock"})' <=> OuterIn(t, {"unlock"})
    BY DEF OuterIn, Inside
  <1>2. Excluded'
    BY <1>1 DEF OnceInv, Excluded
  <1>3. Agree'
    BY <1>1 DEF OnceInv, Agree
  <1>4. InsideSees'
    BY <1>1 DEF OnceInv, InsideSees
  <1> QED BY <1>2, <1>3, <1>4 DEF OnceInv

(* Only the thread that holds the mutex is inside. *)
LEMMA Alone ==
    ASSUME OnceInv, NEW t \in Threads, OuterIn(t, Inside), None \notin Threads
    PROVE  /\ owner = t /\ held = 1
           /\ \A u \in Threads \ {t}, fs \in SUBSET Inside : ~OuterIn(u, fs)
  BY DEF OnceInv, Excluded, OuterIn

-----------------------------------------------------------------------------
(* Every step keeps the invariant, one lemma for each kind of step.         *)
LEMMA OutsideKeeps ==
    ASSUME Sane, OnceInv, NEW t \in Threads, Call(t) \/ FastReturn(t) \/ FastMiss(t)
    PROVE  OnceInv'
  <1>1. stack \in [Threads -> Shapes]
    BY DEF OnceInv
  <1>2. CASE Call(t)
    <2>1. <<"test">> \in Shapes /\ stack' = [stack EXCEPT ![t] = <<"test">>]
      BY <1>2 DEF Call, Shapes, Frames
    <2>2. /\ stack' \in [Threads -> Shapes] /\ stack'[t] = <<"test">>
          /\ \A u \in Threads \ {t} : stack'[u] = stack[u]
      BY <1>1, <2>1, OneMoves
    <2>3. ~OuterIn(t, Inside) /\ ~OuterIn(t, Inside)'
      BY <1>2, <2>2 DEF Call, OuterIn, Inside
    <2>4. NestsIfNested'
      BY <2>2, ShapeMoves DEF OnceInv, NestsIfNested, Frames
    <2> QED BY <1>2, <2>2, <2>3, <2>4, OnceStays DEF Call
  <1>3. CASE FastReturn(t)
    <2>1. "test" \in Frames /\ At(t, "test") /\ done = 1
      BY <1>3 DEF Frames, FastReturn
    <2>2. ~(stack[t] = <<"fn", "test">>)
      BY <2>1, ShapeMoves DEF OnceInv, Agree, OuterIn
    <2>3. stack[t] = <<"test">> /\ Depth(t) = 1
      BY <1>1, <2>1, <2>2, Running
    <2>4. stack' = [stack EXCEPT ![t] = <<>>] /\ <<>> \in Shapes
      BY <1>3, <2>1, <2>3, TheFrame DEF FastReturn
    <2>5. /\ stack' \in [Threads -> Shapes] /\ stack'[t] = <<>>
          /\ \A u \in Threads \ {t} : stack'[u] = stack[u]
      BY <1>1, <2>4, OneMoves
    <2>6. ~OuterIn(t, Inside) /\ ~OuterIn(t, Inside)'
      BY <2>3, <2>5 DEF OuterIn, Inside
    <2>7. NestsIfNested'
      BY <2>5, ShapeMoves DEF OnceInv, NestsIfNested
    <2> QED BY <1>3, <2>5, <2>6, <2>7, OnceStays DEF FastReturn
  <1>4. CASE FastMiss(t)
    <2>1. "test" \in Frames /\ "lock" \in Frames /\ At(t, "test")
      BY <1>4 DEF Frames, FastMiss
    <2>2. CASE stack[t] = <<"test">> /\ Depth(t) = 1
      <3>1. stack' = [stack EXCEPT ![t] = <<"lock">>] /\ <<"lock">> \in Shapes
        BY <1>4, <2>1, <2>2, TheFrame DEF FastMiss
      <3>2. /\ stack' \in [Threads -> Shapes] /\ stack'[t] = <<"lock">>
            /\ \A u \in Threads \ {t} : stack'[u] = stack[u]
        BY <1>1, <3>1, OneMoves
      <3>3. ~OuterIn(t, Inside) /\ ~OuterIn(t, Inside)'
        BY <2>2, <3>2 DEF OuterIn, Inside
      <3>4. NestsIfNested'
        BY <2>1, <3>2, ShapeMoves DEF OnceInv, NestsIfNested
      <3> QED BY <1>4, <3>2, <3>3, <3>4, OnceStays DEF FastMiss
    <2>3. CASE stack[t] = <<"fn", "test">> /\ Depth(t) = 2
      <3>1. stack' = [stack EXCEPT ![t] = <<"fn", "lock">>] /\ <<"fn", "lock">> \in Shapes
        BY <1>4, <2>3, ShapeMoves DEF FastMiss, Goto, Shapes
      <3>2. /\ stack' \in [Threads -> Shapes] /\ stack'[t] = <<"fn", "lock">>
            /\ \A u \in Threads \ {t} : stack'[u] = stack[u]
        BY <1>1, <3>1, OneMoves
      <3>3. OuterIn(t, {"fn"}) /\ OuterIn(t, {"fn"})'
        BY <2>3, <3>2, ShapeMoves DEF OuterIn
      <3>4. NestsIfNested'
        BY <2>3 DEF OnceInv, NestsIfNested
      <3> QED BY <1>4, <3>2, <3>3, <3>4, OnceStays DEF FastMiss
    <2> QED BY <1>1, <2>1, <2>2, <2>3, Running
  <1> QED BY <1>2, <1>3, <1>4

LEMMA LockKeeps ==
    ASSUME Sane, OnceInv, NEW t \in Threads, Lock(t)
    PROVE  OnceInv'
  <1>1. /\ stack \in [Threads -> Shapes] /\ None \notin Threads
        /\ "lock" \in Frames /\ "check" \in Frames /\ At(t, "lock")
    BY OnceAssumption DEF OnceInv, Lock, Frames
  <1>2. stack[t] # <<"fn", "lock">>
    <2>1. SUFFICES ASSUME stack[t] = <<"fn", "lock">>  PROVE FALSE
      OBVIOUS
    <2>2. OuterIn(t, Inside)
      BY <2>1, ShapeMoves DEF OuterIn, Inside
    <2>3. owner = t
      BY <1>1, <2>2, Alone
    <2> QED BY <1>1, <2>1, <2>3 DEF Lock, Sane, OnceInv, NestsIfNested
  <1>3. stack[t] = <<"lock">> /\ Depth(t) = 1
    BY <1>1, <1>2, Running
  <1>4. ~OuterIn(t, Inside)
    BY <1>3 DEF OuterIn, Inside
  <1>5. owner = None /\ owner' = t /\ held' = 1
    BY <1>1, <1>4 DEF Lock, OnceInv, Excluded
  <1>6. stack' = [stack EXCEPT ![t] = <<"check">>] /\ <<"check">> \in Shapes
    BY <1>1, <1>3, TheFrame DEF Lock
  <1>7. /\ stack' \in [Threads -> Shapes] /\ stack'[t] = <<"check">>
        /\ \A u \in Threads \ {t} : stack'[u] = stack[u]
    BY <1>1, <1>6, OneMoves
  <1>8. \A u \in Threads : \A fs : u # t => (OuterIn(u, fs)' <=> OuterIn(u, fs))
    BY <1>7 DEF OuterIn
  <1>9. OuterIn(t, Inside)' /\ \A f \in {"fn", "set", "unlock"} : ~OuterIn(t, {f})'
    BY <1>7 DEF OuterIn, Inside
  <1>10. \A f \in {"fn", "set", "unlock"} : ~OuterIn(t, {f})
    BY <1>4 DEF OuterIn, Inside
  <1>11. Excluded'
    BY <1>1, <1>5, <1>8, <1>9 DEF OnceInv, Excluded
  <1>12. Agree'
    BY <1>8, <1>9, <1>10 DEF Lock, OnceInv, Agree
  <1>13. InsideSees'
    BY <1>8 DEF Lock, OnceInv, InsideSees
  <1>14. NestsIfNested'
    BY <1>1, <1>7, ShapeMoves DEF OnceInv, NestsIfNested
  <1>15. done' = done /\ finished' = finished
    BY DEF Lock
  <1> QED BY <1>1, <1>5, <1>7, <1>11, <1>12, <1>13, <1>14, <1>15 DEF OnceInv

(* The outer frame of a thread that has one frame. *)
LEMMA Outermost ==
    ASSUME NEW t \in Threads, NEW f \in Frames, stack[t] = <<f>>
    PROVE  \A fs : OuterIn(t, fs) <=> f \in fs
  BY ShapeMoves DEF OuterIn

Kinds == {Inside, {"fn"}, {"set"}, {"unlock"}}

(* A thread inside, with one frame, that goes on to f or leaves: it is the *)
(* only one inside, before and after.                                      *)
LEMMA InsideMoves ==
    ASSUME Sane, OnceInv, NEW t \in Threads, NEW f \in Inside, At(t, f),
           NEW s \in {<<g>> : g \in Inside} \cup {<<>>},
           stack' = [stack EXCEPT ![t] = s]
    PROVE  /\ owner = t /\ held = 1 /\ None \notin Threads
           /\ stack' \in [Threads -> Shapes] /\ NestsIfNested'
           /\ \A u \in Threads \ {t}, fs \in Kinds : ~OuterIn(u, fs) /\ ~OuterIn(u, fs)'
           /\ \A fs : OuterIn(t, fs) <=> f \in fs
           /\ \A g \in Inside : s = <<g>> => \A fs : OuterIn(t, fs)' <=> g \in fs
           /\ s = <<>> => \A fs : ~OuterIn(t, fs)'
  <1>1. /\ stack \in [Threads -> Shapes] /\ None \notin Threads
        /\ f \in Frames \ {"test", "lock"} /\ Inside \subseteq Frames
    BY OnceAssumption DEF OnceInv, Inside, Frames
  <1>2. stack[t] = <<f>>
    BY <1>1, OneFrame
  <1>3. \A fs : OuterIn(t, fs) <=> f \in fs
    BY <1>1, <1>2, Outermost
  <1>4. s \in Shapes /\ s \notin {<<"fn", "test">>, <<"fn", "lock">>}
    BY <1>1, ShapeMoves DEF Shapes
  <1>5. /\ stack' \in [Threads -> Shapes] /\ stack'[t] = s
        /\ \A u \in Threads \ {t} : stack'[u] = stack[u]
    BY <1>1, <1>4, OneMoves
  <1>6. \A fs \in Kinds : fs \subseteq Inside
    BY DEF Kinds, Inside
  <1>7. /\ owner = t /\ held = 1
        /\ \A u \in Threads \ {t}, fs \in Kinds : ~OuterIn(u, fs)
    BY <1>1, <1>3, <1>6, Alone
  <1>8. \A u \in Threads \ {t}, fs \in Kinds : ~OuterIn(u, fs)'
    BY <1>5, <1>7 DEF OuterIn
  <1>9. NestsIfNested'
    BY <1>4, <1>5 DEF OnceInv, NestsIfNested
  <1>10. \A g \in Inside : s = <<g>> => \A fs : OuterIn(t, fs)' <=> g \in fs
    BY <1>1, <1>5, ShapeMoves DEF OuterIn
  <1>11. s = <<>> => \A fs : ~OuterIn(t, fs)'
    BY <1>5 DEF OuterIn
  <1> QED BY <1>1, <1>3, <1>5, <1>7, <1>8, <1>9, <1>10, <1>11

(* What is left to show of such a step, of the thread that makes it alone. *)
LEMMA InsideStep ==
    ASSUME Sane, OnceInv, NEW t \in Threads, NEW f \in Inside, At(t, f),
           NEW s \in {<<g>> : g \in Inside} \cup {<<>>},
           stack' = [stack EXCEPT ![t] = s],
           done' \in {0, 1}, finished' \in BOOLEAN,
           owner' = IF s = <<>> THEN None ELSE t,
           held' = IF s = <<>> THEN 0 ELSE 1,
           started' = IF finished' \/ s = <<"fn">> THEN 1 ELSE 0,
           s = <<"fn">> => ~finished',
           s = <<"set">> <=> finished' /\ done' = 0,
           done' = 1 => finished',
           s = <<"unlock">> => done' = 1,
           finished' /\ s # <<>> => t \in sees'
    PROVE  OnceInv'
  <1>1. /\ stack' \in [Threads -> Shapes] /\ NestsIfNested' /\ None \notin Threads
        /\ \A u \in Threads \ {t}, fs \in Kinds : ~OuterIn(u, fs)'
        /\ \A g \in Inside : s = <<g>> => \A fs : OuterIn(t, fs)' <=> g \in fs
        /\ s = <<>> => \A fs : ~OuterIn(t, fs)'
    BY InsideMoves
  <1>2. /\ \A u \in Threads \ {t} : /\ ~OuterIn(u, Inside)' /\ ~OuterIn(u, {"fn"})'
                                    /\ ~OuterIn(u, {"set"})' /\ ~OuterIn(u, {"unlock"})'
        /\ OuterIn(t, Inside)' <=> s # <<>>
        /\ \A g \in {"fn", "set", "unlock"} : OuterIn(t, {g})' <=> s = <<g>>
    <2>1. \A u \in Threads \ {t} : /\ ~OuterIn(u, Inside)' /\ ~OuterIn(u, {"fn"})'
                                   /\ ~OuterIn(u, {"set"})' /\ ~OuterIn(u, {"unlock"})'
      BY <1>1 DEF Kinds
    <2>2. CASE s = <<>>
      BY <1>1, <2>1, <2>2
    <2>3. ASSUME NEW g \in Inside, s = <<g>>
          PROVE  /\ OuterIn(t, Inside)' <=> s # <<>>
                 /\ \A h \in {"fn", "set", "unlock"} : OuterIn(t, {h})' <=> s = <<h>>
      BY <1>1, <2>3, ShapeMoves
    <2> QED BY <2>1, <2>2, <2>3
  <1>3. Excluded'
    BY <1>1, <1>2 DEF Excluded
  <1>4. Agree'
    BY <1>2 DEF Agree
  <1>5. InsideSees'
    BY <1>2 DEF InsideSees
  <1>6. owner' \in Threads \cup {None} /\ held' = IF owner' = None THEN 0 ELSE 1
    BY <1>1
  <1> QED BY <1>1, <1>3, <1>4, <1>5, <1>6 DEF OnceInv

(* What is known of a thread inside. *)
LEMMA WhenInside ==
    ASSUME Sane, OnceInv, NEW t \in Threads, NEW f \in Inside, At(t, f)
    PROVE  /\ owner = t /\ held = 1
           /\ started = IF finished \/ f = "fn" THEN 1 ELSE 0
           /\ f = "fn" => ~finished
           /\ f = "set" <=> finished /\ done = 0
           /\ done = 1 => finished
           /\ f = "unlock" => done = 1
           /\ finished => t \in sees
           /\ done \in {0, 1} /\ finished \in BOOLEAN
           /\ \A g \in Inside : Goto(t, g) => stack' = [stack EXCEPT ![t] = <<g>>]
           /\ Pop(t) => stack' = [stack EXCEPT ![t] = <<>>]
  <1>1. /\ stack \in [Threads -> Shapes] /\ None \notin Threads
        /\ f \in Frames \ {"test", "lock"} /\ Inside \subseteq Frames
    BY OnceAssumption DEF OnceInv, Inside, Frames
  <1>2. stack[t] = <<f>>
    BY <1>1, OneFrame
  <1>3. \A fs : OuterIn(t, fs) <=> f \in fs
    BY <1>1, <1>2, Outermost
  <1>4. owner = t /\ held = 1
    BY <1>1, <1>3, Alone
  <1>5. \A u \in Threads \ {t} : ~OuterIn(u, {"fn"}) /\ ~OuterIn(u, {"set"})
    BY <1>1, <1>3, Alone DEF Inside
  <1>6. /\ \A g \in Inside : Goto(t, g) => stack' = [stack EXCEPT ![t] = <<g>>]
        /\ Pop(t) => stack' = [stack EXCEPT ![t] = <<>>]
    BY <1>1, OneFrame
  <1>7. /\ started = IF finished \/ f = "fn" THEN 1 ELSE 0
        /\ f = "fn" => ~finished
        /\ f = "set" <=> finished /\ done = 0
        /\ done = 1 => finished
        /\ f = "unlock" => done = 1
    BY <1>3, <1>5 DEF OnceInv, Agree
  <1>8. finished => t \in sees
    BY <1>3 DEF OnceInv, InsideSees
  <1> QED BY <1>4, <1>6, <1>7, <1>8 DEF OnceInv

(* A thread inside goes on to frame g, with what has to be shown of it. *)
LEMMA GoesOn ==
    ASSUME Sane, OnceInv, NEW t \in Threads, NEW f \in Inside, At(t, f),
           NEW g \in Inside, Goto(t, g), UNCHANGED <<owner, held>>,
           done' \in {0, 1}, finished' \in BOOLEAN,
           started' = IF finished' \/ g = "fn" THEN 1 ELSE 0,
           g = "fn" => ~finished',
           g = "set" <=> finished' /\ done' = 0,
           done' = 1 => finished',
           g = "unlock" => done' = 1,
           finished' => t \in sees'
    PROVE  OnceInv'
  <1> DEFINE s == <<g>>
  <1>1. /\ s \in {<<h>> : h \in Inside} \cup {<<>>} /\ s # <<>>
        /\ \A h : s = <<h>> <=> g = h
    BY ShapeMoves
  <1>2. stack' = [stack EXCEPT ![t] = s] /\ owner' = t /\ held' = 1
    BY WhenInside
  <1> HIDE DEF s
  <1> QED BY <1>1, <1>2, InsideStep

(* A thread leaves and unlocks. *)
LEMMA Leaves ==
    ASSUME Sane, OnceInv, NEW t \in Threads, At(t, "unlock"), Pop(t),
           UNCHANGED <<done, started, finished, sees>>, owner' = None, held' = 0
    PROVE  OnceInv'
  <1> DEFINE s == <<>>
  <1>1. /\ s \in {<<h>> : h \in Inside} \cup {<<>>} /\ s = <<>>
        /\ s # <<"fn">> /\ s # <<"set">> /\ s # <<"unlock">>
    OBVIOUS
  <1>2. "unlock" \in Inside
    BY DEF Inside
  <1>3. /\ stack' = [stack EXCEPT ![t] = s] /\ done' = 1
        /\ finished' \in BOOLEAN /\ finished' /\ started' = 1
    BY <1>2, WhenInside
  <1> HIDE DEF s
  <1>4. /\ done' \in {0, 1} /\ owner' = IF s = <<>> THEN None ELSE t
        /\ held' = IF s = <<>> THEN 0 ELSE 1
        /\ started' = IF finished' \/ s = <<"fn">> THEN 1 ELSE 0
        /\ s = <<"set">> <=> finished' /\ done' = 0
    BY <1>1, <1>3
  <1> QED BY <1>1, <1>2, <1>3, <1>4, InsideStep

LEMMA InsideKeeps ==
    ASSUME Sane, OnceInv, NEW t \in Threads,
           Check(t) \/ CallbackReturns(t) \/ SetDone(t) \/ Unlock(t)
    PROVE  OnceInv'
  <1>1. "check" \in Inside /\ "fn" \in Inside /\ "set" \in Inside /\ "unlock" \in Inside
    BY DEF Inside
  <1>2. CASE Check(t)
    <2>1. At(t, "check") /\ UNCHANGED <<owner, held, finished, sees>>
      BY <1>2 DEF Check
    <2>2. /\ done \in {0, 1} /\ finished \in BOOLEAN /\ (finished => t \in sees)
          /\ started = IF finished THEN 1 ELSE 0
          /\ (finished => done # 0) /\ (done = 1 => finished)
      BY <1>1, <2>1, WhenInside
    <2>3. CASE done = 0 /\ Goto(t, "fn") /\ started' = started + 1
      <3>1. started' = 1 /\ done' = 0 /\ finished' \in BOOLEAN /\ ~finished'
        BY <1>2, <2>1, <2>2, <2>3 DEF Check
      <3> QED BY <1>1, <2>1, <2>3, <3>1, GoesOn
    <2>4. CASE done = 1 /\ Goto(t, "unlock") /\ UNCHANGED started
      <3>1. started' = 1 /\ done' = 1 /\ finished' = TRUE /\ t \in sees'
        BY <1>2, <2>1, <2>2, <2>4 DEF Check
      <3> QED BY <1>1, <2>1, <2>4, <3>1, GoesOn
    <2> QED BY <1>2, <2>3, <2>4 DEF Check
  <1>3. CASE CallbackReturns(t)
    <2>1. /\ At(t, "fn") /\ Goto(t, "set") /\ UNCHANGED <<done, owner, held, started>>
          /\ finished' = TRUE /\ sees' = {t}
      BY <1>3 DEF CallbackReturns
    <2>2. done' = 0 /\ started' = 1
      BY <1>1, <2>1, WhenInside
    <2> QED BY <1>1, <2>1, <2>2, GoesOn
  <1>4. CASE SetDone(t)
    <2>1. /\ At(t, "set") /\ Goto(t, "unlock") /\ done' = 1
          /\ UNCHANGED <<owner, held, started, finished, sees>>
      BY <1>4 DEF SetDone
    <2>2. finished' = TRUE /\ started' = 1 /\ t \in sees'
      BY <1>1, <2>1, WhenInside
    <2> QED BY <1>1, <2>1, <2>2, GoesOn
  <1>5. CASE Unlock(t)
    <2>1. At(t, "unlock") /\ Pop(t) /\ UNCHANGED <<done, started, finished, sees>>
      BY <1>5 DEF Unlock
    <2>2. held = 1
      BY <1>1, <2>1, WhenInside
    <2>3. owner' = None /\ held' = 0
      BY <1>5, <2>2 DEF Unlock
    <2> QED BY <2>1, <2>3, Leaves
  <1> QED BY <1>2, <1>3, <1>4, <1>5

LEMMA NestedKeeps ==
    ASSUME Sane, OnceInv, NEW t \in Threads, CallbackNests(t)
    PROVE  OnceInv'
  <1>1. /\ stack \in [Threads -> Shapes] /\ At(t, "fn") /\ Nested
        /\ "fn" \in Frames \ {"test", "lock"}
    BY DEF OnceInv, CallbackNests, Frames
  <1>2. stack[t] = <<"fn">> /\ OuterIn(t, {"fn"})
    BY <1>1, OneFrame
  <1>3. stack' = [stack EXCEPT ![t] = <<"fn", "test">>] /\ <<"fn", "test">> \in Shapes
    BY <1>1, <1>2, ShapeMoves DEF CallbackNests, Shapes
  <1>4. /\ stack' \in [Threads -> Shapes] /\ stack'[t] = <<"fn", "test">>
        /\ \A u \in Threads \ {t} : stack'[u] = stack[u]
    BY <1>1, <1>3, OneMoves
  <1>5. OuterIn(t, {"fn"})'
    BY <1>4, ShapeMoves DEF OuterIn
  <1>6. NestsIfNested'
    BY <1>1 DEF NestsIfNested
  <1> QED BY <1>2, <1>4, <1>5, <1>6, OnceStays DEF CallbackNests

LEMMA OnceSteps ==
    ASSUME Sane, OnceInv, [OnceNext]_onceVars
    PROVE  OnceInv'
  <1>1. CASE \E t \in Threads : Call(t) \/ CallbackNests(t) \/ Step(t)
    <2>1. PICK t \in Threads : Call(t) \/ CallbackNests(t) \/ Step(t)
      BY <1>1
    <2> QED BY <2>1, OutsideKeeps, LockKeeps, InsideKeeps, NestedKeeps DEF Step
  <1>2. CASE Free
    BY <1>2 DEF Free, OnceInv, Excluded, Agree, InsideSees, NestsIfNested, OuterIn
  <1>3. CASE UNCHANGED onceVars
    BY <1>3 DEF onceVars, OnceInv, Excluded, Agree, InsideSees, NestsIfNested, OuterIn
  <1> QED BY <1>1, <1>2, <1>3 DEF OnceNext

LEMMA OnceAlways ==
    ASSUME Sane
    PROVE  OnceSpec => []OnceInv
  <1>1. OnceInit => OnceInv
    BY OnceStarts
  <1>2. OnceInv /\ [OnceNext]_onceVars => OnceInv'
    BY OnceSteps
  <1> QED BY <1>1, <1>2, PTL DEF OnceSpec

(* The once guard keeps its types: the flag is 0 or 1, the mutex is held at *)
(* most once, sees names threads (PenguNativeOnce, pengu_runtime.c:278).    *)
THEOREM OnceTypeCorrect ==
    ASSUME Sane
    PROVE  OnceSpec => []OnceTypeOK
  <1> DEFINE Known == sees \subseteq Threads /\ guard \in {"live", "freed"}
  <1>1. OnceInit => Known
    BY DEF OnceInit
  <1>2. Known /\ [OnceNext]_onceVars => Known'
    BY DEF OnceNext, Call, CallbackNests, Step, FastReturn, FastMiss, Lock, Check,
           CallbackReturns, SetDone, Unlock, Free, onceVars
  <1>3. Shapes \subseteq Seq(Frames)
    <2>1. \A f \in Frames : <<f>> \in Seq(Frames)
      OBVIOUS
    <2>2. \A f, g \in Frames : <<f, g>> \in Seq(Frames)
      OBVIOUS
    <2>3. <<>> \in Seq(Frames) /\ "fn" \in Frames /\ "test" \in Frames /\ "lock" \in Frames
      BY DEF Frames
    <2>4. <<"fn", "test">> \in Seq(Frames) /\ <<"fn", "lock">> \in Seq(Frames)
      BY <2>2, <2>3
    <2> QED BY <2>1, <2>3, <2>4 DEF Shapes
  <1>4. OnceInv /\ Known => OnceTypeOK
    BY <1>3, OnceAssumption DEF OnceInv, Agree, OnceTypeOK
  <1> QED BY <1>1, <1>2, <1>4, OnceAlways, PTL DEF OnceSpec

(* "Runs callback f exactly once": the callback is never entered a second  *)
(* time, whatever the threads do (do_once, pengu_runtime.c:302).           *)
THEOREM TheCallbackRunsOnce ==
    ASSUME Sane
    PROVE  OnceSpec => []RunsOnce
  <1>1. OnceInv => RunsOnce
    BY DEF OnceInv, Agree, RunsOnce
  <1> QED BY <1>1, OnceAlways, PTL

(* Replacing a frame leaves one. *)
LEMMA NotEmptied ==
    ASSUME NEW s \in Shapes, s # <<>>, NEW i, NEW g
    PROVE  [s EXCEPT ![i] = g] # <<>>
  <1>1. 1 \in DOMAIN s
    BY ShapeMoves DEF Shapes
  <1>2. 1 \in DOMAIN [s EXCEPT ![i] = g]
    BY <1>1
  <1>3. 1 \notin DOMAIN <<>>
    OBVIOUS
  <1> QED BY <1>2, <1>3

(* A thread that leaves do_once leaves after the callback and sees what it *)
(* did, on a machine that does not reorder stores.                         *)
THEOREM ReturnsFollowTheCallback ==
    ASSUME Sane, ~WeakMemory
    PROVE  OnceSpec => ReturnSeesCallback
  <1>1. ASSUME OnceInv, [OnceNext]_onceVars, NEW t \in Threads, Depth(t) > 0, stack'[t] = <<>>
        PROVE  finished' /\ t \in sees'
    <2>1. stack \in [Threads -> Shapes] /\ stack[t] # <<>> /\ stack[t] # stack'[t]
      BY <1>1, ShapeMoves DEF OnceInv, Depth
    <2>2. PICK u \in Threads : Call(u) \/ CallbackNests(u) \/ Step(u)
      BY <1>1, <2>1 DEF OnceNext, Free, onceVars
    <2>3. u = t
      BY <2>1, <2>2 DEF Call, CallbackNests, Step, FastReturn, FastMiss, Lock, Check,
                        CallbackReturns, SetDone, Unlock, Goto, Pop
    <2>4. CASE FastReturn(t)
      BY <1>1, <2>4 DEF FastReturn, OnceInv, Agree
    <2>5. CASE Unlock(t)
      <3>1. "unlock" \in Inside /\ At(t, "unlock")
        BY <2>5 DEF Inside, Unlock
      <3> QED BY <1>1, <2>5, <3>1, WhenInside DEF Unlock
    <2>6. CASE Call(t) \/ CallbackNests(t) \/ FastMiss(t) \/ Lock(t) \/ Check(t)
               \/ CallbackReturns(t) \/ SetDone(t)
      <3>1. CASE Call(t)
        BY <1>1, <3>1, ShapeMoves DEF Call, Depth
      <3>2. CASE CallbackNests(t)
        <4>1. "fn" \in Frames \ {"test", "lock"} /\ At(t, "fn")
          BY <3>2 DEF CallbackNests, Frames
        <4>2. stack[t] = <<"fn">>
          BY <2>1, <4>1, OneFrame
        <4> QED BY <1>1, <2>1, <3>2, <4>2, ShapeMoves DEF CallbackNests
      <3>3. CASE \E g : Goto(t, g)
        BY <1>1, <2>1, <3>3, NotEmptied DEF Goto
      <3> QED BY <2>6, <3>1, <3>2, <3>3
              DEF FastMiss, Lock, Check, CallbackReturns, SetDone
    <2> QED BY <2>2, <2>3, <2>4, <2>5, <2>6 DEF Step
  <1>2. OnceInv /\ [OnceNext]_onceVars
          => [\A t \in Threads : Depth(t) > 0 /\ stack'[t] = <<>> => finished' /\ t \in sees']_onceVars
    BY <1>1
  <1> QED BY <1>2, OnceAlways, PTL DEF OnceSpec, ReturnSeesCallback

-----------------------------------------------------------------------------
(* The atomic integer.                                                     *)

(* A multiple of m that is smaller than m is zero. *)
LEMMA Multiple ==
    ASSUME NEW m \in Nat \ {0}, NEW x \in Int, NEW q \in Int, x = q * m, -m < x, x < m
    PROVE  x = 0
  OBVIOUS

LEMMA Remainder ==
    ASSUME NEW a \in Int, NEW m \in Nat \ {0}
    PROVE  /\ a % m \in 0 .. m - 1
           /\ a = m * (a \div m) + (a % m)
           /\ a \div m \in Int
  OBVIOUS

(* Numbers that differ by a multiple of m leave the same remainder. *)
LEMMA Congruent ==
    ASSUME NEW m \in Nat \ {0}, NEW a \in Int, NEW b \in Int, NEW q \in Int, a = b + q * m
    PROVE  a % m = b % m
  <1> DEFINE x == (a % m) - (b % m)
             p == q - (a \div m) + (b \div m)
  <1>1. /\ a % m \in 0 .. m - 1 /\ a = m * (a \div m) + (a % m) /\ a \div m \in Int
        /\ b % m \in 0 .. m - 1 /\ b = m * (b \div m) + (b % m) /\ b \div m \in Int
    BY Remainder
  <1>2. x = p * m
    BY <1>1
  <1>3. x \in Int /\ p \in Int /\ -m < x /\ x < m
    BY <1>1
  <1> HIDE DEF x, p
  <1>4. x = 0
    BY <1>2, <1>3, Multiple
  <1> QED BY <1>1, <1>4 DEF x

(* A conversion gives a value of the type, keeps the values of the type    *)
(* and changes any other by a multiple of the number of them.              *)
LEMMA Converts ==
    ASSUME NEW half \in Nat \ {0}, NEW n \in Int
    PROVE  /\ Convert(n, half) \in Signed(half)
           /\ n \in Signed(half) => Convert(n, half) = n
           /\ \E q \in Int : n = Convert(n, half) + q * (2 * half)
  <1> DEFINE m == 2 * half
             a == n + half
  <1>1. m \in Nat \ {0} /\ a \in Int
    OBVIOUS
  <1>2. a % m \in 0 .. m - 1 /\ a = m * (a \div m) + (a % m) /\ a \div m \in Int
    BY <1>1, Remainder
  <1>3. n = Convert(n, half) + (a \div m) * m
    BY <1>2 DEF Convert
  <1>4. a \in 0 .. m - 1 => a % m = a
    BY <1>1
  <1> QED BY <1>2, <1>3, <1>4 DEF Convert, Signed

LEMMA SameConversion ==
    ASSUME NEW half \in Nat \ {0}, NEW a \in Int, NEW b \in Int, NEW q \in Int,
           a = b + q * (2 * half)
    PROVE  Convert(a, half) = Convert(b, half)
  <1> DEFINE m == 2 * half
  <1>1. /\ m \in Nat \ {0} /\ a + half \in Int /\ b + half \in Int
        /\ a + half = b + half + q * m
    OBVIOUS
  <1> HIDE DEF m
  <1>2. (a + half) % m = (b + half) % m
    BY <1>1, Congruent
  <1> QED BY <1>2 DEF Convert, m

(* Every int is a long. *)
LEMMA IntsAreLongs ==
    /\ IntHalf \in Nat \ {0} /\ LongHalf \in Nat \ {0} /\ IntHalf <= LongHalf
    /\ Ints \subseteq Longs /\ Ints \subseteq Int /\ Longs \subseteq Int
  <1>1. PICK n \in 1 .. LongHalf : LongHalf = n * IntHalf
    BY AtomicIntAssumption
  <1>2. IntHalf \in Nat \ {0} /\ n \in Nat \ {0} /\ n * IntHalf >= IntHalf
    BY <1>1, AtomicIntAssumption
  <1> QED BY <1>1, <1>2 DEF Ints, Longs, Signed

(* A sum that wraps around as a long is the same int as the sum itself, *)
(* and as the sum of the ints.                                           *)
LEMMA SumsAgree ==
    ASSUME NEW n \in Longs, NEW d \in Ints
    PROVE  /\ ToLong(n + d) \in Longs
           /\ ToInt(ToLong(n + d)) = ToInt(ToInt(n) + d)
  <1>1. /\ IntHalf \in Nat \ {0} /\ LongHalf \in Nat \ {0} /\ n \in Int /\ d \in Int
        /\ n + d \in Int
    BY IntsAreLongs
  <1>2. PICK k \in Nat : LongHalf = k * IntHalf
    BY AtomicIntAssumption
  <1>3. PICK q \in Int : n + d = Convert(n + d, LongHalf) + q * (2 * LongHalf)
    BY <1>1, Converts
  <1>4. Convert(n + d, LongHalf) \in Signed(LongHalf)
    BY <1>1, Converts
  <1>5. Convert(n + d, LongHalf) \in Int
    BY <1>1, <1>4 DEF Signed
  <1>6. q * (2 * LongHalf) = (q * k) * (2 * IntHalf) /\ q * k \in Int
    BY <1>1, <1>2
  <1>7. Convert(n + d, IntHalf) = Convert(Convert(n + d, LongHalf), IntHalf)
    <2> DEFINE low == Convert(n + d, LongHalf)
    <2>1. low \in Int /\ n + d = low + (q * k) * (2 * IntHalf)
      BY <1>3, <1>5, <1>6
    <2> HIDE DEF low
    <2>2. Convert(n + d, IntHalf) = Convert(low, IntHalf)
      BY <1>1, <1>6, <2>1, SameConversion
    <2> QED BY <2>2 DEF low
  <1>8. PICK p \in Int : n = Convert(n, IntHalf) + p * (2 * IntHalf)
    BY <1>1, Converts
  <1>9. Convert(n, IntHalf) \in Signed(IntHalf)
    BY <1>1, Converts
  <1>10. Convert(n, IntHalf) \in Int /\ Convert(n, IntHalf) + d \in Int
    BY <1>1, <1>9 DEF Signed
  <1>11. n + d = Convert(n, IntHalf) + d + p * (2 * IntHalf)
    BY <1>1, <1>8, <1>10
  <1>12. Convert(n + d, IntHalf) = Convert(Convert(n, IntHalf) + d, IntHalf)
    BY <1>1, <1>10, <1>11, SameConversion
  <1> QED BY <1>4, <1>7, <1>12 DEF ToInt, ToLong, Longs

(* The variable is a long, and an int unless an addition passed the width *)
(* of one since the variable was last written.                            *)
IntUnlessWrapped ==
    /\ val \in Longs
    /\ wrapped \in BOOLEAN
    /\ ~wrapped => val \in Ints

(* An addition that does not pass the width of an int leaves an int. *)
LEMMA NoCarry ==
    ASSUME val \in Ints, NEW d \in Ints, ToInt(val) + d \in Ints
    PROVE  ToLong(val + d) \in Ints
  <1>1. ToInt(val) = val
    BY IntsAreLongs, Converts DEF ToInt, Ints
  <1>2. val + d \in Ints /\ val + d \in Longs
    BY <1>1, IntsAreLongs
  <1>3. val + d \in Int
    BY <1>2, IntsAreLongs
  <1>4. ToLong(val + d) = val + d
    BY <1>2, <1>3, IntsAreLongs, Converts DEF ToLong, Longs
  <1> QED BY <1>2, <1>4

(* That is kept through any sequence of calls. *)
LEMMA StaysInt ==
    /\ AtomicInit => IntUnlessWrapped
    /\ IntUnlessWrapped /\ [AtomicNext]_atomicVars => IntUnlessWrapped'
  <1>1. AtomicInit => IntUnlessWrapped
    BY AtomicIntAssumption, IntsAreLongs DEF AtomicInit, IntUnlessWrapped
  <1>2. ASSUME IntUnlessWrapped, [AtomicNext]_atomicVars
        PROVE  IntUnlessWrapped'
    <2>1. CASE Load \/ UNCHANGED atomicVars
      BY <1>2, <2>1 DEF IntUnlessWrapped, Load, atomicVars
    <2>2. ASSUME NEW n \in Ints, Store(n) \/ Swap(n)
          PROVE  IntUnlessWrapped'
      BY <2>2, IntsAreLongs DEF IntUnlessWrapped, Store, Swap
    <2>3. ASSUME NEW d \in Ints, FetchAdd(d) \/ AddAndGet(d)
          PROVE  IntUnlessWrapped'
      <3>1. AddTo(d)
        BY <2>3 DEF FetchAdd, AddAndGet
      <3>2. val' \in Longs /\ wrapped' \in BOOLEAN
        BY <1>2, <3>1, SumsAgree DEF AddTo, IntUnlessWrapped
      <3>3. ASSUME ~wrapped'
            PROVE  val' \in Ints
        BY <1>2, <3>1, <3>3, NoCarry DEF AddTo, IntUnlessWrapped
      <3> QED BY <3>2, <3>3 DEF IntUnlessWrapped
    <2>4. ASSUME NEW old \in Ints, NEW new \in Ints, CompareSwap(old, new)
          PROVE  IntUnlessWrapped'
      BY <1>2, <2>4, IntsAreLongs DEF IntUnlessWrapped, CompareSwap
    <2> QED BY <1>2, <2>1, <2>2, <2>3, <2>4 DEF AtomicNext
  <1> QED BY <1>1, <1>2

(* PenguNativeAtomicInt.val stays a value of its type and every call is one *)
(* of the API's.                                                            *)
THEOREM AtomicIntTypeCorrect == AtomicSpec => []AtomicTypeOK
  <1>1. AtomicInit => AtomicTypeOK
    BY StaysInt DEF AtomicInit, AtomicTypeOK, IntUnlessWrapped
  <1>2. IntUnlessWrapped /\ AtomicTypeOK /\ [AtomicNext]_atomicVars => AtomicTypeOK'
    BY StaysInt DEF AtomicTypeOK, IntUnlessWrapped, AtomicNext, Load, Store, FetchAdd,
                    AddAndGet, Swap, CompareSwap, atomicVars
  <1> QED BY <1>1, <1>2, StaysInt, PTL DEF AtomicSpec

-----------------------------------------------------------------------------
(* Every step but a refusal after an overflow is the register's step. *)
LEMMA RegisterSteps ==
    ASSUME IntUnlessWrapped, AtomicNext
    PROVE  Register!Next \/ RefusesAfterWrap
  <1> USE DEF IntUnlessWrapped
  <1>1. ToInt(val) \in Ints /\ (val \in Ints => ToInt(val) = val)
    BY IntsAreLongs, Converts DEF ToInt, Ints
  <1>2. \A n \in Ints : ToInt(n) = n
    BY IntsAreLongs, Converts DEF ToInt, Ints
  <1>3. /\ Register!Ints = Ints
        /\ \A n : Register!Wrap(n) = ToInt(n)
    BY DEF Register!Ints, Register!Wrap, Ints, Signed, ToInt, Convert
  <1>4. CASE Load
    <2>1. Register!Load
      BY <1>4 DEF Load, Register!Load
    <2> QED BY <2>1 DEF Register!Next
  <1>5. ASSUME NEW n \in Ints, Store(n) \/ Swap(n)
        PROVE  Register!Next
    <2>1. Register!Store(n) \/ Register!Swap(n)
      BY <1>2, <1>5 DEF Store, Swap, Register!Store, Register!Swap
    <2> QED BY <1>3, <2>1 DEF Register!Next
  <1>6. ASSUME NEW d \in Ints, FetchAdd(d) \/ AddAndGet(d)
        PROVE  Register!Next
    <2>1. ToInt(val') = Register!Wrap(ToInt(val) + d)
      BY <1>3, <1>6, SumsAgree DEF FetchAdd, AddAndGet, AddTo
    <2>2. Register!Add(d) \/ Register!AddAndGet(d)
      BY <1>3, <1>6, <2>1 DEF FetchAdd, AddAndGet, Register!Add, Register!AddAndGet
    <2> QED BY <1>3, <2>2 DEF Register!Next
  <1>7. ASSUME NEW old \in Ints, NEW new \in Ints, CompareSwap(old, new)
        PROVE  Register!Next \/ RefusesAfterWrap
    <2>1. CASE ToInt(val) = old /\ val # old
      <3>1. wrapped
        BY <1>1, <2>1
      <3>2. call' = <<"compare_swap", old, new, FALSE>>
        BY <1>7, <2>1 DEF CompareSwap
      <3>3. ~call'[4]
        BY <3>2
      <3> QED BY <1>7, <2>1, <3>1, <3>3 DEF RefusesAfterWrap
    <2>2. CASE ~(ToInt(val) = old /\ val # old)
      <3>1. val = old <=> ToInt(val) = old
        BY <1>2, <2>2
      <3>2. ToInt(val') = IF ToInt(val) = old THEN new ELSE ToInt(val)
        BY <1>2, <1>7, <3>1 DEF CompareSwap
      <3>3. call' = <<"compare_swap", old, new, ToInt(val) = old>>
        BY <1>7, <3>1 DEF CompareSwap
      <3>4. Register!CompareSwap(old, new)
        BY <3>2, <3>3 DEF Register!CompareSwap
      <3> QED BY <1>3, <3>4 DEF Register!Next
    <2> QED BY <2>1, <2>2
  <1> QED BY <1>4, <1>5, <1>6, <1>7 DEF AtomicNext

(* Whatever the widths of an int and a long, an AtomicInt is the one int   *)
(* that std.filum describes, for every operation with every argument in    *)
(* any sequence, overflow included; only a compare_swap can do otherwise,  *)
(* by refusing what load would return, and only after an addition passed   *)
(* the width of an int (pengu_runtime.c:443).                              *)
THEOREM AtomicIsARegister == AtomicSpec => RegisterButForRefusals
  <1>1. AtomicInit => Register!Init
    BY AtomicIntAssumption, IntsAreLongs, Converts DEF AtomicInit, Register!Init, ToInt, Ints
  <1>2. IntUnlessWrapped /\ [AtomicNext]_atomicVars
          => [Register!Next \/ RefusesAfterWrap]_atomicVars
    BY RegisterSteps
  <1> QED BY <1>1, <1>2, StaysInt, PTL DEF AtomicSpec, RegisterButForRefusals
=============================================================================
