----------------------------- MODULE FilumChan -----------------------------
(***************************************************************************)
(* The channel of std.filum: the runtime's PenguNativeChan                 *)
(* (pengu_parser/pengu_runtime.c), a ring buffer behind one mutex and two  *)
(* condition variables, used by any number of threads.                     *)
(*                                                                         *)
(* Every access to the ring happens with the mutex held, so one action is  *)
(* one critical section: from the lock (or from the re-acquisition that    *)
(* ends a pthread_cond_wait) to the unlock (or to the wait that parks the  *)
(* thread).  The threads waiting for the mutex are those whose state is    *)
(* "send", "recv" (entering) or "sendWoken", "recvWoken" (returning from a *)
(* wait).  pengu_c_filum_chan_free is two steps, since it gives the mutex  *)
(* back before it destroys it.                                             *)
(***************************************************************************)
EXTENDS Integers, Sequences, FiniteSets

CONSTANTS Threads,     \* the threads that share the channel
          Values,      \* the elements they send
          RequestedCap,\* the capacity asked of chan_new
          Garbage,     \* what malloc leaves in a cell; not an element
          MaxSends,    \* bound: sends started over the life of the channel
          FreeContract \* who may be inside a call when chan_free starts:
                       \*   "never"     free is not called
                       \*   "quiescent" nobody
                       \*   "parked"    threads asleep in send or recv

ASSUME FilumAssumption ==
    /\ IsFiniteSet(Threads)
    /\ Garbage \notin Values
    /\ RequestedCap \in Int
    /\ MaxSends \in Nat
    /\ FreeContract \in {"never", "quiescent", "parked"}

\* if (cap < 1) cap = 1;
Cap == IF RequestedCap < 1 THEN 1 ELSE RequestedCap

\* the ring index that x steps from cell 0 lead to: x % ch->cap
Cell(x) == x % Cap

VARIABLES buffer, head, tail, size, closed,   \* the PenguNativeChan
          handle,    \* "live", "closing" (free gave the mutex back), "freed"
          at,        \* where each thread is
          arg,       \* the element each thread is sending
          sent,      \* history: elements put into the ring, in order
          rcvd,      \* history: elements taken out of the ring, in order
          drained    \* history: some recv has returned false

chan == <<buffer, head, tail, size, closed>>
hist == <<sent, rcvd, drained>>
vars == <<buffer, head, tail, size, closed, handle, at, arg, sent, rcvd, drained>>

States == {"idle", "send", "sendParked", "sendWoken",
                   "recv", "recvParked", "recvWoken"}

In(s) == {t \in Threads : at[t] = s}

Init ==
    /\ buffer = [i \in 0 .. Cap - 1 |-> Garbage]
    /\ head = 0 /\ tail = 0 /\ size = 0
    /\ closed = FALSE
    /\ handle = "live"
    /\ at = [t \in Threads |-> "idle"]
    /\ arg = [t \in Threads |-> Garbage]
    /\ sent = <<>> /\ rcvd = <<>>
    /\ drained = FALSE

-----------------------------------------------------------------------------
(* pthread_cond_signal wakes one of the parked threads, if there is one;   *)
(* moved is `at` with the caller already returned.                         *)
Signal(moved, parked, woken) ==
    IF In(parked) = {}
    THEN at' = moved
    ELSE \E w \in In(parked) : at' = [moved EXCEPT ![w] = woken]

(* pthread_cond_broadcast on both condition variables. *)
WokenAll ==
    [t \in Threads |-> CASE at[t] = "sendParked" -> "sendWoken"
                         [] at[t] = "recvParked" -> "recvWoken"
                         [] OTHER                -> at[t]]

(* A parked thread may return from pthread_cond_wait without a signal. *)
SpuriousWake(t) ==
    /\ handle = "live"
    /\ \/ at[t] = "sendParked" /\ at' = [at EXCEPT ![t] = "sendWoken"]
       \/ at[t] = "recvParked" /\ at' = [at EXCEPT ![t] = "recvWoken"]
    /\ UNCHANGED <<chan, handle, arg, hist>>

-----------------------------------------------------------------------------
Sending == In("send") \union In("sendParked") \union In("sendWoken")

CallSend(t, v) ==
    /\ at[t] = "idle"
    /\ handle = "live"
    /\ Len(sent) + Cardinality(Sending) < MaxSends
    /\ at' = [at EXCEPT ![t] = "send"]
    /\ arg' = [arg EXCEPT ![t] = v]
    /\ UNCHANGED <<chan, handle, hist>>

SendRuns(t) == at[t] \in {"send", "sendWoken"} /\ handle # "freed"

\* BUG: the wait loop does not look at closed
SendParkOnClosed(t) ==
    /\ SendRuns(t)
    /\ size = Cap
    /\ at' = [at EXCEPT ![t] = "sendParked"]
    /\ UNCHANGED <<chan, handle, arg, hist>>

\* while (ch->size == ch->cap && !ch->closed) pthread_cond_wait(...)
SendPark(t) ==
    /\ SendRuns(t)
    /\ size = Cap /\ ~closed
    /\ at' = [at EXCEPT ![t] = "sendParked"]
    /\ UNCHANGED <<chan, handle, arg, hist>>

\* if (ch->closed) return false;
SendClosed(t) ==
    /\ SendRuns(t)
    /\ closed
    /\ at' = [at EXCEPT ![t] = "idle"]
    /\ UNCHANGED <<chan, handle, arg, hist>>

Put(t) ==
    /\ buffer' = [buffer EXCEPT ![tail] = arg[t]]
    /\ tail' = Cell(tail + 1)
    /\ size' = size + 1
    /\ sent' = Append(sent, arg[t])
    /\ UNCHANGED <<head, closed, handle, arg, rcvd, drained>>

\* BUG: "if" instead of "while", a woken sender does not test again
SendPutUntested(t) ==
    /\ SendRuns(t)
    /\ ~closed /\ (size # Cap \/ at[t] = "sendWoken")
    /\ Put(t)
    /\ Signal([at EXCEPT ![t] = "idle"], "recvParked", "recvWoken")

\* BUG: signal only when the ring was empty
SendPutSignalsFirst(t) ==
    /\ SendRuns(t)
    /\ size # Cap /\ ~closed
    /\ Put(t)
    /\ IF size = 0
       THEN Signal([at EXCEPT ![t] = "idle"], "recvParked", "recvWoken")
       ELSE at' = [at EXCEPT ![t] = "idle"]

\* BUG: closed is not tested after the wait
SendPutOnClosed(t) ==
    /\ SendRuns(t)
    /\ size # Cap
    /\ Put(t)
    /\ Signal([at EXCEPT ![t] = "idle"], "recvParked", "recvWoken")

SendPut(t) ==
    /\ SendRuns(t)
    /\ size # Cap /\ ~closed
    /\ Put(t)
    /\ Signal([at EXCEPT ![t] = "idle"], "recvParked", "recvWoken")

-----------------------------------------------------------------------------
CallRecv(t) ==
    /\ at[t] = "idle"
    /\ handle = "live"
    /\ at' = [at EXCEPT ![t] = "recv"]
    /\ UNCHANGED <<chan, handle, arg, hist>>

RecvRuns(t) == at[t] \in {"recv", "recvWoken"} /\ handle # "freed"

\* while (ch->size == 0 && !ch->closed) pthread_cond_wait(...)
RecvPark(t) ==
    /\ RecvRuns(t)
    /\ size = 0 /\ ~closed
    /\ at' = [at EXCEPT ![t] = "recvParked"]
    /\ UNCHANGED <<chan, handle, arg, hist>>

\* BUG: a closed channel ends before it is drained
RecvClosedEarly(t) ==
    /\ RecvRuns(t)
    /\ closed
    /\ at' = [at EXCEPT ![t] = "idle"]
    /\ drained' = TRUE
    /\ UNCHANGED <<chan, handle, arg, sent, rcvd>>

\* if (ch->size == 0 && ch->closed) return false;
RecvClosed(t) ==
    /\ RecvRuns(t)
    /\ size = 0 /\ closed
    /\ at' = [at EXCEPT ![t] = "idle"]
    /\ drained' = TRUE
    /\ UNCHANGED <<chan, handle, arg, sent, rcvd>>

\* BUG: no signal to the senders
RecvTakeSilent(t) ==
    /\ RecvRuns(t)
    /\ size # 0
    /\ rcvd' = Append(rcvd, buffer[head])
    /\ head' = Cell(head + 1)
    /\ size' = size - 1
    /\ at' = [at EXCEPT ![t] = "idle"]
    /\ UNCHANGED <<buffer, tail, closed, handle, arg, sent, drained>>

RecvTake(t) ==
    /\ RecvRuns(t)
    /\ size # 0
    /\ rcvd' = Append(rcvd, buffer[head])
    /\ head' = Cell(head + 1)
    /\ size' = size - 1
    /\ Signal([at EXCEPT ![t] = "idle"], "sendParked", "sendWoken")
    /\ UNCHANGED <<buffer, tail, closed, handle, arg, sent, drained>>

-----------------------------------------------------------------------------
Close(t) ==
    /\ at[t] = "idle"
    /\ handle = "live"
    /\ closed' = TRUE
    /\ at' = WokenAll
    /\ UNCHANGED <<buffer, head, tail, size, handle, arg, hist>>

(* The caller of free owns the channel; the contract says who may still be *)
(* inside it.                                                              *)
MayFree ==
    \/ FreeContract = "quiescent" /\ \A t \in Threads : at[t] = "idle"
    \/ FreeContract = "parked" /\
          \A t \in Threads : at[t] \in {"idle", "sendParked", "recvParked"}

\* lock; closed = true; broadcast both; unlock
FreeClose(t) ==
    /\ at[t] = "idle"
    /\ handle = "live"
    /\ MayFree
    /\ handle' = "closing"
    /\ closed' = TRUE
    /\ at' = WokenAll
    /\ UNCHANGED <<buffer, head, tail, size, arg, hist>>

\* pthread_mutex_destroy, pthread_cond_destroy, free(ch->buffer), free(c)
FreeDestroy ==
    /\ handle = "closing"
    /\ handle' = "freed"
    /\ UNCHANGED <<chan, at, arg, hist>>

SendStep(t) == SendPark(t) \/ SendClosed(t) \/ SendPut(t)
RecvStep(t) == RecvPark(t) \/ RecvClosed(t) \/ RecvTake(t)

Next ==
    \/ \E t \in Threads :
          \/ \E v \in Values : CallSend(t, v)
          \/ SendPark(t) \/ SendClosed(t) \/ SendPut(t)
          \/ CallRecv(t)
          \/ RecvPark(t) \/ RecvClosed(t) \/ RecvTake(t)
          \/ SpuriousWake(t)
          \/ Close(t)
          \/ FreeClose(t)
    \/ FreeDestroy

Spec == Init /\ [][Next]_vars

(* A thread that wants the mutex gets it: the mutex is never held forever, *)
(* and the number of competing calls is finite.  No fairness on the calls  *)
(* themselves, on close or on spurious wake-ups.                           *)
FairSpec == Spec /\ \A t \in Threads : WF_vars(SendStep(t)) /\ WF_vars(RecvStep(t))

-----------------------------------------------------------------------------
TypeOK ==
    /\ buffer \in [0 .. Cap - 1 -> Values \union {Garbage}]
    /\ head \in 0 .. Cap - 1 /\ tail \in 0 .. Cap - 1 /\ size \in 0 .. Cap
    /\ closed \in BOOLEAN /\ drained \in BOOLEAN
    /\ handle \in {"live", "closing", "freed"}
    /\ at \in [Threads -> States]
    /\ arg \in [Threads -> Values \union {Garbage}]
    /\ sent \in Seq(Values) /\ rcvd \in Seq(Values)

(* What the ring holds, oldest first. *)
Ring == [i \in 1 .. size |-> buffer[Cell(head + i - 1)]]

(* Whatever the interleaving of senders and receivers over the wrap of the *)
(* ring, elements come out in the order they went in, none lost, repeated  *)
(* or overwritten: what was received, then the ring, is what was sent.     *)
FifoDelivery == sent = rcvd \o Ring

(* chan_send and chan_recv each signal once, and a woken thread may find   *)
(* its element (or cell) already taken by one that was just entering.      *)
(* Still, while a receiver sleeps there is a woken one on its way for each *)
(* element in the ring, and likewise for senders and free cells.           *)
NoLostWakeup ==
    /\ In("recvParked") # {} => Cardinality(In("recvWoken")) >= size
    /\ In("sendParked") # {} => Cardinality(In("sendWoken")) >= Cap - size

(* chan_close and chan_free broadcast under the mutex: nobody is left, or  *)
(* goes back to sleep, on a closed channel.                                *)
NobodySleepsOnClosed == closed => In("recvParked") = {} /\ In("sendParked") = {}

(* "Returns `maybe none` when closed and drained" (std/filum.pengu:548):   *)
(* once one recv has reported the end, no element is left anywhere and     *)
(* none will ever be delivered.                                            *)
EndMeansDrained == drained => closed /\ rcvd = sent

(* Every call in progress when the channel is closed returns. *)
ClosedCallsReturn ==
    \A t \in Threads : (closed /\ at[t] # "idle") ~> (at[t] = "idle")

(* A sleeping receiver with an element to take, or a sleeping sender with  *)
(* room, does not leave the channel stuck: the element is taken, or the    *)
(* cell filled, or another channel operation changes that.                 *)
NoStuckChannel ==
    /\ (In("recvParked") # {} /\ size > 0) ~> (In("recvParked") = {} \/ size = 0)
    /\ (In("sendParked") # {} /\ size < Cap) ~> (In("sendParked") = {} \/ size = Cap)

(* The ring implements the bounded closable FIFO of ChanSpec. *)
Abs == INSTANCE ChanSpec WITH queue <- Ring, delivered <- rcvd
ImplementsFifo == Abs!Spec

(* "Blocks if buffered channel is full or unbuffered receiver is not       *)
(* ready" (std/filum.pengu:540): on a channel created with capacity 0, an  *)
(* element is accepted only when a receiver is there to take it.           *)
UnbufferedSendWaits ==
    [][(RequestedCap = 0 /\ size' > size) =>
          In("recv") \union In("recvParked") \union In("recvWoken") # {}]_vars

(* "Closing the channel first makes each blocked call return false"        *)
(* (pengu_runtime.c:689): a call that was blocked when chan_free started   *)
(* has returned by the time the mutex it must re-acquire is destroyed.     *)
BlockedCallsReturnBeforeFree == handle = "freed" => \A t \in Threads : at[t] = "idle"
=============================================================================
