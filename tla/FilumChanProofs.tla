-------------------------- MODULE FilumChanProofs --------------------------
(***************************************************************************)
(* Theorems about the channel of std.filum, for every number of threads,   *)
(* every set of elements and every requested capacity.                     *)
(*                                                                         *)
(* FifoDelivery is not inductive in its sequence form.  The proof carries  *)
(* it index by index (Positions): the i-th cell from the head holds the    *)
(* i-th element not yet received, and the tail is the first cell after     *)
(* them, so that a send writes no cell still to be read.                   *)
(***************************************************************************)
EXTENDS FilumChan, FiniteSetTheorems, SequenceTheorems, TLAPS

(* A position of the ring, with the wrap-around written out. *)
LEMMA Wrap ==
    \A x \in Nat : x < 2 * Cap => Cell(x) = IF x < Cap THEN x ELSE x - Cap
<1> SUFFICES ASSUME NEW x \in Nat, x < 2 * Cap
             PROVE  Cell(x) = IF x < Cap THEN x ELSE x - Cap
  OBVIOUS
<1>1. Cap \in Nat \ {0}
  BY FilumAssumption DEF Cap
<1>2. CASE x < Cap
  BY <1>1, <1>2, SMTT(30) DEF Cell
<1>3. CASE x >= Cap
  <2>1. x - Cap \in 0 .. Cap - 1
    BY <1>1, <1>3
  <2>2. x = 1 * Cap + (x - Cap)
    BY <1>1
  <2> QED
    BY <1>1, <1>3, <2>1, <2>2, SMTT(30) DEF Cell
<1> QED
  BY <1>1, <1>2, <1>3

LEMMA CapPositive == Cap \in Nat \ {0}
  BY FilumAssumption DEF Cap

LEMMA CellRange == \A x \in Nat : Cell(x) \in 0 .. Cap - 1
  BY CapPositive, SMTT(30) DEF Cell

-----------------------------------------------------------------------------
SendStates == {"send", "sendParked", "sendWoken"}

(* A thread inside chan_send carries an element of Values. *)
SendersCarry == \A t \in Threads : at[t] \in SendStates => arg[t] \in Values

(* The ring, cell by cell, against the two histories. *)
Positions ==
    /\ Len(sent) = Len(rcvd) + size
    /\ tail = Cell(head + size)
    /\ \A i \in 1 .. Len(rcvd) : rcvd[i] = sent[i]
    /\ \A i \in 1 .. size : buffer[Cell(head + i - 1)] = sent[Len(rcvd) + i]

(* The inductive invariant. *)
IInv ==
    /\ TypeOK
    /\ SendersCarry
    /\ Positions
    /\ NobodySleepsOnClosed
    /\ drained => closed /\ size = 0

(* What Signal leaves: the caller is out of the call, at most one thread   *)
(* that was parked on the signalled condition has become woken.            *)
LEMMA SignalEffect ==
    ASSUME NEW t \in Threads, at \in [Threads -> States],
           NEW parked \in {"recvParked", "sendParked"},
           NEW woken \in {"recvWoken", "sendWoken"},
           at[t] # parked,
           Signal([at EXCEPT ![t] = "idle"], parked, woken)
    PROVE  /\ at' \in [Threads -> States]
           /\ \A u \in Threads :
                 \/ at'[u] = at[u]
                 \/ u = t /\ at'[u] = "idle"
                 \/ u # t /\ at[u] = parked /\ at'[u] = woken
  BY DEF Signal, In, States

LEMMA InitIInv == Init => IInv
<1> SUFFICES ASSUME Init PROVE IInv
  OBVIOUS
<1>1. TypeOK
  BY CapPositive DEF Init, TypeOK, States
<1>2. SendersCarry /\ NobodySleepsOnClosed
  BY DEF Init, SendersCarry, NobodySleepsOnClosed, SendStates
<1>3. Positions
  <2>1. Cell(0) = 0
    BY CapPositive, Wrap
  <2> QED
    BY <2>1 DEF Init, Positions
<1> QED
  BY <1>1, <1>2, <1>3 DEF IInv, Init

(* The cell at the head of a ring that is not empty. *)
LEMMA HeadCell ==
    ASSUME TypeOK, Positions, size # 0
    PROVE  buffer[head] = sent[Len(rcvd) + 1] /\ buffer[head] \in Values
<1>1. 1 \in 1 .. size /\ head + 1 - 1 = head
  BY DEF TypeOK
<1>2. Cell(head) = head
  BY CapPositive, Wrap DEF TypeOK
<1>3. buffer[head] = sent[Len(rcvd) + 1]
  BY <1>1, <1>2 DEF Positions
<1> QED
  BY <1>1, <1>3 DEF TypeOK, Positions

(* A send writes behind the last occupied cell. *)
LEMMA PutPositions ==
    ASSUME TypeOK, Positions, NEW t \in Threads, SendPut(t), arg[t] \in Values
    PROVE  Positions'
<1> USE CapPositive
<1>1. size + 1 \in 0 .. Cap
  BY DEF TypeOK, SendPut, Put
<1>2. Len(sent') = Len(rcvd') + size'
  <2>1. sent' = Append(sent, arg[t]) /\ rcvd' = rcvd /\ size' = size + 1
    BY DEF SendPut, Put
  <2>2. Len(sent') = Len(sent) + 1
    BY <2>1 DEF TypeOK
  <2> QED
    BY <2>1, <2>2 DEF TypeOK, Positions
<1>3. tail' = Cell(head' + size')
  <2>1. tail = IF head + size < Cap THEN head + size ELSE head + size - Cap
    <3>1. head + size \in Nat /\ head + size < 2 * Cap
      BY <1>1 DEF TypeOK
    <3> QED
      BY <3>1, Wrap DEF Positions, TypeOK
  <2>2. Cell(tail + 1) = IF tail + 1 < Cap THEN tail + 1 ELSE tail + 1 - Cap
    BY Wrap DEF TypeOK
  <2>3. Cell(head + (size + 1)) = IF head + (size + 1) < Cap THEN head + (size + 1)
                                                    ELSE head + (size + 1) - Cap
    <3>1. CASE head + (size + 1) < 2 * Cap
      BY <3>1, Wrap DEF TypeOK
    <3> QED
      BY <3>1, <1>1 DEF TypeOK
  <2> QED
    BY <2>1, <2>2, <2>3, <1>1 DEF SendPut, Put, TypeOK
<1>4. \A i \in 1 .. Len(rcvd') : rcvd'[i] = sent'[i]
  BY DEF TypeOK, Positions, SendPut, Put
<1>5. ASSUME NEW i \in 1 .. size'
      PROVE  buffer'[Cell(head' + i - 1)] = sent'[Len(rcvd') + i]
  <2>1. i \in 1 .. size + 1 /\ head' = head /\ rcvd' = rcvd
    BY <1>5 DEF SendPut, Put
  <2>2. Cell(head + i - 1) = IF head + i - 1 < Cap THEN head + i - 1 ELSE head + i - 1 - Cap
    BY <2>1, <1>1, Wrap DEF TypeOK
  <2>3. tail = IF head + size < Cap THEN head + size ELSE head + size - Cap
    BY <1>1, Wrap DEF TypeOK, Positions
  <2>4. CASE i = size + 1
    <3>1. Cell(head + i - 1) = tail
      BY <2>4, <2>2, <2>3 DEF TypeOK
    <3> QED
      BY <2>1, <2>4, <3>1 DEF TypeOK, Positions, SendPut, Put
  <2>5. CASE i \in 1 .. size
    <3>1. Cell(head + i - 1) # tail
      BY <2>5, <2>2, <2>3, <1>1 DEF TypeOK
    <3>2. Cell(head + i - 1) \in 0 .. Cap - 1
      BY <2>5, <2>2, <1>1 DEF TypeOK
    <3>3. buffer'[Cell(head + i - 1)] = sent[Len(rcvd) + i]
      BY <3>1, <3>2, <2>5 DEF TypeOK, Positions, SendPut, Put
    <3>4. Len(rcvd) + i \in 1 .. Len(sent)
      BY <2>5 DEF TypeOK, Positions
    <3> QED
      BY <3>3, <3>4, <2>1 DEF TypeOK, SendPut, Put
  <2> QED
    BY <2>1, <2>4, <2>5 DEF TypeOK
<1> QED
  BY <1>2, <1>3, <1>4, <1>5 DEF Positions

(* A receive takes the oldest element and leaves the others in place. *)
LEMMA TakePositions ==
    ASSUME TypeOK, Positions, NEW t \in Threads, RecvTake(t)
    PROVE  Positions'
<1> USE CapPositive
<1>1. size \in 1 .. Cap
  BY DEF TypeOK, RecvTake
<1>2. Len(sent') = Len(rcvd') + size'
  <2>1. rcvd' = Append(rcvd, buffer[head]) /\ sent' = sent /\ size' = size - 1
    BY DEF RecvTake
  <2>2. Len(rcvd') = Len(rcvd) + 1
    BY <2>1 DEF TypeOK
  <2> QED
    BY <2>1, <2>2 DEF TypeOK, Positions
<1>3. head' = IF head + 1 < Cap THEN head + 1 ELSE 0
  <2>1. Cell(head + 1) = IF head + 1 < Cap THEN head + 1 ELSE head + 1 - Cap
    BY Wrap DEF TypeOK
  <2> QED
    BY <2>1 DEF RecvTake, TypeOK
<1>4. tail' = Cell(head' + size')
  <2>1. tail = IF head + size < Cap THEN head + size ELSE head + size - Cap
    <3>1. head + size < 2 * Cap
      BY <1>1 DEF TypeOK
    <3> QED
      BY <3>1, Wrap DEF TypeOK, Positions
  <2>2. Cell(head' + (size - 1)) = IF head' + (size - 1) < Cap THEN head' + (size - 1)
                                                    ELSE head' + (size - 1) - Cap
    BY <1>1, <1>3, Wrap DEF TypeOK
  <2> QED
    BY <2>1, <2>2, <1>1, <1>3 DEF RecvTake, TypeOK
<1>5. \A i \in 1 .. Len(rcvd') : rcvd'[i] = sent'[i]
  <2>1. rcvd' = Append(rcvd, sent[Len(rcvd) + 1]) /\ sent' = sent
    BY HeadCell DEF RecvTake
  <2> QED
    BY <2>1 DEF TypeOK, Positions
<1>6. ASSUME NEW i \in 1 .. size'
      PROVE  buffer'[Cell(head' + i - 1)] = sent'[Len(rcvd') + i]
  <2>1. i + 1 \in 1 .. size /\ buffer' = buffer /\ sent' = sent
    BY <1>1, <1>6 DEF RecvTake
  <2>2. Cell(head + (i + 1) - 1) = IF head + i < Cap THEN head + i ELSE head + i - Cap
    BY <2>1, <1>1, Wrap DEF TypeOK
  <2>3. Cell(head' + i - 1) = IF head' + i - 1 < Cap THEN head' + i - 1 ELSE head' + i - 1 - Cap
    BY <2>1, <1>1, <1>3, Wrap DEF TypeOK
  <2>4. Cell(head + (i + 1) - 1) = Cell(head' + i - 1)
    BY <2>1, <2>2, <2>3, <1>1, <1>3 DEF TypeOK
  <2>5. Len(rcvd') + i = Len(rcvd) + (i + 1)
    BY HeadCell DEF RecvTake, TypeOK
  <2> QED
    BY <2>1, <2>4, <2>5 DEF Positions
<1> QED
  BY <1>2, <1>4, <1>5, <1>6 DEF Positions


(* Type correctness of every step. *)
LEMMA TypeStep ==
    ASSUME TypeOK, SendersCarry, Positions, [Next]_vars
    PROVE  TypeOK' /\ SendersCarry'
<1> USE CapPositive, FilumAssumption
<1>1. ASSUME NEW t \in Threads, NEW v \in Values, CallSend(t, v)
      PROVE  TypeOK' /\ SendersCarry'
  BY <1>1 DEF TypeOK, SendersCarry, CallSend, chan, hist, States, SendStates
<1>2. ASSUME NEW t \in Threads, SendPark(t) \/ SendClosed(t)
      PROVE  TypeOK' /\ SendersCarry'
  BY <1>2 DEF TypeOK, SendersCarry, SendPark, SendClosed, SendRuns, chan, hist, States, SendStates
<1>3. ASSUME NEW t \in Threads, SendPut(t)
      PROVE  TypeOK' /\ SendersCarry'
  <2>1. Cell(tail + 1) \in 0 .. Cap - 1 /\ arg[t] \in Values
    BY <1>3, CellRange DEF TypeOK, SendersCarry, SendPut, Put, SendRuns, SendStates
  <2>2. /\ at' \in [Threads -> States]
        /\ \A u \in Threads : \/ at'[u] = at[u]
                              \/ u = t /\ at'[u] = "idle"
                              \/ u # t /\ at[u] = "recvParked" /\ at'[u] = "recvWoken"
    BY <1>3, SignalEffect DEF SendPut, Put, SendRuns, TypeOK
  <2> QED
    BY <1>3, <2>1, <2>2 DEF TypeOK, SendersCarry, SendPut, Put, SendStates
<1>4. ASSUME NEW t \in Threads, CallRecv(t) \/ RecvPark(t) \/ RecvClosed(t)
      PROVE  TypeOK' /\ SendersCarry'
  BY <1>4 DEF TypeOK, SendersCarry, CallRecv, RecvPark, RecvClosed, RecvRuns,
              chan, hist, States, SendStates
<1>5. ASSUME NEW t \in Threads, RecvTake(t)
      PROVE  TypeOK' /\ SendersCarry'
  <2>1. Cell(head + 1) \in 0 .. Cap - 1 /\ size # 0 /\ buffer[head] \in Values
    <3>1. Cell(head + 1) \in 0 .. Cap - 1 /\ size # 0
      BY <1>5, CellRange DEF TypeOK, RecvTake
    <3> QED
      BY <3>1, HeadCell
  <2>2. /\ at' \in [Threads -> States]
        /\ \A u \in Threads : \/ at'[u] = at[u]
                              \/ u = t /\ at'[u] = "idle"
                              \/ u # t /\ at[u] = "sendParked" /\ at'[u] = "sendWoken"
    BY <1>5, SignalEffect DEF RecvTake, RecvRuns, TypeOK
  <2> QED
    BY <1>5, <2>1, <2>2 DEF TypeOK, SendersCarry, RecvTake, SendStates
<1>6. ASSUME NEW t \in Threads, SpuriousWake(t)
      PROVE  TypeOK' /\ SendersCarry'
  BY <1>6 DEF TypeOK, SendersCarry, SpuriousWake, chan, hist, States, SendStates
<1>7. ASSUME NEW t \in Threads, Close(t) \/ FreeClose(t)
      PROVE  TypeOK' /\ SendersCarry'
  BY <1>7 DEF TypeOK, SendersCarry, Close, FreeClose, WokenAll, hist, States, SendStates
<1>8. CASE FreeDestroy \/ UNCHANGED vars
  BY <1>8 DEF TypeOK, SendersCarry, FreeDestroy, vars, chan, hist
<1> QED
  BY <1>1, <1>2, <1>3, <1>4, <1>5, <1>6, <1>7, <1>8 DEF Next

(* Nobody sleeps on a closed channel, and the end of the channel is final. *)
LEMMA ClosedStep ==
    ASSUME IInv, [Next]_vars
    PROVE  NobodySleepsOnClosed' /\ (drained => closed /\ size = 0)'
<1> USE FilumAssumption DEF IInv
<1>1. ASSUME NEW t \in Threads, SendPut(t) \/ RecvTake(t)
      PROVE  NobodySleepsOnClosed' /\ (drained => closed /\ size = 0)'
  <2>1. \A u \in Threads :
           at'[u] \in {"recvParked", "sendParked"} => at'[u] = at[u]
    <3>1. CASE SendPut(t)
      BY <3>1, SignalEffect DEF SendPut, Put, SendRuns, TypeOK
    <3>2. CASE RecvTake(t)
      BY <3>2, SignalEffect DEF RecvTake, RecvRuns, TypeOK
    <3> QED
      BY <1>1, <3>1, <3>2
  <2> QED
    BY <1>1, <2>1 DEF SendPut, Put, RecvTake, NobodySleepsOnClosed, In, TypeOK
<1>2. ASSUME NEW t \in Threads,
             \/ \E v \in Values : CallSend(t, v)
             \/ SendPark(t) \/ SendClosed(t) \/ CallRecv(t)
             \/ RecvPark(t) \/ RecvClosed(t) \/ SpuriousWake(t)
      PROVE  NobodySleepsOnClosed' /\ (drained => closed /\ size = 0)'
  BY <1>2 DEF CallSend, SendPark, SendClosed, CallRecv, RecvPark, RecvClosed, SpuriousWake,
              chan, hist, NobodySleepsOnClosed, In, TypeOK
<1>3. ASSUME NEW t \in Threads, Close(t) \/ FreeClose(t)
      PROVE  NobodySleepsOnClosed' /\ (drained => closed /\ size = 0)'
  <2>1. /\ at' = WokenAll /\ closed' = TRUE /\ size' = size /\ drained' = drained
    BY <1>3 DEF Close, FreeClose, hist
  <2>2. \A u \in Threads : at'[u] \notin {"recvParked", "sendParked"}
    BY <2>1 DEF WokenAll, TypeOK, States
  <2> QED
    BY <2>1, <2>2 DEF NobodySleepsOnClosed, In
<1>4. CASE FreeDestroy \/ UNCHANGED vars
  BY <1>4 DEF FreeDestroy, vars, chan, hist, NobodySleepsOnClosed, In
<1> QED
  BY <1>1, <1>2, <1>3, <1>4 DEF Next

LEMMA PositionsStep ==
    ASSUME IInv, [Next]_vars
    PROVE  Positions'
<1> USE DEF IInv
<1>1. ASSUME NEW t \in Threads, SendPut(t)
      PROVE  Positions'
  BY <1>1, PutPositions DEF SendPut, Put, SendRuns, SendersCarry, SendStates
<1>2. ASSUME NEW t \in Threads, RecvTake(t)
      PROVE  Positions'
  BY <1>2, TakePositions
<1>3. CASE UNCHANGED <<buffer, head, tail, size, sent, rcvd>>
  BY <1>3 DEF Positions
<1>4. ASSUME NEW t \in Threads,
             \/ \E v \in Values : CallSend(t, v)
             \/ SendPark(t) \/ SendClosed(t) \/ CallRecv(t)
             \/ RecvPark(t) \/ RecvClosed(t) \/ SpuriousWake(t)
             \/ Close(t) \/ FreeClose(t)
      PROVE  UNCHANGED <<buffer, head, tail, size, sent, rcvd>>
  BY <1>4 DEF CallSend, SendPark, SendClosed, CallRecv, RecvPark, RecvClosed, SpuriousWake,
              Close, FreeClose, chan, hist
<1>5. ASSUME FreeDestroy \/ UNCHANGED vars
      PROVE  UNCHANGED <<buffer, head, tail, size, sent, rcvd>>
  BY <1>5 DEF FreeDestroy, vars, chan, hist
<1> QED
  BY <1>1, <1>2, <1>3, <1>4, <1>5 DEF Next

LEMMA IInvStep == IInv /\ [Next]_vars => IInv'
<1> SUFFICES ASSUME IInv, [Next]_vars PROVE IInv'
  OBVIOUS
<1>1. TypeOK' /\ SendersCarry'
  BY TypeStep DEF IInv
<1>2. Positions' /\ NobodySleepsOnClosed' /\ (drained => closed /\ size = 0)'
  BY PositionsStep, ClosedStep
<1> QED
  BY <1>1, <1>2 DEF IInv

(* The ring as a sequence. *)
RingHolds ==
    /\ Ring \in Seq(Values)
    /\ Len(Ring) = size
    /\ \A i \in 1 .. size : Ring[i] = sent[Len(rcvd) + i]

LEMMA RingSequence == TypeOK /\ Positions => RingHolds
<1> SUFFICES ASSUME TypeOK, Positions PROVE RingHolds
  OBVIOUS
<1>1. ASSUME NEW i \in 1 .. size
      PROVE  Ring[i] = sent[Len(rcvd) + i] /\ Ring[i] \in Values
  <2>1. Ring[i] = sent[Len(rcvd) + i]
    BY <1>1 DEF Ring, Positions
  <2>2. Len(rcvd) + i \in 1 .. Len(sent)
    BY <1>1 DEF TypeOK, Positions
  <2> QED
    BY <2>1, <2>2 DEF TypeOK
<1>2. Ring \in [1 .. size -> Values]
  BY <1>1 DEF Ring
<1> QED
  BY <1>1, <1>2, CapPositive DEF TypeOK, RingHolds

(* The index form of the ring is the sequence form. *)
LEMMA PositionsFifo ==
    ASSUME TypeOK, Positions
    PROVE  FifoDelivery
<1>1. Ring \in Seq(Values) /\ Len(Ring) = size
  BY RingSequence DEF RingHolds
<1>2. Len(rcvd \o Ring) = Len(sent) /\ rcvd \o Ring \in Seq(Values)
  BY <1>1 DEF TypeOK, Positions
<1>3. ASSUME NEW i \in 1 .. Len(sent)
      PROVE  sent[i] = (rcvd \o Ring)[i]
  <2>1. CASE i \in 1 .. Len(rcvd)
    BY <1>1, <2>1 DEF TypeOK, Positions
  <2>2. CASE i \notin 1 .. Len(rcvd)
    <3>1. i - Len(rcvd) \in 1 .. size
      BY <1>3, <2>2 DEF TypeOK, Positions
    <3>2. (rcvd \o Ring)[i] = Ring[i - Len(rcvd)]
      BY <1>1, <1>3, <2>2 DEF TypeOK, Positions
    <3>3. Ring[i - Len(rcvd)] = sent[Len(rcvd) + (i - Len(rcvd))]
      BY <3>1 DEF Ring, Positions
    <3> QED
      BY <3>2, <3>3 DEF TypeOK
  <2> QED
    BY <2>1, <2>2
<1> QED
  BY <1>2, <1>3, SeqEqual DEF FifoDelivery, TypeOK

-----------------------------------------------------------------------------
LEMMA Invariance == Spec => []IInv
<1>1. Init => IInv
  BY InitIInv
<1>2. IInv /\ [Next]_vars => IInv'
  BY IInvStep
<1> QED
  BY <1>1, <1>2, PTL DEF Spec

(* The channel's variables keep their types. *)
THEOREM ChanTypeCorrect == Spec => []TypeOK
<1>1. IInv => TypeOK
  BY DEF IInv
<1> QED
  BY <1>1, Invariance, PTL

(* chan_send and chan_recv: elements come out in the order they went in,   *)
(* none lost, repeated or overwritten, over every wrap of the ring.        *)
THEOREM ChanFifo == Spec => []FifoDelivery
<1>1. IInv => FifoDelivery
  BY PositionsFifo DEF IInv
<1> QED
  BY <1>1, Invariance, PTL

(* chan_close and chan_free: nobody is asleep on a closed channel. *)
THEOREM ChanCloseWakesAll == Spec => []NobodySleepsOnClosed
<1>1. IInv => NobodySleepsOnClosed
  BY DEF IInv
<1> QED
  BY <1>1, Invariance, PTL

(* chan_recv: once it has reported the end, every element sent was         *)
(* delivered and none will be.                                             *)
THEOREM ChanEndIsFinal == Spec => []EndMeansDrained
<1>1. ASSUME IInv PROVE EndMeansDrained
  <2>1. CASE drained
    <3>1. closed /\ size = 0 /\ Len(sent) = Len(rcvd)
      BY <1>1, <2>1 DEF IInv, TypeOK, Positions
    <3>2. rcvd = sent
      BY <1>1, <3>1 DEF IInv, TypeOK, Positions
    <3> QED
      BY <3>1, <3>2 DEF EndMeansDrained
  <2> QED
    BY <2>1 DEF EndMeansDrained
<1> QED
  BY <1>1, Invariance, PTL

-----------------------------------------------------------------------------
(* The refinement: a send that puts is Accept, a receive that takes is     *)
(* Deliver, close and free close, and everything else is a stutter.        *)
LEMMA PutAccepts ==
    ASSUME TypeOK, Positions, RingHolds, RingHolds',
           NEW t \in Threads, SendPut(t), arg[t] \in Values
    PROVE  Abs!Accept(arg[t])
<1>1. /\ sent' = Append(sent, arg[t]) /\ rcvd' = rcvd /\ size' = size + 1
      /\ ~closed /\ closed' = closed /\ size < Cap
  BY CapPositive DEF SendPut, Put, TypeOK
<1>2. Ring' = Append(Ring, arg[t])
  <2>1. /\ Ring' \in Seq(Values) /\ Append(Ring, arg[t]) \in Seq(Values)
        /\ Len(Ring') = size + 1 /\ Len(Append(Ring, arg[t])) = size + 1
    BY <1>1 DEF RingHolds
  <2>2. ASSUME NEW i \in 1 .. size + 1 PROVE Ring'[i] = Append(Ring, arg[t])[i]
    <3>1. Ring'[i] = sent'[Len(rcvd) + i]
      BY <1>1, <2>2 DEF RingHolds
    <3>2. CASE i = size + 1
      <4>1. Len(rcvd) + i = Len(sent) + 1
        BY <3>2 DEF Positions, TypeOK
      <4> QED
        BY <1>1, <3>1, <3>2, <4>1 DEF RingHolds, TypeOK
    <3>3. CASE i # size + 1
      <4>1. i \in 1 .. size /\ Len(rcvd) + i \in 1 .. Len(sent)
        BY <2>2, <3>3 DEF Positions, TypeOK
      <4>2. Ring[i] = sent[Len(rcvd) + i]
        BY <4>1 DEF RingHolds
      <4>3. sent'[Len(rcvd) + i] = sent[Len(rcvd) + i]
        BY <1>1, <4>1 DEF TypeOK
      <4>4. Append(Ring, arg[t])[i] = Ring[i]
        BY <4>1 DEF RingHolds
      <4> QED
        BY <3>1, <4>2, <4>3, <4>4
    <3> QED
      BY <3>2, <3>3
  <2> QED
    BY <2>1, <2>2, SeqEqual
<1> QED
  BY <1>1, <1>2 DEF Abs!Accept, RingHolds

LEMMA TakeDelivers ==
    ASSUME TypeOK, Positions, RingHolds, RingHolds', NEW t \in Threads, RecvTake(t)
    PROVE  Abs!Deliver
<1>1. /\ sent' = sent /\ rcvd' = Append(rcvd, buffer[head]) /\ size' = size - 1
      /\ closed' = closed /\ size \in Nat \ {0} /\ buffer[head] \in Values
  BY HeadCell DEF RecvTake, TypeOK
<1>2. Ring # <<>> /\ Head(Ring) = buffer[head]
  <2>1. Ring[1] = sent[Len(rcvd) + 1]
    BY <1>1 DEF RingHolds
  <2> QED
    BY <1>1, <2>1, HeadCell DEF RingHolds
<1>3. Ring' = Tail(Ring)
  <2>1. /\ Ring' \in Seq(Values) /\ Tail(Ring) \in Seq(Values)
        /\ Len(Ring') = size - 1 /\ Len(Tail(Ring)) = size - 1
    BY <1>1, <1>2 DEF RingHolds
  <2>2. ASSUME NEW i \in 1 .. size - 1 PROVE Ring'[i] = Tail(Ring)[i]
    <3>1. Ring'[i] = sent[Len(rcvd') + i] /\ Len(rcvd') = Len(rcvd) + 1
      BY <1>1, <2>2 DEF RingHolds, TypeOK
    <3>2. Tail(Ring)[i] = Ring[i + 1] /\ i + 1 \in 1 .. size
      BY <1>1, <1>2, <2>2 DEF RingHolds
    <3>3. Len(rcvd') + i = Len(rcvd) + (i + 1)
      BY <3>1 DEF TypeOK
    <3> QED
      BY <3>1, <3>2, <3>3 DEF RingHolds
  <2> QED
    BY <2>1, <2>2, SeqEqual
<1> QED
  BY <1>1, <1>2, <1>3 DEF Abs!Deliver

LEMMA StepSimulates ==
    ASSUME IInv, RingHolds, RingHolds', [Next]_vars
    PROVE  [Abs!Next]_(Abs!vars)
<1> USE DEF IInv
<1>1. ASSUME NEW t \in Threads, SendPut(t) PROVE Abs!Next
  <2>1. arg[t] \in Values
    BY <1>1 DEF SendPut, SendRuns, SendersCarry, SendStates
  <2> QED
    BY <1>1, <2>1, PutAccepts DEF Abs!Next
<1>2. ASSUME NEW t \in Threads, RecvTake(t) PROVE Abs!Next
  BY <1>2, TakeDelivers DEF Abs!Next
<1>3. ASSUME NEW t \in Threads, Close(t) \/ FreeClose(t) PROVE Abs!Next
  BY <1>3 DEF Close, FreeClose, hist, Ring, Abs!Next, Abs!Close
<1>4. ASSUME NEW t \in Threads,
             \/ \E v \in Values : CallSend(t, v)
             \/ SendPark(t) \/ SendClosed(t) \/ CallRecv(t)
             \/ RecvPark(t) \/ RecvClosed(t) \/ SpuriousWake(t)
      PROVE  UNCHANGED Abs!vars
  BY <1>4 DEF CallSend, SendPark, SendClosed, CallRecv, RecvPark, RecvClosed,
              SpuriousWake, chan, hist, Ring, Abs!vars
<1>5. ASSUME FreeDestroy \/ UNCHANGED vars PROVE UNCHANGED Abs!vars
  BY <1>5 DEF FreeDestroy, vars, chan, hist, Ring, Abs!vars
<1> QED
  BY <1>1, <1>2, <1>3, <1>4, <1>5 DEF Next

(* The ring with its mutex and condition variables implements the bounded  *)
(* closable FIFO: callers need know nothing but ChanSpec.                  *)
THEOREM ChanImplementsFifo == Spec => ImplementsFifo
<1>1. Init => Abs!Init
  <2>1. ASSUME Init PROVE Ring = <<>>
    BY <2>1 DEF Init, Ring
  <2> QED
    BY <2>1 DEF Init, Abs!Init
<1>2. IInv => RingHolds
  BY RingSequence DEF IInv
<1>3. IInv /\ RingHolds /\ RingHolds' /\ [Next]_vars => [Abs!Next]_(Abs!vars)
  BY StepSimulates
<1> QED
  BY <1>1, <1>2, <1>3, Invariance, PTL DEF Spec, ImplementsFifo, Abs!Spec

-----------------------------------------------------------------------------
(* Counting threads: how the number of threads in one state can change. *)
LEMMA InFinite ==
    ASSUME NEW s
    PROVE  IsFiniteSet(In(s)) /\ Cardinality(In(s)) \in Nat
           /\ IsFiniteSet(In(s)') /\ Cardinality(In(s)') \in Nat
<1>1. In(s) \subseteq Threads /\ In(s)' \subseteq Threads
  BY DEF In
<1> QED
  BY <1>1, FilumAssumption, FS_Subset, FS_CardinalityType

LEMMA CountKept ==
    ASSUME NEW s, \A u \in Threads : at[u] = s => at'[u] = s
    PROVE  Cardinality(In(s)') >= Cardinality(In(s))
<1>1. In(s) \subseteq In(s)'
  BY DEF In
<1> QED
  BY <1>1, InFinite, FS_Subset

LEMMA CountGrows ==
    ASSUME NEW s, NEW t \in Threads, at[t] # s, at'[t] = s,
           \A u \in Threads : at[u] = s => at'[u] = s
    PROVE  Cardinality(In(s)') >= Cardinality(In(s)) + 1
<1>1. In(s) \union {t} \subseteq In(s)' /\ t \notin In(s)
  BY DEF In
<1>2. Cardinality(In(s) \union {t}) = Cardinality(In(s)) + 1
  BY <1>1, InFinite, FS_AddElement
<1>3. Cardinality(In(s) \union {t}) <= Cardinality(In(s)')
  BY <1>1, InFinite, FS_Subset
<1> QED
  BY <1>2, <1>3, InFinite

LEMMA CountLosesOne ==
    ASSUME NEW s, NEW t \in Threads,
           \A u \in Threads \ {t} : at[u] = s => at'[u] = s
    PROVE  Cardinality(In(s)') >= Cardinality(In(s)) - 1
<1>1. In(s) \ {t} \subseteq In(s)'
  BY DEF In
<1>2. Cardinality(In(s) \ {t}) >= Cardinality(In(s)) - 1 /\ Cardinality(In(s) \ {t}) \in Nat
  <2>1. /\ IsFiniteSet(In(s) \ {t})
        /\ Cardinality(In(s) \ {t}) = IF t \in In(s) THEN Cardinality(In(s)) - 1 ELSE Cardinality(In(s))
    BY InFinite, FS_RemoveElement
  <2>2. Cardinality(In(s) \ {t}) \in Nat
    BY <2>1, FS_CardinalityType
  <2>3. Cardinality(In(s)) \in Nat
    BY InFinite
  <2> QED
    BY <2>1, <2>2, <2>3
<1>3. Cardinality(In(s) \ {t}) <= Cardinality(In(s)')
  BY <1>1, InFinite, FS_Subset
<1> QED
  BY <1>2, <1>3, InFinite

(* The two halves of NoLostWakeup. *)
ReceiversAwake == In("recvParked") # {} => Cardinality(In("recvWoken")) >= size
SendersAwake == In("sendParked") # {} => Cardinality(In("sendWoken")) >= Cap - size

(* A put adds an element, and wakes one more receiver if one sleeps. *)
LEMMA PutAwake ==
    ASSUME IInv, ReceiversAwake, SendersAwake, NEW t \in Threads, SendPut(t)
    PROVE  ReceiversAwake' /\ SendersAwake'
<1> USE CapPositive DEF IInv
<1>1. size' = size + 1 /\ at[t] \in {"send", "sendWoken"} /\ size \in Nat /\ size' <= Cap
  BY DEF SendPut, Put, SendRuns, TypeOK
<1>2. ReceiversAwake'
  <2>1. CASE In("recvParked") = {}
    <3>1. at' = [at EXCEPT ![t] = "idle"]
      BY <2>1 DEF SendPut, Put, Signal
    <3>2. In("recvParked")' = {}
      BY <2>1, <3>1 DEF In, TypeOK
    <3> QED
      BY <3>2 DEF ReceiversAwake
  <2>2. CASE In("recvParked") # {}
    <3>1. PICK w \in In("recvParked") : at' = [[at EXCEPT ![t] = "idle"] EXCEPT ![w] = "recvWoken"]
      BY <2>2 DEF SendPut, Put, Signal
    <3>2. w \in Threads /\ at[w] = "recvParked" /\ at'[w] = "recvWoken" /\ w # t
      BY <1>1, <3>1 DEF In, TypeOK
    <3>3. \A u \in Threads : at[u] = "recvWoken" => at'[u] = "recvWoken"
      BY <1>1, <3>1 DEF TypeOK
    <3>4. Cardinality(In("recvWoken")') >= Cardinality(In("recvWoken")) + 1
      BY <3>2, <3>3, CountGrows
    <3> QED
      BY <1>1, <2>2, <3>4, InFinite DEF ReceiversAwake
  <2> QED
    BY <2>1, <2>2
<1>3. SendersAwake'
  <2>1. /\ at' \in [Threads -> States]
        /\ \A u \in Threads : \/ at'[u] = at[u]
                              \/ u = t /\ at'[u] = "idle"
                              \/ u # t /\ at[u] = "recvParked" /\ at'[u] = "recvWoken"
    BY <1>1, SignalEffect DEF SendPut, Put, TypeOK
  <2>2. \A u \in Threads : at'[u] = "sendParked" => at[u] = "sendParked"
    BY <2>1
  <2>3. Cardinality(In("sendWoken")') >= Cardinality(In("sendWoken")) - 1
    <3>1. \A u \in Threads \ {t} : at[u] = "sendWoken" => at'[u] = "sendWoken"
      BY <2>1
    <3> QED
      BY <3>1, CountLosesOne
  <2>4. In("sendParked")' # {} => In("sendParked") # {}
    BY <2>2 DEF In
  <2> QED
    BY <1>1, <2>3, <2>4, InFinite DEF SendersAwake
<1> QED
  BY <1>2, <1>3

(* A take frees a cell, and wakes one more sender if one sleeps. *)
LEMMA TakeAwake ==
    ASSUME IInv, ReceiversAwake, SendersAwake, NEW t \in Threads, RecvTake(t)
    PROVE  ReceiversAwake' /\ SendersAwake'
<1> USE CapPositive DEF IInv
<1>1. size' = size - 1 /\ at[t] \in {"recv", "recvWoken"} /\ size \in 1 .. Cap
  BY DEF RecvTake, RecvRuns, TypeOK
<1>2. SendersAwake'
  <2>1. CASE In("sendParked") = {}
    <3>1. at' = [at EXCEPT ![t] = "idle"]
      BY <2>1 DEF RecvTake, Signal
    <3>2. In("sendParked")' = {}
      BY <2>1, <3>1 DEF In, TypeOK
    <3> QED
      BY <3>2 DEF SendersAwake
  <2>2. CASE In("sendParked") # {}
    <3>1. PICK w \in In("sendParked") : at' = [[at EXCEPT ![t] = "idle"] EXCEPT ![w] = "sendWoken"]
      BY <2>2 DEF RecvTake, Signal
    <3>2. w \in Threads /\ at[w] = "sendParked" /\ at'[w] = "sendWoken" /\ w # t
      BY <1>1, <3>1 DEF In, TypeOK
    <3>3. \A u \in Threads : at[u] = "sendWoken" => at'[u] = "sendWoken"
      BY <1>1, <3>1 DEF TypeOK
    <3>4. Cardinality(In("sendWoken")') >= Cardinality(In("sendWoken")) + 1
      BY <3>2, <3>3, CountGrows
    <3> QED
      BY <1>1, <2>2, <3>4, InFinite DEF SendersAwake
  <2> QED
    BY <2>1, <2>2
<1>3. ReceiversAwake'
  <2>1. /\ at' \in [Threads -> States]
        /\ \A u \in Threads : \/ at'[u] = at[u]
                              \/ u = t /\ at'[u] = "idle"
                              \/ u # t /\ at[u] = "sendParked" /\ at'[u] = "sendWoken"
    BY <1>1, SignalEffect DEF RecvTake, TypeOK
  <2>2. \A u \in Threads : at'[u] = "recvParked" => at[u] = "recvParked"
    BY <2>1
  <2>3. Cardinality(In("recvWoken")') >= Cardinality(In("recvWoken")) - 1
    <3>1. \A u \in Threads \ {t} : at[u] = "recvWoken" => at'[u] = "recvWoken"
      BY <2>1
    <3> QED
      BY <3>1, CountLosesOne
  <2>4. In("recvParked")' # {} => In("recvParked") # {}
    BY <2>2 DEF In
  <2> QED
    BY <1>1, <2>3, <2>4, InFinite DEF ReceiversAwake
<1> QED
  BY <1>2, <1>3

(* Every other step: a sleeper appears only when there is nothing for it,  *)
(* and no woken thread is lost while another sleeps on the same condition. *)
LEMMA OtherAwake ==
    ASSUME IInv, IInv', ReceiversAwake, SendersAwake, NEW t \in Threads,
           \/ \E v \in Values : CallSend(t, v)
           \/ SendPark(t) \/ SendClosed(t) \/ CallRecv(t)
           \/ RecvPark(t) \/ RecvClosed(t) \/ SpuriousWake(t)
           \/ Close(t) \/ FreeClose(t)
    PROVE  ReceiversAwake' /\ SendersAwake'
<1> USE CapPositive DEF IInv
<1>1. size' = size /\ size \in Nat
  BY DEF CallSend, SendPark, SendClosed, CallRecv, RecvPark, RecvClosed, SpuriousWake,
         Close, FreeClose, chan, hist, TypeOK
<1>2. CASE closed'
  BY <1>2 DEF NobodySleepsOnClosed, ReceiversAwake, SendersAwake
<1>3. CASE SendPark(t)
  <2>1. \A u \in Threads : /\ at[u] = "recvWoken" => at'[u] = "recvWoken"
                           /\ at'[u] = "recvParked" => at[u] = "recvParked"
    BY <1>3 DEF SendPark, SendRuns, TypeOK
  <2>2. Cardinality(In("recvWoken")') >= Cardinality(In("recvWoken"))
    BY <2>1, CountKept
  <2>3. size' = Cap
    BY <1>1, <1>3 DEF SendPark
  <2> QED
    <3>1. In("recvParked")' # {} => In("recvParked") # {}
      BY <2>1 DEF In
    <3>2. Cardinality(In("sendWoken")') >= 0
      BY InFinite
    <3> QED
      BY <1>1, <2>2, <2>3, <3>1, <3>2, InFinite DEF ReceiversAwake, SendersAwake
<1>4. CASE RecvPark(t)
  <2>1. \A u \in Threads : /\ at[u] = "sendWoken" => at'[u] = "sendWoken"
                           /\ at'[u] = "sendParked" => at[u] = "sendParked"
    BY <1>4 DEF RecvPark, RecvRuns, TypeOK
  <2>2. Cardinality(In("sendWoken")') >= Cardinality(In("sendWoken"))
    BY <2>1, CountKept
  <2>3. size' = 0
    BY <1>1, <1>4 DEF RecvPark
  <2> QED
    <3>1. In("sendParked")' # {} => In("sendParked") # {}
      BY <2>1 DEF In
    <3>2. Cardinality(In("recvWoken")') >= 0
      BY InFinite
    <3> QED
      BY <1>1, <2>2, <2>3, <3>1, <3>2, InFinite DEF ReceiversAwake, SendersAwake
<1>5. CASE ~closed' /\ \/ \E v \in Values : CallSend(t, v)
                       \/ CallRecv(t) \/ SpuriousWake(t)
  <2>1. \A u \in Threads : /\ at[u] = "sendWoken" => at'[u] = "sendWoken"
                           /\ at[u] = "recvWoken" => at'[u] = "recvWoken"
                           /\ at'[u] = "sendParked" => at[u] = "sendParked"
                           /\ at'[u] = "recvParked" => at[u] = "recvParked"
    BY <1>5 DEF CallSend, CallRecv, SpuriousWake, TypeOK
  <2>2. /\ Cardinality(In("sendWoken")') >= Cardinality(In("sendWoken"))
        /\ Cardinality(In("recvWoken")') >= Cardinality(In("recvWoken"))
    BY <2>1, CountKept
  <2>3. /\ In("sendParked")' # {} => In("sendParked") # {}
        /\ In("recvParked")' # {} => In("recvParked") # {}
    BY <2>1 DEF In
  <2> QED
    BY <1>1, <2>2, <2>3, InFinite DEF ReceiversAwake, SendersAwake
<1>6. ASSUME SendClosed(t) \/ RecvClosed(t) \/ Close(t) \/ FreeClose(t)
      PROVE  closed'
  BY <1>6 DEF SendClosed, RecvClosed, Close, FreeClose, chan
<1> QED
  BY <1>2, <1>3, <1>4, <1>5, <1>6

(* chan_send and chan_recv: no wake-up is lost, however the woken and the  *)
(* entering threads interleave.                                            *)
THEOREM ChanNoLostWakeup == Spec => []NoLostWakeup
<1>1. Init => ReceiversAwake /\ SendersAwake
  BY DEF Init, ReceiversAwake, SendersAwake, In
<1>2. ASSUME IInv, IInv', ReceiversAwake, SendersAwake, [Next]_vars
      PROVE  ReceiversAwake' /\ SendersAwake'
  <2>1. CASE FreeDestroy \/ UNCHANGED vars
    BY <1>2, <2>1 DEF FreeDestroy, vars, chan, hist, ReceiversAwake, SendersAwake, In
  <2> QED
    BY <1>2, <2>1, PutAwake, TakeAwake, OtherAwake DEF Next
<1>3. IInv /\ ReceiversAwake /\ SendersAwake => NoLostWakeup
  BY DEF ReceiversAwake, SendersAwake, NoLostWakeup
<1> QED
  BY <1>1, <1>2, <1>3, Invariance, PTL DEF Spec
=============================================================================
