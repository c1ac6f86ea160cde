------------------------------ MODULE ChanSpec ------------------------------
(***************************************************************************)
(* What a std.filum channel promises, without threads, ring or wake-ups: a *)
(* bounded FIFO that can be closed once.  A closed channel takes nothing   *)
(* more, and what was accepted before the close is still handed out, in    *)
(* the order it was accepted.  FilumChan is shown to implement this.       *)
(***************************************************************************)
EXTENDS Integers, Sequences

CONSTANTS Values,   \* the elements carried by the channel
          Cap       \* the number of elements that fit

VARIABLES queue,      \* accepted and not yet handed out
          closed,     \* the channel was closed
          delivered   \* handed out so far

vars == <<queue, closed, delivered>>

Init == queue = <<>> /\ closed = FALSE /\ delivered = <<>>

Accept(v) ==
    /\ ~closed
    /\ Len(queue) < Cap
    /\ queue' = Append(queue, v)
    /\ UNCHANGED <<closed, delivered>>

Deliver ==
    /\ queue # <<>>
    /\ delivered' = Append(delivered, Head(queue))
    /\ queue' = Tail(queue)
    /\ UNCHANGED closed

Close ==
    /\ closed' = TRUE
    /\ UNCHANGED <<queue, delivered>>

Next == (\E v \in Values : Accept(v)) \/ Deliver \/ Close

Spec == Init /\ [][Next]_vars
=============================================================================
