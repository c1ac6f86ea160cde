---------------------------- MODULE IntRegister ----------------------------
(***************************************************************************)
(* What std/filum.pengu promises of an AtomicInt: one int, wrapping at its *)
(* width, that every operation reads and writes in one step.  call is the  *)
(* last call: its operation, its arguments and what it returned.           *)
(***************************************************************************)
EXTENDS Integers

CONSTANTS Half,     \* half the number of its values: 2^(w-1) for a width of w bits
          Initial

VARIABLES value, call

Ints == -Half .. Half - 1
Wrap(n) == ((n + Half) % (2 * Half)) - Half

Init == value = Initial /\ call = <<"new", Initial>>

Load == value' = value /\ call' = <<"load", value>>
Store(n) == value' = n /\ call' = <<"store", n>>
Add(d) == value' = Wrap(value + d) /\ call' = <<"add", d, value>>
AddAndGet(d) == value' = Wrap(value + d) /\ call' = <<"add_and_get", d, value'>>
Swap(n) == value' = n /\ call' = <<"swap", n, value>>
CompareSwap(old, new) ==
    /\ value' = IF value = old THEN new ELSE value
    /\ call' = <<"compare_swap", old, new, value = old>>

Next ==
    \/ Load
    \/ \E n \in Ints :
        \/ Store(n) \/ Add(n) \/ AddAndGet(n) \/ Swap(n)
        \/ \E old \in Ints : CompareSwap(old, n)

Spec == Init /\ [][Next]_<<value, call>>
=============================================================================
