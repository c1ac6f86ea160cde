--------------------------- MODULE FilumAtomicInt ---------------------------
(***************************************************************************)
(* The AtomicInt of std.filum: PenguNativeAtomicInt of                     *)
(* pengu_parser/pengu_runtime.c keeps a long, the API passes ints, and     *)
(* std/filum.pengu computes the new value of inc, dec and sub itself from  *)
(* the old value that the native add returned (arithmetic of the calling   *)
(* thread on its own copy, so one step with the native call).              *)
(*                                                                         *)
(* Widths are parameters: a long is as wide as an int on Windows and wider *)
(* on the other 64-bit targets.  A signed type of w bits is given by half  *)
(* the number of its values, 2^(w-1).                                      *)
(***************************************************************************)
EXTENDS Integers

CONSTANTS IntHalf,     \* INT_MAX + 1
          LongHalf,    \* LONG_MAX + 1
          Initial      \* the argument of atomic_int

Signed(half) == -half .. half - 1
Ints == Signed(IntHalf)
Longs == Signed(LongHalf)

ASSUME AtomicIntAssumption ==
    /\ IntHalf \in Nat \ {0}
    /\ LongHalf \in Nat
    /\ \E n \in 1 .. LongHalf : LongHalf = n * IntHalf
    /\ Initial \in Ints

VARIABLES val,      \* na->val
          call,     \* history: the last call, its arguments and its result
          wrapped   \* history: since the value was last written, the sum of an
                    \* addition was not an int

atomicVars == <<val, call, wrapped>>

\* a conversion to that signed type, as the compilers do it
Convert(n, half) == ((n + half) % (2 * half)) - half
ToInt(n) == Convert(n, IntHalf)
ToLong(n) == Convert(n, LongHalf)

AtomicInit ==
    /\ val = Initial
    /\ call = <<"new", Initial>>
    /\ wrapped = FALSE

-----------------------------------------------------------------------------
Load ==
    /\ call' = <<"load", ToInt(val)>>
    /\ UNCHANGED <<val, wrapped>>

\* BUG: the int is written over the low half of the long
StoreLow(n) ==
    /\ val' = val - ToInt(val) + n
    /\ call' = <<"store", n>>
    /\ wrapped' = FALSE

Store(n) ==
    /\ val' = n
    /\ call' = <<"store", n>>
    /\ wrapped' = FALSE

\* the sum, as a long, in place
AddTo(d) ==
    /\ val' = ToLong(val + d)
    /\ wrapped' = (wrapped \/ ToInt(val) + d \notin Ints)

\* InterlockedExchangeAdd, atomic_fetch_add: the old value, as an int
FetchAdd(d) ==
    /\ AddTo(d)
    /\ call' = <<"add", d, ToInt(val)>>

\* inc, dec, sub_atomic: an add, then old + d in the caller
AddAndGet(d) ==
    /\ AddTo(d)
    /\ call' = <<"add_and_get", d, ToInt(ToInt(val) + d)>>

Swap(n) ==
    /\ val' = n
    /\ call' = <<"swap", n, ToInt(val)>>
    /\ wrapped' = FALSE

\* the comparison is between longs: the value is not converted first
CompareSwap(old, new) ==
    /\ val' = IF val = old THEN new ELSE val
    /\ wrapped' = (wrapped /\ val # old)
    /\ call' = <<"compare_swap", old, new, val = old>>

AtomicNext ==
    \/ Load
    \/ \E n \in Ints : Store(n) \/ FetchAdd(n) \/ AddAndGet(n) \/ Swap(n)
    \/ \E old, new \in Ints : CompareSwap(old, new)

AtomicSpec == AtomicInit /\ [][AtomicNext]_atomicVars

-----------------------------------------------------------------------------
(* The variable stays a long.  Whether callers can take it for the int     *)
(* that the API speaks of is RegisterButForRefusals' question.             *)
AtomicTypeOK ==
    /\ val \in Longs
    /\ call[1] \in {"new", "load", "store", "add", "add_and_get", "swap", "compare_swap"}
    /\ wrapped \in BOOLEAN

Register == INSTANCE IntRegister WITH value <- ToInt(val), Half <- IntHalf

(* A compare_swap that changes nothing although load would return old,     *)
(* after an addition passed the width of an int.                           *)
RefusesAfterWrap ==
    /\ wrapped
    /\ \E old, new \in Ints : CompareSwap(old, new) /\ ToInt(val) = old /\ ~call'[4]

(* std.filum's AtomicInt is one int: "Atomically ... returns ...", "Sets   *)
(* the value to new_val only when it currently equals old_val; true when   *)
(* replaced" (std/filum.pengu:417).  On a long wider than an int every     *)
(* call, in any sequence and overflow included, does to the value and      *)
(* answers what the one int would (pengu_runtime.c 396-435), with one      *)
(* exception: from an addition that passes the width of an int until the   *)
(* value is next written, a compare_swap may refuse the value that load    *)
(* returns, since line 443 compares the bits that load drops.              *)
RegisterButForRefusals ==
    Register!Init /\ [][Register!Next \/ RefusesAfterWrap]_atomicVars
=============================================================================
