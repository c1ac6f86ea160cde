------------------------------ MODULE MapSpec ------------------------------
(***************************************************************************)
(* What a `map of K to V` promises to the program that uses it: a partial  *)
(* function from keys to values with put, get, remove and clear.  `answer` *)
(* is the last call that returned, with what it returned.  A put may be    *)
(* refused (the table cannot grow, or there is no memory), and then the    *)
(* map is what it was.  PenguMap implements this.                          *)
(***************************************************************************)
CONSTANTS Keys, Values, None

VARIABLES map, answer

vars == <<map, answer>>

Empty == [k \in Keys |-> None]

Init == map = Empty /\ answer = <<"new", None, None>>

Put(k, v) ==
  \/ /\ map' = [map EXCEPT ![k] = v]
     /\ answer' = <<"put", k, v>>
  \/ /\ map' = map
     /\ answer' = <<"refused", k, v>>

Get(k) ==
  /\ map' = map
  /\ answer' = <<"get", k, map[k]>>

Remove(k) ==
  /\ map' = [map EXCEPT ![k] = None]
  /\ answer' = <<IF map[k] = None THEN "absent" ELSE "removed", k, None>>

Clear ==
  /\ map' = Empty
  /\ answer' = <<"cleared", None, None>>

Next ==
  \/ \E k \in Keys : Get(k) \/ Remove(k) \/ \E v \in Values : Put(k, v)
  \/ Clear

Spec == Init /\ [][Next]_vars
=============================================================================
