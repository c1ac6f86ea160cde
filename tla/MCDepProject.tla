---------------------------- MODULE MCDepProject ----------------------------
(* Instances of DepProject for TLC: three packages and the manifests they  *)
(* may carry.                                                              *)
EXTENDS DepProject

CONSTANTS a, b, c

Dep(n, want) == [name |-> n, want |-> want]
Empty == [v \in Versions |-> <<>>]
World(wa, wb, wc) == [n \in {a, b, c} |-> IF n = a THEN wa ELSE IF n = b THEN wb ELSE wc]
Same(deps) == [v \in Versions |-> deps]

\* two packages that disagree about a third from their second version on
Diamond == World([v \in Versions |-> <<Dep(b, Any), Dep(c, {1})>>],
                 [v \in Versions |-> <<Dep(c, IF v = 1 THEN Any ELSE {2})>>], Empty)
\* a cycle, with a constraint on the way back
Cycle == World(Same(<<Dep(b, Any)>>), Same(<<Dep(c, Any), Dep(a, {2})>>), Same(<<Dep(b, {1})>>))
\* a dependency that appears with a new version
Grows == World([v \in Versions |-> IF v = 1 THEN <<>> ELSE <<Dep(b, {2}), Dep(a, Any)>>],
               Same(<<Dep(c, {1})>>), Empty)

AllWorlds == {Diamond, Cycle, Grows}
AllConstraints == {Any, {1}, {2}, {1, 2}}
=============================================================================
