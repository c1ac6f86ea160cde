---------------------------- MODULE MCFilumChan ----------------------------
(* Instances of FilumChan for TLC: three threads are enough for a woken    *)
(* thread to be overtaken by an entering one while a third sleeps.         *)
EXTENDS FilumChan, TLC

Symmetry == Permutations(Threads)
=============================================================================
