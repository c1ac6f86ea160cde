----------------------------- MODULE MCPenguMap -----------------------------
EXTENDS PenguMap, TLC

CONSTANTS k1, k2, k3, v1, v2

MCKeys == {k1, k2, k3}

\* k1 and k2 collide in every table, k3 has its home right after theirs in a
\* table of 4 slots.
MCHash == (k1 :> 1) @@ (k2 :> 9) @@ (k3 :> 6)

\* No action tells one value from another.
MCSymmetry == Permutations({v1, v2})

=============================================================================
