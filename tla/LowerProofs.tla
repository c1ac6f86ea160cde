----------------------------- MODULE LowerProofs -----------------------------
(***************************************************************************)
(* Theorems about Lower, for every program, nesting and outcome of tests:  *)
(* what the C of a weave does is what the weave means, as far as its       *)
(* defers, its errdefers or the lists of its loops go.                     *)
(*                                                                         *)
(* The invariant has two parts.  Struct: the four stacks of the generator  *)
(* mirror the blocks that are open.  Sem: what an open block means and     *)
(* what its C does end in the same ways, and show the same, when each way  *)
(* out is followed by what the blocks around still run on it; the context  *)
(* of a block gives that for every way out.  So a jump is right when the   *)
(* cleanups it has written are those its context still owes, which is what *)
(* the stacks are for; a block that closes settles its own part; and when  *)
(* the weave is closed nothing is owed any more.                           *)
(*                                                                         *)
(* Loops, traces and the stacks are walked by recursive functions: those   *)
(* exist by RecursionExists, and induction is the order of Nat (WFMin).    *)
(***************************************************************************)
EXTENDS Lower, SequenceTheorems, WellFoundedInduction, TLAPS

-----------------------------------------------------------------------------
(* Numbers and functions defined by recursion on them.                     *)

(* A set that holds 0 and every successor of its members up to n holds all  *)
(* numbers up to n.                                                        *)
LEMMA UpTo ==
  ASSUME NEW n \in Nat, NEW S, 0 \in S, \A k \in 1 .. n : k - 1 \in S => k \in S
  PROVE  \A k \in 0 .. n : k \in S
<1> DEFINE R == {ss \in Nat \X Nat : ss[1] < ss[2]}
           T == {k \in 0 .. n : k \notin S}
<1>1. IsWellFoundedOn(R, Nat)
  BY NatLessThanWellFounded DEF OpToRel
<1>2. \A m, k \in Nat : <<m, k>> \in R <=> m < k
  OBVIOUS
<1> HIDE DEF R
<1>3. SUFFICES ASSUME T # {} PROVE FALSE
  OBVIOUS
<1>4. T \in SUBSET Nat
  OBVIOUS
<1> HIDE DEF T
<1>5. PICK k \in T : \A m \in T : ~(<<m, k>> \in R)
  BY <1>1, <1>3, <1>4, WFMin, Zenon
<1>6. k \in 0 .. n /\ k \notin S
  BY <1>5 DEF T
<1>7. k # 0 /\ k - 1 \in 0 .. n /\ k - 1 < k /\ k - 1 \in Nat /\ k \in 1 .. n
  BY <1>6
<1>8. k - 1 \notin T
  BY <1>2, <1>4, <1>5, <1>7
<1> QED BY <1>6, <1>7, <1>8 DEF T

(* A function on 0 .. n whose values follow from one another exists, and     *)
(* they are where the steps lead.                                          *)
Follows(f, n, a, step) == f[0] = a /\ \A k \in 1 .. n : f[k] = step[k][f[k - 1]]

LEMMA RecursionExists ==
  ASSUME NEW n \in Nat, NEW S, NEW a \in S, NEW step \in [1 .. n -> [S -> S]]
  PROVE  \E f \in [0 .. n -> S] : Follows(f, n, a, step)
<1> DEFINE Good(m, h) == h[0] = a /\ \A k \in 1 .. m : h[k] = step[k][h[k - 1]]
           G == {m \in 0 .. n : \E h \in [0 .. m -> S] : Good(m, h)}
<1>1. 0 \in G
  <2>1. [k \in 0 .. 0 |-> a] \in [0 .. 0 -> S] /\ Good(0, [k \in 0 .. 0 |-> a])
    OBVIOUS
  <2> HIDE DEF Good
  <2>2. \E f \in [0 .. 0 -> S] : Good(0, f)
    BY <2>1
  <2> QED BY <2>2
<1>2. ASSUME NEW m \in 1 .. n, m - 1 \in G PROVE m \in G
  <2>1. PICK f \in [0 .. m - 1 -> S] : Good(m - 1, f)
    BY <1>2
  <2> DEFINE g == [k \in 0 .. m |-> IF k = m THEN step[m][f[m - 1]] ELSE f[k]]
  <2>2. f[m - 1] \in S /\ step[m] \in [S -> S]
    OBVIOUS
  <2>3. g \in [0 .. m -> S]
    BY <2>2
  <2>4. g[0] = a
    BY <2>1
  <2>5. ASSUME NEW k \in 1 .. m PROVE g[k] = step[k][g[k - 1]]
    <3>1. k - 1 \in 0 .. m /\ k - 1 # m /\ g[k - 1] = f[k - 1]
      OBVIOUS
    <3>2. CASE k = m
      BY <3>1, <3>2
    <3>3. CASE k # m
      <4>1. k \in 1 .. m - 1 /\ g[k] = f[k]
        BY <3>3
      <4> QED BY <4>1, <3>1, <2>1
    <3> QED BY <3>2, <3>3
  <2> HIDE DEF g
  <2>6. Good(m, g)
    BY <2>4, <2>5
  <2> HIDE DEF Good
  <2>7. \E h \in [0 .. m -> S] : Good(m, h)
    BY <2>3, <2>6
  <2> QED BY <2>7
<1> HIDE DEF G, Good
<1>3. \A m \in 0 .. n : m \in G
  BY <1>1, <1>2, UpTo
<1>4. n \in G
  BY <1>3
<1>5. \E f \in [0 .. n -> S] : Good(n, f)
  BY <1>4 DEF G
<1> QED BY <1>5 DEF Good, Follows

(* A function whose values follow from one another stays where they lead.  *)
LEMMA RecursionStays ==
  ASSUME NEW n \in Nat, NEW S, NEW f, f = [k \in 0 .. n |-> f[k]], f[0] \in S,
         \A k \in 1 .. n : f[k - 1] \in S => f[k] \in S
  PROVE  f \in [0 .. n -> S]
<1> DEFINE T == {k \in 0 .. n : f[k] \in S}
<1>1. 0 \in T
  OBVIOUS
<1>2. \A k \in 1 .. n : k - 1 \in T => k \in T
  OBVIOUS
<1> HIDE DEF T
<1>3. \A k \in 0 .. n : k \in T
  BY <1>1, <1>2, UpTo
<1>4. \A k \in 0 .. n : f[k] \in S
  BY <1>3 DEF T
<1> QED BY <1>4

-----------------------------------------------------------------------------
(* What happens on a trace: what, and the number that stands for it.       *)
Ev == {"act", "test", "value", "pop", "defer", "errdefer", "release"} \X Nat

(* Downward: from the top of the pieces down to the one above a. *)
DownwardBy(f, pieces, a) ==
  \A k \in 0 .. Len(pieces) :
    f[k] = IF k <= a THEN <<>> ELSE pieces[k] \o f[k - 1]

LEMMA DownwardIs ==
  ASSUME NEW pieces \in Seq(Seq(Ev)), NEW a \in Nat
  PROVE  \E down \in [0 .. Len(pieces) -> Seq(Ev)] :
           /\ Downward(pieces, a) = down[Len(pieces)]
           /\ DownwardBy(down, pieces, a)
<1> DEFINE n == Len(pieces)
           Is(g) == g = [k \in 0 .. n |-> IF k <= a THEN <<>> ELSE pieces[k] \o g[k - 1]]
           D == CHOOSE g : Is(g)
           step == [k \in 1 .. n |-> [s \in Seq(Ev) |-> (IF k <= a THEN <<>> ELSE pieces[k] \o s)]]
<1>1. Downward(pieces, a) = D[n]
  BY DEF Downward
<1>2. n \in Nat /\ <<>> \in Seq(Ev)
  OBVIOUS
<1>3. \A k \in 1 .. n : \A s \in Seq(Ev) : (IF k <= a THEN <<>> ELSE pieces[k] \o s) \in Seq(Ev)
  <2>1. \A k \in 1 .. n : pieces[k] \in Seq(Ev)
    OBVIOUS
  <2> QED BY <2>1, <1>2
<1>4. step \in [1 .. n -> [Seq(Ev) -> Seq(Ev)]]
  BY <1>3
<1> HIDE DEF step
<1>5. PICK f \in [0 .. n -> Seq(Ev)] : Follows(f, n, <<>>, step)
  BY <1>2, <1>4, RecursionExists
<1>6. ASSUME NEW k \in 0 .. n PROVE f[k] = IF k <= a THEN <<>> ELSE pieces[k] \o f[k - 1]
  <2>1. CASE k = 0
    BY <1>5, <2>1 DEF Follows
  <2>2. CASE k # 0
    <3>1. k \in 1 .. n /\ k - 1 \in 0 .. n
      BY <2>2
    <3> QED BY <1>5, <3>1 DEF step, Follows
  <2> QED BY <2>1, <2>2
<1>7. Is(f)
  BY <1>6
<1>8. D = [k \in 0 .. n |-> IF k <= a THEN <<>> ELSE pieces[k] \o D[k - 1]]
  BY <1>7
<1> HIDE DEF D
<1>9. \A k \in 0 .. n : D[k] = IF k <= a THEN <<>> ELSE pieces[k] \o D[k - 1]
  BY <1>8
<1>10. D = [k \in 0 .. n |-> D[k]]
  BY <1>8
<1>11. D[0] \in Seq(Ev)
  <2>1. D[0] = <<>>
    BY <1>2, <1>9
  <2> QED BY <1>2, <2>1
<1>12. ASSUME NEW k \in 1 .. n, D[k - 1] \in Seq(Ev) PROVE D[k] \in Seq(Ev)
  <2>1. k \in 0 .. n /\ k # 0 /\ D[k - 1] \in Seq(Ev)
    BY <1>2, <1>12
  <2>2. (IF k <= a THEN <<>> ELSE pieces[k] \o D[k - 1]) \in Seq(Ev)
    BY <1>3, <2>1
  <2> QED BY <1>2, <1>9, <2>1, <2>2
<1>13. D \in [0 .. n -> Seq(Ev)]
  BY <1>2, <1>10, <1>11, <1>12, RecursionStays
<1>14. DownwardBy(D, pieces, a)
  BY <1>9 DEF DownwardBy
<1> QED BY <1>1, <1>13, <1>14

(* Upward: from the piece above a to the top. *)
UpwardBy(f, pieces, a) ==
  \A k \in 0 .. Len(pieces) :
    f[k] = IF k <= a THEN <<>> ELSE f[k - 1] \o pieces[k]

LEMMA UpwardIs ==
  ASSUME NEW pieces \in Seq(Seq(Ev)), NEW a \in Nat
  PROVE  \E up \in [0 .. Len(pieces) -> Seq(Ev)] :
           /\ Upward(pieces, a) = up[Len(pieces)]
           /\ UpwardBy(up, pieces, a)
<1> DEFINE n == Len(pieces)
           Is(g) == g = [k \in 0 .. n |-> IF k <= a THEN <<>> ELSE g[k - 1] \o pieces[k]]
           D == CHOOSE g : Is(g)
           step == [k \in 1 .. n |-> [s \in Seq(Ev) |-> (IF k <= a THEN <<>> ELSE s \o pieces[k])]]
<1>1. Upward(pieces, a) = D[n]
  BY DEF Upward
<1>2. n \in Nat /\ <<>> \in Seq(Ev)
  OBVIOUS
<1>3. \A k \in 1 .. n : \A s \in Seq(Ev) : (IF k <= a THEN <<>> ELSE s \o pieces[k]) \in Seq(Ev)
  <2>1. \A k \in 1 .. n : pieces[k] \in Seq(Ev)
    OBVIOUS
  <2> QED BY <2>1, <1>2
<1>4. step \in [1 .. n -> [Seq(Ev) -> Seq(Ev)]]
  BY <1>3
<1> HIDE DEF step
<1>5. PICK f \in [0 .. n -> Seq(Ev)] : Follows(f, n, <<>>, step)
  BY <1>2, <1>4, RecursionExists
<1>6. ASSUME NEW k \in 0 .. n PROVE f[k] = IF k <= a THEN <<>> ELSE f[k - 1] \o pieces[k]
  <2>1. CASE k = 0
    BY <1>5, <2>1 DEF Follows
  <2>2. CASE k # 0
    <3>1. k \in 1 .. n /\ k - 1 \in 0 .. n
      BY <2>2
    <3> QED BY <1>5, <3>1 DEF step, Follows
  <2> QED BY <2>1, <2>2
<1>7. Is(f)
  BY <1>6
<1>8. D = [k \in 0 .. n |-> IF k <= a THEN <<>> ELSE D[k - 1] \o pieces[k]]
  BY <1>7
<1> HIDE DEF D
<1>9. \A k \in 0 .. n : D[k] = IF k <= a THEN <<>> ELSE D[k - 1] \o pieces[k]
  BY <1>8
<1>10. D = [k \in 0 .. n |-> D[k]]
  BY <1>8
<1>11. D[0] \in Seq(Ev)
  <2>1. D[0] = <<>>
    BY <1>2, <1>9
  <2> QED BY <1>2, <2>1
<1>12. ASSUME NEW k \in 1 .. n, D[k - 1] \in Seq(Ev) PROVE D[k] \in Seq(Ev)
  <2>1. k \in 0 .. n /\ k # 0 /\ D[k - 1] \in Seq(Ev)
    BY <1>2, <1>12
  <2>2. (IF k <= a THEN <<>> ELSE D[k - 1] \o pieces[k]) \in Seq(Ev)
    BY <1>3, <2>1
  <2> QED BY <1>2, <1>9, <2>1, <2>2
<1>13. D \in [0 .. n -> Seq(Ev)]
  BY <1>2, <1>10, <1>11, <1>12, RecursionStays
<1>14. UpwardBy(D, pieces, a)
  BY <1>9 DEF UpwardBy
<1> QED BY <1>1, <1>13, <1>14

(* Keep: a longer and longer part of the trace. *)
KeepBy(f, tr, seen) ==
  \A k \in 0 .. Len(tr) :
    f[k] = IF k = 0 THEN <<>> ELSE IF tr[k] \in seen THEN Append(f[k - 1], tr[k]) ELSE f[k - 1]

LEMMA KeepIs ==
  ASSUME NEW tr \in Seq(Ev), NEW seen
  PROVE  \E kept \in [0 .. Len(tr) -> Seq(Ev)] :
           /\ Keep(tr, seen) = kept[Len(tr)]
           /\ KeepBy(kept, tr, seen)
<1> DEFINE n == Len(tr)
           Is(g) == g = [i \in 0 .. n |-> IF i = 0 THEN <<>>
                                        ELSE IF tr[i] \in seen THEN Append(g[i - 1], tr[i])
                                        ELSE g[i - 1]]
           D == CHOOSE g : Is(g)
           step == [k \in 1 .. n |-> [s \in Seq(Ev) |-> (IF tr[k] \in seen THEN Append(s, tr[k]) ELSE s)]]
<1>1. Keep(tr, seen) = D[n]
  BY DEF Keep
<1>2. n \in Nat /\ <<>> \in Seq(Ev)
  OBVIOUS
<1>3. \A k \in 1 .. n : \A s \in Seq(Ev) : (IF tr[k] \in seen THEN Append(s, tr[k]) ELSE s) \in Seq(Ev)
  <2>1. \A k \in 1 .. n : tr[k] \in Ev
    OBVIOUS
  <2> QED BY <2>1, <1>2
<1>4. step \in [1 .. n -> [Seq(Ev) -> Seq(Ev)]]
  BY <1>3
<1> HIDE DEF step
<1>5. PICK f \in [0 .. n -> Seq(Ev)] : Follows(f, n, <<>>, step)
  BY <1>2, <1>4, RecursionExists
<1>6. ASSUME NEW k \in 0 .. n
      PROVE  f[k] = IF k = 0 THEN <<>>
                    ELSE IF tr[k] \in seen THEN Append(f[k - 1], tr[k]) ELSE f[k - 1]
  <2>1. CASE k = 0
    BY <1>5, <2>1 DEF Follows
  <2>2. CASE k # 0
    <3>1. k \in 1 .. n /\ k - 1 \in 0 .. n
      BY <2>2
    <3> QED BY <1>5, <3>1 DEF step, Follows
  <2> QED BY <2>1, <2>2
<1>7. Is(f)
  BY <1>6
<1>8. D = [k \in 0 .. n |-> IF k = 0 THEN <<>>
                            ELSE IF tr[k] \in seen THEN Append(D[k - 1], tr[k]) ELSE D[k - 1]]
  BY <1>7
<1> HIDE DEF D
<1>9. \A k \in 0 .. n : D[k] = IF k = 0 THEN <<>>
                               ELSE IF tr[k] \in seen THEN Append(D[k - 1], tr[k]) ELSE D[k - 1]
  BY <1>8
<1>10. D = [k \in 0 .. n |-> D[k]]
  BY <1>8
<1>11. D[0] \in Seq(Ev)
  <2>1. D[0] = <<>>
    BY <1>2, <1>9
  <2> QED BY <1>2, <2>1
<1>12. ASSUME NEW k \in 1 .. n, D[k - 1] \in Seq(Ev) PROVE D[k] \in Seq(Ev)
  <2>1. k \in 0 .. n /\ k # 0 /\ D[k - 1] \in Seq(Ev)
    BY <1>2, <1>12
  <2>2. (IF tr[k] \in seen THEN Append(D[k - 1], tr[k]) ELSE D[k - 1]) \in Seq(Ev)
    BY <1>3, <2>1
  <2> QED BY <1>2, <1>9, <2>1, <2>2
<1>13. D \in [0 .. n -> Seq(Ev)]
  BY <1>2, <1>10, <1>11, <1>12, RecursionStays
<1>14. KeepBy(D, tr, seen)
  BY <1>9 DEF KeepBy
<1> QED BY <1>1, <1>13, <1>14

-----------------------------------------------------------------------------
(* What a view keeps of a trace.                                           *)

LEMMA KeepType ==
  ASSUME NEW tr \in Seq(Ev), NEW seen
  PROVE  Keep(tr, seen) \in Seq(Ev)
<1>1. PICK kept \in [0 .. Len(tr) -> Seq(Ev)] : Keep(tr, seen) = kept[Len(tr)]
  BY KeepIs
<1> QED BY <1>1

LEMMA KeepEmpty ==
  ASSUME NEW seen
  PROVE  Keep(<<>>, seen) = <<>>
<1>1. <<>> \in Seq(Ev)
  OBVIOUS
<1>2. PICK kept \in [0 .. Len(<<>>) -> Seq(Ev)] :
        Keep(<<>>, seen) = kept[Len(<<>>)] /\ KeepBy(kept, <<>>, seen)
  BY <1>1, KeepIs
<1> QED BY <1>2 DEF KeepBy

LEMMA AppendCat ==
  ASSUME NEW s \in Seq(Ev), NEW t \in Seq(Ev), NEW e \in Ev
  PROVE  Append(s \o t, e) = s \o Append(t, e)
OBVIOUS

(* It keeps of one trace after another what it keeps of each. *)
LEMMA KeepCat ==
  ASSUME NEW s \in Seq(Ev), NEW t \in Seq(Ev), NEW seen
  PROVE  Keep(s \o t, seen) = Keep(s, seen) \o Keep(t, seen)
<1> DEFINE m == Len(s)
           n == Len(t)
           u == s \o t
<1>1. /\ u \in Seq(Ev) /\ Len(u) = m + n /\ m \in Nat /\ n \in Nat
      /\ \A i \in 1 .. m : u[i] = s[i]
      /\ \A i \in 1 .. n : u[m + i] = t[i]
  OBVIOUS
<1>2. PICK f \in [0 .. m -> Seq(Ev)] :
        /\ Keep(s, seen) = f[m]
        /\ KeepBy(f, s, seen)
  BY KeepIs
<1>3. PICK g \in [0 .. n -> Seq(Ev)] :
        /\ Keep(t, seen) = g[n]
        /\ KeepBy(g, t, seen)
  BY KeepIs
<1>4. PICK h \in [0 .. Len(u) -> Seq(Ev)] :
        /\ Keep(u, seen) = h[Len(u)]
        /\ KeepBy(h, u, seen)
  BY <1>1, KeepIs
<1> HIDE DEF u
<1> DEFINE A == {i \in 0 .. m : h[i] = f[i]}
<1>5. 0 \in A
  <2>1. 0 \in 0 .. m /\ 0 \in 0 .. Len(u)
    BY <1>1
  <2>2. f[0] = <<>> /\ h[0] = <<>>
    BY <1>2, <1>4, <2>1 DEF KeepBy
  <2> QED BY <2>1, <2>2
<1>6. ASSUME NEW i \in 1 .. m, i - 1 \in A PROVE i \in A
  <2>1. i \in 0 .. m /\ i \in 0 .. Len(u) /\ i # 0 /\ u[i] = s[i] /\ h[i - 1] = f[i - 1]
    BY <1>1, <1>6
  <2>2. h[i] = IF s[i] \in seen THEN Append(h[i - 1], s[i]) ELSE h[i - 1]
    BY <1>4, <2>1 DEF KeepBy
  <2>3. f[i] = IF s[i] \in seen THEN Append(f[i - 1], s[i]) ELSE f[i - 1]
    BY <1>2, <2>1 DEF KeepBy
  <2> QED BY <2>1, <2>2, <2>3
<1> HIDE DEF A
<1>7. \A i \in 0 .. m : i \in A
  BY <1>1, <1>5, <1>6, UpTo
<1>8. h[m] = f[m] /\ f[m] \in Seq(Ev)
  BY <1>1, <1>2, <1>7 DEF A
<1> DEFINE B == {i \in 0 .. n : h[m + i] = f[m] \o g[i]}
<1>9. 0 \in B
  <2>1. g[0] = <<>> /\ h[m + 0] = f[m]
    BY <1>1, <1>3, <1>8 DEF KeepBy
  <2> QED BY <1>1, <1>8, <2>1
<1>10. ASSUME NEW i \in 1 .. n, i - 1 \in B PROVE i \in B
  <2>1. /\ i \in 0 .. n /\ m + i \in 0 .. Len(u) /\ i # 0 /\ m + i # 0
        /\ u[m + i] = t[i] /\ (m + i) - 1 = m + (i - 1) /\ i - 1 \in 0 .. n
    <3>1. m \in Nat /\ n \in Nat /\ i \in Nat /\ 1 <= i /\ i <= n /\ Len(u) = m + n
      BY <1>1
    <3>2. u[m + i] = t[i]
      BY <1>1
    <3> QED BY <3>1, <3>2
  <2>2. h[m + i] = IF t[i] \in seen THEN Append(h[m + (i - 1)], t[i]) ELSE h[m + (i - 1)]
    BY <1>4, <2>1 DEF KeepBy
  <2>3. g[i] = IF t[i] \in seen THEN Append(g[i - 1], t[i]) ELSE g[i - 1]
    BY <1>3, <2>1 DEF KeepBy
  <2>4. h[m + (i - 1)] = f[m] \o g[i - 1] /\ g[i - 1] \in Seq(Ev)
    BY <1>10, <1>3, <2>1
  <2>5. t[i] \in Ev
    BY <1>1
  <2>6. Append(f[m] \o g[i - 1], t[i]) = f[m] \o Append(g[i - 1], t[i])
    <3> DEFINE x == f[m]
               y == g[i - 1]
               z == t[i]
    <3>1. x \in Seq(Ev) /\ y \in Seq(Ev) /\ z \in Ev
      BY <1>8, <2>4, <2>5
    <3> HIDE DEF x, y, z
    <3>2. Append(x \o y, z) = x \o Append(y, z)
      BY <3>1, AppendCat
    <3> QED BY <3>2 DEF x, y, z
  <2> QED BY <2>1, <2>2, <2>3, <2>4, <2>6
<1> HIDE DEF B
<1>11. \A i \in 0 .. n : i \in B
  BY <1>1, <1>9, <1>10, UpTo
<1>12. n \in B /\ Len(u) = m + n
  BY <1>1, <1>11
<1>13. h[m + n] = f[m] \o g[n]
  BY <1>12 DEF B
<1>14. Keep(u, seen) = Keep(s, seen) \o Keep(t, seen)
  BY <1>2, <1>3, <1>4, <1>12, <1>13
<1> QED BY <1>14 DEF u

(* It keeps nothing of a trace that it sees nothing of. *)
LEMMA KeepNone ==
  ASSUME NEW tr \in Seq(Ev), NEW seen, \A i \in 1 .. Len(tr) : tr[i] \notin seen
  PROVE  Keep(tr, seen) = <<>>
<1>1. PICK f \in [0 .. Len(tr) -> Seq(Ev)] :
        /\ Keep(tr, seen) = f[Len(tr)]
        /\ KeepBy(f, tr, seen)
  BY KeepIs
<1> DEFINE A == {i \in 0 .. Len(tr) : f[i] = <<>>}
<1>2. 0 \in A /\ Len(tr) \in Nat
  BY <1>1 DEF KeepBy
<1>3. ASSUME NEW i \in 1 .. Len(tr), i - 1 \in A PROVE i \in A
  BY <1>1, <1>3 DEF KeepBy
<1> HIDE DEF A
<1>4. \A i \in 0 .. Len(tr) : i \in A
  BY <1>2, <1>3, UpTo
<1> QED BY <1>1, <1>2, <1>4 DEF A

-----------------------------------------------------------------------------
(* Programs: for every sequence of outcomes, a run.                        *)

Labels == LoopLabels \cup {NoLabel}
Jumps == {"break", "continue"}
Outs == {"next", "again", "break", "continue", "return", "fail", "ret", "goto"}
          \X (Labels \cup (Labels \X Jumps))
Runs == [tr : Seq(Ev), o : Outcomes, out : Outs]
Prog == {p \in [Outcomes -> Runs] : \A o \in Outcomes : Len(p[o].o) <= Len(o)}

LEMMA OutcomesAre ==
  /\ <<>> \in Outcomes /\ Len(<<>>) = 0
  /\ \A o \in Outcomes :
       /\ Len(o) \in 0 .. MaxTests /\ Len(o) \in Nat
       /\ Rest(o) \in Outcomes /\ Len(Rest(o)) <= Len(o)
       /\ Holds(o) => Len(o) > 0 /\ Len(Rest(o)) < Len(o)
<1>1. MaxTests \in Nat
  BY LowerAssumption DEF LowerAssumption
<1>2. <<>> \in [1 .. 0 -> BOOLEAN] /\ 0 \in 0 .. MaxTests
  BY <1>1
<1>3. ASSUME NEW o \in Outcomes
      PROVE  /\ Len(o) \in 0 .. MaxTests /\ Len(o) \in Nat
             /\ Rest(o) \in Outcomes /\ Len(Rest(o)) <= Len(o)
             /\ Holds(o) => Len(o) > 0 /\ Len(Rest(o)) < Len(o)
  <2>1. PICK n \in 0 .. MaxTests : o \in [1 .. n -> BOOLEAN]
    BY DEF Outcomes
  <2>2. o \in Seq(BOOLEAN) /\ Len(o) = n
    BY <2>1
  <2>3. CASE o = <<>>
    <3>1. Rest(o) = o /\ ~Holds(o)
      BY <2>3 DEF Rest, Holds
    <3> QED BY <2>2, <3>1, <1>1
  <2>4. CASE o # <<>>
    <3>1. n > 0 /\ n - 1 \in 0 .. MaxTests
      BY <2>2, <2>4, <1>1
    <3>2. Tail(o) \in Seq(BOOLEAN) /\ Len(Tail(o)) = n - 1
      BY <2>2, <2>4
    <3>3. Tail(o) \in [1 .. n - 1 -> BOOLEAN]
      <4> DEFINE t == Tail(o)
      <4>1. t \in Seq(BOOLEAN) /\ Len(t) = n - 1
        BY <3>2
      <4> HIDE DEF t
      <4>2. t \in [1 .. Len(t) -> BOOLEAN]
        BY <4>1
      <4> QED BY <4>1, <4>2 DEF t
    <3>4. Tail(o) \in Outcomes
      BY <3>1, <3>3 DEF Outcomes
    <3> QED BY <2>2, <2>4, <3>1, <3>2, <3>4 DEF Rest
  <2> QED BY <2>3, <2>4
<1>4. <<>> \in Outcomes
  BY <1>2 DEF Outcomes
<1> QED BY <1>3, <1>4

LEMMA ProgIs ==
  ASSUME NEW p \in Prog, NEW o \in Outcomes
  PROVE  /\ p[o] \in Runs /\ p[o].tr \in Seq(Ev) /\ p[o].o \in Outcomes
         /\ p[o].out \in Outs /\ Len(p[o].o) <= Len(o)
BY DEF Prog, Runs

LEMMA ProgMade ==
  ASSUME NEW p, p = [o \in Outcomes |-> p[o]],
         \A o \in Outcomes : p[o] \in Runs /\ Len(p[o].o) <= Len(o)
  PROVE  p \in Prog
BY DEF Prog

LEMMA RunIs ==
  ASSUME NEW tr \in Seq(Ev), NEW o \in Outcomes, NEW out \in Outs
  PROVE  /\ Run(tr, o, out) \in Runs /\ Run(tr, o, out).tr = tr
         /\ Run(tr, o, out).o = o /\ Run(tr, o, out).out = out
BY DEF Run, Runs

LEMMA ThenIs ==
  ASSUME NEW tr \in Seq(Ev), NEW r \in Runs
  PROVE  /\ Then(tr, r) \in Runs /\ Then(tr, r).tr = tr \o r.tr
         /\ Then(tr, r).o = r.o /\ Then(tr, r).out = r.out
<1>1. tr \o r.tr \in Seq(Ev) /\ r.o \in Outcomes /\ r.out \in Outs
  BY DEF Runs
<1> QED BY <1>1 DEF Then, Runs

LEMMA EndsIs ==
  ASSUME NEW tr \in Seq(Ev), NEW out \in Outs
  PROVE  /\ Ends(tr, out) \in Prog
         /\ \A o \in Outcomes : /\ Ends(tr, out)[o].tr = tr
                                /\ Ends(tr, out)[o].o = o
                                /\ Ends(tr, out)[o].out = out
<1>1. \A o \in Outcomes : Ends(tr, out)[o] = Run(tr, o, out)
  BY DEF Ends
<1>2. Ends(tr, out) = [o \in Outcomes |-> Ends(tr, out)[o]]
  BY DEF Ends
<1>3. \A o \in Outcomes : Len(o) <= Len(o)
  BY OutcomesAre
<1> QED BY <1>1, <1>2, <1>3, RunIs, ProgMade

LEMMA ThroughIsOut == Through \in Outs /\ Again \in Outs
BY DEF Through, Again, Outs, Labels

LEMMA DoIs ==
  ASSUME NEW tr \in Seq(Ev)
  PROVE  /\ Do(tr) \in Prog
         /\ \A o \in Outcomes : /\ Do(tr)[o].tr = tr
                                /\ Do(tr)[o].o = o
                                /\ Do(tr)[o].out = Through
BY ThroughIsOut, EndsIs DEF Do

LEMMA SkipIs ==
  /\ Skip \in Prog
  /\ \A o \in Outcomes : Skip[o].tr = <<>> /\ Skip[o].o = o /\ Skip[o].out = Through
<1>1. <<>> \in Seq(Ev)
  OBVIOUS
<1> QED BY <1>1, DoIs DEF Skip

LEMMA ChainIs ==
  ASSUME NEW p \in Prog, NEW q \in Prog
  PROVE  /\ Chain(p, q) \in Prog
         /\ \A o \in Outcomes :
              IF p[o].out = Through
              THEN /\ Chain(p, q)[o].tr = p[o].tr \o q[p[o].o].tr
                   /\ Chain(p, q)[o].o = q[p[o].o].o
                   /\ Chain(p, q)[o].out = q[p[o].o].out
              ELSE Chain(p, q)[o] = p[o]
<1> DEFINE c == Chain(p, q)
<1>1. c = [o \in Outcomes |-> c[o]]
  BY DEF Chain
<1>2. \A o \in Outcomes : c[o] = IF p[o].out = Through THEN Then(p[o].tr, q[p[o].o]) ELSE p[o]
  BY DEF Chain
<1> HIDE DEF c
<1>3. ASSUME NEW o \in Outcomes
      PROVE  /\ c[o] \in Runs /\ Len(c[o].o) <= Len(o)
             /\ IF p[o].out = Through
                THEN /\ c[o].tr = p[o].tr \o q[p[o].o].tr
                     /\ c[o].o = q[p[o].o].o
                     /\ c[o].out = q[p[o].o].out
                ELSE c[o] = p[o]
  <2>1. /\ p[o] \in Runs /\ p[o].tr \in Seq(Ev) /\ p[o].o \in Outcomes
        /\ Len(p[o].o) <= Len(o)
    BY ProgIs
  <2>2. CASE p[o].out = Through
    <3>1. q[p[o].o] \in Runs /\ Len(q[p[o].o].o) <= Len(p[o].o) /\ q[p[o].o].o \in Outcomes
      BY <2>1, ProgIs
    <3>2. c[o] = Then(p[o].tr, q[p[o].o])
      BY <1>2, <2>2
    <3>3. /\ c[o] \in Runs /\ c[o].tr = p[o].tr \o q[p[o].o].tr
          /\ c[o].o = q[p[o].o].o /\ c[o].out = q[p[o].o].out
      <4> DEFINE r == q[p[o].o]
                 t == p[o].tr
      <4>1. r \in Runs /\ t \in Seq(Ev) /\ c[o] = Then(t, r)
        BY <2>1, <3>1, <3>2
      <4> HIDE DEF r, t
      <4>2. /\ c[o] \in Runs /\ c[o].tr = t \o r.tr /\ c[o].o = r.o /\ c[o].out = r.out
        BY <4>1, ThenIs
      <4> QED BY <4>2 DEF r, t
    <3>4. Len(o) \in Nat /\ Len(p[o].o) \in Nat /\ Len(q[p[o].o].o) \in Nat
      BY <2>1, <3>1, OutcomesAre
    <3> QED BY <2>1, <2>2, <3>1, <3>3, <3>4
  <2>3. CASE p[o].out # Through
    BY <1>2, <2>1, <2>3
  <2> QED BY <2>2, <2>3
<1>4. c \in Prog
  BY <1>1, <1>3, ProgMade
<1> QED BY <1>3, <1>4 DEF c

LEMMA TestIs ==
  ASSUME NEW n \in Nat
  PROVE  Test(n) \in Seq(Ev)
<1>1. <<"test", n>> \in Ev
  BY DEF Ev
<1> QED BY <1>1 DEF Test

LEMMA ChoiceIs ==
  ASSUME NEW n \in Nat, NEW p \in Prog, NEW q \in Prog
  PROVE  /\ Choice(n, p, q) \in Prog
         /\ \A o \in Outcomes :
              LET r == IF Holds(o) THEN p[Rest(o)] ELSE q[Rest(o)]
              IN /\ Choice(n, p, q)[o].tr = Test(n) \o r.tr
                 /\ Choice(n, p, q)[o].o = r.o
                 /\ Choice(n, p, q)[o].out = r.out
<1> DEFINE c == Choice(n, p, q)
           r(o) == IF Holds(o) THEN p[Rest(o)] ELSE q[Rest(o)]
<1>1. c = [o \in Outcomes |-> c[o]]
  BY DEF Choice
<1>2. \A o \in Outcomes : c[o] = Then(Test(n), r(o))
  BY DEF Choice
<1> HIDE DEF c
<1>3. ASSUME NEW o \in Outcomes
      PROVE  /\ c[o] \in Runs /\ Len(c[o].o) <= Len(o)
             /\ c[o].tr = Test(n) \o r(o).tr /\ c[o].o = r(o).o /\ c[o].out = r(o).out
  <2>1. Rest(o) \in Outcomes /\ Len(Rest(o)) <= Len(o) /\ Len(o) \in Nat /\ Len(Rest(o)) \in Nat
    BY OutcomesAre
  <2>2. r(o) \in Runs /\ r(o).o \in Outcomes /\ Len(r(o).o) <= Len(Rest(o))
    BY <2>1, ProgIs
  <2>3. Len(r(o).o) \in Nat
    BY <2>2, OutcomesAre
  <2>4. Test(n) \in Seq(Ev)
    BY TestIs
  <2> HIDE DEF r
  <2>5. /\ c[o] \in Runs /\ c[o].tr = Test(n) \o r(o).tr
        /\ c[o].o = r(o).o /\ c[o].out = r(o).out
    BY <1>2, <2>2, <2>4, ThenIs
  <2> QED BY <2>1, <2>2, <2>3, <2>5
<1>4. c \in Prog
  BY <1>1, <1>3, ProgMade
<1> QED BY <1>3, <1>4 DEF c

-----------------------------------------------------------------------------
(* Cleanups, scopes and anchors.                                           *)

LEMMA CleanupsAre ==
  ASSUME NEW what \in {"defer", "errdefer"}, NEW ns \in Seq(Nat)
  PROVE  /\ Cleanups(what, ns) \in Seq(Ev)
         /\ \A i \in 1 .. Len(Cleanups(what, ns)) : Cleanups(what, ns)[i][1] = what
         /\ ns = <<>> => Cleanups(what, ns) = <<>>
<1> DEFINE c == Cleanups(what, ns)
<1>1. Len(ns) \in Nat /\ c = [i \in 1 .. Len(ns) |-> <<what, ns[Len(ns) + 1 - i]>>]
  BY DEF Cleanups
<1> HIDE DEF c
<1>2. ASSUME NEW i \in 1 .. Len(ns) PROVE c[i] \in Ev /\ c[i][1] = what
  <2>1. Len(ns) + 1 - i \in 1 .. Len(ns)
    BY <1>1
  <2>2. ns[Len(ns) + 1 - i] \in Nat
    BY <2>1
  <2> QED BY <1>1, <2>2 DEF Ev
<1>3. c \in Seq(Ev) /\ Len(c) = Len(ns)
  BY <1>1, <1>2
<1>4. ns = <<>> => c = <<>>
  BY <1>3
<1> QED BY <1>2, <1>3, <1>4 DEF c

(* The cleanups of a block that a statement that ends so runs.             *)
Unwound(b, out) ==
  IF out = Through THEN <<>>
  ELSE (IF out[1] = "fail" THEN Cleanups("errdefer", b.errdefers) ELSE <<>>)
       \o Cleanups("defer", b.defers)

LEMMA UnwoundIs ==
  ASSUME NEW b, b.defers \in Seq(Nat), b.errdefers \in Seq(Nat), NEW out
  PROVE  Unwound(b, out) \in Seq(Ev)
<1>1. /\ Cleanups("errdefer", b.errdefers) \in Seq(Ev)
      /\ Cleanups("defer", b.defers) \in Seq(Ev) /\ <<>> \in Seq(Ev)
  BY CleanupsAre
<1> QED BY <1>1 DEF Unwound

LEMMA ConcatNone ==
  ASSUME NEW s \in Seq(Ev)
  PROVE  s \o <<>> = s /\ <<>> \o s = s
OBVIOUS

LEMMA ConcatType ==
  ASSUME NEW s \in Seq(Ev), NEW t \in Seq(Ev)
  PROVE  s \o t \in Seq(Ev)
OBVIOUS

LEMMA ConcatThree ==
  ASSUME NEW s \in Seq(Ev), NEW t \in Seq(Ev), NEW u \in Seq(Ev)
  PROVE  (s \o t) \o u = s \o (t \o u)
OBVIOUS

(* A program that does not go Through is not followed by another.          *)
Stops(p, q, o) == Chain(p, q)[o] = p[o]

LEMMA ChainStops ==
  ASSUME NEW p \in Prog, NEW q \in Prog, NEW o \in Outcomes, p[o].out # Through
  PROVE  Stops(p, q, o)
BY DEF Stops, Chain

(* The same two facts under names: the provers match a name at once.      *)
Regroups(s, t, u) == (s \o t) \o u = s \o (t \o u)
KeepsBoth(s, t, seen) == Keep(s \o t, seen) = Keep(s, seen) \o Keep(t, seen)

LEMMA RegroupAll ==
  ASSUME NEW s \in Seq(Ev), NEW t \in Seq(Ev), NEW u \in Seq(Ev)
  PROVE  Regroups(s, t, u)
BY ConcatThree DEF Regroups

LEMMA KeepCats ==
  ASSUME NEW s \in Seq(Ev), NEW t \in Seq(Ev), NEW seen
  PROVE  KeepsBoth(s, t, seen)
BY KeepCat DEF KeepsBoth

LEMMA UnwindingIs ==
  ASSUME NEW b, b.defers \in Seq(Nat), b.errdefers \in Seq(Nat), NEW s \in Prog
  PROVE  /\ Unwinding(b, s) \in Prog
         /\ \A o \in Outcomes : /\ Unwinding(b, s)[o].tr = s[o].tr \o Unwound(b, s[o].out)
                                /\ Unwinding(b, s)[o].o = s[o].o
                                /\ Unwinding(b, s)[o].out = s[o].out
<1> DEFINE u == Unwinding(b, s)
<1>1. u = [o \in Outcomes |-> u[o]]
  BY DEF Unwinding
<1>2. ASSUME NEW o \in Outcomes
      PROVE  /\ u[o] \in Runs /\ Len(u[o].o) <= Len(o)
             /\ u[o].tr = s[o].tr \o Unwound(b, s[o].out)
             /\ u[o].o = s[o].o /\ u[o].out = s[o].out
  <2>1. s[o] \in Runs /\ s[o].tr \in Seq(Ev) /\ Len(s[o].o) <= Len(o)
    BY ProgIs
  <2>2. CASE s[o].out = Through
    <3>1. u[o] = s[o]
      BY <2>2 DEF Unwinding
    <3>2. Unwound(b, s[o].out) = <<>> /\ s[o].tr \o <<>> = s[o].tr
      BY <2>1, <2>2, ConcatNone DEF Unwound
    <3> QED BY <2>1, <3>1, <3>2
  <2>3. CASE s[o].out # Through
    <3>1. /\ Cleanups("errdefer", b.errdefers) \in Seq(Ev)
          /\ Cleanups("defer", b.defers) \in Seq(Ev) /\ <<>> \in Seq(Ev)
      BY CleanupsAre
    <3> DEFINE e == IF s[o].out[1] = "fail" THEN Cleanups("errdefer", b.errdefers) ELSE <<>>
               d == Cleanups("defer", b.defers)
               t == s[o].tr
               r == s[o]
    <3>2. u[o] = [s[o] EXCEPT !.tr = @ \o e \o d]
      BY <2>3 DEF Unwinding
    <3>3. Unwound(b, s[o].out) = e \o d
      BY <2>3 DEF Unwound
    <3>4. e \in Seq(Ev) /\ d \in Seq(Ev) /\ t \in Seq(Ev) /\ r \in Runs /\ t = r.tr
      BY <3>1, <2>1
    <3> HIDE DEF e, d, t
    <3>5. (t \o e) \o d = t \o (e \o d) /\ (t \o e) \o d \in Seq(Ev)
      <4>1. Regroups(t, e, d)
        BY <3>4, RegroupAll
      <4>2. t \o e \in Seq(Ev)
        BY <3>4, ConcatType
      <4>3. (t \o e) \o d \in Seq(Ev)
        BY <3>4, <4>2, ConcatType
      <4> QED BY <4>1, <4>3 DEF Regroups
    <3>6. u[o] = [r EXCEPT !.tr = (t \o e) \o d]
      BY <3>2, <3>4
    <3> HIDE DEF r, u
    <3>7. u[o] \in Runs /\ u[o].tr = (t \o e) \o d /\ u[o].o = r.o /\ u[o].out = r.out
      BY <3>4, <3>5, <3>6 DEF Runs
    <3> QED BY <2>1, <3>3, <3>5, <3>7 DEF r, t
  <2> QED BY <2>2, <2>3
<1> HIDE DEF u
<1>3. u \in Prog
  BY <1>1, <1>2, ProgMade
<1> QED BY <1>2, <1>3 DEF u

LEMMA ReleasingIs ==
  ASSUME NEW n \in Nat, NEW s \in Prog
  PROVE  /\ Releasing(n, s) \in Prog
         /\ \A o \in Outcomes : /\ Releasing(n, s)[o].tr = s[o].tr \o <<<<"release", n>>>>
                                /\ Releasing(n, s)[o].o = s[o].o
                                /\ Releasing(n, s)[o].out = s[o].out
<1> DEFINE u == Releasing(n, s)
<1>1. u = [o \in Outcomes |-> u[o]]
  BY DEF Releasing
<1>2. ASSUME NEW o \in Outcomes
      PROVE  /\ u[o] \in Runs /\ Len(u[o].o) <= Len(o)
             /\ u[o].tr = s[o].tr \o <<<<"release", n>>>>
             /\ u[o].o = s[o].o /\ u[o].out = s[o].out
  <2> DEFINE r == s[o]
             e == <<"release", n>>
  <2>1. r \in Runs /\ r.tr \in Seq(Ev) /\ Len(r.o) <= Len(o)
    BY ProgIs
  <2>2. e \in Ev
    BY DEF Ev
  <2>3. u[o] = [r EXCEPT !.tr = Append(@, e)]
    BY DEF Releasing
  <2> HIDE DEF r, e, u
  <2>4. Append(r.tr, e) \in Seq(Ev) /\ Append(r.tr, e) = r.tr \o <<e>>
    BY <2>1, <2>2
  <2>5. u[o] \in Runs /\ u[o].tr = Append(r.tr, e) /\ u[o].o = r.o /\ u[o].out = r.out
    BY <2>1, <2>3, <2>4 DEF Runs
  <2> QED BY <2>1, <2>4, <2>5 DEF r, e
<1> HIDE DEF u
<1>3. u \in Prog
  BY <1>1, <1>2, ProgMade
<1> QED BY <1>2, <1>3 DEF u

(* A jump that arrives goes on; every other run is as it was.              *)
Arrives(p, c, out) ==
  \A o \in Outcomes : /\ p[o].tr = c[o].tr /\ p[o].o = c[o].o
                      /\ p[o].out = IF c[o].out = out THEN Through ELSE c[o].out

LEMMA ArrivesMade ==
  ASSUME NEW c \in Prog, NEW out
  PROVE  LET a == [o \in Outcomes |-> IF c[o].out = out
                                      THEN [c[o] EXCEPT !.out = Through] ELSE c[o]]
         IN a \in Prog /\ Arrives(a, c, out)
<1> DEFINE a == [o \in Outcomes |-> IF c[o].out = out
                                    THEN [c[o] EXCEPT !.out = Through] ELSE c[o]]
<1>1. a = [o \in Outcomes |-> a[o]]
  OBVIOUS
<1>2. ASSUME NEW o \in Outcomes
      PROVE  /\ a[o] \in Runs /\ Len(a[o].o) <= Len(o)
             /\ a[o].tr = c[o].tr /\ a[o].o = c[o].o
             /\ a[o].out = IF c[o].out = out THEN Through ELSE c[o].out
  <2> DEFINE r == c[o]
  <2>1. r \in Runs /\ Len(r.o) <= Len(o)
    BY ProgIs
  <2>2. a[o] = IF r.out = out THEN [r EXCEPT !.out = Through] ELSE r
    OBVIOUS
  <2> HIDE DEF r, a
  <2>3. CASE r.out = out
    <3>1. a[o] = [r EXCEPT !.out = Through]
      BY <2>2, <2>3
    <3>2. a[o] \in Runs /\ a[o].tr = r.tr /\ a[o].o = r.o /\ a[o].out = Through
      BY <2>1, <3>1, ThroughIsOut DEF Runs
    <3> QED BY <2>1, <2>3, <3>2 DEF r
  <2>4. CASE r.out # out
    BY <2>1, <2>2, <2>4 DEF r
  <2> QED BY <2>3, <2>4
<1> HIDE DEF a
<1>3. a \in Prog
  BY <1>1, <1>2, ProgMade
<1>4. Arrives(a, c, out)
  BY <1>2 DEF Arrives
<1> QED BY <1>3, <1>4 DEF a

LEMMA AnchoredIs ==
  ASSUME NEW c \in Prog, NEW l, NEW kind
  PROVE  Anchored(c, l, kind) \in Prog /\ Arrives(Anchored(c, l, kind), c, Goto(l, kind))
BY ArrivesMade DEF Anchored

LEMMA CSwitchIs ==
  ASSUME NEW n \in Nat, NEW p \in Prog, NEW q \in Prog
  PROVE  /\ CSwitch(n, p, q) \in Prog
         /\ Arrives(CSwitch(n, p, q), Choice(n, p, q), <<"break", NoLabel>>)
BY ChoiceIs, ArrivesMade DEF CSwitch

-----------------------------------------------------------------------------
(* Loops.                                                                  *)

LEMMA TurnsAre ==
  ASSUME NEW n \in Nat, NEW body \in Prog, NEW again, NEW break
  PROVE  /\ Turns(n, body, again, break) \in Prog
         /\ \A o \in Outcomes :
              LET t == Turns(n, body, again, break)[o]
                  r == body[Rest(o)]
              IN IF Holds(o)
                 THEN /\ t.tr = Test(n) \o r.tr /\ t.o = r.o
                      /\ t.out = IF r.out \in again THEN Again
                                 ELSE IF r.out \in break THEN Through ELSE r.out
                 ELSE t.tr = Test(n) /\ t.o = Rest(o) /\ t.out = Through
         /\ \A o \in Outcomes :
              LET t == Turns(n, body, again, break)[o]
              IN t.out = Again => Len(t.o) < Len(o)
<1> DEFINE a == [o \in Outcomes |->
                   [body[o] EXCEPT !.out = IF @ \in again THEN Again
                                           ELSE IF @ \in break THEN Through ELSE @]]
           t == Turns(n, body, again, break)
<1>1. a = [o \in Outcomes |-> a[o]]
  OBVIOUS
<1>2. ASSUME NEW o \in Outcomes
      PROVE  /\ a[o] \in Runs /\ Len(a[o].o) <= Len(o)
             /\ a[o].tr = body[o].tr /\ a[o].o = body[o].o
             /\ a[o].out = IF body[o].out \in again THEN Again
                           ELSE IF body[o].out \in break THEN Through ELSE body[o].out
  <2> DEFINE r == body[o]
             x == IF r.out \in again THEN Again ELSE IF r.out \in break THEN Through ELSE r.out
  <2>1. r \in Runs /\ Len(r.o) <= Len(o) /\ r.out \in Outs
    BY ProgIs
  <2>2. a[o] = [r EXCEPT !.out = x]
    OBVIOUS
  <2>3. x \in Outs
    BY <2>1, ThroughIsOut
  <2> HIDE DEF r, a, x
  <2>4. a[o] \in Runs /\ a[o].tr = r.tr /\ a[o].o = r.o /\ a[o].out = x
    BY <2>1, <2>2, <2>3 DEF Runs
  <2> QED BY <2>1, <2>4 DEF r, x
<1>3. t = Choice(n, a, Skip)
  BY DEF Turns
<1> HIDE DEF a, t
<1>4. a \in Prog
  BY <1>1, <1>2, ProgMade
<1>5. /\ t \in Prog
      /\ \A o \in Outcomes :
           LET r == IF Holds(o) THEN a[Rest(o)] ELSE Skip[Rest(o)]
           IN t[o].tr = Test(n) \o r.tr /\ t[o].o = r.o /\ t[o].out = r.out
  BY <1>3, <1>4, SkipIs, ChoiceIs
<1>6. ASSUME NEW o \in Outcomes
      PROVE  /\ IF Holds(o)
                THEN /\ t[o].tr = Test(n) \o body[Rest(o)].tr /\ t[o].o = body[Rest(o)].o
                     /\ t[o].out = IF body[Rest(o)].out \in again THEN Again
                                   ELSE IF body[Rest(o)].out \in break THEN Through
                                   ELSE body[Rest(o)].out
                ELSE t[o].tr = Test(n) /\ t[o].o = Rest(o) /\ t[o].out = Through
             /\ t[o].out = Again => Len(t[o].o) < Len(o)
  <2>1. Rest(o) \in Outcomes /\ Len(o) \in Nat /\ Len(Rest(o)) \in Nat
    BY OutcomesAre
  <2>2. CASE Holds(o)
    <3>1. /\ t[o].tr = Test(n) \o body[Rest(o)].tr /\ t[o].o = body[Rest(o)].o
          /\ t[o].out = IF body[Rest(o)].out \in again THEN Again
                        ELSE IF body[Rest(o)].out \in break THEN Through
                        ELSE body[Rest(o)].out
      BY <1>2, <1>5, <2>1, <2>2
    <3>2. body[Rest(o)].o \in Outcomes /\ Len(body[Rest(o)].o) <= Len(Rest(o))
      BY <2>1, ProgIs
    <3>3. Len(Rest(o)) < Len(o) /\ Len(body[Rest(o)].o) \in Nat
      BY <2>2, <3>2, OutcomesAre
    <3>4. Len(body[Rest(o)].o) < Len(o)
      BY <2>1, <3>2, <3>3
    <3> QED BY <2>2, <3>1, <3>4
  <2>3. CASE ~Holds(o)
    <3>1. t[o].tr = Test(n) \o <<>> /\ t[o].o = Rest(o) /\ t[o].out = Through
      BY <1>5, <2>1, <2>3, SkipIs
    <3>2. Test(n) \o <<>> = Test(n)
      BY TestIs, ConcatNone
    <3> QED BY <2>3, <3>1, <3>2 DEF Through, Again
  <2> QED BY <2>2, <2>3
<1> QED BY <1>5, <1>6 DEF t

(* What holds of a sequence of outcomes if it holds of all shorter ones,    *)
(* holds of all.                                                           *)
LEMMA ByOutcomes ==
  ASSUME NEW S,
         \A o \in Outcomes : (\A r \in Outcomes : Len(r) < Len(o) => r \in S) => o \in S
  PROVE  \A o \in Outcomes : o \in S
<1> DEFINE T == {k \in 0 .. MaxTests : \A o \in Outcomes : Len(o) <= k => o \in S}
<1>1. MaxTests \in Nat
  BY LowerAssumption DEF LowerAssumption
<1>2. 0 \in T
  <2>1. ASSUME NEW o \in Outcomes, Len(o) <= 0 PROVE o \in S
    <3>1. \A r \in Outcomes : ~(Len(r) < Len(o))
      BY <2>1, OutcomesAre
    <3> QED BY <3>1
  <2> QED BY <1>1, <2>1
<1>3. ASSUME NEW k \in 1 .. MaxTests, k - 1 \in T PROVE k \in T
  <2>1. ASSUME NEW o \in Outcomes, Len(o) <= k PROVE o \in S
    <3>1. ASSUME NEW r \in Outcomes, Len(r) < Len(o) PROVE r \in S
      <4>1. Len(r) \in Nat /\ Len(o) \in Nat
        BY OutcomesAre
      <4>2. Len(r) <= k - 1
        BY <2>1, <3>1, <4>1
      <4> QED BY <1>3, <4>2
    <3> QED BY <3>1
  <2> QED BY <1>1, <2>1
<1> HIDE DEF T
<1>4. \A k \in 0 .. MaxTests : k \in T
  BY <1>1, <1>2, <1>3, UpTo
<1>5. MaxTests \in T
  BY <1>1, <1>4
<1>6. \A o \in Outcomes : Len(o) <= MaxTests
  BY <1>1, OutcomesAre
<1> QED BY <1>5, <1>6 DEF T

(* A loop is its first turn and, if that ends so, the loop again.           *)
RepeatBy(r, turns) ==
  \A o \in Outcomes :
    r[o] = IF turns[o].out = Again THEN Then(turns[o].tr, r[turns[o].o]) ELSE turns[o]

LEMMA RepeatIs ==
  ASSUME NEW turns \in Prog, \A o \in Outcomes : turns[o].out = Again => Len(turns[o].o) < Len(o)
  PROVE  Repeat(turns) \in Prog /\ RepeatBy(Repeat(turns), turns)
<1> DEFINE n == MaxTests
           Is(g) == g = [k \in 0 .. n |->
                           IF k = 0 THEN turns
                           ELSE AndAgain(turns, g[k - 1])]
           D == CHOOSE g : Is(g)
           once == [p \in Prog |-> AndAgain(turns, p)]
           step == [k \in 1 .. n |-> once]
<1>1. Repeat(turns) = D[n]
  BY DEF Repeat
<1>2. n \in Nat
  BY LowerAssumption DEF LowerAssumption
<1>3. ASSUME NEW p \in Prog PROVE once[p] \in Prog
  <2> DEFINE q == once[p]
  <2>1. q = [o \in Outcomes |-> q[o]]
    BY DEF AndAgain
  <2>2. \A o \in Outcomes :
          q[o] = IF turns[o].out = Again THEN Then(turns[o].tr, p[turns[o].o]) ELSE turns[o]
    BY DEF AndAgain
  <2> HIDE DEF q
  <2>3. ASSUME NEW o \in Outcomes PROVE q[o] \in Runs /\ Len(q[o].o) <= Len(o)
    <3>1. /\ turns[o] \in Runs /\ turns[o].tr \in Seq(Ev) /\ turns[o].o \in Outcomes
          /\ Len(turns[o].o) <= Len(o)
      BY ProgIs
    <3> DEFINE r == p[turns[o].o]
               t == turns[o].tr
    <3>2. r \in Runs /\ r.o \in Outcomes /\ Len(r.o) <= Len(turns[o].o) /\ t \in Seq(Ev)
      BY <3>1, ProgIs
    <3>3. q[o] = IF turns[o].out = Again THEN Then(t, r) ELSE turns[o]
      BY <2>2
    <3>4. Len(o) \in Nat /\ Len(turns[o].o) \in Nat /\ Len(r.o) \in Nat
      BY <3>1, <3>2, OutcomesAre
    <3> HIDE DEF r, t
    <3>5. Then(t, r) \in Runs /\ Then(t, r).o = r.o
      BY <3>2, ThenIs
    <3> QED BY <3>1, <3>2, <3>3, <3>4, <3>5
  <2>4. q \in Prog
    BY <2>1, <2>3, ProgMade
  <2> QED BY <2>4 DEF q
<1>4. step \in [1 .. n -> [Prog -> Prog]]
  BY <1>3
<1>5. \A k \in 1 .. n : \A p \in Prog : step[k][p] = once[p]
  OBVIOUS
<1> HIDE DEF step
<1>6. PICK f \in [0 .. n -> Prog] : Follows(f, n, turns, step)
  BY <1>2, <1>4, RecursionExists
<1>7. ASSUME NEW k \in 0 .. n
      PROVE  f[k] = IF k = 0 THEN turns
                    ELSE AndAgain(turns, f[k - 1])
  <2>1. CASE k = 0
    BY <1>6, <2>1 DEF Follows
  <2>2. CASE k # 0
    <3>1. k \in 1 .. n /\ k - 1 \in 0 .. n
      BY <1>2, <2>2
    <3>2. f[k] = once[f[k - 1]] /\ f[k - 1] \in Prog
      BY <1>5, <1>6, <3>1 DEF Follows
    <3> QED BY <2>2, <3>2
  <2> QED BY <2>1, <2>2
<1>8. Is(f)
  BY <1>6, <1>7
<1>9. D = [k \in 0 .. n |->
             IF k = 0 THEN turns
             ELSE AndAgain(turns, D[k - 1])]
  BY <1>8
<1> HIDE DEF D
<1>10. D = [k \in 0 .. n |-> D[k]]
  BY <1>9
<1>11. \A k \in 1 .. n : \A o \in Outcomes :
         D[k][o] = IF turns[o].out = Again THEN Then(turns[o].tr, D[k - 1][turns[o].o])
                   ELSE turns[o]
  <2> SUFFICES ASSUME NEW k \in 1 .. n, NEW o \in Outcomes
               PROVE  D[k][o] = IF turns[o].out = Again
                                THEN Then(turns[o].tr, D[k - 1][turns[o].o])
                                ELSE turns[o]
    OBVIOUS
  <2>1. D[k] = AndAgain(turns, D[k - 1])
    BY <1>2, <1>9
  <2> DEFINE r == D[k - 1]
  <2> HIDE DEF r
  <2>2. AndAgain(turns, r)[o] = IF turns[o].out = Again
                                THEN Then(turns[o].tr, r[turns[o].o]) ELSE turns[o]
    BY DEF AndAgain
  <2> QED BY <2>1, <2>2 DEF r
<1>12. D[0] = turns
  BY <1>2, <1>9
<1>13. ASSUME NEW k \in 1 .. n, D[k - 1] \in Prog PROVE D[k] \in Prog
  <2>1. D[k] = AndAgain(turns, D[k - 1])
    BY <1>2, <1>9
  <2>2. D[k] = once[D[k - 1]]
    BY <1>13, <2>1
  <2> QED BY <1>3, <1>13, <2>2
<1> HIDE DEF Is, once, n
<1>14. D \in [0 .. n -> Prog]
  BY <1>2, <1>10, <1>12, <1>13, RecursionStays
<1> DEFINE T == {k \in 0 .. n : \A o \in Outcomes : k # 0 /\ Len(o) <= k - 1 => D[k][o] = D[k - 1][o]}
<1>15. 0 \in T
  BY <1>2
<1>16. ASSUME NEW k \in 1 .. n, k - 1 \in T PROVE k \in T
  <2>1. ASSUME NEW o \in Outcomes, Len(o) <= k - 1 PROVE D[k][o] = D[k - 1][o]
    <3>1. Len(o) \in Nat /\ turns[o].o \in Outcomes
      BY OutcomesAre, ProgIs
    <3>2. D[k][o] = IF turns[o].out = Again THEN Then(turns[o].tr, D[k - 1][turns[o].o])
                    ELSE turns[o]
      BY <1>11
    <3>3. CASE turns[o].out # Again
      <4>1. D[k - 1][o] = turns[o]
        <5>1. CASE k = 1
          BY <1>12, <5>1
        <5>2. CASE k # 1
          <6>1. k - 1 \in 1 .. n
            BY <1>2, <5>2
          <6> QED BY <1>11, <3>3, <6>1
        <5> QED BY <5>1, <5>2
      <4> QED BY <3>2, <3>3, <4>1
    <3>4. CASE turns[o].out = Again
      <4>1. Len(turns[o].o) < Len(o) /\ Len(turns[o].o) \in Nat
        BY <3>1, <3>4, OutcomesAre
      <4>2. k - 1 \in 1 .. n /\ Len(turns[o].o) <= (k - 1) - 1
        BY <1>2, <2>1, <3>1, <4>1
      <4>3. D[k - 1][turns[o].o] = D[(k - 1) - 1][turns[o].o]
        BY <1>16, <3>1, <4>2
      <4>4. D[k - 1][o] = Then(turns[o].tr, D[(k - 1) - 1][turns[o].o])
        BY <1>11, <3>4, <4>2
      <4> QED BY <3>2, <3>4, <4>3, <4>4
    <3> QED BY <3>3, <3>4
  <2> QED BY <1>2, <2>1
<1> HIDE DEF T
<1>17. \A k \in 0 .. n : k \in T
  BY <1>2, <1>15, <1>16, UpTo
<1>18. RepeatBy(D[n], turns)
  <2>1. ASSUME NEW o \in Outcomes
        PROVE  D[n][o] = IF turns[o].out = Again THEN Then(turns[o].tr, D[n][turns[o].o])
                         ELSE turns[o]
    <3>1. Len(o) \in 0 .. n /\ turns[o].o \in Outcomes /\ Len(turns[o].o) \in Nat
      BY OutcomesAre, ProgIs DEF n
    <3>2. CASE n = 0
      <4>1. turns[o].out # Again
        BY <3>1, <3>2
      <4> QED BY <1>12, <3>2, <4>1
    <3>3. CASE n # 0
      <4>1. n \in 1 .. n /\ n \in 0 .. n
        BY <1>2, <3>3
      <4>2. D[n][o] = IF turns[o].out = Again THEN Then(turns[o].tr, D[n - 1][turns[o].o])
                      ELSE turns[o]
        BY <1>11, <4>1
      <4>3. CASE turns[o].out = Again
        <5>1. Len(turns[o].o) <= n - 1
          BY <1>2, <3>1, <4>3
        <5>2. D[n][turns[o].o] = D[n - 1][turns[o].o]
          BY <1>17, <3>1, <3>3, <4>1, <5>1 DEF T
        <5> QED BY <4>2, <4>3, <5>2
      <4> QED BY <4>2, <4>3
    <3> QED BY <3>2, <3>3
  <2> QED BY <2>1 DEF RepeatBy
<1>19. D[n] \in Prog
  BY <1>2, <1>14
<1> QED BY <1>1, <1>18, <1>19 DEF n

-----------------------------------------------------------------------------
(* Two programs that do the same for a view: they end in the same way, and  *)
(* one that jumps has already run in C what the blocks around it, which e    *)
(* gives for each way out, still run in PenguScript.                       *)

MOuts == {Through} \cup (Jumps \X Labels) \cup {<<"return", NoLabel>>, <<"fail", NoLabel>>}
Contexts == {e \in [MOuts -> Seq(Ev)] : e[Through] = <<>>}

(* How a program ends in C.                                                *)
Match(out) ==
  IF out[1] \in {"return", "fail"} THEN <<"ret", NoLabel>>
  ELSE IF out[1] \in Jumps /\ out[2] # NoLabel THEN Goto(out[2], out[1]) ELSE out

Rel(seen, e, U, p, q) ==
  \A o \in Outcomes :
    /\ p[o].out \in U /\ q[o].o = p[o].o /\ q[o].out = Match(p[o].out)
    /\ Keep(q[o].tr, seen) = Keep(p[o].tr, seen) \o e[p[o].out]

LEMMA MOutsAre ==
  /\ MOuts \subseteq Outs /\ Through \in MOuts
  /\ \A x \in MOuts : x # Again /\ Match(x) \in Outs /\ Match(x) # Again
  /\ \A x \in MOuts : Match(x) = Through <=> x = Through
  /\ \A x \in MOuts, kind \in Jumps : Match(x) = <<kind, NoLabel>> <=> x = <<kind, NoLabel>>
  /\ \A x \in MOuts, kind \in Jumps, l \in LoopLabels :
       Match(x) = Goto(l, kind) <=> x = <<kind, l>>
  /\ \A kind \in Jumps, l \in Labels :
       Goto(l, kind) \in Outs /\ Goto(l, kind) # Through /\ Goto(l, kind) # Again
<1>1. \A l \in LoopLabels : l # NoLabel
  BY LowerAssumption DEF LowerAssumption
<1>2. MOuts \subseteq Outs /\ Through \in MOuts
  BY DEF MOuts, Outs, Through, Labels, Jumps
<1>3. ASSUME NEW x \in MOuts
      PROVE  /\ x # Again /\ Match(x) \in Outs /\ Match(x) # Again
             /\ Match(x) = Through <=> x = Through
             /\ \A kind \in Jumps : Match(x) = <<kind, NoLabel>> <=> x = <<kind, NoLabel>>
             /\ \A kind \in Jumps, l \in LoopLabels : Match(x) = Goto(l, kind) <=> x = <<kind, l>>
  <2>1. CASE x = Through
    BY <1>2, <2>1 DEF Match, Through, Again, Goto, Jumps
  <2>2. CASE x \in {<<"return", NoLabel>>, <<"fail", NoLabel>>}
    BY <2>2 DEF Match, Through, Again, Goto, Jumps, Outs, Labels
  <2>3. CASE x \in Jumps \X Labels
    <3>1. PICK k \in Jumps, m \in Labels : x = <<k, m>>
      BY <2>3
    <3>2. Match(x) = IF m # NoLabel THEN <<"goto", <<m, k>>>> ELSE x
      BY <3>1 DEF Match, Jumps, Goto
    <3>3. CASE m = NoLabel
      BY <1>1, <3>1, <3>2, <3>3 DEF Through, Again, Goto, Jumps, Outs, Labels
    <3>4. CASE m # NoLabel
      <4>1. Match(x) = <<"goto", <<m, k>>>>
        BY <3>2, <3>4
      <4>2. <<"goto", <<m, k>>>> \in Outs
        BY DEF Outs
      <4> QED BY <3>1, <3>4, <4>1, <4>2 DEF Through, Again, Goto, Jumps
    <3> QED BY <3>3, <3>4
  <2> QED BY <2>1, <2>2, <2>3 DEF MOuts
<1>4. \A kind \in Jumps, l \in Labels :
        Goto(l, kind) \in Outs /\ Goto(l, kind) # Through /\ Goto(l, kind) # Again
  BY DEF Goto, Outs, Through, Again
<1> QED BY <1>2, <1>3, <1>4

LEMMA KeepOf ==
  ASSUME NEW seen, NEW s \in Seq(Ev), NEW t \in Seq(Ev)
  PROVE  /\ Keep(s, seen) \in Seq(Ev) /\ Keep(s \o t, seen) = Keep(s, seen) \o Keep(t, seen)
         /\ Keep(<<>>, seen) = <<>>
BY KeepType, KeepCat, KeepEmpty

LEMMA RelDo ==
  ASSUME NEW seen, NEW e \in Contexts, NEW U, Through \in U,
         NEW s \in Seq(Ev), NEW t \in Seq(Ev), Keep(s, seen) = Keep(t, seen)
  PROVE  Rel(seen, e, U, Do(s), Do(t))
<1>1. Keep(s, seen) \in Seq(Ev) /\ e[Through] = <<>>
  BY KeepType DEF Contexts
<1>2. Keep(s, seen) \o e[Through] = Keep(t, seen) /\ Match(Through) = Through
  BY <1>1, ConcatNone, MOutsAre
<1> DEFINE c == Do(s)
           d == Do(t)
<1>3. \A o \in Outcomes : /\ c[o].tr = s /\ c[o].o = o /\ c[o].out = Through
                          /\ d[o].tr = t /\ d[o].o = o /\ d[o].out = Through
  BY DoIs
<1> HIDE DEF c, d
<1>4. Rel(seen, e, U, c, d)
  BY <1>2, <1>3 DEF Rel
<1> QED BY <1>4 DEF c, d

LEMMA RelSkip ==
  ASSUME NEW seen, NEW e \in Contexts, NEW U, Through \in U
  PROVE  Rel(seen, e, U, Skip, Skip)
<1>1. <<>> \in Seq(Ev)
  OBVIOUS
<1> QED BY <1>1, RelDo DEF Skip

LEMMA RelWider ==
  ASSUME NEW seen, NEW e, NEW e2, NEW U, NEW V, U \subseteq V, \A x \in U : e[x] = e2[x],
         NEW p, NEW q, Rel(seen, e, U, p, q)
  PROVE  Rel(seen, e2, V, p, q)
BY DEF Rel

LEMMA RelChain ==
  ASSUME NEW seen, NEW e \in Contexts, NEW U \in SUBSET MOuts,
         NEW p \in Prog, NEW q \in Prog, NEW p2 \in Prog, NEW q2 \in Prog,
         Rel(seen, e, U, p, q), Rel(seen, e, U, p2, q2)
  PROVE  Rel(seen, e, U, Chain(p, p2), Chain(q, q2))
<1> DEFINE c == Chain(p, p2)
           d == Chain(q, q2)
<1> SUFFICES ASSUME NEW o \in Outcomes
             PROVE  /\ c[o].out \in U /\ d[o].o = c[o].o /\ d[o].out = Match(c[o].out)
                    /\ Keep(d[o].tr, seen) = Keep(c[o].tr, seen) \o e[c[o].out]
  BY DEF Rel
<1>1. /\ p[o].out \in U /\ q[o].o = p[o].o /\ q[o].out = Match(p[o].out)
      /\ Keep(q[o].tr, seen) = Keep(p[o].tr, seen) \o e[p[o].out]
  BY DEF Rel
<1>2. p[o].out = Through <=> q[o].out = Through
  BY <1>1, MOutsAre
<1>3. CASE p[o].out # Through
  <2>1. Stops(p, p2, o) /\ Stops(q, q2, o)
    BY <1>2, <1>3, ChainStops
  <2>2. c[o] = p[o] /\ d[o] = q[o]
    BY <2>1 DEF Stops
  <2> QED BY <1>1, <2>2
<1>4. CASE p[o].out = Through
  <2> DEFINE x == p2[p[o].o]
             y == q2[p[o].o]
             s == p[o].tr
             t == q[o].tr
  <2>1. p[o].o \in Outcomes /\ s \in Seq(Ev) /\ t \in Seq(Ev)
    BY ProgIs
  <2>2. /\ x.out \in U /\ y.o = x.o /\ y.out = Match(x.out) /\ x.tr \in Seq(Ev) /\ y.tr \in Seq(Ev)
        /\ Keep(y.tr, seen) = Keep(x.tr, seen) \o e[x.out]
    BY <2>1, ProgIs DEF Rel
  <2>3. /\ c[o].tr = s \o x.tr /\ c[o].o = x.o /\ c[o].out = x.out
        /\ d[o].tr = t \o y.tr /\ d[o].o = y.o /\ d[o].out = y.out
    <3>1. c[o].tr = s \o x.tr /\ c[o].o = x.o /\ c[o].out = x.out
      BY <1>4, ChainIs
    <3>2. q[o].out = Through /\ q[o].o = p[o].o
      BY <1>1, <1>2, <1>4
    <3>3. d[o].tr = t \o q2[q[o].o].tr /\ d[o].o = q2[q[o].o].o /\ d[o].out = q2[q[o].o].out
      BY <3>2, ChainIs
    <3> QED BY <3>1, <3>2, <3>3
  <2>4. Keep(t, seen) = Keep(s, seen)
    <3>1. Keep(t, seen) = Keep(s, seen) \o <<>> /\ Keep(s, seen) \in Seq(Ev)
      BY <1>1, <1>4, <2>1, KeepType DEF Contexts
    <3> QED BY <3>1, ConcatNone
  <2>5. e[x.out] \in Seq(Ev)
    BY <2>2 DEF Contexts
  <2> HIDE DEF x, y, s, t, c, d
  <2>6. Keep(t \o y.tr, seen) = Keep(t, seen) \o Keep(y.tr, seen)
    <3>1. KeepsBoth(t, y.tr, seen)
      BY <2>1, <2>2, KeepCats
    <3> QED BY <3>1 DEF KeepsBoth
  <2>7. Keep(s \o x.tr, seen) = Keep(s, seen) \o Keep(x.tr, seen)
    <3>1. KeepsBoth(s, x.tr, seen)
      BY <2>1, <2>2, KeepCats
    <3> QED BY <3>1 DEF KeepsBoth
  <2>8. Keep(s, seen) \in Seq(Ev) /\ Keep(x.tr, seen) \in Seq(Ev)
    BY <2>1, <2>2, KeepType
  <2>9. Keep(s, seen) \o (Keep(x.tr, seen) \o e[x.out])
          = (Keep(s, seen) \o Keep(x.tr, seen)) \o e[x.out]
    <3>1. Regroups(Keep(s, seen), Keep(x.tr, seen), e[x.out])
      BY <2>5, <2>8, RegroupAll
    <3> QED BY <3>1 DEF Regroups
  <2> QED BY <2>2, <2>3, <2>4, <2>6, <2>7, <2>9
<1> QED BY <1>3, <1>4

LEMMA RelChoice ==
  ASSUME NEW seen, NEW e \in Contexts, NEW U \in SUBSET MOuts, NEW n \in Nat,
         NEW p \in Prog, NEW q \in Prog, NEW p2 \in Prog, NEW q2 \in Prog,
         Rel(seen, e, U, p, q), Rel(seen, e, U, p2, q2)
  PROVE  Rel(seen, e, U, Choice(n, p, p2), Choice(n, q, q2))
<1> DEFINE c == Choice(n, p, p2)
           d == Choice(n, q, q2)
<1> SUFFICES ASSUME NEW o \in Outcomes
             PROVE  /\ c[o].out \in U /\ d[o].o = c[o].o /\ d[o].out = Match(c[o].out)
                    /\ Keep(d[o].tr, seen) = Keep(c[o].tr, seen) \o e[c[o].out]
  BY DEF Rel
<1> DEFINE x == IF Holds(o) THEN p[Rest(o)] ELSE p2[Rest(o)]
           y == IF Holds(o) THEN q[Rest(o)] ELSE q2[Rest(o)]
           s == Test(n)
<1>1. Rest(o) \in Outcomes
  BY OutcomesAre
<1>2. /\ x.out \in U /\ y.o = x.o /\ y.out = Match(x.out) /\ x.tr \in Seq(Ev) /\ y.tr \in Seq(Ev)
      /\ Keep(y.tr, seen) = Keep(x.tr, seen) \o e[x.out]
  BY <1>1, ProgIs DEF Rel
<1>3. /\ c[o].tr = s \o x.tr /\ c[o].o = x.o /\ c[o].out = x.out
      /\ d[o].tr = s \o y.tr /\ d[o].o = y.o /\ d[o].out = y.out
  BY ChoiceIs
<1>4. e[x.out] \in Seq(Ev) /\ s \in Seq(Ev)
  BY <1>2, TestIs DEF Contexts
<1> HIDE DEF x, y, s, c, d
<1>5. Keep(s \o y.tr, seen) = Keep(s, seen) \o Keep(y.tr, seen)
  <2>1. KeepsBoth(s, y.tr, seen)
    BY <1>2, <1>4, KeepCats
  <2> QED BY <2>1 DEF KeepsBoth
<1>6. Keep(s \o x.tr, seen) = Keep(s, seen) \o Keep(x.tr, seen)
  <2>1. KeepsBoth(s, x.tr, seen)
    BY <1>2, <1>4, KeepCats
  <2> QED BY <2>1 DEF KeepsBoth
<1>7. Keep(s, seen) \in Seq(Ev) /\ Keep(x.tr, seen) \in Seq(Ev)
  BY <1>2, <1>4, KeepType
<1>8. Keep(s, seen) \o (Keep(x.tr, seen) \o e[x.out])
        = (Keep(s, seen) \o Keep(x.tr, seen)) \o e[x.out]
  <2>1. Regroups(Keep(s, seen), Keep(x.tr, seen), e[x.out])
    BY <1>4, <1>7, RegroupAll, Zenon
  <2> QED BY <2>1 DEF Regroups
<1> QED BY <1>2, <1>3, <1>5, <1>6, <1>8

(* A statement of block b, unwound by it.                                  *)
LEMMA RelUnwinding ==
  ASSUME NEW seen, NEW inner, NEW outer \in Contexts, NEW U \in SUBSET MOuts,
         NEW b, b.defers \in Seq(Nat), b.errdefers \in Seq(Nat),
         \A x \in U : inner[x] = Keep(Unwound(b, x), seen) \o outer[x],
         NEW p \in Prog, NEW q \in Prog, Rel(seen, inner, U, p, q)
  PROVE  Rel(seen, outer, U, Unwinding(b, p), q)
<1> DEFINE u == Unwinding(b, p)
<1> SUFFICES ASSUME NEW o \in Outcomes
             PROVE  /\ u[o].out \in U /\ q[o].o = u[o].o /\ q[o].out = Match(u[o].out)
                    /\ Keep(q[o].tr, seen) = Keep(u[o].tr, seen) \o outer[u[o].out]
  BY DEF Rel
<1>1. /\ p[o].out \in U /\ q[o].o = p[o].o /\ q[o].out = Match(p[o].out)
      /\ Keep(q[o].tr, seen) = Keep(p[o].tr, seen) \o inner[p[o].out]
  BY DEF Rel
<1> DEFINE x == p[o].out
           w == Unwound(b, x)
           s == p[o].tr
<1>2. u[o].tr = s \o w /\ u[o].o = p[o].o /\ u[o].out = x
  BY UnwindingIs
<1>3. w \in Seq(Ev) /\ s \in Seq(Ev) /\ outer[x] \in Seq(Ev)
  BY <1>1, UnwoundIs, ProgIs DEF Contexts
<1>4. inner[x] = Keep(w, seen) \o outer[x]
  BY <1>1
<1> HIDE DEF w, s, u
<1>5. Keep(s \o w, seen) = Keep(s, seen) \o Keep(w, seen)
  <2>1. KeepsBoth(s, w, seen)
    BY <1>3, KeepCats
  <2> QED BY <2>1 DEF KeepsBoth
<1>6. Keep(s, seen) \in Seq(Ev) /\ Keep(w, seen) \in Seq(Ev)
  BY <1>3, KeepType
<1>7. Keep(s, seen) \o (Keep(w, seen) \o outer[x]) = (Keep(s, seen) \o Keep(w, seen)) \o outer[x]
  <2>1. Regroups(Keep(s, seen), Keep(w, seen), outer[x])
    BY <1>3, <1>6, RegroupAll
  <2> QED BY <2>1 DEF Regroups
<1>8. Keep(q[o].tr, seen) = Keep(s, seen) \o inner[x]
  BY <1>1 DEF s
<1> QED BY <1>1, <1>2, <1>4, <1>5, <1>7, <1>8

-----------------------------------------------------------------------------
(* Loops and switches in C.                                                *)

(* What a loop of this label does not pass on. *)
Caught(label) == Jumping("continue", label) \cup Jumping("break", label)

LEMMA CaughtIs ==
  ASSUME NEW label \in Labels
  PROVE  /\ Through \notin Caught(label) /\ Caught(label) \subseteq MOuts
         /\ \A x \in Caught(label) : x[1] \in Jumps /\ x[2] \in {NoLabel, label}
         /\ \A kind \in Jumps : <<kind, NoLabel>> \in Caught(label) /\ <<kind, label>> \in Caught(label)
BY DEF Caught, Jumping, Through, MOuts, Jumps, Labels

(* The same turn of a loop: again, out of the loop, or past it. *)
SameTurn(seen, e, U, label, r, s) ==
  /\ s.o = r.o
  /\ \/ /\ r.out = Again /\ s.out = Again
        /\ Keep(s.tr, seen) = Keep(r.tr, seen)
     \/ /\ r.out = Through
        /\ \/ s.out = Through
           \/ label # NoLabel /\ <<"break", label>> \in U /\ s.out = Goto(label, "break")
        /\ Keep(s.tr, seen) = Keep(r.tr, seen)
     \/ /\ r.out \in U \ ({Through} \cup Caught(label)) /\ s.out = Match(r.out)
        /\ Keep(s.tr, seen) = Keep(r.tr, seen) \o e[r.out]

LEMMA SameAgain ==
  ASSUME NEW seen, NEW e, NEW U, NEW label, NEW r, NEW s,
         s.o = r.o, Keep(s.tr, seen) = Keep(r.tr, seen),
         \/ r.out = Again /\ s.out = Again
         \/ r.out = Through /\ s.out = Through
  PROVE  SameTurn(seen, e, U, label, r, s)
<1>1. CASE r.out = Again /\ s.out = Again
  BY <1>1, Zenon DEF SameTurn
<1>2. CASE r.out = Through /\ s.out = Through
  BY <1>2, Zenon DEF SameTurn
<1> QED BY <1>1, <1>2

LEMMA SameTurns ==
  ASSUME NEW seen, NEW e \in Contexts, NEW U \in SUBSET MOuts,
         NEW n \in Nat, NEW label \in Labels, NEW body \in Prog, NEW code \in Prog,
         NEW c \in Prog,
         IF label # NoLabel /\ <<"continue", label>> \in U
         THEN Arrives(c, code, Goto(label, "continue")) ELSE c = code,
         \A x \in U \cap Caught(label) : e[x] = <<>>,
         Rel(seen, e, U, body, code),
         NEW o \in Outcomes
  PROVE  LET t == Turns(n, body, {Through} \cup Jumping("continue", label), Jumping("break", label))
             u == Turns(n, c, {Through, <<"continue", NoLabel>>}, {<<"break", NoLabel>>})
         IN SameTurn(seen, e, U, label, t[o], u[o])
<1> DEFINE t == Turns(n, body, {Through} \cup Jumping("continue", label), Jumping("break", label))
           u == Turns(n, c, {Through, <<"continue", NoLabel>>}, {<<"break", NoLabel>>})
           k == Test(n)
<1> SUFFICES SameTurn(seen, e, U, label, t[o], u[o])
  OBVIOUS
<1>1. Rest(o) \in Outcomes /\ k \in Seq(Ev)
  BY OutcomesAre, TestIs
<1>2. CASE ~Holds(o)
  <2>1. t[o].tr = k /\ t[o].o = Rest(o) /\ t[o].out = Through
    BY <1>2, TurnsAre
  <2>2. u[o].tr = k /\ u[o].o = Rest(o) /\ u[o].out = Through
    BY <1>2, TurnsAre
  <2> HIDE DEF t, u
  <2> QED BY <2>1, <2>2, SameAgain
<1>3. CASE Holds(o)
  <2> DEFINE r == body[Rest(o)]
             s == code[Rest(o)]
             d == c[Rest(o)]
             x == r.out
  <2>1. /\ x \in U /\ s.o = r.o /\ s.out = Match(x)
        /\ Keep(s.tr, seen) = Keep(r.tr, seen) \o e[x] /\ r.tr \in Seq(Ev) /\ s.tr \in Seq(Ev)
    BY <1>1, ProgIs DEF Rel
  <2>2. /\ d.tr = s.tr /\ d.o = s.o
        /\ d.out = IF label # NoLabel /\ <<"continue", label>> \in U /\ s.out = Goto(label, "continue")
                   THEN Through ELSE s.out
    BY <1>1 DEF Arrives
  <2>3. /\ t[o].tr = k \o r.tr /\ t[o].o = r.o
        /\ t[o].out = IF x \in {Through} \cup Jumping("continue", label) THEN Again
                      ELSE IF x \in Jumping("break", label) THEN Through ELSE x
    BY <1>3, TurnsAre
  <2>4. /\ u[o].tr = k \o d.tr /\ u[o].o = d.o
        /\ u[o].out = IF d.out \in {Through, <<"continue", NoLabel>>} THEN Again
                      ELSE IF d.out \in {<<"break", NoLabel>>} THEN Through ELSE d.out
    BY <1>3, TurnsAre
  <2>5. x \in MOuts /\ e[x] \in Seq(Ev)
    BY <2>1 DEF Contexts
  <2> HIDE DEF r, s, d, t, u, k, x
  <2>6. /\ Keep(u[o].tr, seen) = Keep(k, seen) \o Keep(s.tr, seen)
        /\ Keep(t[o].tr, seen) = Keep(k, seen) \o Keep(r.tr, seen)
        /\ Keep(k, seen) \in Seq(Ev) /\ Keep(r.tr, seen) \in Seq(Ev) /\ Keep(s.tr, seen) \in Seq(Ev)
    <3>1. Keep(k \o s.tr, seen) = Keep(k, seen) \o Keep(s.tr, seen)
      <4>1. KeepsBoth(k, s.tr, seen)
        BY <1>1, <2>1, KeepCats
      <4> QED BY <4>1 DEF KeepsBoth
    <3>2. Keep(k \o r.tr, seen) = Keep(k, seen) \o Keep(r.tr, seen)
      <4>1. KeepsBoth(k, r.tr, seen)
        BY <1>1, <2>1, KeepCats
      <4> QED BY <4>1 DEF KeepsBoth
    <3>3. Keep(k, seen) \in Seq(Ev) /\ Keep(r.tr, seen) \in Seq(Ev) /\ Keep(s.tr, seen) \in Seq(Ev)
      BY <1>1, <2>1, KeepType
    <3> QED BY <2>2, <2>3, <2>4, <3>1, <3>2, <3>3
  <2>7. Keep(u[o].tr, seen) = Keep(t[o].tr, seen) \o e[x]
    <3>1. Keep(k, seen) \o (Keep(r.tr, seen) \o e[x]) = (Keep(k, seen) \o Keep(r.tr, seen)) \o e[x]
      <4>1. Regroups(Keep(k, seen), Keep(r.tr, seen), e[x])
        BY <2>5, <2>6, RegroupAll
      <4> QED BY <4>1 DEF Regroups
    <3> QED BY <2>1, <2>6, <3>1
  <2>8. u[o].o = t[o].o
    BY <2>1, <2>2, <2>3, <2>4
  <2>9. Keep(t[o].tr, seen) \in Seq(Ev)
    BY <2>6, ConcatType
  <2>10. CASE x = Through \/ x \in Caught(label)
    <3>1. e[x] = <<>>
      BY <2>1, <2>10 DEF Contexts
    <3>2. Keep(u[o].tr, seen) = Keep(t[o].tr, seen)
      BY <2>7, <2>9, <3>1, ConcatNone
    <3>3. CASE x = Through
      <4>1. s.out = Through /\ d.out = Through
        BY <2>1, <2>2, <3>3, MOutsAre
      <4>2. t[o].out = Again /\ u[o].out = Again
        BY <2>3, <2>4, <3>3, <4>1
      <4> QED BY <2>8, <3>2, <4>2, SameAgain
    <3>4. CASE x = <<"continue", NoLabel>>
      <4>1. s.out = x /\ d.out \in {Through, x}
        BY <2>1, <2>2, <3>4 DEF Match, Jumps
      <4>2. t[o].out = Again /\ u[o].out = Again
        BY <2>3, <2>4, <3>4, <4>1 DEF Jumping
      <4> QED BY <2>8, <3>2, <4>2, SameAgain
    <3>5. CASE x = <<"break", NoLabel>>
      <4>1. s.out = x /\ d.out = x
        BY <2>1, <2>2, <3>5 DEF Match, Jumps, Goto
      <4>2. t[o].out = Through /\ u[o].out = Through
        BY <2>3, <2>4, <3>5, <4>1 DEF Jumping, Through
      <4> QED BY <2>8, <3>2, <4>2, SameAgain
    <3>6. CASE label # NoLabel /\ x = <<"continue", label>>
      <4>1. s.out = Goto(label, "continue") /\ d.out = Through
        BY <2>1, <2>2, <3>6 DEF Match, Jumps
      <4>2. t[o].out = Again /\ u[o].out = Again
        BY <2>3, <2>4, <3>6, <4>1 DEF Jumping
      <4> QED BY <2>8, <3>2, <4>2, SameAgain
    <3>7. CASE label # NoLabel /\ x = <<"break", label>>
      <4>1. s.out = Goto(label, "break") /\ d.out = Goto(label, "break")
        BY <2>1, <2>2, <3>7 DEF Match, Jumps, Goto
      <4>2. t[o].out = Through /\ u[o].out = Goto(label, "break")
        BY <2>3, <2>4, <3>7, <4>1 DEF Jumping, Through, Goto
      <4> QED BY <2>1, <2>8, <3>2, <3>7, <4>2 DEF SameTurn
    <3> QED BY <2>10, <3>3, <3>4, <3>5, <3>6, <3>7 DEF Caught, Jumping
  <2>11. CASE x # Through /\ x \notin Caught(label)
    <3>1. x \notin Jumping("continue", label) /\ x \notin Jumping("break", label)
      BY <2>11 DEF Caught
    <3>2. t[o].out = x
      BY <2>3, <2>11, <3>1
    <3>3. /\ s.out # Through /\ s.out # <<"continue", NoLabel>> /\ s.out # <<"break", NoLabel>>
          /\ label # NoLabel => s.out # Goto(label, "continue")
      <4>1. /\ x # <<"continue", NoLabel>> /\ x # <<"break", NoLabel>> /\ x # <<"continue", label>>
        BY <3>1 DEF Jumping
      <4>2. label # NoLabel => label \in LoopLabels
        BY DEF Labels
      <4>3. "continue" \in Jumps /\ "break" \in Jumps
        BY DEF Jumps
      <4> QED BY <2>1, <2>5, <2>11, <4>1, <4>2, <4>3, MOutsAre
    <3>4. d.out = Match(x)
      BY <2>1, <2>2, <3>3
    <3>5. u[o].out = Match(x)
      BY <2>1, <2>4, <3>3, <3>4
    <3> QED BY <2>1, <2>7, <2>8, <2>11, <3>2, <3>5 DEF SameTurn
  <2> QED BY <2>10, <2>11
<1> QED BY <1>2, <1>3

(* The loop: the same turns, then the anchor behind it. *)
LEMMA RelLoop ==
  ASSUME NEW seen, NEW e \in Contexts, NEW U \in SUBSET MOuts, Through \in U,
         NEW n \in Nat, NEW label \in Labels, NEW body \in Prog, NEW code \in Prog,
         NEW c \in Prog,
         IF label # NoLabel /\ <<"continue", label>> \in U
         THEN Arrives(c, code, Goto(label, "continue")) ELSE c = code,
         \A x \in U \cap Caught(label) : e[x] = <<>>,
         Rel(seen, e, U, body, code),
         NEW d \in Prog,
         IF label # NoLabel /\ <<"break", label>> \in U
         THEN Arrives(d, CLoop(n, c), Goto(label, "break")) ELSE d = CLoop(n, c)
  PROVE  LET loop == Loop(n, body, {Through} \cup Jumping("continue", label), Jumping("break", label))
         IN /\ loop \in Prog /\ CLoop(n, c) \in Prog
            /\ Rel(seen, e, U \ Caught(label), loop, d)
<1> DEFINE t == Turns(n, body, {Through} \cup Jumping("continue", label), Jumping("break", label))
           u == Turns(n, c, {Through, <<"continue", NoLabel>>}, {<<"break", NoLabel>>})
           p == Repeat(t)
           q == Repeat(u)
<1>1. \A o \in Outcomes : SameTurn(seen, e, U, label, t[o], u[o])
  BY SameTurns
<1>2. /\ t \in Prog /\ u \in Prog
      /\ \A o \in Outcomes : t[o].out = Again => Len(t[o].o) < Len(o)
      /\ \A o \in Outcomes : u[o].out = Again => Len(u[o].o) < Len(o)
  BY TurnsAre
<1> HIDE DEF t, u
<1>3. p \in Prog /\ q \in Prog /\ RepeatBy(p, t) /\ RepeatBy(q, u)
  BY <1>2, RepeatIs
<1> HIDE DEF p, q
<1> DEFINE S == {o \in Outcomes : /\ SameTurn(seen, e, U, label, p[o], q[o]) /\ p[o].out # Again}
<1>4. ASSUME NEW o \in Outcomes, \A r \in Outcomes : Len(r) < Len(o) => r \in S
      PROVE  o \in S
  <2>1. /\ p[o] = IF t[o].out = Again THEN Then(t[o].tr, p[t[o].o]) ELSE t[o]
        /\ q[o] = IF u[o].out = Again THEN Then(u[o].tr, q[u[o].o]) ELSE u[o]
    BY <1>3 DEF RepeatBy
  <2>2. SameTurn(seen, e, U, label, t[o], u[o])
    BY <1>1
  <2>3. CASE t[o].out # Again
    <3>1. u[o].out # Again
      <4>1. CASE u[o].out = Through
        BY <4>1 DEF Through, Again
      <4>2. CASE u[o].out = Goto(label, "break")
        BY <4>2 DEF Goto, Again
      <4>3. CASE t[o].out \in U /\ u[o].out = Match(t[o].out)
        BY <4>3, MOutsAre
      <4> QED BY <2>2, <2>3, <4>1, <4>2, <4>3 DEF SameTurn
    <3> QED BY <2>1, <2>2, <2>3, <3>1
  <2>4. CASE t[o].out = Again
    <3> DEFINE r == t[o].o
               a == t[o].tr
               b == u[o].tr
               x == p[r]
               y == q[r]
    <3>1. /\ u[o].out = Again /\ u[o].o = r /\ Keep(b, seen) = Keep(a, seen)
      BY <2>2, <2>4, MOutsAre DEF SameTurn, Through, Again
    <3>2. /\ r \in Outcomes /\ Len(r) < Len(o) /\ a \in Seq(Ev) /\ b \in Seq(Ev)
      BY <1>2, <2>4, ProgIs
    <3>3. SameTurn(seen, e, U, label, x, y) /\ x.out # Again
      BY <1>4, <3>2
    <3>4. /\ x \in Runs /\ y \in Runs /\ x.tr \in Seq(Ev) /\ y.tr \in Seq(Ev)
      BY <1>3, <3>2, ProgIs
    <3>5. p[o] = Then(a, x) /\ q[o] = Then(b, y)
      BY <2>1, <2>4, <3>1
    <3> HIDE DEF r, a, b, x, y
    <3>6. /\ p[o].tr = a \o x.tr /\ p[o].o = x.o /\ p[o].out = x.out
          /\ q[o].tr = b \o y.tr /\ q[o].o = y.o /\ q[o].out = y.out
      <4>1. Then(a, x).tr = a \o x.tr /\ Then(a, x).o = x.o /\ Then(a, x).out = x.out
        BY <3>2, <3>4, ThenIs
      <4>2. Then(b, y).tr = b \o y.tr /\ Then(b, y).o = y.o /\ Then(b, y).out = y.out
        BY <3>2, <3>4, ThenIs
      <4> QED BY <3>5, <4>1, <4>2
    <3>7. /\ Keep(p[o].tr, seen) = Keep(a, seen) \o Keep(x.tr, seen)
          /\ Keep(q[o].tr, seen) = Keep(a, seen) \o Keep(y.tr, seen)
          /\ Keep(a, seen) \in Seq(Ev) /\ Keep(x.tr, seen) \in Seq(Ev)
      <4>1. Keep(a \o x.tr, seen) = Keep(a, seen) \o Keep(x.tr, seen)
        <5>1. KeepsBoth(a, x.tr, seen)
          BY <3>2, <3>4, KeepCats
        <5> QED BY <5>1 DEF KeepsBoth
      <4>2. Keep(b \o y.tr, seen) = Keep(b, seen) \o Keep(y.tr, seen)
        <5>1. KeepsBoth(b, y.tr, seen)
          BY <3>2, <3>4, KeepCats
        <5> QED BY <5>1 DEF KeepsBoth
      <4>3. Keep(a, seen) \in Seq(Ev) /\ Keep(x.tr, seen) \in Seq(Ev)
        BY <3>2, <3>4, KeepType
      <4> QED BY <3>1, <3>6, <4>1, <4>2, <4>3
    <3>8. CASE x.out = Through
      <4>1. Keep(y.tr, seen) = Keep(x.tr, seen)
        BY <3>3, <3>8 DEF SameTurn, Through, Again
      <4>2. Keep(q[o].tr, seen) = Keep(p[o].tr, seen)
        BY <3>7, <4>1
      <4>3. SameTurn(seen, e, U, label, p[o], q[o])
        BY <3>3, <3>6, <3>8, <4>2 DEF SameTurn, Through, Again
      <4> QED BY <3>3, <3>6, <4>3
    <3>9. CASE x.out # Through
      <4>1. /\ x.out \in U \ ({Through} \cup Caught(label)) /\ y.out = Match(x.out) /\ y.o = x.o
            /\ Keep(y.tr, seen) = Keep(x.tr, seen) \o e[x.out]
        BY <3>3, <3>9 DEF SameTurn
      <4>2. e[x.out] \in Seq(Ev)
        BY <4>1 DEF Contexts
      <4>3. Keep(q[o].tr, seen) = Keep(p[o].tr, seen) \o e[x.out]
        <5>1. Keep(a, seen) \o (Keep(x.tr, seen) \o e[x.out])
                = (Keep(a, seen) \o Keep(x.tr, seen)) \o e[x.out]
          <6>1. Regroups(Keep(a, seen), Keep(x.tr, seen), e[x.out])
            BY <3>7, <4>2, RegroupAll
          <6> QED BY <6>1 DEF Regroups
        <5> QED BY <3>6, <3>7, <4>1, <5>1
      <4>4. SameTurn(seen, e, U, label, p[o], q[o])
        BY <3>6, <4>1, <4>3 DEF SameTurn
      <4> QED BY <3>3, <3>6, <4>4
    <3> QED BY <3>8, <3>9
  <2> QED BY <2>3, <2>4
<1> HIDE DEF S
<1>5. \A o \in Outcomes : o \in S
  BY <1>4, ByOutcomes
<1>6. CLoop(n, c) = q
  BY DEF CLoop, Loop, q, u
<1>7. Rel(seen, e, U \ Caught(label), p, d)
  <2> SUFFICES ASSUME NEW o \in Outcomes
               PROVE  /\ p[o].out \in U \ Caught(label)
                      /\ d[o].o = p[o].o /\ d[o].out = Match(p[o].out)
                      /\ Keep(d[o].tr, seen) = Keep(p[o].tr, seen) \o e[p[o].out]
    BY DEF Rel
  <2>1. SameTurn(seen, e, U, label, p[o], q[o]) /\ p[o].out # Again
    BY <1>5 DEF S
  <2>2. /\ d[o].tr = q[o].tr /\ d[o].o = q[o].o
        /\ d[o].out = IF label # NoLabel /\ <<"break", label>> \in U /\ q[o].out = Goto(label, "break")
                      THEN Through ELSE q[o].out
    BY <1>6 DEF Arrives
  <2>3. p[o].tr \in Seq(Ev)
    BY <1>3, ProgIs
  <2>4. CASE p[o].out = Through
    <3>1. /\ q[o].o = p[o].o /\ Keep(q[o].tr, seen) = Keep(p[o].tr, seen)
          /\ \/ q[o].out = Through
             \/ label # NoLabel /\ <<"break", label>> \in U /\ q[o].out = Goto(label, "break")
      BY <2>1, <2>4 DEF SameTurn, Through, Again
    <3>2. d[o].out = Through
      BY <2>2, <3>1 DEF Through, Goto
    <3>3. Keep(p[o].tr, seen) \o e[Through] = Keep(p[o].tr, seen)
      <4> DEFINE k == Keep(p[o].tr, seen)
      <4>1. k \in Seq(Ev) /\ e[Through] = <<>>
        BY <2>3, KeepType DEF Contexts
      <4> HIDE DEF k
      <4>2. k \o <<>> = k
        BY <4>1, ConcatNone
      <4> QED BY <4>1, <4>2 DEF k
    <3> QED BY <2>2, <2>4, <3>1, <3>2, <3>3, CaughtIs, MOutsAre
  <2>5. CASE p[o].out # Through
    <3> DEFINE x == p[o].out
    <3>1. /\ x \in U \ ({Through} \cup Caught(label)) /\ q[o].out = Match(x) /\ q[o].o = p[o].o
          /\ Keep(q[o].tr, seen) = Keep(p[o].tr, seen) \o e[x]
      BY <2>1, <2>5 DEF SameTurn
    <3>2. label # NoLabel => Match(x) # Goto(label, "break")
      <4>1. x # <<"break", label>> /\ (label # NoLabel => label \in LoopLabels) /\ "break" \in Jumps
        BY <3>1 DEF Caught, Jumping, Labels, Jumps
      <4> QED BY <3>1, <4>1, MOutsAre
    <3> QED BY <2>2, <3>1, <3>2
  <2> QED BY <2>4, <2>5
<1> QED BY <1>3, <1>6, <1>7 DEF Loop, p, t

(* Behind the loop, what it owns is released. *)
LEMMA RelRelease ==
  ASSUME NEW seen, NEW e \in Contexts, NEW e2 \in Contexts, NEW U \in SUBSET MOuts,
         NEW w \in Seq(Ev), \A x \in U \ {Through} : e[x] = Keep(w, seen) \o e2[x],
         NEW p \in Prog, NEW r \in Prog, NEW q \in Prog, Rel(seen, e, U, p, q),
         \A o \in Outcomes : r[o].tr = p[o].tr \o w /\ r[o].o = p[o].o /\ r[o].out = p[o].out
  PROVE  Rel(seen, e2, U, r, Chain(q, Do(w)))
<1> DEFINE d == Chain(q, Do(w))
<1> SUFFICES ASSUME NEW o \in Outcomes
             PROVE  /\ r[o].out \in U /\ d[o].o = r[o].o /\ d[o].out = Match(r[o].out)
                    /\ Keep(d[o].tr, seen) = Keep(r[o].tr, seen) \o e2[r[o].out]
  BY DEF Rel
<1> DEFINE x == p[o].out
           s == p[o].tr
           t == q[o].tr
<1>1. /\ x \in U /\ q[o].o = p[o].o /\ q[o].out = Match(x) /\ s \in Seq(Ev) /\ t \in Seq(Ev)
      /\ Keep(t, seen) = Keep(s, seen) \o e[x] /\ q[o].o \in Outcomes
  BY ProgIs DEF Rel
<1>2. r[o].tr = s \o w /\ r[o].o = p[o].o /\ r[o].out = x
  OBVIOUS
<1>3. e2[x] \in Seq(Ev) /\ e[x] \in Seq(Ev)
  BY <1>1 DEF Contexts
<1>4. Keep(s, seen) \in Seq(Ev) /\ Keep(w, seen) \in Seq(Ev) /\ Keep(t, seen) \in Seq(Ev)
      /\ Keep(s \o w, seen) = Keep(s, seen) \o Keep(w, seen)
      /\ Keep(t \o w, seen) = Keep(t, seen) \o Keep(w, seen)
  BY <1>1, KeepOf
<1>5. CASE x = Through
  <2>1. q[o].out = Through
    BY <1>1, <1>5, MOutsAre
  <2>2. d[o].tr = t \o w /\ d[o].o = q[o].o /\ d[o].out = Through
    <3>1. Do(w) \in Prog
      BY DoIs
    <3>2. Do(w)[q[o].o].tr = w /\ Do(w)[q[o].o].o = q[o].o /\ Do(w)[q[o].o].out = Through
      BY <1>1, DoIs
    <3>3. /\ d[o].tr = t \o Do(w)[q[o].o].tr
          /\ d[o].o = Do(w)[q[o].o].o /\ d[o].out = Do(w)[q[o].o].out
      BY <2>1, <3>1, ChainIs
    <3> QED BY <3>2, <3>3
  <2>3. Keep(t, seen) = Keep(s, seen)
    BY <1>1, <1>4, <1>5, ConcatNone DEF Contexts
  <2>4. (Keep(s, seen) \o Keep(w, seen)) \o e2[x] = Keep(s, seen) \o Keep(w, seen)
    BY <1>4, <1>5, ConcatType, ConcatNone DEF Contexts
  <2> HIDE DEF x, s, t, d
  <2> QED BY <1>1, <1>2, <1>4, <1>5, <2>1, <2>2, <2>3, <2>4
<1>6. CASE x # Through
  <2>1. q[o].out # Through
    BY <1>1, <1>6, MOutsAre
  <2>2. d[o] = q[o]
    <3>1. Do(w) \in Prog
      BY DoIs
    <3> QED BY <2>1, <3>1, ChainIs
  <2>3. e[x] = Keep(w, seen) \o e2[x]
    BY <1>1, <1>6
  <2>4. (Keep(s, seen) \o Keep(w, seen)) \o e2[x] = Keep(s, seen) \o (Keep(w, seen) \o e2[x])
    <3>1. Regroups(Keep(s, seen), Keep(w, seen), e2[x])
      BY <1>3, <1>4, RegroupAll
    <3> QED BY <3>1 DEF Regroups
  <2> HIDE DEF x, d
  <2> QED BY <1>1, <1>2, <1>4, <2>2, <2>3, <2>4
<1> QED BY <1>5, <1>6

LEMMA RelSwitch ==
  ASSUME NEW seen, NEW e \in Contexts, NEW U \in SUBSET MOuts, NEW n \in Nat,
         <<"break", NoLabel>> \notin U,
         NEW p \in Prog, NEW q \in Prog, NEW p2 \in Prog, NEW q2 \in Prog,
         Rel(seen, e, U, p, q), Rel(seen, e, U, p2, q2)
  PROVE  Rel(seen, e, U, Choice(n, p, p2), CSwitch(n, q, q2))
<1>1. Rel(seen, e, U, Choice(n, p, p2), Choice(n, q, q2))
  BY RelChoice
<1>2. Arrives(CSwitch(n, q, q2), Choice(n, q, q2), <<"break", NoLabel>>)
  BY CSwitchIs
<1>3. \A x \in U : Match(x) # <<"break", NoLabel>>
  BY MOutsAre DEF Jumps
<1> DEFINE c == Choice(n, p, p2)
           d == Choice(n, q, q2)
           s == CSwitch(n, q, q2)
<1>4. ASSUME NEW o \in Outcomes
      PROVE  /\ c[o].out \in U /\ s[o].o = c[o].o /\ s[o].out = Match(c[o].out)
             /\ Keep(s[o].tr, seen) = Keep(c[o].tr, seen) \o e[c[o].out]
  <2>1. /\ c[o].out \in U /\ d[o].o = c[o].o /\ d[o].out = Match(c[o].out)
        /\ Keep(d[o].tr, seen) = Keep(c[o].tr, seen) \o e[c[o].out]
    BY <1>1 DEF Rel
  <2>2. /\ s[o].tr = d[o].tr /\ s[o].o = d[o].o
        /\ s[o].out = IF d[o].out = <<"break", NoLabel>> THEN Through ELSE d[o].out
    BY <1>2 DEF Arrives
  <2>3. d[o].out # <<"break", NoLabel>>
    BY <1>3, <2>1
  <2> HIDE DEF c, d, s
  <2> QED BY <2>1, <2>2, <2>3
<1> QED BY <1>4 DEF Rel

(* Nothing runs after a program that never goes Through. *)
LEMMA RelNever ==
  ASSUME NEW seen, NEW e, NEW U, NEW p \in Prog, NEW p2 \in Prog, NEW q,
         \A o \in Outcomes : p[o].out # Through,
         Rel(seen, e, U, p, q)
  PROVE  Rel(seen, e, U, Chain(p, p2), q)
<1>1. \A o \in Outcomes : Chain(p, p2)[o] = p[o]
  BY ChainIs
<1> QED BY <1>1 DEF Rel

-----------------------------------------------------------------------------
(* What a stack of cleanups comes to.                                      *)

LEMMA StackTypes ==
  ASSUME NEW pieces \in Seq(Seq(Ev)), NEW a \in Nat
  PROVE  Downward(pieces, a) \in Seq(Ev) /\ Upward(pieces, a) \in Seq(Ev)
<1>1. PICK down \in [0 .. Len(pieces) -> Seq(Ev)] : Downward(pieces, a) = down[Len(pieces)]
  BY DownwardIs
<1>2. PICK up \in [0 .. Len(pieces) -> Seq(Ev)] : Upward(pieces, a) = up[Len(pieces)]
  BY UpwardIs
<1>3. Len(pieces) \in 0 .. Len(pieces)
  OBVIOUS
<1> QED BY <1>1, <1>2, <1>3

(* Going from block m out to block n each of which adds nothing or the next *)
(* piece of the stack comes to the stack from its top down to a.           *)
LEMMA Stacked ==
  ASSUME NEW seen, NEW pieces \in Seq(Seq(Ev)), NEW a \in Nat,
         NEW n \in Nat, NEW m \in 0 .. n,
         NEW at \in [0 .. n -> 0 .. Len(pieces)], at[m] <= a, at[n] = Len(pieces),
         NEW z \in Seq(Ev), NEW x \in [0 .. n -> Seq(Ev)], x[m] = z,
         \A i \in m + 1 .. n :
           \/ at[i] = at[i - 1] /\ x[i] = x[i - 1]
           \/ /\ at[i] = at[i - 1] + 1 /\ at[i] > a
              /\ x[i] = Keep(pieces[at[i]], seen) \o x[i - 1]
  PROVE  x[n] = Keep(Downward(pieces, a), seen) \o z
<1>1. PICK down \in [0 .. Len(pieces) -> Seq(Ev)] :
        Downward(pieces, a) = down[Len(pieces)] /\ DownwardBy(down, pieces, a)
  BY DownwardIs
<1>2. \A k \in 0 .. Len(pieces) :
        down[k] = IF k <= a THEN <<>> ELSE pieces[k] \o down[k - 1]
  BY <1>1 DEF DownwardBy
<1>3. Len(pieces) \in Nat /\ n - m \in Nat
  OBVIOUS
<1> DEFINE T == {k \in 0 .. n - m : x[m + k] = Keep(down[at[m + k]], seen) \o z}
<1>4. 0 \in T
  <2>1. at[m + 0] \in 0 .. Len(pieces) /\ m + 0 = m
    OBVIOUS
  <2>2. Keep(down[at[m + 0]], seen) = <<>>
    BY <1>2, <2>1, KeepEmpty
  <2>3. <<>> \o z = z
    BY ConcatNone
  <2> QED BY <1>3, <2>1, <2>2, <2>3
<1>5. ASSUME NEW k \in 1 .. n - m, k - 1 \in T PROVE k \in T
  <2> DEFINE i == m + k
  <2>1. /\ i \in m + 1 .. n /\ i - 1 \in 0 .. n /\ i \in 0 .. n /\ m + (k - 1) = i - 1
        /\ k \in 0 .. n - m
    BY <1>3
  <2>2. x[i - 1] = Keep(down[at[i - 1]], seen) \o z
    BY <1>5, <2>1
  <2>3. CASE at[i] = at[i - 1] /\ x[i] = x[i - 1]
    BY <2>1, <2>2, <2>3
  <2>4. CASE /\ at[i] = at[i - 1] + 1 /\ at[i] > a
             /\ x[i] = Keep(pieces[at[i]], seen) \o x[i - 1]
    <3> DEFINE j == at[i]
               s == pieces[j]
               t == down[at[i - 1]]
    <3>1. j \in 1 .. Len(pieces) /\ at[i - 1] = j - 1 /\ j - 1 \in 0 .. Len(pieces)
      <4>1. j \in 0 .. Len(pieces) /\ at[i - 1] \in 0 .. Len(pieces)
        BY <2>1
      <4>2. j = at[i - 1] + 1
        BY <2>4
      <4> DEFINE y == at[i - 1]
                 w == Len(pieces)
      <4>3. y \in 0 .. w /\ j = y + 1 /\ j \in 0 .. w /\ w \in Nat
        BY <1>3, <4>1, <4>2
      <4> HIDE DEF j, y, w
      <4>4. j \in 1 .. w /\ y = j - 1 /\ j - 1 \in 0 .. w
        BY <4>3
      <4> QED BY <4>4 DEF y, w
    <3>2. down[j] = s \o t
      <4>1. j > a /\ j \in 0 .. Len(pieces)
        BY <1>3, <2>4, <3>1
      <4>2. down[j] = IF j <= a THEN <<>> ELSE pieces[j] \o down[j - 1]
        BY <1>2, <4>1
      <4>3. ~(j <= a)
        BY <1>3, <4>1
      <4> QED BY <3>1, <4>2, <4>3
    <3>3. s \in Seq(Ev) /\ t \in Seq(Ev)
      BY <3>1
    <3> HIDE DEF s, t, j
    <3>4. Keep(s \o t, seen) = Keep(s, seen) \o Keep(t, seen)
          /\ Keep(s, seen) \in Seq(Ev) /\ Keep(t, seen) \in Seq(Ev)
      BY <3>3, KeepOf
    <3>5. Keep(s, seen) \o (Keep(t, seen) \o z) = (Keep(s, seen) \o Keep(t, seen)) \o z
      <4>1. Regroups(Keep(s, seen), Keep(t, seen), z)
        BY <3>4, RegroupAll
      <4> QED BY <4>1 DEF Regroups
    <3>6. x[i] = Keep(s, seen) \o (Keep(t, seen) \o z)
      BY <2>2, <2>4 DEF s, t, j
    <3>7. x[i] = Keep(down[at[i]], seen) \o z
      BY <3>2, <3>4, <3>5, <3>6 DEF j
    <3> QED BY <2>1, <3>7
  <2> QED BY <2>1, <2>3, <2>4
<1> HIDE DEF T
<1>6. \A k \in 0 .. n - m : k \in T
  BY <1>3, <1>4, <1>5, UpTo
<1>7. n - m \in T /\ m + (n - m) = n
  BY <1>3, <1>6
<1>8. x[n] = Keep(down[at[n]], seen) \o z
  BY <1>7 DEF T
<1> QED BY <1>1, <1>8

(* A stack of which nothing is seen comes to nothing. *)
LEMMA StackedNone ==
  ASSUME NEW seen, NEW pieces \in Seq(Seq(Ev)), NEW a \in Nat,
         \A k \in 1 .. Len(pieces) : Keep(pieces[k], seen) = <<>>
  PROVE  Keep(Downward(pieces, a), seen) = <<>>
<1> DEFINE n == Len(pieces)
           at == [i \in 0 .. n |-> i]
           x == [i \in 0 .. n |-> <<>>]
           e == <<>>
<1>1. n \in Nat /\ e \in Seq(Ev) /\ at \in [0 .. n -> 0 .. n] /\ x \in [0 .. n -> Seq(Ev)]
  OBVIOUS
<1>2. PICK down \in [0 .. n -> Seq(Ev)] :
        Downward(pieces, a) = down[n] /\ DownwardBy(down, pieces, a)
  BY DownwardIs
<1>3. \A k \in 0 .. n : down[k] = IF k <= a THEN <<>> ELSE pieces[k] \o down[k - 1]
  BY <1>2 DEF DownwardBy
<1> DEFINE T == {k \in 0 .. n : Keep(down[k], seen) = <<>>}
<1>4. 0 \in T
  <2>1. down[0] = <<>>
    <3>1. 0 \in 0 .. n /\ 0 <= a
      BY <1>1
    <3>2. down[0] = IF 0 <= a THEN <<>> ELSE pieces[0] \o down[0 - 1]
      BY <1>3, <3>1
    <3> QED BY <3>1, <3>2
  <2>2. Keep(down[0], seen) = <<>>
    BY <2>1, KeepEmpty
  <2> QED BY <1>1, <2>2
<1>5. ASSUME NEW k \in 1 .. n, k - 1 \in T PROVE k \in T
  <2>1. k \in 0 .. n /\ k - 1 \in 0 .. n /\ pieces[k] \in Seq(Ev) /\ down[k - 1] \in Seq(Ev)
    <3>1. k \in 0 .. n /\ k - 1 \in 0 .. n
      OBVIOUS
    <3>2. \A i \in 1 .. n : pieces[i] \in Seq(Ev)
      OBVIOUS
    <3> QED BY <3>1, <3>2
  <2>2. Keep(pieces[k] \o down[k - 1], seen) = Keep(pieces[k], seen) \o Keep(down[k - 1], seen)
    <3>1. KeepsBoth(pieces[k], down[k - 1], seen)
      BY <2>1, KeepCats
    <3> QED BY <3>1 DEF KeepsBoth
  <2>3. Keep(pieces[k] \o down[k - 1], seen) = <<>>
    <3>1. Keep(pieces[k], seen) = <<>> /\ Keep(down[k - 1], seen) = <<>> /\ <<>> \in Seq(Ev)
      BY <1>1, <1>5
    <3>2. <<>> \o <<>> = <<>>
      BY <3>1, ConcatNone
    <3> QED BY <2>2, <3>1, <3>2
  <2> QED BY <1>3, <2>1, <2>3, KeepEmpty
<1> HIDE DEF T
<1>6. \A k \in 0 .. n : k \in T
  BY <1>1, <1>4, <1>5, UpTo
<1>7. n \in T
  BY <1>1, <1>6
<1> QED BY <1>2, <1>7 DEF T

(* Of a stack with one piece that is seen, up and down come to the same. *)
LEMMA UpAndDown ==
  ASSUME NEW seen, NEW pieces \in Seq(Seq(Ev)), NEW a \in Nat,
         \A i, j \in 1 .. Len(pieces) :
           i < j => Keep(pieces[i], seen) = <<>> \/ Keep(pieces[j], seen) = <<>>
  PROVE  Keep(Upward(pieces, a), seen) = Keep(Downward(pieces, a), seen)
<1> DEFINE n == Len(pieces)
           piece(k) == Keep(pieces[k], seen)
<1>1. n \in Nat /\ \A k \in 1 .. n : pieces[k] \in Seq(Ev)
  OBVIOUS
<1>2. PICK down \in [0 .. n -> Seq(Ev)] :
        Downward(pieces, a) = down[n] /\ DownwardBy(down, pieces, a)
  BY DownwardIs
<1>3. PICK up \in [0 .. n -> Seq(Ev)] :
        Upward(pieces, a) = up[n] /\ UpwardBy(up, pieces, a)
  BY UpwardIs
<1>4. \A k \in 0 .. n : down[k] = IF k <= a THEN <<>> ELSE pieces[k] \o down[k - 1]
  BY <1>2 DEF DownwardBy
<1>5. \A k \in 0 .. n : up[k] = IF k <= a THEN <<>> ELSE up[k - 1] \o pieces[k]
  BY <1>3 DEF UpwardBy
<1> DEFINE T == {k \in 0 .. n : /\ Keep(up[k], seen) = Keep(down[k], seen)
                                /\ Keep(down[k], seen) # <<>> =>
                                     \E i \in 1 .. k : piece(i) # <<>>}
<1>6. 0 \in T
  <2>1. 0 \in 0 .. n /\ 0 <= a
    BY <1>1
  <2>2. up[0] = <<>> /\ down[0] = <<>>
    BY <1>4, <1>5, <2>1
  <2> QED BY <2>1, <2>2, KeepEmpty
<1>7. ASSUME NEW k \in 1 .. n, k - 1 \in T PROVE k \in T
  <2> DEFINE d == down[k - 1]
             u == up[k - 1]
             s == pieces[k]
  <2>1. k \in 0 .. n /\ k - 1 \in 0 .. n /\ s \in Seq(Ev) /\ d \in Seq(Ev) /\ u \in Seq(Ev)
    <3>1. k \in 0 .. n /\ k - 1 \in 0 .. n
      OBVIOUS
    <3> QED BY <1>1, <3>1
  <2>2. /\ Keep(u, seen) = Keep(d, seen)
        /\ Keep(d, seen) # <<>> => \E i \in 1 .. k - 1 : piece(i) # <<>>
    BY <1>7
  <2>3. CASE k <= a
    <3>1. up[k] = <<>> /\ down[k] = <<>>
      BY <1>4, <1>5, <2>1, <2>3
    <3> QED BY <2>1, <3>1, KeepEmpty
  <2>4. CASE ~(k <= a)
    <3>1. up[k] = u \o s /\ down[k] = s \o d
      BY <1>4, <1>5, <2>1, <2>4
    <3>2. Keep(s, seen) = piece(k)
      OBVIOUS
    <3>3. /\ Keep(d, seen) # <<>> => \E i \in 1 .. k - 1 : piece(i) # <<>>
          /\ \A i \in 1 .. k - 1 : piece(i) = <<>> \/ piece(k) = <<>>
      <4>1. \A i \in 1 .. k - 1 : i \in 1 .. n /\ i < k
        BY <1>1
      <4> QED BY <2>2, <4>1
    <3> HIDE DEF d, u, s, piece
    <3>4. /\ Keep(up[k], seen) = Keep(d, seen) \o piece(k)
          /\ Keep(down[k], seen) = piece(k) \o Keep(d, seen)
          /\ Keep(d, seen) \in Seq(Ev) /\ piece(k) \in Seq(Ev)
      <4>1. Keep(u \o s, seen) = Keep(u, seen) \o Keep(s, seen)
        <5>1. KeepsBoth(u, s, seen)
          BY <2>1, KeepCats
        <5> QED BY <5>1 DEF KeepsBoth
      <4>2. Keep(s \o d, seen) = Keep(s, seen) \o Keep(d, seen)
        <5>1. KeepsBoth(s, d, seen)
          BY <2>1, KeepCats
        <5> QED BY <5>1 DEF KeepsBoth
      <4>3. Keep(d, seen) \in Seq(Ev) /\ Keep(s, seen) \in Seq(Ev)
        BY <2>1, KeepType
      <4> QED BY <2>2, <3>1, <3>2, <4>1, <4>2, <4>3
    <3>5. CASE piece(k) = <<>>
      <4>1. Keep(up[k], seen) = Keep(d, seen) /\ Keep(down[k], seen) = Keep(d, seen)
        BY <3>4, <3>5, ConcatNone
      <4> QED BY <2>1, <3>3, <4>1
    <3>6. CASE piece(k) # <<>>
      <4>1. Keep(d, seen) = <<>>
        BY <3>3, <3>6
      <4>2. Keep(up[k], seen) = piece(k) /\ Keep(down[k], seen) = piece(k)
        BY <3>4, <4>1, ConcatNone
      <4> QED BY <2>1, <3>6, <4>2
    <3> QED BY <3>5, <3>6
  <2> QED BY <2>3, <2>4
<1> HIDE DEF T
<1>8. \A k \in 0 .. n : k \in T
  BY <1>1, <1>6, <1>7, UpTo
<1>9. n \in T
  BY <1>1, <1>8
<1> QED BY <1>2, <1>3, <1>9 DEF T

-----------------------------------------------------------------------------
(* The blocks that are open and the four stacks of the generator.          *)

LoopKinds == {"while", "for"}
Kinds == Unscoped \cup LoopKinds \cup {"if", "weave"}
Uses == Labels \X Jumps
Branches == [means : Prog, does : Prog]
Blocks == [k : Kinds, n : Nat, label : Labels, cond : {"dyn", "true", "false"},
           last : StmtKinds \cup {"none"}, uses : SUBSET Uses,
           defers : Seq(Nat), errdefers : Seq(Nat), means : Prog, does : Prog,
           first : {NoBranch} \cup Branches]
LoopScopes == [label : Labels, release : Nat]

TypeOK ==
  /\ open \in Seq(Blocks) /\ defers \in Seq(Seq(Nat)) /\ errdefers \in Seq(Seq(Nat))
  /\ loops \in Seq(LoopScopes) /\ baselines \in Seq(Nat)
  /\ count \in Nat /\ left \in [StmtKinds -> Nat]
  /\ weave \in {<<>>} \cup Branches

(* Up to block i, sc[i] blocks are scopes and lp[i] are loops. *)
Shape(bl, sc, lp) ==
  /\ sc \in [Nat -> Nat] /\ lp \in [Nat -> Nat] /\ sc[0] = 0 /\ lp[0] = 0
  /\ \A i \in 1 .. Len(bl) :
       /\ bl[i].k = "weave" <=> i = 1
       /\ sc[i] = IF bl[i].k \in Unscoped THEN sc[i - 1] ELSE sc[i - 1] + 1
       /\ lp[i] = IF bl[i].k \in LoopKinds THEN lp[i - 1] + 1 ELSE lp[i - 1]
       /\ bl[i].k = "voidJudge" => bl[i].first = NoBranch
       /\ \A j \in 1 .. i - 1 : bl[j].n < bl[i].n
  /\ \A i, j \in 0 .. Len(bl) : i <= j => sc[i] <= sc[j] /\ lp[i] <= lp[j]
  /\ \A j \in 1 .. lp[Len(bl)] : \E i \in 1 .. Len(bl) : bl[i].k \in LoopKinds /\ lp[i] = j

LoopScope(b) == [label |-> b.label, release |-> IF b.k = "for" THEN b.n ELSE 0]

(* The stacks hold what the blocks do; blocks without a scope have no        *)
(* cleanups of their own.                                                  *)
Mirrors(bl, sc, lp, ds, es, ls, bs) ==
  /\ Len(ds) = sc[Len(bl)] /\ Len(es) = sc[Len(bl)]
  /\ Len(ls) = lp[Len(bl)] /\ Len(bs) = lp[Len(bl)]
  /\ \A i \in 1 .. Len(bl) :
       /\ IF bl[i].k \in Unscoped THEN bl[i].defers = <<>> /\ bl[i].errdefers = <<>>
          ELSE ds[sc[i]] = bl[i].defers /\ es[sc[i]] = bl[i].errdefers
       /\ bl[i].k \in LoopKinds => bs[lp[i]] = sc[i - 1] /\ ls[lp[i]] = LoopScope(bl[i])

(* Up to block m, bl2 is bl but for what block m has read. *)
Cut(bl, bl2, m) ==
  /\ m \in 1 .. Len(bl) /\ Len(bl2) = m /\ \A i \in 1 .. m - 1 : bl2[i] = bl[i]
  /\ bl2[m].k = bl[m].k /\ bl2[m].n = bl[m].n /\ bl2[m].label = bl[m].label
  /\ bl2[m].k = "voidJudge" => bl2[m].first = NoBranch

LEMMA CutIs ==
  ASSUME NEW bl, NEW bl2, NEW m, Cut(bl, bl2, m), NEW i \in 1 .. m, Len(bl) \in Nat
  PROVE  /\ i \in 1 .. Len(bl) /\ i \in 1 .. Len(bl2) /\ i \in Nat
         /\ bl2[i].k = bl[i].k /\ bl2[i].n = bl[i].n /\ bl2[i].label = bl[i].label
         /\ i # m => bl2[i] = bl[i]
<1>1. m \in 1 .. Len(bl) /\ Len(bl2) = m /\ m \in Nat
  BY DEF Cut
<1>2. i \in 1 .. Len(bl) /\ i \in 1 .. Len(bl2) /\ i \in Nat
  BY <1>1
<1>3. i # m => i \in 1 .. m - 1
  BY <1>1
<1>4. i # m => bl2[i] = bl[i]
  BY <1>3 DEF Cut
<1>5. CASE i = m
  BY <1>2, <1>5 DEF Cut
<1> QED BY <1>2, <1>4, <1>5

LEMMA ShapeCut ==
  ASSUME NEW bl \in Seq(Blocks), NEW bl2, NEW m, NEW sc, NEW lp, Shape(bl, sc, lp), Cut(bl, bl2, m)
  PROVE  Shape(bl2, sc, lp)
<1> DEFINE n == Len(bl)
<1>1. n \in Nat /\ m \in 1 .. n /\ Len(bl2) = m /\ m \in Nat
  BY DEF Cut
<1>2. /\ sc \in [Nat -> Nat] /\ lp \in [Nat -> Nat] /\ sc[0] = 0 /\ lp[0] = 0
      /\ \A i \in 1 .. n :
           /\ bl[i].k = "weave" <=> i = 1
           /\ sc[i] = IF bl[i].k \in Unscoped THEN sc[i - 1] ELSE sc[i - 1] + 1
           /\ lp[i] = IF bl[i].k \in LoopKinds THEN lp[i - 1] + 1 ELSE lp[i - 1]
           /\ bl[i].k = "voidJudge" => bl[i].first = NoBranch
           /\ \A j \in 1 .. i - 1 : bl[j].n < bl[i].n
      /\ \A i, j \in 0 .. n : i <= j => sc[i] <= sc[j] /\ lp[i] <= lp[j]
      /\ \A j \in 1 .. lp[n] : \E i \in 1 .. n : bl[i].k \in LoopKinds /\ lp[i] = j
  BY DEF Shape
<1>3. ASSUME NEW i \in 1 .. m
      PROVE  /\ bl2[i].k = "weave" <=> i = 1
             /\ sc[i] = IF bl2[i].k \in Unscoped THEN sc[i - 1] ELSE sc[i - 1] + 1
             /\ lp[i] = IF bl2[i].k \in LoopKinds THEN lp[i - 1] + 1 ELSE lp[i - 1]
             /\ bl2[i].k = "voidJudge" => bl2[i].first = NoBranch
             /\ \A j \in 1 .. i - 1 : bl2[j].n < bl2[i].n
  <2>1. i \in 1 .. n /\ bl2[i].k = bl[i].k /\ bl2[i].n = bl[i].n /\ (i # m => bl2[i] = bl[i])
    BY <1>1, CutIs
  <2>2. bl2[i].k = "voidJudge" => bl2[i].first = NoBranch
    <3>1. CASE i = m
      BY <3>1 DEF Cut
    <3>2. CASE i # m
      <4>1. bl[i].k = "voidJudge" => bl[i].first = NoBranch
        BY <1>2, <2>1
      <4> QED BY <2>1, <3>2, <4>1
    <3> QED BY <3>1, <3>2
  <2>3. ASSUME NEW j \in 1 .. i - 1 PROVE bl2[j].n < bl2[i].n
    <3>1. j \in 1 .. m
      BY <1>1
    <3>2. bl2[j].n = bl[j].n
      BY <1>1, <3>1, CutIs
    <3> QED BY <1>2, <2>1, <3>2
  <2> QED BY <1>2, <2>1, <2>2, <2>3
<1>4. \A i, j \in 0 .. m : i <= j => sc[i] <= sc[j] /\ lp[i] <= lp[j]
  <2>1. \A i \in 0 .. m : i \in 0 .. n
    BY <1>1
  <2> QED BY <1>2, <2>1
<1>5. ASSUME NEW j \in 1 .. lp[m] PROVE \E i \in 1 .. m : bl2[i].k \in LoopKinds /\ lp[i] = j
  <2>1. lp[m] <= lp[n] /\ lp[m] \in Nat /\ lp[n] \in Nat
    BY <1>1, <1>2
  <2>2. j \in 1 .. lp[n]
    BY <2>1
  <2>3. PICK i \in 1 .. n : bl[i].k \in LoopKinds /\ lp[i] = j
    BY <1>2, <2>2
  <2>4. i <= m
    <3>1. SUFFICES ASSUME m < i PROVE FALSE
      BY <1>1, <2>3
    <3>2. m \in 0 .. n /\ i - 1 \in 0 .. n /\ m <= i - 1 /\ i - 1 \in Nat
      BY <1>1, <2>3, <3>1
    <3>3. lp[m] <= lp[i - 1] /\ lp[i] = lp[i - 1] + 1 /\ lp[i - 1] \in Nat
      BY <1>2, <2>3, <3>2
    <3> QED BY <2>1, <2>3, <3>3
  <2>5. i \in 1 .. m
    BY <1>1, <2>3, <2>4
  <2> QED BY <1>1, <2>3, <2>5, CutIs
<1> QED BY <1>1, <1>2, <1>3, <1>4, <1>5 DEF Shape

LEMMA Extended ==
  ASSUME NEW f \in [Nat -> Nat], NEW a \in Nat, NEW v \in Nat, NEW g, g = [f EXCEPT ![a] = v]
  PROVE  g \in [Nat -> Nat] /\ g[a] = v /\ \A i \in Nat : i # a => g[i] = f[i]
OBVIOUS

LEMMA StepsUp ==
  ASSUME NEW x \in Nat, NEW c
  PROVE  /\ (IF c THEN x ELSE x + 1) \in Nat /\ x <= (IF c THEN x ELSE x + 1)
         /\ (IF c THEN x + 1 ELSE x) \in Nat /\ x <= (IF c THEN x + 1 ELSE x)
<1>1. CASE c
  BY <1>1
<1>2. CASE ~c
  BY <1>2
<1> QED BY <1>1, <1>2

(* Block b is opened in bl. *)
Opened(bl, b, sc, lp, sc2, lp2) ==
  /\ Len(bl) > 0 /\ b.k # "weave" /\ b.first = NoBranch
  /\ \A i \in 1 .. Len(bl) : bl[i].n < b.n
  /\ sc2 \in [Nat -> Nat] /\ lp2 \in [Nat -> Nat]
  /\ \A i \in 0 .. Len(bl) : sc2[i] = sc[i] /\ lp2[i] = lp[i]
  /\ sc2[Len(bl) + 1] = IF b.k \in Unscoped THEN sc[Len(bl)] ELSE sc[Len(bl)] + 1
  /\ lp2[Len(bl) + 1] = IF b.k \in LoopKinds THEN lp[Len(bl)] + 1 ELSE lp[Len(bl)]

LEMMA ShapeAppend ==
  ASSUME NEW bl \in Seq(Blocks), NEW b \in Blocks, NEW sc, NEW lp, Shape(bl, sc, lp),
         NEW sc2, NEW lp2, Opened(bl, b, sc, lp, sc2, lp2)
  PROVE  Shape(Append(bl, b), sc2, lp2)
<1> DEFINE n == Len(bl)
           bl2 == Append(bl, b)
<1>1. /\ n \in Nat /\ Len(bl2) = n + 1 /\ bl2[n + 1] = b /\ n > 0
      /\ \A i \in 1 .. n : bl2[i] = bl[i]
  <2>1. n > 0
    BY DEF Opened
  <2> QED BY <2>1
<1>2. /\ sc \in [Nat -> Nat] /\ lp \in [Nat -> Nat] /\ sc[0] = 0 /\ lp[0] = 0
      /\ \A i \in 1 .. n :
           /\ bl[i].k = "weave" <=> i = 1
           /\ sc[i] = IF bl[i].k \in Unscoped THEN sc[i - 1] ELSE sc[i - 1] + 1
           /\ lp[i] = IF bl[i].k \in LoopKinds THEN lp[i - 1] + 1 ELSE lp[i - 1]
           /\ bl[i].k = "voidJudge" => bl[i].first = NoBranch
           /\ \A j \in 1 .. i - 1 : bl[j].n < bl[i].n
      /\ \A i, j \in 0 .. n : i <= j => sc[i] <= sc[j] /\ lp[i] <= lp[j]
      /\ \A j \in 1 .. lp[n] : \E i \in 1 .. n : bl[i].k \in LoopKinds /\ lp[i] = j
  BY DEF Shape
<1> DEFINE v == IF b.k \in Unscoped THEN sc[n] ELSE sc[n] + 1
           w == IF b.k \in LoopKinds THEN lp[n] + 1 ELSE lp[n]
<1>v. /\ n + 1 \in Nat /\ sc[n] \in Nat /\ lp[n] \in Nat
      /\ v \in Nat /\ sc[n] <= v /\ w \in Nat /\ lp[n] <= w
  <2>1. n + 1 \in Nat /\ sc[n] \in Nat /\ lp[n] \in Nat
    BY <1>1, <1>2
  <2> HIDE DEF n, bl2
  <2>2. v \in Nat /\ sc[n] <= v
    BY <2>1, StepsUp
  <2>3. w \in Nat /\ lp[n] <= w
    BY <2>1, StepsUp
  <2> QED BY <2>1, <2>2, <2>3
<1>3. sc2 \in [Nat -> Nat] /\ lp2 \in [Nat -> Nat] /\ sc2[n + 1] = v /\ lp2[n + 1] = w
  BY DEF Opened
<1>4. \A i \in 0 .. n : sc2[i] = sc[i] /\ lp2[i] = lp[i]
  BY DEF Opened
<1>b. \A i \in 1 .. n : bl[i].n < b.n
  BY DEF Opened
<1>k. b.k # "weave" /\ b.first = NoBranch
  BY DEF Opened
<1> HIDE DEF bl2, n, v, w
<1>5. ASSUME NEW i \in 1 .. n + 1
      PROVE  /\ bl2[i].k = "weave" <=> i = 1
             /\ sc2[i] = IF bl2[i].k \in Unscoped THEN sc2[i - 1] ELSE sc2[i - 1] + 1
             /\ lp2[i] = IF bl2[i].k \in LoopKinds THEN lp2[i - 1] + 1 ELSE lp2[i - 1]
             /\ bl2[i].k = "voidJudge" => bl2[i].first = NoBranch
             /\ \A j \in 1 .. i - 1 : bl2[j].n < bl2[i].n
  <2>1. CASE i = n + 1
    <3>0. n \in 0 .. n /\ i - 1 = n /\ i # 1
      BY <1>1, <2>1
    <3>1. sc2[n] = sc[n] /\ lp2[n] = lp[n] /\ bl2[i] = b
      BY <1>1, <1>4, <2>1, <3>0
    <3>2. \A j \in 1 .. n : bl2[j].n < b.n
      BY <1>1, <1>b
    <3>3. bl2[i].k # "weave" /\ bl2[i].first = NoBranch
      BY <3>1, <1>k
    <3>4. sc2[i] = (IF bl2[i].k \in Unscoped THEN sc2[i - 1] ELSE sc2[i - 1] + 1)
      BY <1>3, <2>1, <3>0, <3>1 DEF v
    <3>5. lp2[i] = (IF bl2[i].k \in LoopKinds THEN lp2[i - 1] + 1 ELSE lp2[i - 1])
      BY <1>3, <2>1, <3>0, <3>1 DEF w
    <3>6. \A j \in 1 .. i - 1 : bl2[j].n < bl2[i].n
      BY <3>0, <3>1, <3>2
    <3>7. bl2[i].k = "weave" <=> i = 1
      BY <3>0, <3>3
    <3> QED BY <3>3, <3>4, <3>5, <3>6, <3>7
  <2>2. CASE i # n + 1
    <3>1. i \in 1 .. n /\ i - 1 \in 0 .. n /\ i \in 0 .. n
      BY <1>1, <2>2
    <3>2. \A j \in 1 .. i - 1 : j \in 1 .. n
      BY <1>1, <3>1
    <3>3. bl2[i] = bl[i] /\ \A j \in 1 .. i - 1 : bl2[j] = bl[j]
      BY <1>1, <3>1, <3>2
    <3>4. sc2[i] = sc[i] /\ sc2[i - 1] = sc[i - 1] /\ lp2[i] = lp[i] /\ lp2[i - 1] = lp[i - 1]
      BY <1>4, <3>1
    <3>5. /\ bl[i].k = "weave" <=> i = 1
          /\ sc[i] = IF bl[i].k \in Unscoped THEN sc[i - 1] ELSE sc[i - 1] + 1
          /\ lp[i] = IF bl[i].k \in LoopKinds THEN lp[i - 1] + 1 ELSE lp[i - 1]
          /\ bl[i].k = "voidJudge" => bl[i].first = NoBranch
          /\ \A j \in 1 .. i - 1 : bl[j].n < bl[i].n
      BY <1>2, <3>1
    <3>6. \A j \in 1 .. i - 1 : bl2[j].n < bl2[i].n
      BY <3>3, <3>5
    <3> QED BY <3>3, <3>4, <3>5, <3>6
  <2> QED BY <2>1, <2>2
<1>6. ASSUME NEW i \in 0 .. n + 1, NEW j \in 0 .. n + 1, i <= j
      PROVE  sc2[i] <= sc2[j] /\ lp2[i] <= lp2[j]
  <2>0. /\ sc2[n + 1] \in Nat /\ sc[n] <= sc2[n + 1]
        /\ lp2[n + 1] \in Nat /\ lp[n] <= lp2[n + 1]
    BY <1>3, <1>v
  <2>1. CASE j = n + 1 /\ i # n + 1
    <3>1. i \in 0 .. n /\ n \in 0 .. n /\ i <= n /\ i \in Nat
      BY <1>1, <2>1
    <3>2. sc[i] <= sc[n] /\ lp[i] <= lp[n] /\ sc[i] \in Nat /\ lp[i] \in Nat
      BY <1>2, <3>1
    <3>3. sc2[i] = sc[i] /\ lp2[i] = lp[i]
      BY <1>4, <3>1
    <3>4. sc[i] <= sc2[n + 1] /\ lp[i] <= lp2[n + 1]
      <4> DEFINE x == sc2[n + 1]
                 y == lp2[n + 1]
      <4>1. sc[n] \in Nat /\ lp[n] \in Nat
        BY <1>2, <3>1
      <4>2. x \in Nat /\ y \in Nat /\ sc[n] <= x /\ lp[n] <= y
        BY <2>0
      <4> HIDE DEF x, y
      <4>3. sc[i] <= x /\ lp[i] <= y
        BY <3>2, <4>1, <4>2
      <4> QED BY <4>3 DEF x, y
    <3> QED BY <2>1, <3>3, <3>4
  <2>2. CASE j # n + 1
    <3>1. i \in 0 .. n /\ j \in 0 .. n
      BY <1>1, <1>6, <2>2
    <3> QED BY <1>2, <1>4, <1>6, <3>1
  <2>3. CASE j = n + 1 /\ i = n + 1
    BY <2>0, <2>3
  <2> QED BY <2>1, <2>2, <2>3
<1>7. ASSUME NEW j \in 1 .. lp2[n + 1]
      PROVE  \E i \in 1 .. n + 1 : bl2[i].k \in LoopKinds /\ lp2[i] = j
  <2>1. CASE j \in 1 .. lp[n]
    <3>1. PICK i \in 1 .. n : bl[i].k \in LoopKinds /\ lp[i] = j
      BY <1>2, <2>1
    <3>2. i \in 0 .. n /\ i \in 1 .. n + 1
      BY <1>1
    <3> QED BY <1>1, <1>4, <3>1, <3>2
  <2>2. CASE j \notin 1 .. lp[n]
    <3>a. j \in 1 .. w /\ j \in Nat /\ j >= 1
      BY <1>3, <1>v
    <3>b. lp[n] < j /\ j <= w
      BY <1>v, <2>2, <3>a
    <3>1. b.k \in LoopKinds /\ j = lp2[n + 1]
      <4>1. CASE b.k \in LoopKinds
        <5>1. w = lp[n] + 1
          BY <4>1 DEF w
        <5>2. j = w
          BY <1>v, <3>a, <3>b, <5>1
        <5> QED BY <1>3, <4>1, <5>2
      <4>2. CASE b.k \notin LoopKinds
        <5>1. w = lp[n]
          BY <4>2 DEF w
        <5> QED BY <1>v, <3>a, <3>b, <5>1
      <4> QED BY <4>1, <4>2
    <3>2. n + 1 \in 1 .. n + 1
      BY <1>1
    <3> QED BY <1>1, <3>1, <3>2
  <2> QED BY <2>1, <2>2
<1>8. sc2[0] = 0 /\ lp2[0] = 0
  <2>1. 0 \in 0 .. n
    BY <1>1
  <2>2. sc2[0] = sc[0] /\ lp2[0] = lp[0]
    BY <1>4, <2>1
  <2> QED BY <1>2, <2>2
<1>9. Shape(bl2, sc2, lp2)
  <2>1. Len(bl2) = n + 1
    BY <1>1
  <2> SUFFICES
        /\ sc2 \in [Nat -> Nat] /\ lp2 \in [Nat -> Nat] /\ sc2[0] = 0 /\ lp2[0] = 0
        /\ \A i \in 1 .. n + 1 :
             /\ bl2[i].k = "weave" <=> i = 1
             /\ sc2[i] = IF bl2[i].k \in Unscoped THEN sc2[i - 1] ELSE sc2[i - 1] + 1
             /\ lp2[i] = IF bl2[i].k \in LoopKinds THEN lp2[i - 1] + 1 ELSE lp2[i - 1]
             /\ bl2[i].k = "voidJudge" => bl2[i].first = NoBranch
             /\ \A j \in 1 .. i - 1 : bl2[j].n < bl2[i].n
        /\ \A i, j \in 0 .. n + 1 : i <= j => sc2[i] <= sc2[j] /\ lp2[i] <= lp2[j]
        /\ \A j \in 1 .. lp2[n + 1] : \E i \in 1 .. n + 1 : bl2[i].k \in LoopKinds /\ lp2[i] = j
    BY <2>1 DEF Shape
  <2>2. \A i, j \in 0 .. n + 1 : i <= j => sc2[i] <= sc2[j] /\ lp2[i] <= lp2[j]
    BY <1>6
  <2>3. \A j \in 1 .. lp2[n + 1] : \E i \in 1 .. n + 1 : bl2[i].k \in LoopKinds /\ lp2[i] = j
    BY <1>7
  <2>4. /\ sc2 \in [Nat -> Nat] /\ lp2 \in [Nat -> Nat] /\ sc2[0] = 0 /\ lp2[0] = 0
    BY <1>3, <1>8
  <2> QED BY <2>2, <2>3, <2>4, <1>5
<1> QED BY <1>9 DEF bl2


(* What the shape says of one block.                                       *)
LEMMA ShapeAt ==
  ASSUME NEW bl \in Seq(Blocks), NEW sc, NEW lp, Shape(bl, sc, lp), NEW i \in 1 .. Len(bl)
  PROVE  /\ i \in Nat /\ i - 1 \in Nat /\ bl[i] \in Blocks /\ Len(bl) \in Nat
         /\ i \in 0 .. Len(bl) /\ i - 1 \in 0 .. Len(bl)
         /\ sc[i] \in Nat /\ sc[i - 1] \in Nat /\ lp[i] \in Nat /\ lp[i - 1] \in Nat
         /\ sc[Len(bl)] \in Nat /\ lp[Len(bl)] \in Nat
         /\ sc[i] <= sc[Len(bl)] /\ lp[i] <= lp[Len(bl)]
         /\ bl[i].k \notin Unscoped => sc[i] = sc[i - 1] + 1 /\ sc[i] \in 1 .. sc[Len(bl)]
         /\ bl[i].k \in Unscoped => sc[i] = sc[i - 1]
         /\ bl[i].k \in LoopKinds => lp[i] = lp[i - 1] + 1 /\ lp[i] \in 1 .. lp[Len(bl)]
         /\ bl[i].k \notin LoopKinds => lp[i] = lp[i - 1]
         /\ bl[i].k = "weave" <=> i = 1
         /\ bl[i].k = "voidJudge" => bl[i].first = NoBranch
<1> DEFINE n == Len(bl)
<1>1. n \in Nat /\ i \in Nat /\ i - 1 \in Nat /\ bl[i] \in Blocks /\ i \in 0 .. n /\ i - 1 \in 0 .. n
      /\ n \in 0 .. n /\ i <= n
  OBVIOUS
<1>2. /\ sc \in [Nat -> Nat] /\ lp \in [Nat -> Nat]
      /\ bl[i].k = "weave" <=> i = 1
      /\ sc[i] = IF bl[i].k \in Unscoped THEN sc[i - 1] ELSE sc[i - 1] + 1
      /\ lp[i] = IF bl[i].k \in LoopKinds THEN lp[i - 1] + 1 ELSE lp[i - 1]
      /\ bl[i].k = "voidJudge" => bl[i].first = NoBranch
      /\ \A h, j \in 0 .. n : h <= j => sc[h] <= sc[j] /\ lp[h] <= lp[j]
  BY DEF Shape
<1> HIDE DEF n
<1>3. /\ sc[i] \in Nat /\ sc[i - 1] \in Nat /\ lp[i] \in Nat /\ lp[i - 1] \in Nat
      /\ sc[n] \in Nat /\ lp[n] \in Nat
  BY <1>1, <1>2
<1>4. sc[i] <= sc[n] /\ lp[i] <= lp[n]
  BY <1>1, <1>2
<1>5. bl[i].k \notin Unscoped => sc[i] = sc[i - 1] + 1 /\ sc[i] \in 1 .. sc[n]
  BY <1>2, <1>3, <1>4
<1>6. bl[i].k \in LoopKinds => lp[i] = lp[i - 1] + 1 /\ lp[i] \in 1 .. lp[n]
  BY <1>2, <1>3, <1>4
<1> QED BY <1>1, <1>2, <1>3, <1>4, <1>5, <1>6 DEF n

(* The first k entries of two stacks are the same. *)
Below(s, s2, k) == \A j \in 1 .. k : s2[j] = s[j]

LEMMA MirrorsCut ==
  ASSUME NEW bl \in Seq(Blocks), NEW bl2 \in Seq(Blocks), NEW m, NEW sc, NEW lp,
         Shape(bl, sc, lp), Cut(bl, bl2, m),
         NEW ds, NEW es, NEW ls, NEW bs, Mirrors(bl, sc, lp, ds, es, ls, bs),
         NEW ds2, NEW es2, NEW ls2, NEW bs2,
         Len(ds2) = sc[m] /\ Len(es2) = sc[m] /\ Len(ls2) = lp[m] /\ Len(bs2) = lp[m],
         Below(ds, ds2, sc[m - 1]) /\ Below(es, es2, sc[m - 1]),
         Below(ls, ls2, lp[m]) /\ Below(bs, bs2, lp[m]),
         IF bl2[m].k \in Unscoped THEN bl2[m].defers = <<>> /\ bl2[m].errdefers = <<>>
         ELSE ds2[sc[m]] = bl2[m].defers /\ es2[sc[m]] = bl2[m].errdefers
  PROVE  Mirrors(bl2, sc, lp, ds2, es2, ls2, bs2)
<1>1. /\ m \in Nat /\ m \in 1 .. Len(bl) /\ m \in 1 .. Len(bl2) /\ Len(bl2) = m
      /\ Len(bl) \in Nat /\ m - 1 \in Nat /\ m - 1 \in 0 .. Len(bl)
  BY DEF Cut
<1>2. Shape(bl2, sc, lp)
  BY ShapeCut
<1>3. ASSUME NEW i \in 1 .. m
      PROVE  IF bl2[i].k \in Unscoped THEN bl2[i].defers = <<>> /\ bl2[i].errdefers = <<>>
             ELSE ds2[sc[i]] = bl2[i].defers /\ es2[sc[i]] = bl2[i].errdefers
  <2>1. CASE i = m
    BY <2>1
  <2>2. CASE i # m
    <3>1. /\ bl2[i] = bl[i] /\ i \in 1 .. Len(bl) /\ i \in 0 .. Len(bl) /\ i <= m - 1
      BY <1>1, <2>2, CutIs
    <3>2. CASE bl[i].k \in Unscoped
      BY <3>1, <3>2 DEF Mirrors
    <3>3. CASE bl[i].k \notin Unscoped
      <4>1. ds[sc[i]] = bl[i].defers /\ es[sc[i]] = bl[i].errdefers
        BY <3>1, <3>3 DEF Mirrors
      <4>2. sc[i] <= sc[m - 1] /\ sc[m - 1] \in Nat
        BY <1>1, <3>1 DEF Shape
      <4>3. sc[i] \in 1 .. sc[m - 1]
        BY <3>1, <3>3, <4>2, ShapeAt
      <4> QED BY <3>1, <3>3, <4>1, <4>3 DEF Below
    <3> QED BY <3>2, <3>3
  <2> QED BY <2>1, <2>2
<1>4. ASSUME NEW i \in 1 .. m, bl2[i].k \in LoopKinds
      PROVE  bs2[lp[i]] = sc[i - 1] /\ ls2[lp[i]] = LoopScope(bl2[i])
  <2>1. /\ i \in 1 .. Len(bl) /\ i \in 1 .. Len(bl2)
        /\ bl[i].k = bl2[i].k /\ bl[i].label = bl2[i].label /\ bl[i].n = bl2[i].n
    BY <1>1, CutIs
  <2>2. bs[lp[i]] = sc[i - 1] /\ ls[lp[i]] = LoopScope(bl[i])
    BY <1>4, <2>1 DEF Mirrors
  <2>3. lp[i] \in 1 .. lp[m]
    BY <1>1, <1>2, <1>4, <2>1, ShapeAt
  <2> QED BY <2>1, <2>2, <2>3 DEF Below, LoopScope
<1> QED BY <1>1, <1>3, <1>4 DEF Mirrors

LEMMA MirrorsAppend ==
  ASSUME NEW bl \in Seq(Blocks), NEW b \in Blocks, NEW sc, NEW lp, NEW sc2, NEW lp2,
         Shape(bl, sc, lp), Opened(bl, b, sc, lp, sc2, lp2),
         NEW ds, NEW es, NEW ls, NEW bs, Mirrors(bl, sc, lp, ds, es, ls, bs),
         NEW ds2, NEW es2, NEW ls2, NEW bs2,
         IF b.k \in Unscoped
         THEN ds2 = ds /\ es2 = es /\ b.defers = <<>> /\ b.errdefers = <<>>
         ELSE /\ Len(ds2) = Len(ds) + 1 /\ Below(ds, ds2, Len(ds)) /\ ds2[Len(ds) + 1] = b.defers
              /\ Len(es2) = Len(es) + 1 /\ Below(es, es2, Len(es))
              /\ es2[Len(es) + 1] = b.errdefers,
         IF b.k \in LoopKinds
         THEN /\ Len(ls2) = Len(ls) + 1 /\ Below(ls, ls2, Len(ls))
              /\ ls2[Len(ls) + 1] = LoopScope(b)
              /\ Len(bs2) = Len(bs) + 1 /\ Below(bs, bs2, Len(bs)) /\ bs2[Len(bs) + 1] = Len(ds)
         ELSE ls2 = ls /\ bs2 = bs
  PROVE  Mirrors(Append(bl, b), sc2, lp2, ds2, es2, ls2, bs2)
<1> DEFINE n == Len(bl)
           bl2 == Append(bl, b)
<1>1. /\ n \in Nat /\ n \in 0 .. n /\ Len(bl2) = n + 1 /\ bl2[n + 1] = b /\ (n + 1) - 1 = n
      /\ n + 1 \in 1 .. n + 1 /\ \A i \in 1 .. n : bl2[i] = bl[i]
  OBVIOUS
<1>2. n \in 1 .. n
  BY <1>1 DEF Opened
<1>3. /\ sc2[n] = sc[n] /\ lp2[n] = lp[n] /\ sc[n] \in Nat /\ lp[n] \in Nat
      /\ \A i \in 0 .. n : sc2[i] = sc[i] /\ lp2[i] = lp[i]
      /\ sc2[n + 1] = IF b.k \in Unscoped THEN sc[n] ELSE sc[n] + 1
      /\ lp2[n + 1] = IF b.k \in LoopKinds THEN lp[n] + 1 ELSE lp[n]
  BY <1>1, <1>2, ShapeAt DEF Opened
<1>4. Len(ds) = sc[n] /\ Len(es) = sc[n] /\ Len(ls) = lp[n] /\ Len(bs) = lp[n]
  BY DEF Mirrors
<1>5. Len(ds2) = sc2[n + 1] /\ Len(es2) = sc2[n + 1] /\ Below(ds, ds2, sc[n]) /\ Below(es, es2, sc[n])
  BY <1>3, <1>4 DEF Below
<1>6. Len(ls2) = lp2[n + 1] /\ Len(bs2) = lp2[n + 1] /\ Below(ls, ls2, lp[n]) /\ Below(bs, bs2, lp[n])
  BY <1>3, <1>4 DEF Below
<1>7. ASSUME NEW i \in 1 .. n + 1
      PROVE  IF bl2[i].k \in Unscoped THEN bl2[i].defers = <<>> /\ bl2[i].errdefers = <<>>
             ELSE ds2[sc2[i]] = bl2[i].defers /\ es2[sc2[i]] = bl2[i].errdefers
  <2>1. CASE i = n + 1
    BY <1>1, <1>3, <1>4, <2>1
  <2>2. CASE i # n + 1
    <3>0. i \in 1 .. n /\ i \in 0 .. n
      <4>1. n \in Nat
        BY <1>1
      <4> HIDE DEF n
      <4> QED BY <2>2, <4>1
    <3>1. i \in 1 .. n /\ i \in 0 .. n /\ bl2[i] = bl[i] /\ sc2[i] = sc[i]
      BY <1>1, <1>3, <3>0
    <3>2. CASE bl[i].k \in Unscoped
      BY <3>1, <3>2 DEF Mirrors
    <3>3. CASE bl[i].k \notin Unscoped
      <4>1. ds[sc[i]] = bl[i].defers /\ es[sc[i]] = bl[i].errdefers
        BY <3>1, <3>3 DEF Mirrors
      <4>2. sc[i] \in 1 .. sc[n]
        BY <3>1, <3>3, ShapeAt
      <4> QED BY <3>1, <3>3, <4>1, <4>2, <1>5 DEF Below
    <3> QED BY <3>2, <3>3
  <2> QED BY <2>1, <2>2
<1>8. ASSUME NEW i \in 1 .. n + 1, bl2[i].k \in LoopKinds
      PROVE  bs2[lp2[i]] = sc2[i - 1] /\ ls2[lp2[i]] = LoopScope(bl2[i])
  <2>1. CASE i = n + 1
    BY <1>1, <1>3, <1>4, <1>8, <2>1
  <2>2. CASE i # n + 1
    <3>1. i \in 1 .. n /\ i \in 0 .. n /\ i - 1 \in 0 .. n /\ bl2[i] = bl[i]
      BY <1>1, <2>2
    <3>2. bs[lp[i]] = sc[i - 1] /\ ls[lp[i]] = LoopScope(bl[i])
      BY <3>1, <1>8 DEF Mirrors
    <3>3. lp[i] \in 1 .. lp[n]
      BY <3>1, <1>8, ShapeAt
    <3>4. bs2[lp[i]] = bs[lp[i]] /\ ls2[lp[i]] = ls[lp[i]]
      BY <3>3, <1>6 DEF Below
    <3>5. lp2[i] = lp[i] /\ sc2[i - 1] = sc[i - 1]
      BY <3>1, <1>3
    <3> QED BY <3>1, <3>2, <3>4, <3>5
  <2> QED BY <2>1, <2>2
<1> QED BY <1>1, <1>5, <1>6, <1>7, <1>8 DEF Mirrors
(* Blocks that have read one more statement.                               *)
LEMMA BlockIs ==
  ASSUME NEW b \in Blocks
  PROVE  /\ b.k \in Kinds /\ b.n \in Nat /\ b.label \in Labels /\ b.cond \in {"dyn", "true", "false"}
         /\ b.last \in StmtKinds \cup {"none"} /\ b.uses \in SUBSET Uses
         /\ b.defers \in Seq(Nat) /\ b.errdefers \in Seq(Nat) /\ b.means \in Prog /\ b.does \in Prog
         /\ b.first \in {NoBranch} \cup Branches
BY DEF Blocks

(* All but what a block has read is the same.                              *)
SameBlock(b, b2) ==
  b2.k = b.k /\ b2.n = b.n /\ b2.label = b.label /\ b2.cond = b.cond /\ b2.first = b.first

LEMMA JoinedIs ==
  ASSUME NEW b \in Blocks, NEW k \in StmtKinds, NEW means \in Prog, NEW does \in Prog
  PROVE  LET b2 == Joined(b, k, means, does)
         IN /\ b2 \in Blocks /\ SameBlock(b, b2) /\ b2.last = k /\ b2.uses = b.uses
            /\ b2.defers = b.defers /\ b2.errdefers = b.errdefers
            /\ b2.means = Chain(b.means, Unwinding(b, means)) /\ b2.does = Chain(b.does, does)
<1> DEFINE p == Chain(b.means, Unwinding(b, means))
           q == Chain(b.does, does)
<1>1. b.defers \in Seq(Nat) /\ b.errdefers \in Seq(Nat) /\ b.means \in Prog /\ b.does \in Prog
  BY BlockIs
<1>2. Unwinding(b, means) \in Prog
  BY <1>1, UnwindingIs
<1>3. p \in Prog /\ q \in Prog
  BY <1>1, <1>2, ChainIs
<1>4. Joined(b, k, means, does) = [b EXCEPT !.last = k, !.means = p, !.does = q]
  BY DEF Joined
<1> HIDE DEF p, q
<1>5. LET b2 == [b EXCEPT !.last = k, !.means = p, !.does = q]
      IN /\ b2 \in Blocks /\ SameBlock(b, b2) /\ b2.last = k /\ b2.uses = b.uses
         /\ b2.defers = b.defers /\ b2.errdefers = b.errdefers
         /\ b2.means = p /\ b2.does = q
  BY <1>3 DEF Blocks, SameBlock
<1> QED BY <1>4, <1>5 DEF p, q

LEMMA UsedIs ==
  ASSUME NEW b \in Blocks, NEW u \in SUBSET Uses
  PROVE  LET b2 == [b EXCEPT !.uses = @ \cup u]
         IN /\ b2 \in Blocks /\ SameBlock(b, b2) /\ b2.last = b.last /\ b2.uses = b.uses \cup u
            /\ b2.defers = b.defers /\ b2.errdefers = b.errdefers
            /\ b2.means = b.means /\ b2.does = b.does
<1>1. b.uses \cup u \in SUBSET Uses
  BY BlockIs
<1> DEFINE v == b.uses \cup u
<1> HIDE DEF v
<1>2. LET b2 == [b EXCEPT !.uses = v]
      IN /\ b2 \in Blocks /\ SameBlock(b, b2) /\ b2.last = b.last /\ b2.uses = v
         /\ b2.defers = b.defers /\ b2.errdefers = b.errdefers
         /\ b2.means = b.means /\ b2.does = b.does
  BY <1>1 DEF Blocks, SameBlock, v
<1> QED BY <1>2 DEF v

LEMMA DeferredIs ==
  ASSUME NEW b \in Blocks, NEW c \in Nat
  PROVE  /\ LET b2 == [b EXCEPT !.last = "defer", !.defers = Append(@, c)]
            IN /\ b2 \in Blocks /\ SameBlock(b, b2) /\ b2.last = "defer" /\ b2.uses = b.uses
               /\ b2.defers = Append(b.defers, c) /\ b2.errdefers = b.errdefers
               /\ b2.means = b.means /\ b2.does = b.does
         /\ LET b2 == [b EXCEPT !.last = "errdefer", !.errdefers = Append(@, c)]
            IN /\ b2 \in Blocks /\ SameBlock(b, b2) /\ b2.last = "errdefer" /\ b2.uses = b.uses
               /\ b2.errdefers = Append(b.errdefers, c) /\ b2.defers = b.defers
               /\ b2.means = b.means /\ b2.does = b.does
<1> DEFINE d == Append(b.defers, c)
           e == Append(b.errdefers, c)
<1>1. d \in Seq(Nat) /\ e \in Seq(Nat)
  BY BlockIs
<1>2. "defer" \in StmtKinds /\ "errdefer" \in StmtKinds
  BY DEF StmtKinds
<1> HIDE DEF d, e
<1>3. LET b2 == [b EXCEPT !.last = "defer", !.defers = d]
      IN /\ b2 \in Blocks /\ SameBlock(b, b2) /\ b2.last = "defer" /\ b2.uses = b.uses
         /\ b2.defers = d /\ b2.errdefers = b.errdefers
         /\ b2.means = b.means /\ b2.does = b.does
  BY <1>1, <1>2 DEF Blocks, SameBlock
<1>4. LET b2 == [b EXCEPT !.last = "errdefer", !.errdefers = e]
      IN /\ b2 \in Blocks /\ SameBlock(b, b2) /\ b2.last = "errdefer" /\ b2.uses = b.uses
         /\ b2.errdefers = e /\ b2.defers = b.defers
         /\ b2.means = b.means /\ b2.does = b.does
  BY <1>1, <1>2 DEF Blocks, SameBlock
<1> QED BY <1>3, <1>4 DEF d, e

BlockAs(k, n, label, cond) == [Block(k, n) EXCEPT !.label = label, !.cond = cond]

LEMMA OpenedIs ==
  ASSUME NEW k \in Kinds, NEW n \in Nat, NEW label \in Labels, NEW cond \in {"dyn", "true", "false"}
  PROVE  LET b == BlockAs(k, n, label, cond)
         IN /\ b \in Blocks /\ b.k = k /\ b.n = n /\ b.label = label /\ b.cond = cond
            /\ b.last = "none" /\ b.uses = {} /\ b.defers = <<>> /\ b.errdefers = <<>>
            /\ b.means = Skip /\ b.does = Skip /\ b.first = NoBranch
<1> DEFINE b0 == Block(k, n)
<1>1. Skip \in Prog /\ <<>> \in Seq(Nat) /\ {} \in SUBSET Uses /\ NoBranch \in {NoBranch} \cup Branches
      /\ "none" \in StmtKinds \cup {"none"} /\ NoLabel \in Labels /\ "dyn" \in {"dyn", "true", "false"}
  BY SkipIs DEF Labels
<1>2. /\ b0 \in Blocks /\ b0.k = k /\ b0.n = n
      /\ b0.last = "none" /\ b0.uses = {} /\ b0.defers = <<>> /\ b0.errdefers = <<>>
      /\ b0.means = Skip /\ b0.does = Skip /\ b0.first = NoBranch
  BY <1>1 DEF Block, Blocks
<1> HIDE DEF b0
<1>3. LET b == [b0 EXCEPT !.label = label, !.cond = cond]
      IN /\ b \in Blocks /\ b.k = k /\ b.n = n /\ b.label = label /\ b.cond = cond
         /\ b.last = "none" /\ b.uses = {} /\ b.defers = <<>> /\ b.errdefers = <<>>
         /\ b.means = Skip /\ b.does = Skip /\ b.first = NoBranch
  BY <1>2 DEF Blocks
<1> QED BY <1>3 DEF b0, BlockAs

(* The branches of a block and what is left of it after the first.         *)
LEMMA ElseIs ==
  ASSUME NEW b \in Blocks, NEW br \in Branches
  PROVE  LET b2 == [b EXCEPT !.first = br, !.last = "none", !.defers = <<>>,
                             !.errdefers = <<>>, !.means = Skip, !.does = Skip]
         IN /\ b2 \in Blocks /\ b2.k = b.k /\ b2.n = b.n /\ b2.label = b.label
            /\ b2.cond = b.cond /\ b2.last = "none" /\ b2.uses = b.uses
            /\ b2.defers = <<>> /\ b2.errdefers = <<>> /\ b2.means = Skip /\ b2.does = Skip
            /\ b2.first = br
<1>1. Skip \in Prog /\ <<>> \in Seq(Nat) /\ "none" \in StmtKinds \cup {"none"}
  BY SkipIs
<1> QED BY <1>1 DEF Blocks

LEMMA ScopeIs ==
  ASSUME NEW b \in Blocks
  PROVE  Scope(b) \in Prog /\ Cleanups("defer", b.defers) \in Seq(Ev)
<1>1. Cleanups("defer", b.defers) \in Seq(Ev)
  BY BlockIs, CleanupsAre
<1>2. Do(Cleanups("defer", b.defers)) \in Prog
  BY <1>1, DoIs
<1> QED BY <1>1, <1>2, BlockIs, ChainIs DEF Scope
(* The generator's state while the weave is read.                          *)
Framed(bl, sc, lp, ds, es, ls, bs, c) ==
  /\ Shape(bl, sc, lp) /\ Mirrors(bl, sc, lp, ds, es, ls, bs)
  /\ \A i \in 1 .. Len(bl) : bl[i].n <= c

Linked(bl, ds, es, ls, bs, c) == \E sc, lp : Framed(bl, sc, lp, ds, es, ls, bs, c)

Struct ==
  /\ TypeOK
  /\ weave = <<>> => open # <<>> /\ Linked(open, defers, errdefers, loops, baselines, count)

(* The tops of the stacks.                                                 *)
LEMMA OneLess ==
  ASSUME NEW x, NEW y \in Nat, x = y + 1
  PROVE  x - 1 = y /\ x > 0
OBVIOUS

LEMMA PrefixIs ==
  ASSUME NEW S, NEW s \in Seq(S), NEW m \in 0 .. Len(s)
  PROVE  /\ SubSeq(s, 1, m) \in Seq(S) /\ Len(SubSeq(s, 1, m)) = m
         /\ \A i \in 1 .. m : SubSeq(s, 1, m)[i] = s[i]
OBVIOUS

LEMMA FrontIs ==
  ASSUME NEW S, NEW s \in Seq(S), s # <<>>
  PROVE  Front(s) \in Seq(S) /\ Len(Front(s)) = Len(s) - 1 /\ Below(s, Front(s), Len(s) - 1)
<1>1. Len(s) - 1 \in 0 .. Len(s)
  OBVIOUS
<1>2. /\ SubSeq(s, 1, Len(s) - 1) \in Seq(S) /\ Len(SubSeq(s, 1, Len(s) - 1)) = Len(s) - 1
      /\ \A i \in 1 .. Len(s) - 1 : SubSeq(s, 1, Len(s) - 1)[i] = s[i]
  BY <1>1, PrefixIs
<1> QED BY <1>2 DEF Front, Below

LEMMA ReplaceIs ==
  ASSUME NEW S, NEW s \in Seq(S), s # <<>>, NEW x \in S
  PROVE  /\ Len(s) \in Nat /\ Len(s) > 0 /\ Len(s) \in 1 .. Len(s)
         /\ Top(s) = s[Len(s)] /\ Top(s) \in S
         /\ ReplaceTop(s, x) \in Seq(S) /\ ReplaceTop(s, x) # <<>>
         /\ Len(ReplaceTop(s, x)) = Len(s) /\ ReplaceTop(s, x)[Len(s)] = x
         /\ Below(s, ReplaceTop(s, x), Len(s) - 1)
<1>1. Len(s) \in Nat /\ Len(s) > 0 /\ Len(s) \in 1 .. Len(s) /\ s[Len(s)] \in S
  OBVIOUS
<1>2. [s EXCEPT ![Len(s)] = x] \in Seq(S)
  OBVIOUS
<1>3. /\ Len([s EXCEPT ![Len(s)] = x]) = Len(s) /\ [s EXCEPT ![Len(s)] = x][Len(s)] = x
  OBVIOUS
<1>4. \A i \in 1 .. Len(s) - 1 : [s EXCEPT ![Len(s)] = x][i] = s[i]
  OBVIOUS
<1>5. [s EXCEPT ![Len(s)] = x] # <<>>
  OBVIOUS
<1> QED BY <1>1, <1>2, <1>3, <1>4, <1>5 DEF Top, ReplaceTop, Below

LEMMA AppendIs ==
  ASSUME NEW S, NEW s \in Seq(S), NEW x \in S
  PROVE  /\ Append(s, x) \in Seq(S) /\ Append(s, x) # <<>> /\ Len(Append(s, x)) = Len(s) + 1
         /\ Append(s, x)[Len(s) + 1] = x /\ Below(s, Append(s, x), Len(s))
         /\ Below(s, s, Len(s)) /\ Len(s) \in Nat
BY DEF Below

LEMMA BlocksTop ==
  ASSUME NEW s \in Seq(Blocks), s # <<>>, NEW x \in Blocks
  PROVE  /\ Len(s) \in Nat /\ Len(s) > 0 /\ Len(s) \in 1 .. Len(s) /\ Top(s) = s[Len(s)]
         /\ Top(s) \in Blocks
         /\ ReplaceTop(s, x) \in Seq(Blocks) /\ ReplaceTop(s, x) # <<>>
         /\ Len(ReplaceTop(s, x)) = Len(s) /\ ReplaceTop(s, x)[Len(s)] = x
         /\ \A i \in 1 .. Len(s) - 1 : ReplaceTop(s, x)[i] = s[i]
<1>1. /\ Len(s) \in Nat /\ Len(s) > 0 /\ Len(s) \in 1 .. Len(s) /\ Top(s) = s[Len(s)]
      /\ Top(s) \in Blocks
      /\ ReplaceTop(s, x) \in Seq(Blocks) /\ ReplaceTop(s, x) # <<>>
      /\ Len(ReplaceTop(s, x)) = Len(s) /\ ReplaceTop(s, x)[Len(s)] = x
      /\ Below(s, ReplaceTop(s, x), Len(s) - 1)
  BY ReplaceIs
<1> QED BY <1>1 DEF Below

LEMMA ListsTop ==
  ASSUME NEW s \in Seq(Seq(Nat)), NEW x \in Seq(Nat), s # <<>>
  PROVE  /\ Len(s) \in Nat /\ Len(s) > 0 /\ Top(s) = s[Len(s)] /\ Top(s) \in Seq(Nat)
         /\ ReplaceTop(s, x) \in Seq(Seq(Nat)) /\ Len(ReplaceTop(s, x)) = Len(s)
         /\ ReplaceTop(s, x)[Len(s)] = x /\ Below(s, ReplaceTop(s, x), Len(s) - 1)
         /\ Front(s) \in Seq(Seq(Nat)) /\ Len(Front(s)) = Len(s) - 1
         /\ Below(s, Front(s), Len(s) - 1)
<1> DEFINE L == Seq(Nat)
<1>1. s \in Seq(L) /\ x \in L
  OBVIOUS
<1> HIDE DEF L
<1>2. /\ Len(s) \in Nat /\ Len(s) > 0 /\ Top(s) = s[Len(s)] /\ Top(s) \in L
      /\ ReplaceTop(s, x) \in Seq(L) /\ Len(ReplaceTop(s, x)) = Len(s)
      /\ ReplaceTop(s, x)[Len(s)] = x /\ Below(s, ReplaceTop(s, x), Len(s) - 1)
  BY <1>1, ReplaceIs
<1>3. /\ Front(s) \in Seq(L) /\ Len(Front(s)) = Len(s) - 1
      /\ Below(s, Front(s), Len(s) - 1)
  BY <1>1, FrontIs
<1> QED BY <1>2, <1>3 DEF L

LEMMA ListsMore ==
  ASSUME NEW s \in Seq(Seq(Nat))
  PROVE  /\ Append(s, <<>>) \in Seq(Seq(Nat)) /\ Len(Append(s, <<>>)) = Len(s) + 1
         /\ Append(s, <<>>)[Len(s) + 1] = <<>> /\ Below(s, Append(s, <<>>), Len(s))
         /\ Below(s, s, Len(s)) /\ Len(s) \in Nat
<1> DEFINE L == Seq(Nat)
<1>1. s \in Seq(L) /\ <<>> \in L
  OBVIOUS
<1> HIDE DEF L
<1>2. /\ Append(s, <<>>) \in Seq(L) /\ Len(Append(s, <<>>)) = Len(s) + 1
      /\ Append(s, <<>>)[Len(s) + 1] = <<>> /\ Below(s, Append(s, <<>>), Len(s))
      /\ Below(s, s, Len(s)) /\ Len(s) \in Nat
  BY <1>1, AppendIs
<1> QED BY <1>2 DEF L

LEMMA BelowLess ==
  ASSUME NEW s, NEW s2, NEW k \in Nat, NEW m \in Nat, m <= k, Below(s, s2, k)
  PROVE  Below(s, s2, m)
BY DEF Below

(* The stacks when block b has changed, is closed, is opened.              *)
StackRead(b, old, new, ds, ds2) ==
  \/ ds2 = ds /\ new = old
  \/ b.k \in Unscoped /\ ds2 = ds /\ new = <<>>
  \/ b.k \notin Unscoped /\ ds2 = ReplaceTop(ds, new)

StacksLeft(b, ds, es, ls, bs, ds2, es2, ls2, bs2) ==
  /\ IF b.k \in Unscoped THEN ds2 = ds /\ es2 = es ELSE ds2 = Front(ds) /\ es2 = Front(es)
  /\ IF b.k \in LoopKinds THEN ls2 = Front(ls) /\ bs2 = Front(bs) ELSE ls2 = ls /\ bs2 = bs

StacksEntered(b, ds, es, ls, bs, ds2, es2, ls2, bs2) ==
  /\ IF b.k \in Unscoped THEN ds2 = ds /\ es2 = es
     ELSE ds2 = Append(ds, <<>>) /\ es2 = Append(es, <<>>)
  /\ IF b.k \in LoopKinds THEN ls2 = Append(ls, LoopScope(b)) /\ bs2 = Append(bs, Len(ds))
     ELSE ls2 = ls /\ bs2 = bs

(* A statement is read: the top block changes, and its cleanups with the     *)
(* top of their stacks.                                                    *)
LEMMA ReadLinked ==
  ASSUME NEW bl \in Seq(Blocks), bl # <<>>, NEW b2 \in Blocks,
         NEW ds \in Seq(Seq(Nat)), NEW es \in Seq(Seq(Nat)),
         NEW ls \in Seq(LoopScopes), NEW bs \in Seq(Nat),
         NEW c \in Nat, NEW c2 \in Nat, c <= c2, Linked(bl, ds, es, ls, bs, c),
         b2.k = bl[Len(bl)].k, b2.n = bl[Len(bl)].n, b2.label = bl[Len(bl)].label,
         b2.k = "voidJudge" => b2.first = NoBranch,
         NEW ds2, NEW es2,
         StackRead(b2, bl[Len(bl)].defers, b2.defers, ds, ds2),
         StackRead(b2, bl[Len(bl)].errdefers, b2.errdefers, es, es2)
  PROVE  Linked(ReplaceTop(bl, b2), ds2, es2, ls, bs, c2)
<1> DEFINE n == Len(bl)
           bl2 == ReplaceTop(bl, b2)
<1>1. PICK sc, lp : Framed(bl, sc, lp, ds, es, ls, bs, c)
  BY DEF Linked
<1>2. Shape(bl, sc, lp) /\ Mirrors(bl, sc, lp, ds, es, ls, bs) /\ \A i \in 1 .. n : bl[i].n <= c
  BY <1>1 DEF Framed
<1>3. /\ n \in Nat /\ n \in 1 .. n /\ bl2 \in Seq(Blocks) /\ Len(bl2) = n /\ bl2[n] = b2
      /\ \A i \in 1 .. n - 1 : bl2[i] = bl[i]
  BY BlocksTop
<1>4. /\ b2.k = bl[n].k /\ b2.n = bl[n].n /\ b2.label = bl[n].label
      /\ b2.k = "voidJudge" => b2.first = NoBranch
  OBVIOUS
<1> HIDE DEF bl2
<1>5. Cut(bl, bl2, n)
  BY <1>3, <1>4 DEF Cut
<1>6. Shape(bl2, sc, lp)
  BY <1>2, <1>5, ShapeCut
<1>7. Len(ds) = sc[n] /\ Len(es) = sc[n] /\ Len(ls) = lp[n] /\ Len(bs) = lp[n]
  BY <1>2 DEF Mirrors
<1>8. /\ Len(ds2) = sc[n] /\ Len(es2) = sc[n]
      /\ Below(ds, ds2, sc[n - 1]) /\ Below(es, es2, sc[n - 1])
      /\ IF bl2[n].k \in Unscoped THEN bl2[n].defers = <<>> /\ bl2[n].errdefers = <<>>
         ELSE ds2[sc[n]] = bl2[n].defers /\ es2[sc[n]] = bl2[n].errdefers
  <2>1. CASE b2.k \in Unscoped
    <3>1. bl[n].defers = <<>> /\ bl[n].errdefers = <<>>
      BY <1>2, <1>3, <1>4, <2>1 DEF Mirrors
    <3>2. ds2 = ds /\ es2 = es /\ b2.defers = <<>> /\ b2.errdefers = <<>>
      BY <2>1, <3>1 DEF StackRead
    <3> QED BY <1>3, <1>7, <2>1, <3>2 DEF Below
  <2>2. CASE b2.k \notin Unscoped
    <3>1. sc[n] = sc[n - 1] + 1 /\ sc[n - 1] \in Nat /\ sc[n] - 1 = sc[n - 1] /\ sc[n] > 0
      <4> DEFINE x == sc[n]
                 y == sc[n - 1]
      <4>1. x = y + 1 /\ y \in Nat
        BY <1>2, <1>3, <1>4, <2>2, ShapeAt
      <4> HIDE DEF x, y
      <4>2. x - 1 = y /\ x > 0
        BY <4>1, OneLess
      <4> QED BY <4>1, <4>2 DEF x, y
    <3>2. b2.defers \in Seq(Nat) /\ b2.errdefers \in Seq(Nat)
      BY BlockIs
    <3>3. ds # <<>> /\ es # <<>>
      BY <1>7, <3>1
    <3>4. ds[sc[n]] = bl[n].defers /\ es[sc[n]] = bl[n].errdefers
      BY <1>2, <1>3, <1>4, <2>2 DEF Mirrors
    <3>5. Len(ds2) = Len(ds) /\ Below(ds, ds2, Len(ds) - 1) /\ ds2[Len(ds)] = b2.defers
      <4>1. CASE ds2 = ds /\ b2.defers = bl[n].defers
        BY <1>7, <3>4, <4>1 DEF Below
      <4>2. CASE ds2 = ReplaceTop(ds, b2.defers)
        BY <3>2, <3>3, <4>2, ListsTop
      <4> QED BY <2>2, <4>1, <4>2 DEF StackRead
    <3>6. Len(es2) = Len(es) /\ Below(es, es2, Len(es) - 1) /\ es2[Len(es)] = b2.errdefers
      <4>1. CASE es2 = es /\ b2.errdefers = bl[n].errdefers
        BY <1>7, <3>4, <4>1 DEF Below
      <4>2. CASE es2 = ReplaceTop(es, b2.errdefers)
        BY <3>2, <3>3, <4>2, ListsTop
      <4> QED BY <2>2, <4>1, <4>2 DEF StackRead
    <3> QED BY <1>3, <1>7, <2>2, <3>1, <3>5, <3>6
  <2> QED BY <2>1, <2>2
<1>9. Below(ls, ls, lp[n]) /\ Below(bs, bs, lp[n])
  BY DEF Below
<1>10. Mirrors(bl2, sc, lp, ds2, es2, ls, bs)
  BY <1>2, <1>3, <1>5, <1>7, <1>8, <1>9, MirrorsCut
<1>11. \A i \in 1 .. Len(bl2) : bl2[i].n <= c2
  <2> SUFFICES ASSUME NEW i \in 1 .. n PROVE bl2[i].n <= c2
    BY <1>3
  <2>1. bl2[i].n = bl[i].n /\ bl[i].n <= c
    BY <1>2, <1>5, CutIs, <1>3
  <2>2. bl[i].n \in Nat
    BY BlockIs
  <2> QED BY <2>1, <2>2
<1>12. Framed(bl2, sc, lp, ds2, es2, ls, bs, c2)
  BY <1>6, <1>10, <1>11 DEF Framed
<1> QED BY <1>12 DEF Linked, bl2

(* A block is closed: the one around it reads a statement.                 *)
LEMMA LeaveLinked ==
  ASSUME NEW bl \in Seq(Blocks), Len(bl) > 1, NEW a \in Blocks,
         NEW ds \in Seq(Seq(Nat)), NEW es \in Seq(Seq(Nat)),
         NEW ls \in Seq(LoopScopes), NEW bs \in Seq(Nat),
         NEW c \in Nat, Linked(bl, ds, es, ls, bs, c),
         SameBlock(bl[Len(bl) - 1], a),
         a.defers = bl[Len(bl) - 1].defers, a.errdefers = bl[Len(bl) - 1].errdefers,
         NEW ds2, NEW es2, NEW ls2, NEW bs2,
         StacksLeft(bl[Len(bl)], ds, es, ls, bs, ds2, es2, ls2, bs2)
  PROVE  Linked(Append(SubSeq(bl, 1, Len(bl) - 2), a), ds2, es2, ls2, bs2, c)
<1> DEFINE n == Len(bl)
           m == n - 1
           bl2 == Append(SubSeq(bl, 1, n - 2), a)
<1>1. PICK sc, lp : Framed(bl, sc, lp, ds, es, ls, bs, c)
  BY DEF Linked
<1>2. Shape(bl, sc, lp) /\ Mirrors(bl, sc, lp, ds, es, ls, bs) /\ \A i \in 1 .. n : bl[i].n <= c
  BY <1>1, ZenonT(40) DEF Framed
<1>3. /\ n \in Nat /\ n \in 1 .. n /\ m \in 1 .. n /\ m \in Nat /\ bl2 \in Seq(Blocks)
      /\ Len(bl2) = m /\ bl2[m] = a
      /\ \A i \in 1 .. m - 1 : bl2[i] = bl[i]
  <2>1. n - 2 \in 0 .. n /\ n \in Nat /\ n \in 1 .. n /\ m \in 1 .. n /\ m \in Nat
        /\ (n - 2) + 1 = m /\ m - 1 = n - 2
    OBVIOUS
  <2>2. /\ SubSeq(bl, 1, n - 2) \in Seq(Blocks) /\ Len(SubSeq(bl, 1, n - 2)) = n - 2
        /\ \A i \in 1 .. n - 2 : SubSeq(bl, 1, n - 2)[i] = bl[i]
    BY <2>1, PrefixIs
  <2> DEFINE front == SubSeq(bl, 1, n - 2)
  <2> HIDE DEF front
  <2>3. /\ Append(front, a) \in Seq(Blocks) /\ Len(Append(front, a)) = Len(front) + 1
        /\ Append(front, a)[Len(front) + 1] = a /\ Below(front, Append(front, a), Len(front))
    BY <2>2, AppendIs DEF front
  <2>4. \A i \in 1 .. m - 1 : bl2[i] = bl[i]
    BY <2>1, <2>2, <2>3 DEF front, Below
  <2> QED BY <2>1, <2>2, <2>3, <2>4 DEF front
<1>4. SameBlock(bl[m], a) /\ a.defers = bl[m].defers /\ a.errdefers = bl[m].errdefers
  OBVIOUS
<1>5. /\ IF bl[n].k \in Unscoped THEN ds2 = ds /\ es2 = es ELSE ds2 = Front(ds) /\ es2 = Front(es)
      /\ IF bl[n].k \in LoopKinds THEN ls2 = Front(ls) /\ bs2 = Front(bs)
         ELSE ls2 = ls /\ bs2 = bs
  BY DEF StacksLeft
<1>m. m = n - 1
  OBVIOUS
<1> HIDE DEF bl2, m
<1>6. Cut(bl, bl2, m)
  <2>1. bl[m].k = "voidJudge" => bl[m].first = NoBranch
    BY <1>2, <1>3, ShapeAt
  <2> QED BY <1>3, <1>4, <2>1 DEF Cut, SameBlock
<1>7. Shape(bl2, sc, lp)
  BY <1>2, <1>6, ShapeCut
<1>8. Len(ds) = sc[n] /\ Len(es) = sc[n] /\ Len(ls) = lp[n] /\ Len(bs) = lp[n]
  BY <1>2 DEF Mirrors
<1>9. sc[n] \in Nat /\ sc[m] \in Nat /\ lp[n] \in Nat /\ lp[m] \in Nat
  BY <1>2, <1>3, ShapeAt
<1>s. /\ bl[n].k \notin Unscoped => sc[n] = sc[m] + 1
      /\ bl[n].k \in Unscoped => sc[n] = sc[m]
      /\ bl[n].k \in LoopKinds => lp[n] = lp[m] + 1
      /\ bl[n].k \notin LoopKinds => lp[n] = lp[m]
  <2>1. n \in 1 .. Len(bl)
    BY <1>3
  <2>2. /\ bl[n].k \notin Unscoped => sc[n] = sc[n - 1] + 1
        /\ bl[n].k \in Unscoped => sc[n] = sc[n - 1]
        /\ bl[n].k \in LoopKinds => lp[n] = lp[n - 1] + 1
        /\ bl[n].k \notin LoopKinds => lp[n] = lp[n - 1]
    BY <1>2, <2>1, ShapeAt
  <2> QED BY <2>2, <1>m
<1>10. Len(ds2) = sc[m] /\ Len(es2) = sc[m] /\ Below(ds, ds2, sc[m]) /\ Below(es, es2, sc[m])
  <2>1. CASE bl[n].k \in Unscoped
    <3>1. sc[n] = sc[m]
      BY <1>s, <2>1
    <3> QED BY <1>5, <1>8, <2>1, <3>1 DEF Below
  <2>2. CASE bl[n].k \notin Unscoped
    <3>0. sc[n] = sc[m] + 1
      BY <1>s, <2>2
    <3>1. sc[n] - 1 = sc[m] /\ sc[n] > 0
      BY <1>9, <3>0, OneLess
    <3>2. ds # <<>> /\ es # <<>> /\ <<>> \in Seq(Nat)
      BY <1>8, <3>1
    <3>3. ds2 = Front(ds) /\ es2 = Front(es)
      BY <1>5, <2>2
    <3>4. Len(ds2) = Len(ds) - 1 /\ Below(ds, ds2, Len(ds) - 1)
      BY <3>2, <3>3, ListsTop
    <3>5. Len(es2) = Len(es) - 1 /\ Below(es, es2, Len(es) - 1)
      BY <3>2, <3>3, ListsTop
    <3> QED BY <1>8, <3>1, <3>4, <3>5
  <2> QED BY <2>1, <2>2
<1>11. Len(ls2) = lp[m] /\ Len(bs2) = lp[m] /\ Below(ls, ls2, lp[m]) /\ Below(bs, bs2, lp[m])
  <2>1. CASE bl[n].k \notin LoopKinds
    <3>1. lp[n] = lp[m]
      BY <1>s, <2>1
    <3> QED BY <1>5, <1>8, <2>1, <3>1 DEF Below
  <2>2. CASE bl[n].k \in LoopKinds
    <3>0. lp[n] = lp[m] + 1
      BY <1>s, <2>2
    <3>1. lp[n] - 1 = lp[m] /\ lp[n] > 0
      BY <1>9, <3>0, OneLess
    <3>2. ls # <<>> /\ bs # <<>>
      BY <1>8, <3>1
    <3>3. ls2 = Front(ls) /\ bs2 = Front(bs)
      BY <1>5, <2>2
    <3>4. Len(ls2) = lp[m] /\ Below(ls, ls2, lp[m])
      BY <1>8, <3>1, <3>2, <3>3, FrontIs
    <3>5. Len(bs2) = lp[m] /\ Below(bs, bs2, lp[m])
      BY <1>8, <3>1, <3>2, <3>3, FrontIs
    <3> QED BY <3>4, <3>5
  <2> QED BY <2>1, <2>2
<1>12. /\ Below(ds, ds2, sc[m - 1]) /\ Below(es, es2, sc[m - 1])
       /\ IF bl2[m].k \in Unscoped THEN bl2[m].defers = <<>> /\ bl2[m].errdefers = <<>>
          ELSE ds2[sc[m]] = bl2[m].defers /\ es2[sc[m]] = bl2[m].errdefers
  <2>1. sc[m - 1] \in Nat /\ sc[m - 1] <= sc[m]
    <3>1. sc[m] \in Nat /\ sc[m - 1] \in Nat /\ (sc[m] = sc[m - 1] \/ sc[m] = sc[m - 1] + 1)
      BY <1>2, <1>3, ShapeAt
    <3> QED BY <3>1
  <2>2. Below(ds, ds2, sc[m - 1]) /\ Below(es, es2, sc[m - 1])
    BY <1>9, <1>10, <2>1, BelowLess
  <2>3. CASE bl[m].k \in Unscoped
    BY <1>2, <1>3, <1>4, <2>2, <2>3 DEF Mirrors, SameBlock
  <2>4. CASE bl[m].k \notin Unscoped
    <3>1. sc[m] \in 1 .. sc[m]
      BY <1>2, <1>3, <1>9, <2>1, <2>4, ShapeAt
    <3>2. ds[sc[m]] = bl[m].defers /\ es[sc[m]] = bl[m].errdefers
      BY <1>2, <1>3, <2>4 DEF Mirrors
    <3> QED BY <1>3, <1>4, <1>10, <2>2, <2>4, <3>1, <3>2 DEF Below, SameBlock
  <2> QED BY <2>3, <2>4
<1>13. Mirrors(bl2, sc, lp, ds2, es2, ls2, bs2)
  BY <1>2, <1>3, <1>6, <1>10, <1>11, <1>12, MirrorsCut
<1>14. \A i \in 1 .. Len(bl2) : bl2[i].n <= c
  <2> SUFFICES ASSUME NEW i \in 1 .. m PROVE bl2[i].n <= c
    BY <1>3
  <2>a. Len(bl) \in Nat
    OBVIOUS
  <2>1. bl2[i].n = bl[i].n /\ i \in 1 .. Len(bl)
    BY <1>6, <2>a, CutIs
  <2> QED BY <1>2, <2>1
<1>15. Framed(bl2, sc, lp, ds2, es2, ls2, bs2, c)
  BY <1>7, <1>13, <1>14 DEF Framed
<1> QED BY <1>15 DEF Linked, bl2

(* A block is opened.                                                      *)
LEMMA OpenLinked ==
  ASSUME NEW bl \in Seq(Blocks), bl # <<>>, NEW b \in Blocks,
         NEW ds \in Seq(Seq(Nat)), NEW es \in Seq(Seq(Nat)),
         NEW ls \in Seq(LoopScopes), NEW bs \in Seq(Nat),
         NEW c \in Nat, Linked(bl, ds, es, ls, bs, c),
         b.k # "weave", b.first = NoBranch, b.n = c + 1, b.defers = <<>>, b.errdefers = <<>>,
         NEW ds2, NEW es2, NEW ls2, NEW bs2,
         StacksEntered(b, ds, es, ls, bs, ds2, es2, ls2, bs2)
  PROVE  Linked(Append(bl, b), ds2, es2, ls2, bs2, c + 1)
<1> DEFINE n == Len(bl)
           bl2 == Append(bl, b)
<1>1. PICK sc, lp : Framed(bl, sc, lp, ds, es, ls, bs, c)
  BY DEF Linked
<1>2. Shape(bl, sc, lp) /\ Mirrors(bl, sc, lp, ds, es, ls, bs) /\ \A i \in 1 .. n : bl[i].n <= c
  BY <1>1 DEF Framed
<1>3. n \in Nat /\ n > 0 /\ n \in 1 .. n /\ Len(bl2) = n + 1 /\ bl2[n + 1] = b
      /\ \A i \in 1 .. n : bl2[i] = bl[i]
  OBVIOUS
<1>b. b.k # "weave" /\ b.first = NoBranch /\ b.n = c + 1
  OBVIOUS
<1>4. \A i \in 1 .. n : bl[i].n < b.n /\ bl[i].n <= c + 1
  <2> SUFFICES ASSUME NEW i \in 1 .. n PROVE bl[i].n < b.n /\ bl[i].n <= c + 1
    OBVIOUS
  <2>1. bl[i].n \in Nat
    BY BlockIs
  <2> QED BY <1>2, <2>1, <1>b
<1> DEFINE sc2 == [sc EXCEPT ![n + 1] = IF b.k \in Unscoped THEN sc[n] ELSE sc[n] + 1]
           lp2 == [lp EXCEPT ![n + 1] = IF b.k \in LoopKinds THEN lp[n] + 1 ELSE lp[n]]
<1>5. /\ sc2 \in [Nat -> Nat] /\ sc2[n + 1] = IF b.k \in Unscoped THEN sc[n] ELSE sc[n] + 1
      /\ \A i \in Nat : i # n + 1 => sc2[i] = sc[i]
  <2>a. sc \in [Nat -> Nat]
    BY <1>2 DEF Shape
  <2>b. sc[n] \in Nat
    BY <1>2, <1>3, ShapeAt
  <2>c. n + 1 \in Nat
    BY <1>3
  <2>2. (IF b.k \in Unscoped THEN sc[n] ELSE sc[n] + 1) \in Nat
    BY <2>b, StepsUp
  <2> QED BY <2>a, <2>c, <2>2, Extended
<1>6. /\ lp2 \in [Nat -> Nat] /\ lp2[n + 1] = IF b.k \in LoopKinds THEN lp[n] + 1 ELSE lp[n]
      /\ \A i \in Nat : i # n + 1 => lp2[i] = lp[i]
  <2>a. lp \in [Nat -> Nat]
    BY <1>2 DEF Shape
  <2>b. lp[n] \in Nat
    BY <1>2, <1>3, ShapeAt
  <2>c. n + 1 \in Nat
    BY <1>3
  <2>2. (IF b.k \in LoopKinds THEN lp[n] + 1 ELSE lp[n]) \in Nat
    BY <2>b, StepsUp
  <2> QED BY <2>a, <2>c, <2>2, Extended
<1> HIDE DEF sc2, lp2
<1>7. Opened(bl, b, sc, lp, sc2, lp2)
  <2>1. \A i \in 0 .. n : i \in Nat /\ i # n + 1
    BY <1>3
  <2> QED BY <1>3, <1>4, <1>5, <1>6, <1>b, <2>1 DEF Opened
<1>8. Shape(bl2, sc2, lp2)
  BY <1>2, <1>7, ShapeAppend
<1>9. IF b.k \in Unscoped
      THEN ds2 = ds /\ es2 = es /\ b.defers = <<>> /\ b.errdefers = <<>>
      ELSE /\ Len(ds2) = Len(ds) + 1 /\ Below(ds, ds2, Len(ds)) /\ ds2[Len(ds) + 1] = b.defers
           /\ Len(es2) = Len(es) + 1 /\ Below(es, es2, Len(es))
           /\ es2[Len(es) + 1] = b.errdefers
  BY ListsMore DEF StacksEntered
<1>10. IF b.k \in LoopKinds
       THEN /\ Len(ls2) = Len(ls) + 1 /\ Below(ls, ls2, Len(ls))
            /\ ls2[Len(ls) + 1] = LoopScope(b)
            /\ Len(bs2) = Len(bs) + 1 /\ Below(bs, bs2, Len(bs)) /\ bs2[Len(bs) + 1] = Len(ds)
       ELSE ls2 = ls /\ bs2 = bs
  <2>1. CASE b.k \in LoopKinds
    <3>1. LoopScope(b) \in LoopScopes
      BY BlockIs DEF LoopScope, LoopScopes
    <3>2. Len(ds) \in Nat
      BY ListsMore
    <3>3. ls2 = Append(ls, LoopScope(b)) /\ bs2 = Append(bs, Len(ds))
      BY <2>1 DEF StacksEntered
    <3>4. Len(ls2) = Len(ls) + 1 /\ Below(ls, ls2, Len(ls)) /\ ls2[Len(ls) + 1] = LoopScope(b)
      BY <3>1, <3>3, AppendIs
    <3>5. Len(bs2) = Len(bs) + 1 /\ Below(bs, bs2, Len(bs)) /\ bs2[Len(bs) + 1] = Len(ds)
      BY <3>2, <3>3, AppendIs
    <3> QED BY <2>1, <3>4, <3>5
  <2>2. CASE b.k \notin LoopKinds
    BY <2>2 DEF StacksEntered
  <2> QED BY <2>1, <2>2
<1>11. Mirrors(bl2, sc2, lp2, ds2, es2, ls2, bs2)
  BY <1>2, <1>7, <1>9, <1>10, MirrorsAppend
<1>12. \A i \in 1 .. Len(bl2) : bl2[i].n <= c + 1
  <2> SUFFICES ASSUME NEW i \in 1 .. n + 1 PROVE bl2[i].n <= c + 1
    BY <1>3
  <2>1. CASE i = n + 1
    BY <1>3, <1>b, <2>1
  <2>2. CASE i # n + 1
    <3>1. i \in 1 .. n
      BY <1>3, <2>2
    <3> QED BY <1>3, <1>4, <3>1
  <2> QED BY <2>1, <2>2
<1>13. Framed(bl2, sc2, lp2, ds2, es2, ls2, bs2, c + 1)
  BY <1>8, <1>11, <1>12 DEF Framed
<1> QED BY <1>13 DEF Linked
(* What the generator writes is made of events.                            *)
LEMMA LinesAre ==
  ASSUME NEW what \in {"defer", "errdefer"}, NEW stack \in Seq(Seq(Nat))
  PROVE  /\ Lines(what, stack) \in Seq(Seq(Ev)) /\ Len(Lines(what, stack)) = Len(stack)
         /\ \A i \in 1 .. Len(stack) :
              /\ stack[i] \in Seq(Nat)
              /\ Lines(what, stack)[i] = Cleanups(what, stack[i])
<1> DEFINE E == Seq(Ev)
           L == Seq(Nat)
<1>1. \A i \in 1 .. Len(stack) : stack[i] \in L
  OBVIOUS
<1>2. \A i \in 1 .. Len(stack) : Cleanups(what, stack[i]) \in E
  BY <1>1, CleanupsAre
<1>3. Len(stack) \in Nat
  OBVIOUS
<1> HIDE DEF E, L
<1>4. [i \in 1 .. Len(stack) |-> Cleanups(what, stack[i])] \in Seq(E)
  BY <1>2, <1>3
<1>5. Len([i \in 1 .. Len(stack) |-> Cleanups(what, stack[i])]) = Len(stack)
  BY <1>3
<1> QED BY <1>1, <1>4, <1>5 DEF E, L, Lines

LEMMA ReleaseIs ==
  ASSUME NEW l \in LoopScopes
  PROVE  Release(l) \in Seq(Ev) /\ l.release \in Nat
<1>1. l.release \in Nat
  BY DEF LoopScopes
<1>2. <<"release", l.release>> \in Ev
  BY <1>1 DEF Ev
<1> QED BY <1>1, <1>2 DEF Release

LEMMA ReleasesAre ==
  ASSUME TypeOK
  PROVE  /\ Releases \in Seq(Seq(Ev)) /\ Len(Releases) = Len(loops) /\ Len(loops) \in Nat
         /\ \A i \in 1 .. Len(loops) : Releases[i] = Release(loops[i]) /\ loops[i] \in LoopScopes
<1> DEFINE E == Seq(Ev)
<1>0. loops \in Seq(LoopScopes)
  BY DEF TypeOK
<1>1. \A i \in 1 .. Len(loops) : loops[i] \in LoopScopes
  BY <1>0
<1>2. \A i \in 1 .. Len(loops) : Release(loops[i]) \in E
  BY <1>1, ReleaseIs
<1>3. Len(loops) \in Nat
  BY <1>0
<1> HIDE DEF E
<1>4. [i \in 1 .. Len(loops) |-> Release(loops[i])] \in Seq(E)
  BY <1>2, <1>3
<1>5. Len([i \in 1 .. Len(loops) |-> Release(loops[i])]) = Len(loops)
  BY <1>3
<1> QED BY <1>1, <1>3, <1>4, <1>5 DEF E, Releases

LEMMA ExitTypes ==
  ASSUME TypeOK
  PROVE  /\ \A a \in Nat : ScopeExitDefers(a) \in Seq(Ev)
         /\ \A failing \in BOOLEAN : ReturnCleanup(failing) \in Seq(Ev)
         /\ LoopExitReleases \in Seq(Ev) /\ Pop \in Seq(Ev)
         /\ \A a \in Nat : Upward(Releases, a) \in Seq(Ev)
<1>1. Lines("defer", defers) \in Seq(Seq(Ev)) /\ Lines("errdefer", errdefers) \in Seq(Seq(Ev))
  BY LinesAre DEF TypeOK
<1>2. \A a \in Nat : ScopeExitDefers(a) \in Seq(Ev)
  BY <1>1, StackTypes DEF ScopeExitDefers
<1>3. Downward(Lines("errdefer", errdefers), 0) \in Seq(Ev) /\ ScopeExitDefers(0) \in Seq(Ev)
  BY <1>1, <1>2, StackTypes
<1>4. \A failing \in BOOLEAN : ReturnCleanup(failing) \in Seq(Ev)
  <2> TAKE failing \in BOOLEAN
  <2> DEFINE x == IF failing THEN Downward(Lines("errdefer", errdefers), 0) ELSE <<>>
             y == ScopeExitDefers(0)
  <2>1. x \in Seq(Ev) /\ y \in Seq(Ev)
    BY <1>3
  <2> HIDE DEF x, y
  <2>2. x \o y \in Seq(Ev)
    BY <2>1, ConcatType
  <2> QED BY <2>2 DEF x, y, ReturnCleanup
<1>5. LoopExitReleases \in Seq(Ev) /\ \A a \in Nat : Upward(Releases, a) \in Seq(Ev)
  BY ReleasesAre, StackTypes DEF LoopExitReleases
<1>6. Pop \in Seq(Ev)
  <2>1. <<"pop", 0>> \in Ev
    BY DEF Ev
  <2> QED BY <2>1 DEF Pop
<1> QED BY <1>2, <1>4, <1>5, <1>6

(* A statement is read.                                                    *)
LEMMA Reading ==
  ASSUME Struct, NotFinished
  PROVE  /\ open \in Seq(Blocks) /\ open # <<>> /\ Len(open) \in Nat /\ Len(open) > 0
         /\ Top(open) = open[Len(open)] /\ Top(open) \in Blocks /\ Len(open) \in 1 .. Len(open)
         /\ defers \in Seq(Seq(Nat)) /\ errdefers \in Seq(Seq(Nat))
         /\ loops \in Seq(LoopScopes) /\ baselines \in Seq(Nat) /\ count \in Nat
         /\ left \in [StmtKinds -> Nat]
         /\ Linked(open, defers, errdefers, loops, baselines, count)
<1>1. open \in Seq(Blocks) /\ open # <<>>
  BY DEF Struct, TypeOK, NotFinished
<1>2. Len(open) \in Nat /\ Len(open) > 0 /\ open[Len(open)] \in Blocks /\ Len(open) \in 1 .. Len(open)
  BY <1>1
<1> QED BY <1>1, <1>2 DEF Struct, TypeOK, NotFinished, Top

LEMMA ReadStruct ==
  ASSUME Struct, NotFinished, NEW b2 \in Blocks, open' = ReplaceTop(open, b2),
         b2.k = Top(open).k, b2.n = Top(open).n, b2.label = Top(open).label,
         b2.k = "voidJudge" => b2.first = NoBranch,
         StackRead(b2, Top(open).defers, b2.defers, defers, defers'),
         StackRead(b2, Top(open).errdefers, b2.errdefers, errdefers, errdefers'),
         UNCHANGED <<loops, baselines, weave>>,
         count' \in Nat, count <= count', left' \in [StmtKinds -> Nat]
  PROVE  Struct'
<1>1. ReplaceTop(open, b2) \in Seq(Blocks) /\ ReplaceTop(open, b2) # <<>>
  BY Reading, BlocksTop
<1>2. Linked(ReplaceTop(open, b2), defers', errdefers', loops, baselines, count')
  BY Reading, ReadLinked
<1>3. b2.defers \in Seq(Nat) /\ b2.errdefers \in Seq(Nat)
  BY BlockIs
<1>4. b2.k \notin Unscoped => defers # <<>> /\ errdefers # <<>>
  <2>1. PICK sc, lp : Framed(open, sc, lp, defers, errdefers, loops, baselines, count)
    BY Reading DEF Linked
  <2>2. Shape(open, sc, lp) /\ Len(defers) = sc[Len(open)] /\ Len(errdefers) = sc[Len(open)]
    BY <2>1 DEF Framed, Mirrors
  <2>3. b2.k \notin Unscoped => sc[Len(open)] \in 1 .. sc[Len(open)]
    BY <2>2, Reading, ShapeAt
  <2> QED BY <2>2, <2>3
<1>5. defers' \in Seq(Seq(Nat))
  BY <1>3, <1>4, Reading, ListsTop DEF StackRead
<1>6. errdefers' \in Seq(Seq(Nat))
  BY <1>3, <1>4, Reading, ListsTop DEF StackRead
<1> QED BY <1>1, <1>2, <1>5, <1>6 DEF Struct, TypeOK

LEMMA NumberIs ==
  ASSUME Struct, NEW k \in StmtKinds, CanRead(k), Number(k)
  PROVE  /\ count' = count + 1 /\ count' \in Nat /\ count <= count' /\ weave' = weave
         /\ left' \in [StmtKinds -> Nat] /\ NotFinished /\ count \in Nat
<1>1. count \in Nat /\ left \in [StmtKinds -> Nat] /\ left[k] > 0 /\ NotFinished
  BY DEF Struct, TypeOK, CanRead
<1>2. [left EXCEPT ![k] = @ - 1] \in [StmtKinds -> Nat]
  BY <1>1
<1> QED BY <1>1, <1>2 DEF Number

LEMMA EmitStruct ==
  ASSUME Struct, NEW k \in StmtKinds, CanRead(k), NEW means \in Prog, NEW does \in Prog,
         Emit(k, means, does), UNCHANGED <<defers, errdefers, loops, baselines>>
  PROVE  Struct'
<1> DEFINE b == Top(open)
           b2 == Joined(b, k, means, does)
<1>1. NotFinished /\ b \in Blocks /\ open' = ReplaceTop(open, b2) /\ Number(k)
  BY Reading DEF CanRead, Emit
<1>2. /\ b2 \in Blocks /\ SameBlock(b, b2) /\ b2.defers = b.defers /\ b2.errdefers = b.errdefers
  BY <1>1, JoinedIs
<1>3. b.k = "voidJudge" => b.first = NoBranch
  <2>1. PICK sc, lp : Framed(open, sc, lp, defers, errdefers, loops, baselines, count)
    BY <1>1, Reading DEF Linked
  <2>2. Shape(open, sc, lp)
    BY <2>1 DEF Framed
  <2> QED BY <1>1, <2>2, Reading, ShapeAt
<1> HIDE DEF b2
<1>4. /\ StackRead(b2, b.defers, b2.defers, defers, defers')
      /\ StackRead(b2, b.errdefers, b2.errdefers, errdefers, errdefers')
  BY <1>2 DEF StackRead
<1> QED BY <1>1, <1>2, <1>3, <1>4, NumberIs, ReadStruct DEF SameBlock
(* The innermost loop with a label.                                        *)
LEMMA Largest ==
  ASSUME NEW n \in Nat, NEW S, NEW a \in 1 .. n, a \in S
  PROVE  \E i \in 1 .. n : i \in S /\ \A j \in i + 1 .. n : j \notin S
<1> DEFINE Q(k) == \/ \E i \in 1 .. n : /\ i > n - k /\ i \in S /\ \A j \in i + 1 .. n : j \notin S
                   \/ \A j \in n - k + 1 .. n : j \notin S
           K == {k \in 0 .. n : Q(k)}
<1>1. 0 \in K
  OBVIOUS
<1>2. ASSUME NEW k \in 1 .. n, k - 1 \in K PROVE k \in K
  <2>1. k \in 0 .. n /\ n - (k - 1) = n - k + 1 /\ n - k + 1 \in 1 .. n
    OBVIOUS
  <2>2. CASE \E i \in 1 .. n : i > n - (k - 1) /\ i \in S /\ \A j \in i + 1 .. n : j \notin S
    BY <2>1, <2>2
  <2>3. CASE \A j \in n - (k - 1) + 1 .. n : j \notin S
    <3>1. CASE n - k + 1 \in S
      <4>1. n - k + 1 > n - k /\ \A j \in (n - k + 1) + 1 .. n : j \notin S
        BY <2>1, <2>3
      <4> QED BY <2>1, <3>1, <4>1
    <3>2. CASE n - k + 1 \notin S
      <4>1. \A j \in n - k + 1 .. n : j = n - k + 1 \/ j \in n - (k - 1) + 1 .. n
        BY <2>1
      <4>2. \A j \in n - k + 1 .. n : j \notin S
        BY <2>3, <3>2, <4>1
      <4> QED BY <2>1, <4>2
    <3> QED BY <3>1, <3>2
  <2> QED BY <1>2, <2>2, <2>3
<1> HIDE DEF K
<1>3. n \in K
  <2>1. \A k \in 0 .. n : k \in K
    BY <1>1, <1>2, UpTo
  <2> QED BY <2>1
<1>4. Q(n)
  BY <1>3 DEF K
<1>5. ~ \A j \in n - n + 1 .. n : j \notin S
  OBVIOUS
<1> QED BY <1>4, <1>5

LEMMA LoopIndexIs ==
  ASSUME TypeOK, NEW l, \E i \in 1 .. Len(loops) : loops[i].label = l
  PROVE  /\ LoopIndex(l) \in 1 .. Len(loops) /\ loops[LoopIndex(l)].label = l
         /\ \A j \in LoopIndex(l) + 1 .. Len(loops) : loops[j].label # l
<1> DEFINE S == {i \in 1 .. Len(loops) : loops[i].label = l}
<1>1. Len(loops) \in Nat
  BY ReleasesAre
<1>2. PICK a \in 1 .. Len(loops) : loops[a].label = l
  OBVIOUS
<1>3. a \in S
  BY <1>2
<1> HIDE DEF S
<1>4. PICK i \in 1 .. Len(loops) : i \in S /\ \A j \in i + 1 .. Len(loops) : j \notin S
  BY <1>1, <1>3, Largest
<1>5. loops[i].label = l /\ \A j \in i + 1 .. Len(loops) : loops[j].label # l
  BY <1>1, <1>4 DEF S
<1> QED BY <1>5 DEF LoopIndex

(* One step lemma per action: the blocks and the stacks stay linked.       *)
LEMMA ActStruct == ASSUME Struct, Act PROVE Struct'
<1>1. count \in Nat /\ CanRead("act")
  BY DEF Struct, TypeOK, Act
<1>2. <<<<"act", count + 1>>>> \in Seq(Ev)
  <2>1. <<"act", count + 1>> \in Ev
    BY <1>1 DEF Ev
  <2> QED BY <2>1
<1>3. "act" \in StmtKinds
  BY DEF StmtKinds
<1> QED BY <1>1, <1>2, <1>3, DoIs, EmitStruct DEF Act

LEMMA InArmIs ==
  ASSUME Struct, NotFinished, "deferInArm" \notin Mixed, InArm => "deferInArm" \in Mixed
  PROVE  Top(open).k \notin Unscoped
<1>1. Len(open) \in Nat /\ Len(open) \in 1 .. Len(open) /\ Top(open) = open[Len(open)]
  BY Reading
<1>2. \A j \in Len(open) + 1 .. Len(open) : open[j].k \in Unscoped
  BY <1>1
<1> QED BY <1>1, <1>2 DEF InArm

LEMMA TopNoFirst ==
  ASSUME Struct, NotFinished
  PROVE  /\ Top(open).k = "voidJudge" => Top(open).first = NoBranch
         /\ Top(open).k = "weave" <=> Len(open) = 1
         /\ Top(open).k \notin Unscoped =>
              /\ defers # <<>> /\ errdefers # <<>>
              /\ Top(defers) = Top(open).defers /\ Top(errdefers) = Top(open).errdefers
         /\ Top(open).k \in Unscoped => Top(open).defers = <<>> /\ Top(open).errdefers = <<>>
         /\ Top(open).k \in LoopKinds =>
              loops # <<>> /\ baselines # <<>> /\ Top(loops) = LoopScope(Top(open))
         /\ Len(baselines) = Len(loops)
<1>1. PICK sc, lp : Framed(open, sc, lp, defers, errdefers, loops, baselines, count)
  BY Reading DEF Linked
<1>2. Shape(open, sc, lp) /\ Mirrors(open, sc, lp, defers, errdefers, loops, baselines)
  BY <1>1 DEF Framed
<1> DEFINE n == Len(open)
           b == Top(open)
<1>3. n \in 1 .. n /\ b = open[n] /\ open \in Seq(Blocks)
  BY Reading
<1>4. /\ b.k = "voidJudge" => b.first = NoBranch
      /\ b.k = "weave" <=> n = 1
      /\ b.k \notin Unscoped => sc[n] \in 1 .. sc[n]
      /\ b.k \in LoopKinds => lp[n] \in 1 .. lp[n]
  <2>1. /\ open[n].k = "voidJudge" => open[n].first = NoBranch
        /\ open[n].k = "weave" <=> n = 1
        /\ open[n].k \notin Unscoped => sc[n] \in 1 .. sc[n]
        /\ open[n].k \in LoopKinds => lp[n] \in 1 .. lp[n]
    BY <1>2, <1>3, ShapeAt
  <2> HIDE DEF n, b
  <2> QED BY <1>3, <2>1
<1>5. Len(defers) = sc[n] /\ Len(errdefers) = sc[n] /\ Len(loops) = lp[n] /\ Len(baselines) = lp[n]
  BY <1>2 DEF Mirrors
<1>6. /\ IF b.k \in Unscoped THEN b.defers = <<>> /\ b.errdefers = <<>>
         ELSE defers[sc[n]] = b.defers /\ errdefers[sc[n]] = b.errdefers
      /\ b.k \in LoopKinds => loops[lp[n]] = LoopScope(b)
  BY <1>2, <1>3 DEF Mirrors
<1>7. b.k \notin Unscoped => /\ defers # <<>> /\ errdefers # <<>>
                             /\ Top(defers) = b.defers /\ Top(errdefers) = b.errdefers
  BY <1>4, <1>5, <1>6 DEF Top
<1>8. b.k \in LoopKinds => loops # <<>> /\ baselines # <<>> /\ Top(loops) = LoopScope(b)
  BY <1>4, <1>5, <1>6 DEF Top
<1> QED BY <1>4, <1>5, <1>6, <1>7, <1>8

LEMMA DeferStruct ==
  ASSUME Struct, "deferInArm" \notin Mixed, DeferStmt \/ ErrDeferStmt
  PROVE  Struct'
<1> DEFINE b == Top(open)
           d == [b EXCEPT !.last = "defer", !.defers = Append(@, count + 1)]
           e == [b EXCEPT !.last = "errdefer", !.errdefers = Append(@, count + 1)]
<1>1. NotFinished /\ b.k \notin Unscoped
  BY InArmIs DEF DeferStmt, ErrDeferStmt, CanRead
<1>2. /\ b \in Blocks /\ count \in Nat /\ count + 1 \in Nat
      /\ Top(defers) = b.defers /\ Top(errdefers) = b.errdefers
      /\ b.k = "voidJudge" => b.first = NoBranch
  <2>1. b \in Blocks
    BY <1>1, Reading
  <2>2. count \in Nat
    BY DEF Struct, TypeOK
  <2>3. count + 1 \in Nat
    BY <2>2
  <2> QED BY <1>1, <2>1, <2>2, <2>3, TopNoFirst
<1>3. /\ d \in Blocks /\ SameBlock(b, d) /\ d.defers = Append(b.defers, count + 1)
      /\ d.errdefers = b.errdefers
      /\ e \in Blocks /\ SameBlock(b, e) /\ e.errdefers = Append(b.errdefers, count + 1)
      /\ e.defers = b.defers
  BY <1>2, DeferredIs, ZenonT(40)
<1>4. "defer" \in StmtKinds /\ "errdefer" \in StmtKinds
  BY DEF StmtKinds
<1>5. CASE DeferStmt
  <2>1. /\ open' = ReplaceTop(open, d) /\ CanRead("defer") /\ Number("defer")
        /\ defers' = ReplaceTop(defers, Append(Top(defers), count + 1))
        /\ errdefers' = errdefers /\ loops' = loops /\ baselines' = baselines
    BY <1>5 DEF DeferStmt
  <2> HIDE DEF b, d, e
  <2>2. /\ d.k = b.k /\ d.n = b.n /\ d.label = b.label
        /\ d.k = "voidJudge" => d.first = NoBranch
    BY <1>2, <1>3 DEF SameBlock
  <2>3. StackRead(d, b.defers, d.defers, defers, defers')
    BY <1>1, <1>2, <1>3, <2>1, <2>2 DEF StackRead
  <2>4. StackRead(d, b.errdefers, d.errdefers, errdefers, errdefers')
    BY <1>3, <2>1 DEF StackRead
  <2> QED BY <1>1, <1>3, <1>4, <2>1, <2>2, <2>3, <2>4, NumberIs, ReadStruct DEF b
<1>6. CASE ErrDeferStmt
  <2>1. /\ open' = ReplaceTop(open, e) /\ CanRead("errdefer") /\ Number("errdefer")
        /\ errdefers' = ReplaceTop(errdefers, Append(Top(errdefers), count + 1))
        /\ defers' = defers /\ loops' = loops /\ baselines' = baselines
    BY <1>6 DEF ErrDeferStmt
  <2> HIDE DEF b, d, e
  <2>2. /\ e.k = b.k /\ e.n = b.n /\ e.label = b.label
        /\ e.k = "voidJudge" => e.first = NoBranch
    BY <1>2, <1>3 DEF SameBlock
  <2>3. StackRead(e, b.errdefers, e.errdefers, errdefers, errdefers')
    BY <1>1, <1>2, <1>3, <2>1, <2>2 DEF StackRead
  <2>4. StackRead(e, b.defers, e.defers, defers, defers')
    BY <1>3, <2>1 DEF StackRead
  <2> QED BY <1>1, <1>3, <1>4, <2>1, <2>2, <2>3, <2>4, NumberIs, ReadStruct DEF b
<1> QED BY <1>5, <1>6

(* What a jump and a return write.                                         *)
JumpCode(kind, label) ==
  IF label = NoLabel
  THEN Ends(ScopeExitDefers(Top(baselines)), <<kind, NoLabel>>)
  ELSE Ends(ScopeExitDefers(baselines[LoopIndex(label)]) \o LoopJumpReleases(label),
            Goto(label, kind))

LEMMA JumpIs ==
  ASSUME Struct, NotFinished, NEW kind \in Jumps, NEW label \in Labels, MayJump(label)
  PROVE  JumpCode(kind, label) \in Prog /\ Ends(<<>>, <<kind, label>>) \in Prog
<1>1. TypeOK /\ Len(loops) \in Nat /\ baselines \in Seq(Nat) /\ Len(baselines) = Len(loops)
  BY TopNoFirst, ReleasesAre, Reading DEF Struct
<1>2. <<>> \in Seq(Ev) /\ <<kind, label>> \in Outs /\ <<kind, NoLabel>> \in Outs
      /\ Goto(label, kind) \in Outs
  BY MOutsAre DEF Outs, Jumps, Labels
<1>3. Ends(<<>>, <<kind, label>>) \in Prog
  BY <1>2, EndsIs
<1>4. CASE label = NoLabel
  <2>1. Top(baselines) \in Nat
    BY <1>1, <1>4, ReleasesAre DEF MayJump, Top
  <2> QED BY <1>1, <1>2, <1>3, <1>4, <2>1, ExitTypes, EndsIs DEF JumpCode
<1>5. CASE label # NoLabel
  <2>1. LoopIndex(label) \in 1 .. Len(loops)
    BY <1>1, <1>5, LoopIndexIs DEF MayJump
  <2>2. baselines[LoopIndex(label)] \in Nat /\ LoopIndex(label) \in Nat
    BY <1>1, <2>1
  <2>3. ScopeExitDefers(baselines[LoopIndex(label)]) \in Seq(Ev) /\ LoopJumpReleases(label) \in Seq(Ev)
    BY <1>1, <2>2, ExitTypes DEF LoopJumpReleases
  <2>4. ScopeExitDefers(baselines[LoopIndex(label)]) \o LoopJumpReleases(label) \in Seq(Ev)
    BY <2>3, ConcatType
  <2> QED BY <1>2, <1>3, <1>5, <2>4, EndsIs DEF JumpCode
<1> QED BY <1>4, <1>5

LEMMA JumpBlock ==
  ASSUME Struct, NEW kind \in Jumps, NEW label \in Labels, Jump(kind, label)
  PROVE  LET b == Top(open)
             j == Joined(b, "jump", Ends(<<>>, <<kind, label>>), JumpCode(kind, label))
             b2 == [j EXCEPT !.uses = @ \cup {<<label, kind>>}]
         IN /\ NotFinished /\ MayJump(label) /\ CanRead("jump") /\ b \in Blocks
            /\ open' = ReplaceTop(open, b2)
            /\ b2 \in Blocks /\ SameBlock(b, b2) /\ b2.last = "jump"
            /\ b2.uses = b.uses \cup {<<label, kind>>}
            /\ b2.defers = b.defers /\ b2.errdefers = b.errdefers
            /\ b2.means = Chain(b.means, Unwinding(b, Ends(<<>>, <<kind, label>>)))
            /\ b2.does = Chain(b.does, JumpCode(kind, label))
<1> DEFINE b == Top(open)
           j == Joined(b, "jump", Ends(<<>>, <<kind, label>>), JumpCode(kind, label))
           b2 == [j EXCEPT !.uses = @ \cup {<<label, kind>>}]
<1>1. NotFinished /\ MayJump(label) /\ CanRead("jump") /\ open' = ReplaceTop(open, b2)
  BY DEF Jump, JumpCode, CanRead
<1>2. b \in Blocks
  BY <1>1, Reading
<1>3. "jump" \in StmtKinds
  BY DEF StmtKinds
<1>4. /\ j \in Blocks /\ SameBlock(b, j) /\ j.last = "jump" /\ j.uses = b.uses
      /\ j.defers = b.defers /\ j.errdefers = b.errdefers
      /\ j.means = Chain(b.means, Unwinding(b, Ends(<<>>, <<kind, label>>)))
      /\ j.does = Chain(b.does, JumpCode(kind, label))
  BY <1>1, <1>2, <1>3, JumpIs, JoinedIs
<1>5. {<<label, kind>>} \in SUBSET Uses
  BY DEF Uses
<1> HIDE DEF j
<1>6. /\ b2 \in Blocks /\ SameBlock(j, b2) /\ b2.last = j.last
      /\ b2.uses = j.uses \cup {<<label, kind>>}
      /\ b2.defers = j.defers /\ b2.errdefers = j.errdefers
      /\ b2.means = j.means /\ b2.does = j.does
  BY <1>4, <1>5, UsedIs
<1> HIDE DEF b2, b
<1>7. SameBlock(b, b2)
  BY <1>4, <1>6 DEF SameBlock
<1> QED BY <1>1, <1>2, <1>4, <1>6, <1>7 DEF b, b2, j

LEMMA JumpStruct ==
  ASSUME Struct, NEW kind \in Jumps, NEW label \in Labels, Jump(kind, label)
  PROVE  Struct'
<1> DEFINE b == Top(open)
           j == Joined(b, "jump", Ends(<<>>, <<kind, label>>), JumpCode(kind, label))
           b2 == [j EXCEPT !.uses = @ \cup {<<label, kind>>}]
<1>1. /\ NotFinished /\ CanRead("jump") /\ b \in Blocks /\ open' = ReplaceTop(open, b2)
      /\ b2 \in Blocks /\ SameBlock(b, b2)
      /\ b2.defers = b.defers /\ b2.errdefers = b.errdefers
  BY JumpBlock
<1>2. UNCHANGED <<defers, errdefers, loops, baselines>> /\ Number("jump")
  BY DEF Jump
<1>3. b.k = "voidJudge" => b.first = NoBranch
  BY <1>1, TopNoFirst
<1>4. "jump" \in StmtKinds
  BY DEF StmtKinds
<1> HIDE DEF b2
<1>5. /\ StackRead(b2, b.defers, b2.defers, defers, defers')
      /\ StackRead(b2, b.errdefers, b2.errdefers, errdefers, errdefers')
  BY <1>1, <1>2 DEF StackRead
<1> QED BY <1>1, <1>2, <1>3, <1>4, <1>5, NumberIs, ReadStruct DEF SameBlock
Value == <<<<"value", count + 1>>>>
Form(form) == <<IF form = "fail" THEN "fail" ELSE "return", NoLabel>>
Returned(form) == IF form = "tuple" THEN <<>> ELSE ReturnCleanup(form = "fail")

LEMMA ReturnIs ==
  ASSUME Struct, NEW form \in {"return", "fail", "tuple"}
  PROVE  /\ Value \in Seq(Ev) /\ Returned(form) \in Seq(Ev) /\ ReturnCleanup(TRUE) \in Seq(Ev)
         /\ Ends(Value, Form(form)) \in Prog
         /\ ((Value \o Returned(form)) \o LoopExitReleases) \o Pop \in Seq(Ev)
         /\ Ends(((Value \o Returned(form)) \o LoopExitReleases) \o Pop, <<"ret", NoLabel>>) \in Prog
         /\ (Value \o ReturnCleanup(TRUE)) \o Pop \in Seq(Ev)
         /\ Ends((Value \o ReturnCleanup(TRUE)) \o Pop, <<"ret", NoLabel>>) \in Prog
<1>1. TypeOK /\ count \in Nat
  BY DEF Struct, TypeOK
<1>2. Value \in Seq(Ev)
  <2>1. <<"value", count + 1>> \in Ev
    BY <1>1 DEF Ev
  <2> QED BY <2>1 DEF Value
<1>3. <<"ret", NoLabel>> \in Outs /\ Form(form) \in Outs
  BY DEF Outs, Labels, Form
<1>4. Returned(form) \in Seq(Ev) /\ ReturnCleanup(TRUE) \in Seq(Ev)
      /\ LoopExitReleases \in Seq(Ev) /\ Pop \in Seq(Ev)
  <2>1. (form = "fail") \in BOOLEAN /\ TRUE \in BOOLEAN
    OBVIOUS
  <2>2. <<>> \in Seq(Ev)
    OBVIOUS
  <2>3. ReturnCleanup(form = "fail") \in Seq(Ev) /\ ReturnCleanup(TRUE) \in Seq(Ev)
    BY <1>1, <2>1, ExitTypes
  <2> QED BY <1>1, <2>2, <2>3, ExitTypes DEF Returned
<1>5. Value \o Returned(form) \in Seq(Ev)
  BY <1>2, <1>4, ConcatType
<1>6. (Value \o Returned(form)) \o LoopExitReleases \in Seq(Ev)
  BY <1>4, <1>5, ConcatType
<1>7. ((Value \o Returned(form)) \o LoopExitReleases) \o Pop \in Seq(Ev)
  BY <1>4, <1>6, ConcatType
<1>8. Value \o ReturnCleanup(TRUE) \in Seq(Ev)
  BY <1>2, <1>4, ConcatType
<1>9. (Value \o ReturnCleanup(TRUE)) \o Pop \in Seq(Ev)
  BY <1>4, <1>8, ConcatType
<1>10. Ends(((Value \o Returned(form)) \o LoopExitReleases) \o Pop, <<"ret", NoLabel>>) \in Prog
  BY <1>3, <1>7, EndsIs
<1>11. Ends((Value \o ReturnCleanup(TRUE)) \o Pop, <<"ret", NoLabel>>) \in Prog
  BY <1>3, <1>9, EndsIs
<1>12. Ends(Value, Form(form)) \in Prog
  BY <1>2, <1>3, EndsIs
<1> QED BY <1>2, <1>4, <1>7, <1>9, <1>10, <1>11, <1>12

LEMMA ReturnEmits ==
  ASSUME NEW form \in {"return", "fail", "tuple"}, Return(form)
  PROVE  /\ CanRead(form) /\ UNCHANGED <<defers, errdefers, loops, baselines>>
         /\ Emit(form, Ends(Value, Form(form)),
                 Ends(((Value \o Returned(form)) \o LoopExitReleases) \o Pop, <<"ret", NoLabel>>))
         /\ form = "tuple" /\ ScopeExitDefers(0) # <<>> => "tupleDefer" \in Mixed
BY DEF Return, Value, Form, Returned

LEMMA ReturnStruct ==
  ASSUME Struct, NEW form \in {"return", "fail", "tuple"}, Return(form)
  PROVE  Struct'
<1>1. form \in StmtKinds
  BY DEF StmtKinds
<1> QED BY <1>1, ReturnIs, ReturnEmits, EmitStruct

TryMeans == Choice(count + 1, Ends(Value, <<"fail", NoLabel>>), Skip)
TryDoes ==
  Choice(count + 1, Ends((Value \o ReturnCleanup(TRUE)) \o Pop, <<"ret", NoLabel>>), Skip)

LEMMA TryIs ==
  ASSUME Struct
  PROVE  TryMeans \in Prog /\ TryDoes \in Prog
<1>1. count + 1 \in Nat
  BY DEF Struct, TypeOK
<1>2. "fail" \in {"return", "fail", "tuple"} /\ Form("fail") = <<"fail", NoLabel>>
  BY DEF Form
<1>3. Ends(Value, <<"fail", NoLabel>>) \in Prog
  BY <1>2, ReturnIs
<1>4. Ends((Value \o ReturnCleanup(TRUE)) \o Pop, <<"ret", NoLabel>>) \in Prog
  BY <1>2, ReturnIs
<1> QED BY <1>1, <1>3, <1>4, SkipIs, ChoiceIs DEF TryMeans, TryDoes

LEMMA TryStruct == ASSUME Struct, Try PROVE Struct'
<1>1. "try" \in StmtKinds
  BY DEF StmtKinds
<1>2. /\ CanRead("try") /\ UNCHANGED <<defers, errdefers, loops, baselines>>
      /\ Emit("try", TryMeans, TryDoes)
  BY DEF Try, TryMeans, TryDoes, Value
<1> QED BY <1>1, <1>2, TryIs, EmitStruct

(* Blocks that open.                                                       *)
Entered(k, label, cond) == BlockAs(k, count + 1, label, cond)

LEMMA EnteredIs ==
  ASSUME Struct, NEW k \in Kinds, NEW label \in Labels, NEW cond \in {"dyn", "true", "false"}
  PROVE  LET b == Entered(k, label, cond)
         IN /\ b \in Blocks /\ b.k = k /\ b.n = count + 1 /\ b.label = label /\ b.cond = cond
            /\ b.last = "none" /\ b.uses = {} /\ b.defers = <<>> /\ b.errdefers = <<>>
            /\ b.means = Skip /\ b.does = Skip /\ b.first = NoBranch
<1>1. count + 1 \in Nat
  BY DEF Struct, TypeOK
<1> QED BY <1>1, OpenedIs DEF Entered

LEMMA EnterStruct ==
  ASSUME Struct, NEW k \in Kinds \cap StmtKinds, CanRead(k),
         NEW label \in Labels, NEW cond \in {"dyn", "true", "false"}, Enter(k, label, cond),
         StacksEntered(Entered(k, label, cond), defers, errdefers, loops, baselines,
                       defers', errdefers', loops', baselines')
  PROVE  Struct'
<1> DEFINE b == Entered(k, label, cond)
<1>1. /\ NotFinished /\ count \in Nat /\ count' = count + 1 /\ count' \in Nat /\ weave' = weave
      /\ left' \in [StmtKinds -> Nat] /\ open' = Append(open, b)
  BY NumberIs DEF Enter, Entered, BlockAs
<1>2. count + 1 \in Nat /\ k \in Kinds /\ k # "weave"
  BY <1>1 DEF StmtKinds
<1>3. /\ b \in Blocks /\ b.k = k /\ b.n = count + 1 /\ b.label = label
      /\ b.defers = <<>> /\ b.errdefers = <<>> /\ b.first = NoBranch
  BY <1>2, EnteredIs
<1>4. StacksEntered(b, defers, errdefers, loops, baselines, defers', errdefers', loops', baselines')
  OBVIOUS
<1> HIDE DEF b
<1>5. /\ open \in Seq(Blocks) /\ open # <<>>
      /\ defers \in Seq(Seq(Nat)) /\ errdefers \in Seq(Seq(Nat))
      /\ loops \in Seq(LoopScopes) /\ baselines \in Seq(Nat)
      /\ Linked(open, defers, errdefers, loops, baselines, count)
  BY <1>1, Reading
<1>6. Append(open, b) \in Seq(Blocks) /\ Append(open, b) # <<>>
  BY <1>3, <1>5, AppendIs
<1>7. Linked(Append(open, b), defers', errdefers', loops', baselines', count + 1)
  BY <1>1, <1>2, <1>3, <1>4, <1>5, OpenLinked
<1>8. defers' \in Seq(Seq(Nat)) /\ errdefers' \in Seq(Seq(Nat))
  BY <1>4, <1>5, ListsMore DEF StacksEntered
<1>9. LoopScope(b) \in LoopScopes /\ Len(defers) \in Nat
  BY <1>3, <1>5, BlockIs, ListsMore DEF LoopScope, LoopScopes
<1>10. Append(loops, LoopScope(b)) \in Seq(LoopScopes) /\ Append(baselines, Len(defers)) \in Seq(Nat)
  BY <1>5, <1>9, AppendIs
<1>11. loops' \in Seq(LoopScopes) /\ baselines' \in Seq(Nat)
  BY <1>4, <1>5, <1>10 DEF StacksEntered
<1> QED BY <1>1, <1>6, <1>7, <1>8, <1>11 DEF Struct, TypeOK

LEMMA OpenStruct ==
  /\ \A cond \in Conds : Struct /\ OpenIf(cond) => Struct'
  /\ \A k \in Unscoped, cond \in {"dyn", "true"} : Struct /\ OpenArm(k, cond) => Struct'
  /\ \A k \in LoopKinds, label \in Labels : Struct /\ OpenLoop(k, label) => Struct'
<1>0. /\ "if" \in Kinds \cap StmtKinds /\ NoLabel \in Labels /\ "if" \notin Unscoped \cup LoopKinds
      /\ \A k \in Unscoped : k \in Kinds \cap StmtKinds /\ k \notin LoopKinds
      /\ \A k \in LoopKinds : k \in Kinds \cap StmtKinds /\ k \notin Unscoped
  BY DEF Kinds, StmtKinds, LoopKinds, Unscoped, Labels
<1>1. ASSUME NEW cond \in Conds, Struct, OpenIf(cond) PROVE Struct'
  <2>1. cond \in {"dyn", "true", "false"}
    BY LowerAssumption
  <2>2. /\ CanRead("if") /\ Enter("if", NoLabel, cond) /\ PushScope
        /\ loops' = loops /\ baselines' = baselines
    BY <1>1 DEF OpenIf, CanOpen
  <2>3. Entered("if", NoLabel, cond).k = "if"
    BY <2>1, <1>0, <1>1, EnteredIs
  <2>4. StacksEntered(Entered("if", NoLabel, cond), defers, errdefers, loops, baselines,
                      defers', errdefers', loops', baselines')
    BY <1>0, <2>2, <2>3 DEF StacksEntered, PushScope
  <2> QED BY <1>0, <1>1, <2>1, <2>2, <2>4, EnterStruct
<1>2. ASSUME NEW k \in Unscoped, NEW cond \in {"dyn", "true"}, Struct, OpenArm(k, cond) PROVE Struct'
  <2>1. cond \in {"dyn", "true", "false"}
    OBVIOUS
  <2>2. /\ CanRead(k) /\ Enter(k, NoLabel, cond)
        /\ loops' = loops /\ baselines' = baselines /\ defers' = defers /\ errdefers' = errdefers
    BY <1>2 DEF OpenArm, CanOpen
  <2>3. Entered(k, NoLabel, cond).k = k
    BY <2>1, <1>0, <1>2, EnteredIs
  <2>4. StacksEntered(Entered(k, NoLabel, cond), defers, errdefers, loops, baselines,
                      defers', errdefers', loops', baselines')
    BY <1>0, <2>2, <2>3 DEF StacksEntered
  <2> QED BY <1>0, <1>2, <2>1, <2>2, <2>4, EnterStruct
<1>3. ASSUME NEW k \in LoopKinds, NEW label \in Labels, Struct, OpenLoop(k, label) PROVE Struct'
  <2> DEFINE b == Entered(k, label, "dyn")
  <2>1. "dyn" \in {"dyn", "true", "false"}
    OBVIOUS
  <2>2. /\ CanRead(k) /\ Enter(k, label, "dyn") /\ PushScope
        /\ loops' = Append(loops, [label |-> label, release |-> IF k = "for" THEN count + 1 ELSE 0])
        /\ baselines' = Append(baselines, Len(defers))
    BY <1>3 DEF OpenLoop, CanOpen
  <2>3. b.k = k /\ b.label = label /\ b.n = count + 1
    BY <2>1, <1>0, <1>3, EnteredIs
  <2> HIDE DEF b
  <2>4. LoopScope(b) = [label |-> label, release |-> IF k = "for" THEN count + 1 ELSE 0]
    BY <2>3 DEF LoopScope
  <2>5. StacksEntered(b, defers, errdefers, loops, baselines, defers', errdefers', loops', baselines')
    BY <1>0, <2>2, <2>3, <2>4 DEF StacksEntered, PushScope
  <2> QED BY <1>0, <1>3, <2>1, <2>2, <2>5, EnterStruct DEF b
<1> QED BY <1>1, <1>2, <1>3
(* Blocks that close.                                                      *)
LEMMA BranchIs ==
  ASSUME Struct, NotFinished
  PROVE  LET b == Top(open)
         IN /\ b.k \notin Unscoped => ScopedBody(b) \in Prog
            /\ Branch(b) \in Branches /\ First(b) \in Branches /\ Second(b) \in Branches
            /\ Scope(b) \in Prog
<1> DEFINE b == Top(open)
<1>1. b \in Blocks /\ b.does \in Prog /\ b.first \in {NoBranch} \cup Branches /\ Scope(b) \in Prog
      /\ b.defers \in Seq(Nat)
  BY Reading, BlockIs, ScopeIs
<1>2. b.k \notin Unscoped => Top(defers) = b.defers
  BY TopNoFirst
<1>3. Do(Cleanups("defer", b.defers)) \in Prog
  BY <1>1, CleanupsAre, DoIs
<1> HIDE DEF b
<1>4. b.k \notin Unscoped => ScopedBody(b) \in Prog
  BY <1>1, <1>2, <1>3, ChainIs DEF ScopedBody
<1>5. "if" \notin Unscoped
  BY DEF Unscoped
<1>6. Branch(b) \in Branches
  BY <1>1, <1>4, <1>5 DEF Branch, Branches
<1>7. First(b) \in Branches /\ Second(b) \in Branches
  BY <1>1, <1>6, SkipIs DEF First, Second, Empty, Branches
<1> QED BY <1>1, <1>4, <1>6, <1>7 DEF b

ElseBlock(b) ==
  [b EXCEPT !.first = Branch(b), !.last = "none", !.defers = <<>>, !.errdefers = <<>>,
            !.means = Skip, !.does = Skip]

LEMMA ElseBlockIs ==
  ASSUME Struct, NotFinished
  PROVE  LET b == Top(open)
             b2 == ElseBlock(b)
         IN /\ b2 \in Blocks /\ b2.k = b.k /\ b2.n = b.n /\ b2.label = b.label
            /\ b2.cond = b.cond /\ b2.last = "none" /\ b2.uses = b.uses
            /\ b2.defers = <<>> /\ b2.errdefers = <<>> /\ b2.means = Skip /\ b2.does = Skip
            /\ b2.first = Branch(b)
<1> DEFINE b == Top(open)
           br == Branch(b)
<1>1. b \in Blocks /\ br \in Branches
  BY BranchIs, Reading
<1> HIDE DEF br
<1>2. ElseBlock(b) = [b EXCEPT !.first = br, !.last = "none", !.defers = <<>>,
                               !.errdefers = <<>>, !.means = Skip, !.does = Skip]
  BY DEF ElseBlock, br
<1> HIDE DEF b
<1>3. LET b2 == [b EXCEPT !.first = br, !.last = "none", !.defers = <<>>,
                          !.errdefers = <<>>, !.means = Skip, !.does = Skip]
      IN /\ b2 \in Blocks /\ b2.k = b.k /\ b2.n = b.n /\ b2.label = b.label
         /\ b2.cond = b.cond /\ b2.last = "none" /\ b2.uses = b.uses
         /\ b2.defers = <<>> /\ b2.errdefers = <<>> /\ b2.means = Skip /\ b2.does = Skip
         /\ b2.first = br
  BY <1>1, ElseIs
<1> QED BY <1>2, <1>3 DEF b, br

LEMMA ElseStruct ==
  ASSUME Struct, Else, "voidElse" \notin Mixed
  PROVE  Struct'
<1> DEFINE b == Top(open)
           b2 == ElseBlock(b)
<1>1. /\ NotFinished /\ b.k \in Branching /\ b.k # "voidJudge" /\ open' = ReplaceTop(open, b2)
      /\ defers' = IF b.k = "if" THEN ReplaceTop(defers, <<>>) ELSE defers
      /\ errdefers' = IF b.k = "if" THEN ReplaceTop(errdefers, <<>>) ELSE errdefers
      /\ UNCHANGED <<loops, baselines, count, left, weave>>
  BY DEF Else, Closes, ElseBlock
<1>2. /\ b2 \in Blocks /\ b2.k = b.k /\ b2.n = b.n /\ b2.label = b.label
      /\ b2.defers = <<>> /\ b2.errdefers = <<>>
  BY <1>1, ElseBlockIs
<1>3. b.k \in Unscoped <=> b.k # "if"
  BY <1>1 DEF Branching, Unscoped
<1>4. count \in Nat /\ count <= count /\ left \in [StmtKinds -> Nat]
  BY DEF Struct, TypeOK
<1> HIDE DEF b2, b
<1>5. /\ StackRead(b2, b.defers, b2.defers, defers, defers')
      /\ StackRead(b2, b.errdefers, b2.errdefers, errdefers, errdefers')
  BY <1>1, <1>2, <1>3 DEF StackRead
<1> QED BY <1>1, <1>2, <1>4, <1>5, ReadStruct DEF b

Around == open[Len(open) - 1]
LeaveBlock(means, does) ==
  [Joined(Around, Top(open).k, means, does) EXCEPT !.uses = @ \cup Top(open).uses]

LEMMA AboveOne ==
  ASSUME NEW n \in Nat, n > 0, n # 1
  PROVE  n > 1 /\ n - 1 \in 1 .. n
OBVIOUS

LEMMA LeaveBlockIs ==
  ASSUME Struct, NotFinished, Top(open).k # "weave", NEW means \in Prog, NEW does \in Prog
  PROVE  LET a2 == LeaveBlock(means, does)
         IN /\ Len(open) > 1 /\ Len(open) - 1 \in 1 .. Len(open) /\ Around \in Blocks
            /\ a2 \in Blocks /\ SameBlock(Around, a2) /\ a2.last = Top(open).k
            /\ a2.uses = Around.uses \cup Top(open).uses
            /\ a2.defers = Around.defers /\ a2.errdefers = Around.errdefers
            /\ a2.means = Chain(Around.means, Unwinding(Around, means))
            /\ a2.does = Chain(Around.does, does)
<1>1. Len(open) > 1 /\ Len(open) - 1 \in 1 .. Len(open) /\ Around \in Blocks
  <2>1. Len(open) # 1 /\ Len(open) \in Nat /\ Len(open) > 0 /\ open \in Seq(Blocks)
    BY TopNoFirst, Reading
  <2>2. Len(open) > 1 /\ Len(open) - 1 \in 1 .. Len(open)
    BY <2>1, AboveOne
  <2>3. open[Len(open) - 1] \in Blocks
    BY <2>1, <2>2
  <2> QED BY <2>2, <2>3 DEF Around
<1>2. Top(open).k \in StmtKinds /\ Top(open).uses \in SUBSET Uses
  <2>1. Top(open).k \in Kinds /\ Top(open).uses \in SUBSET Uses
    BY Reading, BlockIs
  <2> QED BY <2>1 DEF Kinds, Unscoped, LoopKinds, StmtKinds
<1> DEFINE j == Joined(Around, Top(open).k, means, does)
<1>3. /\ j \in Blocks /\ SameBlock(Around, j) /\ j.last = Top(open).k /\ j.uses = Around.uses
      /\ j.defers = Around.defers /\ j.errdefers = Around.errdefers
      /\ j.means = Chain(Around.means, Unwinding(Around, means))
      /\ j.does = Chain(Around.does, does)
  BY <1>1, <1>2, JoinedIs
<1> HIDE DEF j
<1> DEFINE a2 == [j EXCEPT !.uses = @ \cup Top(open).uses]
<1>4. /\ a2 \in Blocks /\ SameBlock(j, a2) /\ a2.last = j.last
      /\ a2.uses = j.uses \cup Top(open).uses
      /\ a2.defers = j.defers /\ a2.errdefers = j.errdefers
      /\ a2.means = j.means /\ a2.does = j.does
  BY <1>2, <1>3, UsedIs
<1>5. LeaveBlock(means, does) = a2
  BY DEF LeaveBlock, j
<1> HIDE DEF a2
<1> QED BY <1>1, <1>3, <1>4, <1>5 DEF SameBlock

LEMMA LeaveStruct ==
  ASSUME Struct, NotFinished, Top(open).k # "weave", NEW means \in Prog, NEW does \in Prog,
         Leave(means, does),
         StacksLeft(Top(open), defers, errdefers, loops, baselines,
                    defers', errdefers', loops', baselines')
  PROVE  Struct'
<1> DEFINE a2 == LeaveBlock(means, does)
<1>1. /\ open' = Append(SubSeq(open, 1, Len(open) - 2), a2)
      /\ count' = count /\ left' = left /\ weave' = weave
  BY DEF Leave, LeaveBlock, Around
<1>2. /\ Len(open) > 1 /\ a2 \in Blocks /\ SameBlock(Around, a2)
      /\ a2.defers = Around.defers /\ a2.errdefers = Around.errdefers
  BY LeaveBlockIs
<1> HIDE DEF a2
<1>3. /\ open \in Seq(Blocks) /\ Top(open) = open[Len(open)] /\ Len(open) \in Nat
      /\ defers \in Seq(Seq(Nat)) /\ errdefers \in Seq(Seq(Nat))
      /\ loops \in Seq(LoopScopes) /\ baselines \in Seq(Nat) /\ count \in Nat
      /\ Linked(open, defers, errdefers, loops, baselines, count)
  BY Reading
<1>4. Linked(open', defers', errdefers', loops', baselines', count)
  BY <1>1, <1>2, <1>3, LeaveLinked DEF Around
<1>5. open' \in Seq(Blocks) /\ open' # <<>>
  <2>1. Len(open) - 2 \in 0 .. Len(open)
    BY <1>2, <1>3
  <2>2. SubSeq(open, 1, Len(open) - 2) \in Seq(Blocks)
    BY <1>3, <2>1, PrefixIs
  <2> QED BY <1>1, <1>2, <2>2, AppendIs
<1>6. defers' \in Seq(Seq(Nat)) /\ errdefers' \in Seq(Seq(Nat))
  <2>1. CASE Top(open).k \in Unscoped
    BY <1>3, <2>1 DEF StacksLeft
  <2>2. CASE Top(open).k \notin Unscoped
    <3>1. defers # <<>> /\ errdefers # <<>> /\ <<>> \in Seq(Nat)
      BY <2>2, TopNoFirst
    <3>2. Front(defers) \in Seq(Seq(Nat)) /\ Front(errdefers) \in Seq(Seq(Nat))
      BY <1>3, <3>1, ListsTop
    <3> QED BY <2>2, <3>2 DEF StacksLeft
  <2> QED BY <2>1, <2>2
<1>7. loops' \in Seq(LoopScopes) /\ baselines' \in Seq(Nat)
  <2>1. CASE Top(open).k \notin LoopKinds
    BY <1>3, <2>1 DEF StacksLeft
  <2>2. CASE Top(open).k \in LoopKinds
    <3>1. loops # <<>> /\ baselines # <<>>
      BY <2>2, TopNoFirst
    <3>2. Front(loops) \in Seq(LoopScopes) /\ Front(baselines) \in Seq(Nat)
      BY <1>3, <3>1, FrontIs
    <3> QED BY <2>2, <3>2 DEF StacksLeft
  <2> QED BY <2>1, <2>2
<1> QED BY <1>1, <1>3, <1>4, <1>5, <1>6, <1>7 DEF Struct, TypeOK

(* What each closing action hands to the block around.                     *)
IfMeans(b) == Folded(b.cond, b.n, First(b).means, Second(b).means)
IfDoes(b) == Folded(b.cond, b.n, First(b).does, Second(b).does)
ArmMeans(b) == Folded(b.cond, b.n, Scope(b), Skip)
ArmDoes(b) == Folded(b.cond, b.n, b.does, Skip)
Written(b) == IF b.k = "voidJudge" THEN Skip ELSE Second(b).does
JudgeMeans(b) == Choice(b.n, First(b).means, Second(b).means)
JudgeDoes(b) == IF b.k = "switch" THEN CSwitch(b.n, First(b).does, Written(b))
                ELSE Choice(b.n, First(b).does, Written(b))
ForMeans(b) == IF b.k = "for" THEN Releasing(b.n, LoopMeans(b)) ELSE LoopMeans(b)
LoopBody(b) == AnchorIfUsed(b, "continue", ScopedBody(b))
LoopDoes(b) == AnchorIfUsed(b, "break", CLoop(b.n, LoopBody(b)))
ForDoes(b) == Chain(LoopDoes(b), Do(Release(Top(loops))))

LEMMA FoldedIs ==
  ASSUME NEW cond, NEW n \in Nat, NEW p \in Prog, NEW q \in Prog
  PROVE  Folded(cond, n, p, q) \in Prog
BY ChoiceIs DEF Folded

LEMMA CloseTypes ==
  ASSUME Struct, NotFinished
  PROVE  LET b == Top(open)
         IN /\ IfMeans(b) \in Prog /\ IfDoes(b) \in Prog /\ ArmMeans(b) \in Prog
            /\ ArmDoes(b) \in Prog /\ JudgeMeans(b) \in Prog /\ JudgeDoes(b) \in Prog
            /\ Written(b) \in Prog
<1> DEFINE b == Top(open)
<1>1. b.n \in Nat /\ b.does \in Prog /\ Scope(b) \in Prog /\ Skip \in Prog
  BY Reading, BlockIs, BranchIs, SkipIs
<1>2. First(b) \in Branches /\ Second(b) \in Branches
  BY BranchIs
<1> HIDE DEF b
<1>3. /\ First(b).means \in Prog /\ Second(b).means \in Prog
      /\ First(b).does \in Prog /\ Second(b).does \in Prog
  BY <1>2 DEF Branches
<1>4. Written(b) \in Prog
  BY <1>1, <1>3 DEF Written
<1>5. IfMeans(b) \in Prog /\ IfDoes(b) \in Prog /\ ArmMeans(b) \in Prog /\ ArmDoes(b) \in Prog
  BY <1>1, <1>3, FoldedIs DEF IfMeans, IfDoes, ArmMeans, ArmDoes
<1>6. JudgeMeans(b) \in Prog /\ JudgeDoes(b) \in Prog
  BY <1>1, <1>3, <1>4, ChoiceIs, CSwitchIs DEF JudgeMeans, JudgeDoes
<1> QED BY <1>4, <1>5, <1>6 DEF b

LEMMA CloseStruct ==
  /\ Struct /\ CloseIf => Struct'
  /\ Struct /\ CloseArm => Struct'
  /\ Struct /\ CloseJudge => Struct'
<1> DEFINE b == Top(open)
<1>1. ASSUME Struct, CloseIf PROVE Struct'
  <2>1. /\ NotFinished /\ b.k = "if" /\ Leave(IfMeans(b), IfDoes(b)) /\ PopScope
        /\ loops' = loops /\ baselines' = baselines
    BY <1>1 DEF CloseIf, Closes, IfMeans, IfDoes
  <2>2. IfMeans(b) \in Prog /\ IfDoes(b) \in Prog
    BY <1>1, <2>1, CloseTypes
  <2>3. "if" # "weave" /\ "if" \notin Unscoped /\ "if" \notin LoopKinds
    BY DEF Unscoped, LoopKinds
  <2>4. StacksLeft(b, defers, errdefers, loops, baselines, defers', errdefers', loops', baselines')
    BY <2>1, <2>3 DEF StacksLeft, PopScope
  <2> QED BY <1>1, <2>1, <2>2, <2>3, <2>4, LeaveStruct
<1>2. ASSUME Struct, CloseArm PROVE Struct'
  <2>1. /\ NotFinished /\ b.k = "arm" /\ Leave(ArmMeans(b), ArmDoes(b))
        /\ loops' = loops /\ baselines' = baselines /\ defers' = defers /\ errdefers' = errdefers
    BY <1>2 DEF CloseArm, Closes, ArmMeans, ArmDoes
  <2>2. ArmMeans(b) \in Prog /\ ArmDoes(b) \in Prog
    BY <1>2, <2>1, CloseTypes
  <2>3. "arm" # "weave" /\ "arm" \in Unscoped /\ "arm" \notin LoopKinds
    BY DEF Unscoped, LoopKinds
  <2>4. StacksLeft(b, defers, errdefers, loops, baselines, defers', errdefers', loops', baselines')
    BY <2>1, <2>3 DEF StacksLeft
  <2> QED BY <1>2, <2>1, <2>2, <2>3, <2>4, LeaveStruct
<1>3. ASSUME Struct, CloseJudge PROVE Struct'
  <2>1. /\ NotFinished /\ b.k \in {"switch", "judge", "voidJudge"} /\ Leave(JudgeMeans(b), JudgeDoes(b))
        /\ loops' = loops /\ baselines' = baselines /\ defers' = defers /\ errdefers' = errdefers
    BY <1>3 DEF CloseJudge, Closes, JudgeMeans, JudgeDoes, Written
  <2>2. JudgeMeans(b) \in Prog /\ JudgeDoes(b) \in Prog
    BY <1>3, <2>1, CloseTypes
  <2>3. b.k # "weave" /\ b.k \in Unscoped /\ b.k \notin LoopKinds
    BY <2>1 DEF Unscoped, LoopKinds
  <2>4. StacksLeft(b, defers, errdefers, loops, baselines, defers', errdefers', loops', baselines')
    BY <2>1, <2>3 DEF StacksLeft
  <2> QED BY <1>3, <2>1, <2>2, <2>3, <2>4, LeaveStruct
<1> QED BY <1>1, <1>2, <1>3

(* A returned operand with a block for its failure.                        *)
OrValue(b) == <<<<"value", b.n>>>>
OrExit(b) == ((OrValue(b) \o ReturnCleanup(TRUE)) \o LoopExitReleases) \o Pop
OrFails(b) == Chain(Scope(b), Ends(OrValue(b), <<"fail", NoLabel>>))
OrLeaves(b) == Ends(OrExit(b), <<"ret", NoLabel>>)
ReturnOrMeans(b) == Choice(b.n, OrFails(b), Ends(OrValue(b), <<"return", NoLabel>>))
ReturnOrDoes(b) == Chain(Choice(b.n, b.does, Skip), OrLeaves(b))

LEMMA ReturnOrIs ==
  ASSUME Struct, NotFinished
  PROVE  LET b == Top(open)
         IN /\ OrValue(b) \in Seq(Ev) /\ ReturnCleanup(TRUE) \in Seq(Ev) /\ OrExit(b) \in Seq(Ev)
            /\ Ends(OrValue(b), <<"return", NoLabel>>) \in Prog
            /\ Ends(OrValue(b), <<"fail", NoLabel>>) \in Prog
            /\ OrFails(b) \in Prog /\ OrLeaves(b) \in Prog
            /\ ReturnOrMeans(b) \in Prog /\ ReturnOrDoes(b) \in Prog
<1> DEFINE b == Top(open)
<1>1. b.n \in Nat /\ b.does \in Prog /\ Scope(b) \in Prog /\ Skip \in Prog
  BY Reading, BlockIs, BranchIs, SkipIs
<1>2. TypeOK /\ TRUE \in BOOLEAN
  BY DEF Struct
<1> HIDE DEF b
<1>3. OrValue(b) \in Seq(Ev)
  <2>1. <<"value", b.n>> \in Ev
    BY <1>1 DEF Ev
  <2> QED BY <2>1 DEF OrValue
<1>4. ReturnCleanup(TRUE) \in Seq(Ev) /\ LoopExitReleases \in Seq(Ev) /\ Pop \in Seq(Ev)
  BY <1>2, ExitTypes
<1>5. OrValue(b) \o ReturnCleanup(TRUE) \in Seq(Ev)
  BY <1>3, <1>4, ConcatType
<1>6. (OrValue(b) \o ReturnCleanup(TRUE)) \o LoopExitReleases \in Seq(Ev)
  BY <1>4, <1>5, ConcatType
<1>7. OrExit(b) \in Seq(Ev)
  BY <1>4, <1>6, ConcatType DEF OrExit
<1>8. {<<"return", NoLabel>>, <<"fail", NoLabel>>, <<"ret", NoLabel>>} \subseteq Outs
  BY DEF Outs, Labels
<1>9. /\ Ends(OrValue(b), <<"return", NoLabel>>) \in Prog
      /\ Ends(OrValue(b), <<"fail", NoLabel>>) \in Prog /\ OrLeaves(b) \in Prog
  BY <1>3, <1>7, <1>8, EndsIs DEF OrLeaves
<1>10. OrFails(b) \in Prog
  BY <1>1, <1>9, ChainIs DEF OrFails
<1>11. ReturnOrMeans(b) \in Prog
  BY <1>1, <1>9, <1>10, ChoiceIs DEF ReturnOrMeans
<1>12. ReturnOrDoes(b) \in Prog
  <2>1. Choice(b.n, b.does, Skip) \in Prog
    BY <1>1, ChoiceIs
  <2> QED BY <1>9, <2>1, ChainIs DEF ReturnOrDoes
<1> QED BY <1>3, <1>4, <1>7, <1>9, <1>10, <1>11, <1>12 DEF b

LEMMA ReturnOrLeaves ==
  ASSUME CloseReturnOr
  PROVE  LET b == Top(open)
         IN /\ NotFinished /\ b.k = "returnOr" /\ Leave(ReturnOrMeans(b), ReturnOrDoes(b))
            /\ UNCHANGED <<defers, errdefers, loops, baselines, weave>>
            /\ Downward(Lines("errdefer", errdefers), 0) # <<>> => "returnOr" \in Mixed
BY DEF CloseReturnOr, Closes, Leave, ReturnOrMeans, ReturnOrDoes, OrFails, OrLeaves, OrValue, OrExit

LEMMA ReturnOrStruct == ASSUME Struct, CloseReturnOr PROVE Struct'
<1> DEFINE b == Top(open)
<1>1. /\ NotFinished /\ b.k = "returnOr" /\ Leave(ReturnOrMeans(b), ReturnOrDoes(b))
      /\ loops' = loops /\ baselines' = baselines /\ defers' = defers /\ errdefers' = errdefers
  BY ReturnOrLeaves
<1>2. ReturnOrMeans(b) \in Prog /\ ReturnOrDoes(b) \in Prog
  BY <1>1, ReturnOrIs
<1>3. "returnOr" # "weave" /\ "returnOr" \in Unscoped /\ "returnOr" \notin LoopKinds
  BY DEF Unscoped, LoopKinds
<1>4. StacksLeft(b, defers, errdefers, loops, baselines, defers', errdefers', loops', baselines')
  BY <1>1, <1>3 DEF StacksLeft
<1> QED BY <1>1, <1>2, <1>3, <1>4, LeaveStruct

LEMMA LoopType ==
  ASSUME NEW n \in Nat, NEW body \in Prog, NEW again, NEW break
  PROVE  Loop(n, body, again, break) \in Prog
<1> DEFINE t == Turns(n, body, again, break)
<1>1. t \in Prog /\ \A o \in Outcomes : t[o].out = Again => Len(t[o].o) < Len(o)
  BY TurnsAre
<1> HIDE DEF t
<1>2. Repeat(t) \in Prog
  BY <1>1, RepeatIs
<1> QED BY <1>2 DEF t, Loop

LEMMA LoopTypes ==
  ASSUME Struct, NotFinished, Top(open).k \in LoopKinds
  PROVE  LET b == Top(open)
         IN /\ LoopMeans(b) \in Prog /\ ForMeans(b) \in Prog /\ ScopedBody(b) \in Prog
            /\ LoopBody(b) \in Prog /\ CLoop(b.n, LoopBody(b)) \in Prog
            /\ LoopDoes(b) \in Prog /\ ForDoes(b) \in Prog
<1> DEFINE b == Top(open)
<1>1. b.n \in Nat /\ Scope(b) \in Prog /\ b \in Blocks
  BY Reading, BlockIs, BranchIs
<1>2. ScopedBody(b) \in Prog
  BY BranchIs DEF Unscoped, LoopKinds
<1>3. loops # <<>> /\ loops \in Seq(LoopScopes)
  BY TopNoFirst, Reading
<1>4. Release(Top(loops)) \in Seq(Ev)
  <2>1. Top(loops) \in LoopScopes
    BY <1>3 DEF Top
  <2> QED BY <2>1, ReleaseIs
<1> HIDE DEF b
<1>5. LoopMeans(b) \in Prog
  BY <1>1, LoopType DEF LoopMeans
<1>6. ForMeans(b) \in Prog
  BY <1>1, <1>5, ReleasingIs DEF ForMeans
<1>7. LoopBody(b) \in Prog
  BY <1>2, AnchoredIs DEF LoopBody, AnchorIfUsed
<1>8. CLoop(b.n, LoopBody(b)) \in Prog
  BY <1>1, <1>7, LoopType DEF CLoop
<1>9. LoopDoes(b) \in Prog
  BY <1>8, AnchoredIs DEF LoopDoes, AnchorIfUsed
<1>10. ForDoes(b) \in Prog
  BY <1>4, <1>9, DoIs, ChainIs DEF ForDoes
<1> QED BY <1>2, <1>5, <1>6, <1>7, <1>8, <1>9, <1>10 DEF b

LEMMA CloseLoopStruct == ASSUME Struct, CloseLoop PROVE Struct'
<1> DEFINE b == Top(open)
<1>1. /\ NotFinished /\ b.k \in LoopKinds /\ Leave(ForMeans(b), ForDoes(b)) /\ PopScope
      /\ loops' = Front(loops) /\ baselines' = Front(baselines)
  BY DEF CloseLoop, Closes, LoopKinds, ForMeans, ForDoes, LoopDoes, LoopBody
<1>2. ForMeans(b) \in Prog /\ ForDoes(b) \in Prog
  BY <1>1, LoopTypes
<1>3. b.k # "weave" /\ b.k \notin Unscoped
  BY <1>1 DEF Unscoped, LoopKinds
<1>4. StacksLeft(b, defers, errdefers, loops, baselines, defers', errdefers', loops', baselines')
  BY <1>1, <1>3 DEF StacksLeft, PopScope
<1> QED BY <1>1, <1>2, <1>3, <1>4, LeaveStruct

LEMMA NoRecordEmpty ==
  ASSUME NEW p, NEW q
  PROVE  [means |-> p, does |-> q] # <<>>
<1>1. "means" \in DOMAIN [means |-> p, does |-> q] /\ "means" \notin 1 .. 0
  OBVIOUS
<1>2. DOMAIN <<>> = 1 .. 0
  OBVIOUS
<1> QED BY <1>1, <1>2

FinishDoes(b) == IF EndsWithJump(b) THEN b.does ELSE Chain(ScopedBody(b), Do(Pop))

LEMMA FinishStruct == ASSUME Struct, Finish PROVE Struct' /\ weave' # <<>>
<1> DEFINE b == Top(open)
<1>1. /\ NotFinished /\ b.k = "weave" /\ open' = <<>> /\ PopScope
      /\ weave' = [means |-> Scope(b), does |-> FinishDoes(b)]
      /\ UNCHANGED <<loops, baselines, count, left>>
  BY DEF Finish, Closes, FinishDoes
<1>2. TypeOK /\ b \in Blocks /\ b.does \in Prog /\ Scope(b) \in Prog
  BY <1>1, Reading, BlockIs, BranchIs DEF Struct
<1>3. "weave" \notin Unscoped
  BY DEF Unscoped
<1>4. ScopedBody(b) \in Prog /\ defers # <<>> /\ errdefers # <<>>
  BY <1>1, <1>3, BranchIs, TopNoFirst
<1>5. FinishDoes(b) \in Prog
  BY <1>2, <1>4, ExitTypes, DoIs, ChainIs DEF FinishDoes
<1> HIDE DEF b
<1>6. weave' \in Branches /\ weave' # <<>>
  BY <1>1, <1>2, <1>5, NoRecordEmpty DEF Branches
<1>7. <<>> \in Seq(Nat) /\ defers \in Seq(Seq(Nat)) /\ errdefers \in Seq(Seq(Nat))
  BY <1>1, Reading
<1>8. defers' \in Seq(Seq(Nat)) /\ errdefers' \in Seq(Seq(Nat))
  BY <1>1, <1>4, <1>7, ListsTop DEF PopScope
<1>9. open' \in Seq(Blocks)
  BY <1>1
<1>10. TypeOK'
  BY <1>1, <1>2, <1>6, <1>8, <1>9 DEF TypeOK
<1> QED BY <1>6, <1>10 DEF Struct

LEMMA InitStruct == ASSUME Init PROVE Struct
<1> DEFINE b == Block("weave", 0)
<1>1. b \in Blocks /\ b.k = "weave" /\ b.n = 0 /\ b.defers = <<>> /\ b.errdefers = <<>>
  <2>1. Skip \in Prog /\ <<>> \in Seq(Nat) /\ {} \in SUBSET Uses /\ NoBranch \in {NoBranch} \cup Branches
        /\ "none" \in StmtKinds \cup {"none"} /\ NoLabel \in Labels /\ "dyn" \in {"dyn", "true", "false"}
        /\ "weave" \in Kinds
    BY SkipIs DEF Labels, Kinds
  <2> QED BY <2>1 DEF Block, Blocks
<1> HIDE DEF b
<1>2. open = <<b>> /\ defers = <<<<>>>> /\ errdefers = <<<<>>>> /\ loops = <<>> /\ baselines = <<>>
      /\ count = 0 /\ weave = <<>>
  BY DEF Init, b
<1>3. left \in [StmtKinds -> Nat]
  BY LowerAssumption DEF Init
<1>4. <<b>> \in Seq(Blocks) /\ <<b>> # <<>> /\ Len(<<b>>) = 1 /\ <<b>>[1] = b
  BY <1>1
<1>5. <<<<>>>> \in Seq(Seq(Nat)) /\ Len(<<<<>>>>) = 1 /\ <<<<>>>>[1] = <<>>
  OBVIOUS
<1>6. <<>> \in Seq(LoopScopes) /\ <<>> \in Seq(Nat) /\ Len(<<>>) = 0
  OBVIOUS
<1>7. TypeOK
  BY <1>2, <1>3, <1>4, <1>5, <1>6 DEF TypeOK
<1> DEFINE sc == [i \in Nat |-> IF i = 0 THEN 0 ELSE 1]
           lp == [i \in Nat |-> 0]
<1>8. /\ sc \in [Nat -> Nat] /\ sc[0] = 0 /\ sc[1] = 1 /\ lp \in [Nat -> Nat] /\ lp[0] = 0 /\ lp[1] = 0
  OBVIOUS
<1>9. "weave" \notin Unscoped /\ "weave" \notin LoopKinds
  BY DEF Unscoped, LoopKinds
<1> DEFINE bl == <<b>>
<1> HIDE DEF sc, lp, bl
<1>a. Len(bl) = 1 /\ bl[1] = b
  BY <1>4 DEF bl
<1>10. Shape(bl, sc, lp)
  <2>1. \A i \in 1 .. 1 :
          /\ bl[i].k = "weave" <=> i = 1
          /\ sc[i] = IF bl[i].k \in Unscoped THEN sc[i - 1] ELSE sc[i - 1] + 1
          /\ lp[i] = IF bl[i].k \in LoopKinds THEN lp[i - 1] + 1 ELSE lp[i - 1]
          /\ bl[i].k = "voidJudge" => bl[i].first = NoBranch
          /\ \A j \in 1 .. i - 1 : bl[j].n < bl[i].n
    <3> SUFFICES ASSUME NEW i \in 1 .. 1
                 PROVE /\ bl[i].k = "weave" <=> i = 1
                       /\ sc[i] = IF bl[i].k \in Unscoped THEN sc[i - 1] ELSE sc[i - 1] + 1
                       /\ lp[i] = IF bl[i].k \in LoopKinds THEN lp[i - 1] + 1 ELSE lp[i - 1]
                       /\ bl[i].k = "voidJudge" => bl[i].first = NoBranch
                       /\ \A j \in 1 .. i - 1 : bl[j].n < bl[i].n
      OBVIOUS
    <3>1. i = 1 /\ i - 1 = 0
      OBVIOUS
    <3>2. \A j \in 1 .. i - 1 : FALSE
      BY <3>1
    <3> QED BY <1>1, <1>8, <1>9, <1>a, <3>1, <3>2
  <2>2. \A i, j \in 0 .. 1 : i <= j => sc[i] <= sc[j] /\ lp[i] <= lp[j]
    <3>1. \A i \in 0 .. 1 : i = 0 \/ i = 1
      OBVIOUS
    <3> QED BY <1>8, <3>1
  <2>3. \A j \in 1 .. lp[1] : FALSE
    BY <1>8
  <2> QED BY <1>8, <1>a, <2>1, <2>2, <2>3 DEF Shape
<1>11. Mirrors(bl, sc, lp, <<<<>>>>, <<<<>>>>, <<>>, <<>>)
  <2>1. \A i \in 1 .. 1 : i = 1
    OBVIOUS
  <2> QED BY <1>1, <1>5, <1>6, <1>8, <1>9, <1>a, <2>1 DEF Mirrors
<1>12. \A i \in 1 .. Len(bl) : bl[i].n <= 0
  BY <1>1, <1>a
<1>13. Framed(bl, sc, lp, <<<<>>>>, <<<<>>>>, <<>>, <<>>, 0)
  BY <1>10, <1>11, <1>12 DEF Framed
<1>14. Linked(open, defers, errdefers, loops, baselines, count)
  BY <1>2, <1>13 DEF Linked, bl
<1> QED BY <1>2, <1>4, <1>7, <1>14 DEF Struct

LEMMA NextStruct ==
  ASSUME Struct, [Next]_vars, "deferInArm" \notin Mixed, "voidElse" \notin Mixed
  PROVE  Struct'
<1>1. CASE UNCHANGED vars
  BY <1>1 DEF vars, Struct, TypeOK
<1>2. CASE Act \/ DeferStmt \/ ErrDeferStmt \/ Try
  BY <1>2, ActStruct, DeferStruct, TryStruct
<1>3. CASE \E kind \in {"break", "continue"}, l \in LoopLabels \cup {NoLabel} : Jump(kind, l)
  BY <1>3, JumpStruct DEF Jumps, Labels
<1>4. CASE \E form \in {"return", "fail", "tuple"} : Return(form)
  BY <1>4, ReturnStruct
<1>5. CASE \E cond \in Conds : OpenIf(cond)
  BY <1>5, OpenStruct
<1>6. CASE \E k \in Unscoped, cond \in {"dyn", "true"} : OpenArm(k, cond)
  BY <1>6, OpenStruct
<1>7. CASE \E k \in {"while", "for"}, l \in LoopLabels \cup {NoLabel} : OpenLoop(k, l)
  BY <1>7, OpenStruct DEF LoopKinds, Labels
<1>8. CASE Else \/ CloseIf \/ CloseArm \/ CloseJudge \/ CloseReturnOr \/ CloseLoop \/ Finish
  BY <1>8, ElseStruct, CloseStruct, ReturnOrStruct, CloseLoopStruct, FinishStruct
<1> QED BY <1>1, <1>2, <1>3, <1>4, <1>5, <1>6, <1>7, <1>8 DEF Next
-----------------------------------------------------------------------------
(* What a jump still does on its way out: a context gives, for every way    *)
(* that a statement may end, what of the trace is still to come before the *)
(* control flow goes on.  Each block adds its own cleanups and, for a loop *)
(* that is left, its list.                                                 *)

Owned(b) == IF b.k = "for" THEN <<<<"release", b.n>>>> ELSE <<>>
Catches(b, x) == x = Through \/ (b.k \in LoopKinds /\ x \in Caught(b.label))

Outer(seen, b, e) ==
  [x \in MOuts |-> IF Catches(b, x) THEN <<>> ELSE Keep(Owned(b), seen) \o e[x]]
Inner(seen, b, e) == [x \in MOuts |-> Keep(Unwound(b, x), seen) \o Outer(seen, b, e)[x]]
Base(seen) == [x \in MOuts |-> IF x[1] \in {"return", "fail"} THEN Keep(Pop, seen) ELSE <<>>]

(* The jumps that have a target in the blocks open, and those of them that *)
(* the statements of a block may end in.                                   *)
Reached(b, r) ==
  IF b.k \in LoopKinds THEN r \cup Caught(b.label)
  ELSE IF b.k = "switch" THEN r \ {<<"break", NoLabel>>} ELSE r
Live(b, r) ==
  {Through, <<"return", NoLabel>>, <<"fail", NoLabel>>}
    \cup {x \in r : x[2] # NoLabel => <<x[2], x[1]>> \in b.uses}

(* What a block means and what its C does are the same, up to the context. *)
BlockOK(seen, b, e, r) ==
  LET o == Outer(seen, b, e)
      u == Live(b, Reached(b, r))
  IN /\ Rel(seen, o, u, b.means, b.does)
     /\ EndsWithJump(b) => \A s \in Outcomes : b.means[s].out # Through
     /\ b.first # NoBranch => Rel(seen, o, u, b.first.means, b.first.does)

SemBy(seen, bl, ctx, rc) ==
  /\ ctx[0] = Base(seen) /\ rc[0] = {}
  /\ \A i \in 0 .. Len(bl) : ctx[i] \in Contexts /\ rc[i] \in SUBSET (Jumps \X Labels)
  /\ \A i \in 1 .. Len(bl) :
       /\ ctx[i] = Inner(seen, bl[i], ctx[i - 1]) /\ rc[i] = Reached(bl[i], rc[i - 1])
       /\ BlockOK(seen, bl[i], ctx[i - 1], rc[i - 1])

Sem(seen, bl) == \E ctx, rc : SemBy(seen, bl, ctx, rc)

LEMMA OwnedIs ==
  ASSUME NEW b \in Blocks
  PROVE  Owned(b) \in Seq(Ev)
<1>1. <<"release", b.n>> \in Ev
  BY BlockIs DEF Ev
<1> QED BY <1>1 DEF Owned

LEMMA OuterIs ==
  ASSUME NEW seen, NEW b \in Blocks, NEW e \in Contexts
  PROVE  /\ Outer(seen, b, e) \in Contexts /\ Inner(seen, b, e) \in Contexts
         /\ \A x \in MOuts :
              /\ Outer(seen, b, e)[x] = IF Catches(b, x) THEN <<>> ELSE Keep(Owned(b), seen) \o e[x]
              /\ Inner(seen, b, e)[x] = Keep(Unwound(b, x), seen) \o Outer(seen, b, e)[x]
<1> DEFINE o == Outer(seen, b, e)
           i == Inner(seen, b, e)
<1>1. \A x \in MOuts : o[x] = IF Catches(b, x) THEN <<>> ELSE Keep(Owned(b), seen) \o e[x]
  BY DEF Outer
<1>2. \A x \in MOuts : i[x] = Keep(Unwound(b, x), seen) \o o[x]
  BY DEF Inner
<1>3. \A x \in MOuts : o[x] \in Seq(Ev)
  <2> SUFFICES ASSUME NEW x \in MOuts PROVE o[x] \in Seq(Ev)
    OBVIOUS
  <2>1. e[x] \in Seq(Ev) /\ Keep(Owned(b), seen) \in Seq(Ev) /\ <<>> \in Seq(Ev)
    BY OwnedIs, KeepType DEF Contexts
  <2>2. Keep(Owned(b), seen) \o e[x] \in Seq(Ev)
    BY <2>1, ConcatType
  <2> QED BY <1>1, <2>1, <2>2
<1>4. \A x \in MOuts : i[x] \in Seq(Ev)
  <2> SUFFICES ASSUME NEW x \in MOuts PROVE i[x] \in Seq(Ev)
    OBVIOUS
  <2>1. Unwound(b, x) \in Seq(Ev)
    BY BlockIs, UnwoundIs
  <2>2. Keep(Unwound(b, x), seen) \in Seq(Ev)
    BY <2>1, KeepType
  <2> QED BY <1>2, <1>3, <2>2, ConcatType
<1>5. Through \in MOuts /\ o[Through] = <<>>
  BY <1>1, MOutsAre DEF Catches
<1>6. i[Through] = <<>>
  <2>1. Unwound(b, Through) = <<>> /\ Keep(<<>>, seen) = <<>>
    BY KeepEmpty DEF Unwound
  <2>2. <<>> \o <<>> = <<>>
    OBVIOUS
  <2> QED BY <1>2, <1>5, <2>1, <2>2
<1>7. o \in [MOuts -> Seq(Ev)]
  <2>1. o = [x \in MOuts |-> o[x]]
    BY DEF Outer
  <2> HIDE DEF o
  <2> QED BY <1>3, <2>1
<1>8. i \in [MOuts -> Seq(Ev)]
  <2>1. i = [x \in MOuts |-> i[x]]
    BY DEF Inner
  <2> HIDE DEF i
  <2> QED BY <1>4, <2>1
<1> HIDE DEF o, i
<1>9. o \in Contexts /\ i \in Contexts
  BY <1>5, <1>6, <1>7, <1>8 DEF Contexts
<1> QED BY <1>1, <1>2, <1>9 DEF o, i

LEMMA LiveIs ==
  ASSUME NEW b \in Blocks, NEW r \in SUBSET (Jumps \X Labels)
  PROVE  /\ Reached(b, r) \in SUBSET (Jumps \X Labels)
         /\ Live(b, r) \in SUBSET MOuts /\ Through \in Live(b, r)
<1>1. b.label \in Labels
  BY BlockIs
<1>2. Caught(b.label) \subseteq Jumps \X Labels
  BY <1>1 DEF Caught, Jumping, Jumps, Labels
<1>3. Reached(b, r) \in SUBSET (Jumps \X Labels)
  BY <1>2 DEF Reached
<1>4. Live(b, r) \in SUBSET MOuts
  BY DEF Live, MOuts
<1> QED BY <1>3, <1>4 DEF Live

(* Up to block m, the blocks are the same and block m has read more.       *)
LEMMA SemCut ==
  ASSUME NEW seen, NEW bl \in Seq(Blocks), NEW bl2 \in Seq(Blocks), NEW m,
         NEW ctx, NEW rc, SemBy(seen, bl, ctx, rc), Cut(bl, bl2, m),
         BlockOK(seen, bl2[m], ctx[m - 1], rc[m - 1])
  PROVE  Sem(seen, bl2)
<1> DEFINE ctx2 == [i \in Nat |-> IF i = m THEN Inner(seen, bl2[m], ctx[m - 1]) ELSE ctx[i]]
           rc2 == [i \in Nat |-> rc[i]]
<1>1. /\ m \in Nat /\ m \in 1 .. Len(bl) /\ m \in 1 .. Len(bl2) /\ Len(bl2) = m
      /\ Len(bl) \in Nat /\ m - 1 \in Nat /\ m - 1 \in 0 .. Len(bl) /\ m # 0
  BY DEF Cut
<1>2. ctx2[m] = Inner(seen, bl2[m], ctx[m - 1]) /\ \A i \in Nat : i # m => ctx2[i] = ctx[i]
  BY <1>1
<1>r. \A i \in Nat : rc2[i] = rc[i]
  OBVIOUS
<1> HIDE DEF ctx2, rc2
<1>3. bl2[m] \in Blocks /\ ctx[m - 1] \in Contexts
  BY <1>1 DEF SemBy
<1>4. ctx2[m] \in Contexts
  BY <1>2, <1>3, OuterIs
<1>5. \A i \in 0 .. m : ctx2[i] \in Contexts /\ rc2[i] \in SUBSET (Jumps \X Labels)
  <2> SUFFICES ASSUME NEW i \in 0 .. m
               PROVE ctx2[i] \in Contexts /\ rc2[i] \in SUBSET (Jumps \X Labels)
    OBVIOUS
  <2>1. i \in 0 .. Len(bl) /\ i \in Nat
    BY <1>1
  <2>2. ctx[i] \in Contexts /\ rc[i] \in SUBSET (Jumps \X Labels)
    BY <2>1 DEF SemBy
  <2> QED BY <1>2, <1>4, <1>r, <2>1, <2>2
<1>6. ASSUME NEW i \in 1 .. m
      PROVE  /\ ctx2[i] = Inner(seen, bl2[i], ctx2[i - 1]) /\ rc2[i] = Reached(bl2[i], rc2[i - 1])
             /\ BlockOK(seen, bl2[i], ctx2[i - 1], rc2[i - 1])
  <2>1. i \in 1 .. Len(bl) /\ i \in Nat /\ i - 1 \in Nat /\ i - 1 # m
    BY <1>1
  <2>2. ctx2[i - 1] = ctx[i - 1] /\ rc2[i - 1] = rc[i - 1] /\ rc2[i] = rc[i]
    BY <1>2, <1>r, <2>1
  <2>3. /\ ctx[i] = Inner(seen, bl[i], ctx[i - 1]) /\ rc[i] = Reached(bl[i], rc[i - 1])
        /\ BlockOK(seen, bl[i], ctx[i - 1], rc[i - 1])
    BY <2>1 DEF SemBy
  <2>4. bl2[i].k = bl[i].k /\ bl2[i].label = bl[i].label /\ (i # m => bl2[i] = bl[i])
    <3>1. Cut(bl, bl2, m) /\ i \in 1 .. m /\ Len(bl) \in Nat
      BY <1>1
    <3> QED BY <3>1, CutIs
  <2>5. CASE i = m
    <3>1. Reached(bl2[i], rc[i - 1]) = Reached(bl[i], rc[i - 1])
      BY <2>4 DEF Reached
    <3> QED BY <1>2, <2>2, <2>3, <2>5, <3>1
  <2>6. CASE i # m
    BY <1>2, <2>1, <2>2, <2>3, <2>4, <2>6
  <2> QED BY <2>5, <2>6
<1>7. ctx2[0] = Base(seen) /\ rc2[0] = {}
  BY <1>1, <1>2, <1>r DEF SemBy
<1>8. SemBy(seen, bl2, ctx2, rc2)
  BY <1>1, <1>5, <1>6, <1>7 DEF SemBy
<1> QED BY <1>8 DEF Sem

LEMMA SemAppend ==
  ASSUME NEW seen, NEW bl \in Seq(Blocks), NEW b \in Blocks, Sem(seen, bl),
         b.means = Skip, b.does = Skip, b.last = "none", b.first = NoBranch
  PROVE  Sem(seen, Append(bl, b))
<1> DEFINE n == Len(bl)
           bl2 == Append(bl, b)
<1>0. PICK ctx, rc : SemBy(seen, bl, ctx, rc)
  BY DEF Sem
<1> DEFINE ctx2 == [i \in Nat |-> IF i = n + 1 THEN Inner(seen, b, ctx[n]) ELSE ctx[i]]
           rc2 == [i \in Nat |-> IF i = n + 1 THEN Reached(b, rc[n]) ELSE rc[i]]
<1>1. /\ n \in Nat /\ Len(bl2) = n + 1 /\ bl2[n + 1] = b /\ \A i \in 1 .. n : bl2[i] = bl[i]
      /\ n + 1 \in Nat /\ n \in 0 .. n /\ 0 # n + 1 /\ n # n + 1 /\ (n + 1) - 1 = n
  <2>1. n \in Nat /\ Len(bl2) = n + 1 /\ bl2[n + 1] = b /\ \A i \in 1 .. n : bl2[i] = bl[i]
    OBVIOUS
  <2> HIDE DEF n
  <2>2. n + 1 \in Nat /\ n \in 0 .. n /\ 0 # n + 1 /\ n # n + 1 /\ (n + 1) - 1 = n
    BY <2>1, SMTT(30)
  <2> QED BY <2>1, <2>2
<1>2. /\ ctx2[n + 1] = Inner(seen, b, ctx[n]) /\ rc2[n + 1] = Reached(b, rc[n])
      /\ \A i \in Nat : i # n + 1 => ctx2[i] = ctx[i] /\ rc2[i] = rc[i]
  BY <1>1
<1>3. /\ ctx[0] = Base(seen) /\ rc[0] = {}
      /\ \A i \in 0 .. n : ctx[i] \in Contexts /\ rc[i] \in SUBSET (Jumps \X Labels)
      /\ \A i \in 1 .. n :
           /\ ctx[i] = Inner(seen, bl[i], ctx[i - 1]) /\ rc[i] = Reached(bl[i], rc[i - 1])
           /\ BlockOK(seen, bl[i], ctx[i - 1], rc[i - 1])
  BY <1>0 DEF SemBy
<1>b. b.means = Skip /\ b.does = Skip /\ b.last = "none" /\ b.first = NoBranch
  OBVIOUS
<1> HIDE DEF ctx2, rc2, bl2, n
<1>4. ctx[n] \in Contexts /\ rc[n] \in SUBSET (Jumps \X Labels)
  BY <1>1, <1>3
<1>5. ctx2[n + 1] \in Contexts /\ rc2[n + 1] \in SUBSET (Jumps \X Labels)
  <2>1. Inner(seen, b, ctx[n]) \in Contexts
    BY <1>4, OuterIs
  <2>2. Reached(b, rc[n]) \in SUBSET (Jumps \X Labels)
    BY <1>4, LiveIs
  <2> QED BY <1>2, <2>1, <2>2
<1>6. BlockOK(seen, b, ctx[n], rc[n])
  <2>1. Outer(seen, b, ctx[n]) \in Contexts /\ Through \in Live(b, Reached(b, rc[n]))
    BY <1>4, OuterIs, LiveIs
  <2>2. Rel(seen, Outer(seen, b, ctx[n]), Live(b, Reached(b, rc[n])), Skip, Skip)
    BY <2>1, RelSkip
  <2>3. ~EndsWithJump(b)
    BY <1>b DEF EndsWithJump
  <2> QED BY <1>b, <2>2, <2>3 DEF BlockOK
<1>7. \A i \in 0 .. n + 1 : ctx2[i] \in Contexts /\ rc2[i] \in SUBSET (Jumps \X Labels)
  <2> SUFFICES ASSUME NEW i \in 0 .. n + 1
               PROVE ctx2[i] \in Contexts /\ rc2[i] \in SUBSET (Jumps \X Labels)
    OBVIOUS
  <2>1. i # n + 1 => i \in 0 .. n /\ i \in Nat
    BY <1>1
  <2>2. CASE i = n + 1
    BY <1>5, <2>2
  <2>3. CASE i # n + 1
    <3>1. i \in 0 .. n /\ i \in Nat
      BY <2>1, <2>3
    <3>2. ctx[i] \in Contexts /\ rc[i] \in SUBSET (Jumps \X Labels)
      BY <1>3, <3>1
    <3> QED BY <1>2, <2>3, <3>1, <3>2
  <2> QED BY <2>2, <2>3
<1>8. ASSUME NEW i \in 1 .. n + 1
      PROVE  /\ ctx2[i] = Inner(seen, bl2[i], ctx2[i - 1]) /\ rc2[i] = Reached(bl2[i], rc2[i - 1])
             /\ BlockOK(seen, bl2[i], ctx2[i - 1], rc2[i - 1])
  <2>1. CASE i = n + 1
    <3>1. i - 1 = n /\ n \in Nat
      BY <1>1, <2>1
    <3>2. ctx2[n] = ctx[n] /\ rc2[n] = rc[n]
      BY <1>1, <1>2
    <3> QED BY <1>1, <1>2, <1>6, <2>1, <3>1, <3>2
  <2>2. CASE i # n + 1
    <3>1. i \in 1 .. n /\ i \in Nat /\ i - 1 \in Nat /\ i - 1 # n + 1
      BY <1>1, <2>2
    <3>2. /\ ctx2[i - 1] = ctx[i - 1] /\ rc2[i - 1] = rc[i - 1] /\ rc2[i] = rc[i] /\ ctx2[i] = ctx[i]
          /\ bl2[i] = bl[i]
      BY <1>1, <1>2, <2>2, <3>1
    <3> QED BY <1>3, <3>1, <3>2
  <2> QED BY <2>1, <2>2
<1>9. ctx2[0] = Base(seen) /\ rc2[0] = {}
  BY <1>1, <1>2, <1>3
<1>10. SemBy(seen, bl2, ctx2, rc2)
  <2>1. Len(bl2) = n + 1
    BY <1>1
  <2> QED BY <2>1, <1>7, <1>8, <1>9 DEF SemBy
<1> QED BY <1>10 DEF Sem, bl2

(* A statement joins a block.                                              *)
LEMMA OuterSame ==
  ASSUME NEW seen, NEW b, NEW b2, b2.k = b.k, b2.n = b.n, b2.label = b.label, NEW e, NEW r
  PROVE  Outer(seen, b2, e) = Outer(seen, b, e) /\ Reached(b2, r) = Reached(b, r)
BY DEF Outer, Catches, Owned, Reached

LEMMA LiveWider ==
  ASSUME NEW b, NEW b2, b.uses \subseteq b2.uses, NEW r, NEW r2, r \subseteq r2
  PROVE  Live(b, r) \subseteq Live(b2, r2)
BY DEF Live

LEMMA JoinOK ==
  ASSUME NEW seen, NEW e \in Contexts, NEW r \in SUBSET (Jumps \X Labels),
         NEW b \in Blocks, NEW b2 \in Blocks, BlockOK(seen, b, e, r),
         SameBlock(b, b2), b.uses \subseteq b2.uses,
         NEW means \in Prog, NEW does \in Prog,
         b2.means = Chain(b.means, Unwinding(b, means)), b2.does = Chain(b.does, does),
         Rel(seen, Inner(seen, b, e), Live(b2, Reached(b, r)), means, does),
         EndsWithJump(b2) => \A o \in Outcomes : means[o].out # Through
  PROVE  BlockOK(seen, b2, e, r)
<1> DEFINE outer == Outer(seen, b, e)
           u == Live(b, Reached(b, r))
           v == Live(b2, Reached(b, r))
<1>1. Outer(seen, b2, e) = outer /\ Reached(b2, r) = Reached(b, r)
  BY OuterSame DEF SameBlock
<1>2. /\ outer \in Contexts /\ Inner(seen, b, e) \in Contexts
      /\ \A x \in MOuts : Inner(seen, b, e)[x] = Keep(Unwound(b, x), seen) \o outer[x]
  BY OuterIs
<1>3. u \subseteq v /\ v \in SUBSET MOuts
  BY LiveWider, LiveIs
<1>4. b.defers \in Seq(Nat) /\ b.errdefers \in Seq(Nat) /\ b.means \in Prog /\ b.does \in Prog
  BY BlockIs
<1>5. /\ Rel(seen, outer, u, b.means, b.does)
      /\ b.first # NoBranch => Rel(seen, outer, u, b.first.means, b.first.does)
  BY DEF BlockOK
<1>6. Rel(seen, Inner(seen, b, e), v, means, does)
  OBVIOUS
<1>7. b2.means = Chain(b.means, Unwinding(b, means)) /\ b2.does = Chain(b.does, does)
      /\ b2.first = b.first
  BY DEF SameBlock
<1> DEFINE inner == Inner(seen, b, e)
<1> HIDE DEF outer, u, v, inner
<1>8. \A x \in v : inner[x] = Keep(Unwound(b, x), seen) \o outer[x]
  BY <1>2, <1>3 DEF inner
<1>9. Rel(seen, outer, v, Unwinding(b, means), does)
  BY <1>2, <1>3, <1>4, <1>6, <1>8, RelUnwinding DEF inner
<1>10. Rel(seen, outer, v, b.means, b.does)
  BY <1>3, <1>5, RelWider
<1>11. Unwinding(b, means) \in Prog
       /\ \A o \in Outcomes : Unwinding(b, means)[o].out = means[o].out
  BY <1>4, UnwindingIs
<1>12. Rel(seen, outer, v, b2.means, b2.does)
  BY <1>2, <1>3, <1>4, <1>7, <1>9, <1>10, <1>11, RelChain
<1>13. b2.first # NoBranch => Rel(seen, outer, v, b2.first.means, b2.first.does)
  BY <1>3, <1>5, <1>7, RelWider
<1>14. EndsWithJump(b2) => \A o \in Outcomes : b2.means[o].out # Through
  <2> SUFFICES ASSUME EndsWithJump(b2), NEW o \in Outcomes PROVE b2.means[o].out # Through
    OBVIOUS
  <2>1. \A s \in Outcomes : Unwinding(b, means)[s].out # Through
    BY <1>11
  <2>2. b.means[o].o \in Outcomes
    BY <1>4, ProgIs
  <2> DEFINE p2 == Unwinding(b, means)
  <2>3. p2 \in Prog /\ b2.means = Chain(b.means, p2) /\ p2[b.means[o].o].out # Through
    BY <1>7, <1>11, <2>1, <2>2
  <2> HIDE DEF p2
  <2>4. CASE b.means[o].out = Through
    <3>1. Chain(b.means, p2)[o].out = p2[b.means[o].o].out
      BY <1>4, <2>3, <2>4, ChainIs
    <3> QED BY <2>3, <3>1
  <2>5. CASE b.means[o].out # Through
    <3>1. Stops(b.means, p2, o)
      BY <1>4, <2>3, <2>5, ChainStops
    <3> QED BY <2>3, <2>5, <3>1 DEF Stops
  <2> QED BY <2>4, <2>5
<1> QED BY <1>1, <1>12, <1>13, <1>14 DEF BlockOK, outer, v
-----------------------------------------------------------------------------
(* The steps of the pass, for a view.                                      *)
LEMMA SemTop ==
  ASSUME NEW seen, NEW bl \in Seq(Blocks), bl # <<>>, NEW ctx, NEW rc, SemBy(seen, bl, ctx, rc)
  PROVE  LET n == Len(bl)
         IN /\ n \in Nat /\ n - 1 \in Nat /\ n > 0 /\ n \in 1 .. n /\ bl[n] \in Blocks
            /\ Top(bl) = bl[n]
            /\ ctx[n] \in Contexts /\ ctx[n - 1] \in Contexts
            /\ rc[n] \in SUBSET (Jumps \X Labels) /\ rc[n - 1] \in SUBSET (Jumps \X Labels)
            /\ ctx[n] = Inner(seen, bl[n], ctx[n - 1]) /\ rc[n] = Reached(bl[n], rc[n - 1])
            /\ BlockOK(seen, bl[n], ctx[n - 1], rc[n - 1])
<1> DEFINE n == Len(bl)
<1>1. n \in Nat /\ n - 1 \in Nat /\ n > 0 /\ n \in 1 .. n /\ n \in 0 .. n /\ n - 1 \in 0 .. n
      /\ bl[n] \in Blocks
  OBVIOUS
<1>2. Top(bl) = bl[n]
  BY DEF Top
<1> QED BY <1>1, <1>2 DEF SemBy

(* A statement of the innermost block.                                     *)
LEMMA SemRead ==
  ASSUME NEW seen, NEW bl \in Seq(Blocks), bl # <<>>, NEW ctx, NEW rc, SemBy(seen, bl, ctx, rc),
         NEW b2 \in Blocks, SameBlock(Top(bl), b2), Top(bl).uses \subseteq b2.uses,
         b2.k = "voidJudge" => b2.first = NoBranch,
         NEW means \in Prog, NEW does \in Prog,
         b2.means = Chain(Top(bl).means, Unwinding(Top(bl), means)),
         b2.does = Chain(Top(bl).does, does),
         Rel(seen, ctx[Len(bl)], Live(b2, rc[Len(bl)]), means, does),
         EndsWithJump(b2) => \A o \in Outcomes : means[o].out # Through
  PROVE  Sem(seen, ReplaceTop(bl, b2))
<1> DEFINE n == Len(bl)
           e == ctx[n - 1]
           r == rc[n - 1]
           b == bl[n]
           bl2 == ReplaceTop(bl, b2)
<1>1. /\ n \in Nat /\ n > 0 /\ n \in 1 .. n /\ b \in Blocks /\ Top(bl) = b
      /\ e \in Contexts /\ r \in SUBSET (Jumps \X Labels)
      /\ ctx[n] = Inner(seen, b, e) /\ rc[n] = Reached(b, r) /\ BlockOK(seen, b, e, r)
  BY SemTop
<1>2. BlockOK(seen, b2, e, r)
  <2> HIDE DEF n, e, r, b
  <2>1. SameBlock(b, b2) /\ b.uses \subseteq b2.uses /\ b2.does = Chain(b.does, does)
        /\ b2.means = Chain(b.means, Unwinding(b, means))
        /\ Rel(seen, Inner(seen, b, e), Live(b2, Reached(b, r)), means, does)
    BY <1>1 DEF n
  <2> QED BY <1>1, <2>1, JoinOK
<1>3. /\ bl2 \in Seq(Blocks) /\ Len(bl2) = n /\ bl2[n] = b2
      /\ \A i \in 1 .. n - 1 : bl2[i] = bl[i]
  BY BlocksTop
<1>4. Cut(bl, bl2, n)
  <2> HIDE DEF bl2
  <2> QED BY <1>1, <1>3 DEF Cut, SameBlock
<1> HIDE DEF n, e, r, b, bl2
<1>5. BlockOK(seen, bl2[n], ctx[n - 1], rc[n - 1])
  BY <1>2, <1>3 DEF e, r
<1>6. Sem(seen, bl2)
  BY <1>3, <1>4, <1>5, SemCut
<1> QED BY <1>6 DEF bl2

(* A block becomes a statement of the block around it.                     *)
LEMMA SemLeave ==
  ASSUME NEW seen, Struct, NotFinished, Top(open).k # "weave",
         NEW ctx, NEW rc, SemBy(seen, open, ctx, rc),
         NEW means \in Prog, NEW does \in Prog,
         Rel(seen, ctx[Len(open) - 1], Live(LeaveBlock(means, does), rc[Len(open) - 1]), means, does),
         Top(open).k = "returnOr" => \A s \in Outcomes : means[s].out # Through
  PROVE  Sem(seen, Append(SubSeq(open, 1, Len(open) - 2), LeaveBlock(means, does)))
<1> DEFINE n == Len(open)
           m == n - 1
           e == ctx[m - 1]
           r == rc[m - 1]
           a == open[m]
           a2 == LeaveBlock(means, does)
           bl2 == Append(SubSeq(open, 1, n - 2), a2)
<1>1. open \in Seq(Blocks) /\ open # <<>> /\ n \in Nat /\ Top(open) \in Blocks
  BY Reading
<1>2. /\ n > 1 /\ m \in 1 .. n /\ a \in Blocks /\ a2 \in Blocks /\ SameBlock(a, a2)
      /\ a2.last = Top(open).k /\ a2.uses = a.uses \cup Top(open).uses
      /\ a2.means = Chain(a.means, Unwinding(a, means)) /\ a2.does = Chain(a.does, does)
  BY LeaveBlockIs DEF Around
<1>3. m \in Nat /\ m - 1 \in Nat /\ m - 1 \in 0 .. n /\ m \in 0 .. n /\ n - 2 \in 0 .. n /\ n - 2 = m - 1
  BY <1>1, <1>2
<1>4. /\ e \in Contexts /\ r \in SUBSET (Jumps \X Labels)
      /\ ctx[m] = Inner(seen, a, e) /\ rc[m] = Reached(a, r) /\ BlockOK(seen, a, e, r)
  BY <1>2, <1>3 DEF SemBy
<1>5. EndsWithJump(a2) => \A s \in Outcomes : means[s].out # Through
  <2>1. Top(open).k \in Kinds
    BY <1>1, BlockIs
  <2>2. EndsWithJump(a2) => Top(open).k = "returnOr"
    BY <1>2, <2>1 DEF EndsWithJump, Kinds, Unscoped, LoopKinds
  <2> QED BY <2>2
<1>6. Rel(seen, ctx[m], Live(a2, rc[m]), means, does)
  OBVIOUS
<1>7. /\ bl2 \in Seq(Blocks) /\ Len(bl2) = m /\ bl2[m] = a2
      /\ \A i \in 1 .. m - 1 : bl2[i] = open[i]
  <2> DEFINE p == SubSeq(open, 1, n - 2)
  <2>1. p \in Seq(Blocks) /\ Len(p) = n - 2 /\ \A i \in 1 .. n - 2 : p[i] = open[i]
    BY <1>1, <1>3, PrefixIs
  <2>a. bl2 = Append(p, a2)
    OBVIOUS
  <2> HIDE DEF p, n, a2, bl2
  <2>2. bl2 \in Seq(Blocks) /\ Len(bl2) = Len(p) + 1 /\ bl2[Len(p) + 1] = a2 /\ Below(p, bl2, Len(p))
    BY <1>2, <2>a, <2>1, AppendIs
  <2>3. Len(p) + 1 = m /\ Len(p) = m - 1
    BY <1>1, <1>2, <2>1
  <2> QED BY <1>3, <2>1, <2>2, <2>3 DEF Below
<1>8. a2.k = "voidJudge" => a2.first = NoBranch
  <2>1. Linked(open, defers, errdefers, loops, baselines, count)
    BY Reading
  <2>2. a.k = "voidJudge" => a.first = NoBranch
    BY <1>1, <1>2, <2>1, ShapeAt DEF Linked, Framed
  <2> QED BY <1>2, <2>2 DEF SameBlock
<1> HIDE DEF n, m, e, r, a, a2, bl2
<1>9. BlockOK(seen, a2, e, r)
  <2>1. a.uses \subseteq a2.uses
        /\ Rel(seen, Inner(seen, a, e), Live(a2, Reached(a, r)), means, does)
    BY <1>2, <1>4, <1>6
  <2> QED BY <1>2, <1>4, <1>5, <2>1, JoinOK
<1>10. Cut(open, bl2, m)
  BY <1>2, <1>7, <1>8 DEF Cut, SameBlock, n, a
<1>11. BlockOK(seen, bl2[m], ctx[m - 1], rc[m - 1])
  BY <1>7, <1>9 DEF e, r
<1>12. Sem(seen, bl2)
  BY <1>1, <1>7, <1>10, <1>11, SemCut
<1> QED BY <1>12 DEF bl2, a2, n
-----------------------------------------------------------------------------
(* What a jump leaves behind.  A view sees one kind of cleanup besides what  *)
(* is computed: w is "defer", "errdefer" or "release", of one list.        *)
Blind(seen, what) == \A ev \in seen : ev[1] # what
View(seen, w) ==
  /\ w \in {"defer", "errdefer", "release"}
  /\ w # "defer" => Blind(seen, "defer")
  /\ w # "errdefer" => Blind(seen, "errdefer")
  /\ w # "release" => Blind(seen, "release")
  /\ \A i, j : <<"release", i>> \in seen /\ <<"release", j>> \in seen => i = j

(* Of the cleanups of that kind: what block b adds, all of them, and how many *)
(* of the blocks up to each add to them.                                   *)
Own(w, how, b) ==
  IF w = "defer" THEN Cleanups("defer", b.defers)
  ELSE IF w = "errdefer" THEN (IF how = "fail" THEN Cleanups("errdefer", b.errdefers) ELSE <<>>)
  ELSE Owned(b)
Stack(w, how) ==
  IF w = "defer" THEN Lines("defer", defers)
  ELSE IF w = "errdefer"
       THEN (IF how = "fail" THEN Lines("errdefer", errdefers)
             ELSE [i \in 1 .. Len(errdefers) |-> <<>>])
  ELSE Releases
At(w, sc, lp) == IF w = "release" THEN lp ELSE sc

LEMMA BlindTo ==
  ASSUME NEW seen, NEW w, View(seen, w)
  PROVE  /\ w # "defer" => \A ns \in Seq(Nat) : Keep(Cleanups("defer", ns), seen) = <<>>
         /\ w # "errdefer" => \A ns \in Seq(Nat) : Keep(Cleanups("errdefer", ns), seen) = <<>>
         /\ w # "release" => /\ \A b \in Blocks : Keep(Owned(b), seen) = <<>>
                             /\ \A l \in LoopScopes : Keep(Release(l), seen) = <<>>
<1>1. ASSUME NEW what \in {"defer", "errdefer"}, Blind(seen, what), NEW ns \in Seq(Nat)
      PROVE  Keep(Cleanups(what, ns), seen) = <<>>
  <2>1. \A i \in 1 .. Len(Cleanups(what, ns)) : Cleanups(what, ns)[i] \notin seen
    BY <1>1, CleanupsAre DEF Blind
  <2> QED BY <1>1, <2>1, CleanupsAre, KeepNone
<1>2. ASSUME Blind(seen, "release"), NEW n \in Nat
      PROVE  Keep(<<<<"release", n>>>>, seen) = <<>>
  <2> DEFINE tr == <<<<"release", n>>>>
  <2>1. tr \in Seq(Ev) /\ Len(tr) = 1 /\ tr[1] = <<"release", n>>
    BY DEF Ev
  <2>2. <<"release", n>> \notin seen
    BY <1>2 DEF Blind
  <2> HIDE DEF tr
  <2>3. \A i \in 1 .. Len(tr) : tr[i] \notin seen
    BY <2>1, <2>2
  <2>4. Keep(tr, seen) = <<>>
    BY <2>1, <2>3, KeepNone
  <2> QED BY <2>4 DEF tr
<1>3. ASSUME w # "release" PROVE \A b \in Blocks : Keep(Owned(b), seen) = <<>>
  BY <1>2, <1>3, BlockIs, KeepEmpty DEF Owned, View
<1>4. ASSUME w # "release" PROVE \A l \in LoopScopes : Keep(Release(l), seen) = <<>>
  BY <1>2, <1>4, ReleaseIs, KeepEmpty DEF Release, View
<1> QED BY <1>1, <1>3, <1>4 DEF View

LEMMA OwnIs ==
  ASSUME NEW w, NEW how, NEW b \in Blocks
  PROVE  Own(w, how, b) \in Seq(Ev)
<1>1. b.defers \in Seq(Nat) /\ b.errdefers \in Seq(Nat) /\ <<>> \in Seq(Ev)
  BY BlockIs
<1> QED BY <1>1, CleanupsAre, OwnedIs DEF Own

LEMMA StackIs ==
  ASSUME TypeOK, NEW w, NEW how
  PROVE  Stack(w, how) \in Seq(Seq(Ev))
<1> DEFINE none == [i \in 1 .. Len(errdefers) |-> <<>>]
<1>1. Lines("defer", defers) \in Seq(Seq(Ev)) /\ Lines("errdefer", errdefers) \in Seq(Seq(Ev))
  BY LinesAre DEF TypeOK
<1>2. Releases \in Seq(Seq(Ev))
  BY ReleasesAre
<1>3. none \in Seq(Seq(Ev))
  <2>1. Len(errdefers) \in Nat
    BY DEF TypeOK
  <2>2. <<>> \in Seq(Ev)
    OBVIOUS
  <2> QED BY <2>1, <2>2
<1> QED BY <1>1, <1>2, <1>3 DEF Stack

(* What a way out runs of block b, for a view.                             *)
LEMMA KeptOwn ==
  ASSUME NEW seen, NEW w, View(seen, w), NEW b \in Blocks, NEW x \in MOuts, x # Through
  PROVE  /\ Keep(Unwound(b, x), seen) \o Keep(Owned(b), seen) = Keep(Own(w, x[1], b), seen)
         /\ Keep(Unwound(b, x), seen) =
              IF w = "release" THEN <<>> ELSE Keep(Own(w, x[1], b), seen)
<1> DEFINE ds == Cleanups("defer", b.defers)
           es == Cleanups("errdefer", b.errdefers)
           ow == Owned(b)
           fs == IF x[1] = "fail" THEN es ELSE <<>>
           D == Keep(ds, seen)
           E == Keep(fs, seen)
           O == Keep(ow, seen)
<1>1. b.defers \in Seq(Nat) /\ b.errdefers \in Seq(Nat)
  BY BlockIs
<1>2. ds \in Seq(Ev) /\ es \in Seq(Ev) /\ ow \in Seq(Ev) /\ fs \in Seq(Ev)
  <2>1. ds \in Seq(Ev) /\ es \in Seq(Ev) /\ ow \in Seq(Ev) /\ <<>> \in Seq(Ev)
    BY <1>1, CleanupsAre, OwnedIs
  <2> QED BY <2>1
<1>3. Unwound(b, x) = fs \o ds
  BY DEF Unwound
<1>4. /\ w # "defer" => D = <<>>
      /\ w # "errdefer" => Keep(es, seen) = <<>>
      /\ w # "release" => O = <<>>
  BY <1>1, BlindTo
<1>5. w # "errdefer" => E = <<>>
  BY <1>4, KeepEmpty
<1>6. Own(w, x[1], b) = IF w = "defer" THEN ds ELSE IF w = "errdefer" THEN fs ELSE ow
  BY DEF Own
<1>7. D \in Seq(Ev) /\ E \in Seq(Ev) /\ O \in Seq(Ev)
  BY <1>2, KeepType
<1>9. w \in {"defer", "errdefer", "release"}
  BY DEF View
<1> HIDE DEF ds, es, ow, fs
<1>8. Keep(fs \o ds, seen) = E \o D
  BY <1>2, KeepCat
<1>10. CASE w = "defer"
  <2>1. E = <<>> /\ O = <<>> /\ Own(w, x[1], b) = ds
    BY <1>4, <1>5, <1>6, <1>10
  <2>2. E \o D = D /\ D \o O = D
    BY <1>7, <2>1, ConcatNone
  <2> QED BY <1>3, <1>8, <1>10, <2>1, <2>2 DEF ow
<1>11. CASE w = "errdefer"
  <2>1. D = <<>> /\ O = <<>> /\ Own(w, x[1], b) = fs
    BY <1>4, <1>6, <1>11
  <2>2. E \o D = E /\ E \o O = E
    BY <1>7, <2>1, ConcatNone
  <2> QED BY <1>3, <1>8, <1>11, <2>1, <2>2 DEF ow
<1>12. CASE w = "release"
  <2>1. D = <<>> /\ E = <<>> /\ Own(w, x[1], b) = ow
    BY <1>4, <1>5, <1>6, <1>12
  <2>2. E \o D = <<>> /\ <<>> \o O = O
    BY <1>7, <2>1, ConcatNone
  <2> QED BY <1>3, <1>8, <1>12, <2>1, <2>2 DEF ow
<1> QED BY <1>9, <1>10, <1>11, <1>12

(* The block's own cleanups are the next on the stack, or there are none.  *)
Adds(i, w, how, at) ==
  \/ at[i] = at[i - 1] /\ Own(w, how, open[i]) = <<>>
  \/ /\ at[i] = at[i - 1] + 1 /\ at[i] \in 1 .. Len(Stack(w, how))
     /\ Own(w, how, open[i]) = Stack(w, how)[at[i]]

LEMMA OwnStacked ==
  ASSUME Struct, NotFinished, NEW sc, NEW lp,
         Framed(open, sc, lp, defers, errdefers, loops, baselines, count),
         NEW w \in {"defer", "errdefer", "release"}, NEW how,
         NEW i \in 1 .. Len(open)
  PROVE  Adds(i, w, how, At(w, sc, lp))
<1> DEFINE b == open[i]
           n == Len(open)
<1>0. TypeOK
  BY DEF Struct
<1>1. open \in Seq(Blocks) /\ Shape(open, sc, lp) /\ Mirrors(open, sc, lp, defers, errdefers, loops, baselines)
  BY Reading DEF Framed
<1>2. /\ b \in Blocks /\ sc[i] \in Nat /\ lp[i] \in Nat
      /\ b.k \notin Unscoped => sc[i] = sc[i - 1] + 1 /\ sc[i] \in 1 .. sc[n]
      /\ b.k \in Unscoped => sc[i] = sc[i - 1]
      /\ b.k \in LoopKinds => lp[i] = lp[i - 1] + 1 /\ lp[i] \in 1 .. lp[n]
      /\ b.k \notin LoopKinds => lp[i] = lp[i - 1]
      /\ b.k = "weave" <=> i = 1
  BY <1>1, ShapeAt
<1>3. /\ Len(defers) = sc[n] /\ Len(errdefers) = sc[n] /\ Len(loops) = lp[n]
      /\ b.k \in Unscoped => b.defers = <<>> /\ b.errdefers = <<>>
      /\ b.k \notin Unscoped => defers[sc[i]] = b.defers /\ errdefers[sc[i]] = b.errdefers
      /\ b.k \in LoopKinds => loops[lp[i]] = LoopScope(b)
  BY <1>1 DEF Mirrors
<1>4. b.k \in LoopKinds => b.n > 0
  <2> SUFFICES ASSUME b.k \in LoopKinds PROVE b.n > 0
    OBVIOUS
  <2>1. i # 1 /\ 1 \in 1 .. i - 1 /\ 1 \in 1 .. n
    BY <1>1, <1>2 DEF LoopKinds
  <2>2. open[1].n < b.n /\ open[1] \in Blocks
    BY <1>1, <2>1 DEF Shape
  <2>3. open[1].n \in Nat /\ b.n \in Nat
    BY <1>2, <2>2, BlockIs
  <2> QED BY <2>2, <2>3
<1>5. CASE w = "defer"
  <2>1. /\ At(w, sc, lp) = sc /\ Stack(w, how) = Lines("defer", defers)
        /\ Own(w, how, b) = Cleanups("defer", b.defers)
    BY <1>5 DEF At, Stack, Own
  <2>2. /\ Len(Lines("defer", defers)) = Len(defers)
        /\ \A j \in 1 .. Len(defers) : Lines("defer", defers)[j] = Cleanups("defer", defers[j])
    BY <1>0, LinesAre DEF TypeOK
  <2>3. Cleanups("defer", <<>>) = <<>>
    <3>1. <<>> \in Seq(Nat)
      OBVIOUS
    <3> QED BY <3>1, CleanupsAre
  <2>4. CASE b.k \in Unscoped
    BY <1>2, <1>3, <2>1, <2>3, <2>4 DEF Adds
  <2>5. CASE b.k \notin Unscoped
    BY <1>2, <1>3, <2>1, <2>2, <2>5 DEF Adds
  <2> QED BY <2>4, <2>5
<1>6. CASE w = "errdefer"
  <2>1. At(w, sc, lp) = sc
    BY <1>6 DEF At
  <2>2. /\ Len(Lines("errdefer", errdefers)) = Len(errdefers)
        /\ \A j \in 1 .. Len(errdefers) : Lines("errdefer", errdefers)[j] = Cleanups("errdefer", errdefers[j])
    BY <1>0, LinesAre DEF TypeOK
  <2>3. Cleanups("errdefer", <<>>) = <<>>
    <3>1. <<>> \in Seq(Nat)
      OBVIOUS
    <3> QED BY <3>1, CleanupsAre
  <2>4. CASE how = "fail"
    <3>1. Own(w, how, b) = Cleanups("errdefer", b.errdefers) /\ Stack(w, how) = Lines("errdefer", errdefers)
      BY <1>6, <2>4 DEF Own, Stack
    <3>2. CASE b.k \in Unscoped
      BY <1>2, <1>3, <2>1, <2>3, <3>1, <3>2 DEF Adds
    <3>3. CASE b.k \notin Unscoped
      BY <1>2, <1>3, <2>1, <2>2, <3>1, <3>3 DEF Adds
    <3> QED BY <3>2, <3>3
  <2>5. CASE how # "fail"
    <3>1. Own(w, how, b) = <<>> /\ Stack(w, how) = [j \in 1 .. Len(errdefers) |-> <<>>]
      BY <1>6, <2>5 DEF Own, Stack
    <3>2. /\ Len(Stack(w, how)) = Len(errdefers)
          /\ \A j \in 1 .. Len(errdefers) : Stack(w, how)[j] = <<>>
      BY <1>0, <3>1 DEF TypeOK
    <3>3. CASE b.k \in Unscoped
      BY <1>2, <2>1, <3>1, <3>3 DEF Adds
    <3>4. CASE b.k \notin Unscoped
      BY <1>2, <1>3, <2>1, <3>1, <3>2, <3>4 DEF Adds
    <3> QED BY <3>3, <3>4
  <2> QED BY <2>4, <2>5
<1>7. CASE w = "release"
  <2>1. At(w, sc, lp) = lp /\ Stack(w, how) = Releases /\ Own(w, how, b) = Owned(b)
    BY <1>7 DEF At, Stack, Own
  <2>2. Len(Releases) = Len(loops) /\ \A j \in 1 .. Len(loops) : Releases[j] = Release(loops[j])
    BY <1>0, ReleasesAre
  <2>3. CASE b.k \in LoopKinds
    <3>1. Owned(b) = Release(LoopScope(b))
      <4>1. LoopScope(b).release = IF b.k = "for" THEN b.n ELSE 0
        BY DEF LoopScope
      <4>2. b.n \in Nat /\ b.n > 0
        BY <1>2, <1>4, <2>3, BlockIs
      <4>3. CASE b.k = "for"
        <5>1. b.n # 0 /\ LoopScope(b).release = b.n
          BY <4>1, <4>2, <4>3
        <5> QED BY <4>3, <5>1 DEF Owned, Release
      <4>4. CASE b.k # "for"
        BY <4>1, <4>4 DEF Owned, Release
      <4> QED BY <4>3, <4>4
    <3> QED BY <1>2, <1>3, <2>1, <2>2, <2>3, <3>1 DEF Adds
  <2>4. CASE b.k \notin LoopKinds
    <3>1. Owned(b) = <<>>
      BY <2>4 DEF Owned, LoopKinds
    <3> QED BY <1>2, <2>1, <2>4, <3>1 DEF Adds
  <2> QED BY <2>3, <2>4
<1> QED BY <1>5, <1>6, <1>7
LEMMA AtIs ==
  ASSUME Struct, NotFinished, NEW sc, NEW lp,
         Framed(open, sc, lp, defers, errdefers, loops, baselines, count),
         NEW w \in {"defer", "errdefer", "release"}, NEW how
  PROVE  LET at == At(w, sc, lp)
             n == Len(open)
         IN /\ n \in Nat /\ n > 0 /\ at[n] = Len(Stack(w, how)) /\ at[0] = 0
            /\ sc[0] = 0 /\ lp[0] = 0
            /\ \A i \in 0 .. n : at[i] \in 0 .. Len(Stack(w, how)) /\ sc[i] \in Nat /\ lp[i] \in Nat
            /\ \A i, j \in 0 .. n : i <= j => at[i] <= at[j] /\ sc[i] <= sc[j] /\ lp[i] <= lp[j]
            /\ lp[n] = Len(loops) /\ sc[n] = Len(defers)
<1> DEFINE at == At(w, sc, lp)
           n == Len(open)
<1>0. TypeOK
  BY DEF Struct
<1>1. n \in Nat /\ n > 0 /\ n \in 0 .. n /\ 0 \in 0 .. n
  BY Reading
<1>2. /\ sc \in [Nat -> Nat] /\ lp \in [Nat -> Nat] /\ sc[0] = 0 /\ lp[0] = 0
      /\ \A i, j \in 0 .. n : i <= j => sc[i] <= sc[j] /\ lp[i] <= lp[j]
  BY DEF Framed, Shape
<1>3. Len(defers) = sc[n] /\ Len(errdefers) = sc[n] /\ Len(loops) = lp[n]
  BY DEF Framed, Mirrors
<1>4. Len(Stack(w, how)) = at[n]
  <2>1. CASE w = "defer"
    BY <1>0, <1>3, <2>1, LinesAre DEF TypeOK, At, Stack
  <2>2. CASE w = "errdefer"
    <3>1. Len(Lines("errdefer", errdefers)) = Len(errdefers)
      BY <1>0, LinesAre DEF TypeOK
    <3>2. Len([i \in 1 .. Len(errdefers) |-> <<>>]) = Len(errdefers)
      BY <1>0 DEF TypeOK
    <3> QED BY <1>3, <2>2, <3>1, <3>2 DEF At, Stack
  <2>3. CASE w = "release"
    BY <1>0, <1>3, <2>3, ReleasesAre DEF At, Stack
  <2> QED BY <2>1, <2>2, <2>3
<1>5. at \in [Nat -> Nat] /\ at[0] = 0 /\ \A i, j \in 0 .. n : i <= j => at[i] <= at[j]
  BY <1>2 DEF At
<1>6. \A i \in 0 .. n : i \in Nat /\ i <= n
  OBVIOUS
<1> HIDE DEF at, n
<1>7. \A i \in 0 .. n : at[i] \in 0 .. at[n]
  <2> SUFFICES ASSUME NEW i \in 0 .. n PROVE at[i] \in 0 .. at[n]
    OBVIOUS
  <2>1. at[i] \in Nat /\ at[n] \in Nat /\ at[i] <= at[n]
    BY <1>1, <1>5, <1>6
  <2> QED BY <2>1
<1>8. \A i \in 0 .. n : sc[i] \in Nat /\ lp[i] \in Nat
  BY <1>2, <1>6
<1> QED BY <1>1, <1>2, <1>3, <1>4, <1>5, <1>7, <1>8 DEF at, n

(* Each block from m to the innermost adds its own cleanups of that kind.   *)
Passes(f, m, w, how, seen) ==
  \A i \in m + 1 .. Len(open) : f[i] = Keep(Own(w, how, open[i]), seen) \o f[i - 1]

RunsDown(f, a, z, w, how, seen) ==
  f[Len(open)] = Keep(Downward(Stack(w, how), a), seen) \o z

(* On the way out from the innermost block to block m the stack runs down to *)
(* what it held there.                                                     *)
LEMMA ExitPast ==
  ASSUME Struct, NotFinished, NEW sc, NEW lp,
         Framed(open, sc, lp, defers, errdefers, loops, baselines, count),
         NEW seen, NEW w \in {"defer", "errdefer", "release"}, NEW how,
         NEW m \in 0 .. Len(open), NEW z \in Seq(Ev),
         NEW f \in [0 .. Len(open) -> Seq(Ev)], f[m] = z,
         Passes(f, m, w, how, seen)
  PROVE  RunsDown(f, At(w, sc, lp)[m], z, w, how, seen)
<1> DEFINE n == Len(open)
           at == At(w, sc, lp)
           pieces == Stack(w, how)
           at2 == [i \in 0 .. n |-> at[i]]
<1>1. pieces \in Seq(Seq(Ev))
  BY StackIs DEF Struct
<1>2. /\ n \in Nat /\ at[n] = Len(pieces)
      /\ \A i \in 0 .. n : at[i] \in 0 .. Len(pieces)
      /\ \A i, j \in 0 .. n : i <= j => at[i] <= at[j]
  BY AtIs, SMTT(30)
<1>3. \A i \in 1 .. n : Adds(i, w, how, at)
  BY OwnStacked
<1>f. f \in [0 .. n -> Seq(Ev)] /\ f[m] = z /\ m \in 0 .. n
      /\ \A i \in m + 1 .. n : f[i] = Keep(Own(w, how, open[i]), seen) \o f[i - 1]
  BY DEF Passes
<1> HIDE DEF n, at, pieces
<1>4. /\ at2 \in [0 .. n -> 0 .. Len(pieces)]
      /\ \A i \in 0 .. n : at2[i] = at[i]
  BY <1>2
<1> HIDE DEF at2
<1>5. m \in 0 .. n /\ n \in 0 .. n /\ m \in Nat /\ at[m] \in Nat /\ at2[m] <= at[m] /\ at2[n] = Len(pieces)
  BY <1>2, <1>4, <1>f
<1>6. ASSUME NEW i \in m + 1 .. n
      PROVE  \/ at2[i] = at2[i - 1] /\ f[i] = f[i - 1]
             \/ /\ at2[i] = at2[i - 1] + 1 /\ at2[i] > at[m]
                /\ f[i] = Keep(pieces[at2[i]], seen) \o f[i - 1]
  <2>1. i \in 1 .. n /\ i - 1 \in 0 .. n /\ i \in 0 .. n /\ m <= i - 1
    BY <1>2, <1>5
  <2>2. at2[i] = at[i] /\ at2[i - 1] = at[i - 1] /\ at[m] <= at[i - 1] /\ at[i - 1] \in Nat
    BY <1>2, <1>4, <1>5, <2>1
  <2>3. f[i] = Keep(Own(w, how, open[i]), seen) \o f[i - 1] /\ f[i - 1] \in Seq(Ev)
    BY <1>f, <2>1
  <2>4. Adds(i, w, how, at)
    BY <1>3, <2>1
  <2>5. CASE at[i] = at[i - 1] /\ Own(w, how, open[i]) = <<>>
    <3>1. Keep(<<>>, seen) \o f[i - 1] = f[i - 1]
      <4> DEFINE g == f[i - 1]
      <4>1. g \in Seq(Ev)
        BY <2>3
      <4> HIDE DEF g
      <4>2. <<>> \o g = g
        BY <4>1, ConcatNone
      <4> QED BY <4>2, KeepEmpty DEF g
    <3> QED BY <2>2, <2>3, <2>5, <3>1
  <2>6. CASE at[i] = at[i - 1] + 1 /\ Own(w, how, open[i]) = pieces[at[i]]
    <3>1. at[i] > at[m]
      BY <1>5, <2>2, <2>6
    <3> QED BY <2>2, <2>3, <2>6, <3>1
  <2> QED BY <2>4, <2>5, <2>6 DEF Adds, pieces
<1>7. f[n] = Keep(Downward(pieces, at[m]), seen) \o z
  BY <1>1, <1>2, <1>4, <1>5, <1>6, <1>f, Stacked, ZenonT(40)
<1> QED BY <1>7 DEF RunsDown, n, at, pieces

(* Above the top of a stack there is nothing.                              *)
LEMMA AboveTop ==
  ASSUME NEW pieces \in Seq(Seq(Ev))
  PROVE  Upward(pieces, Len(pieces)) = <<>>
<1>1. Len(pieces) \in Nat /\ Len(pieces) \in 0 .. Len(pieces) /\ Len(pieces) <= Len(pieces)
  OBVIOUS
<1>2. PICK up \in [0 .. Len(pieces) -> Seq(Ev)] :
        Upward(pieces, Len(pieces)) = up[Len(pieces)] /\ UpwardBy(up, pieces, Len(pieces))
  BY <1>1, UpwardIs
<1> QED BY <1>1, <1>2 DEF UpwardBy

(* What is not seen is not seen of a stack.                                *)
LEMMA ExitsNone ==
  ASSUME Struct, NEW seen, NEW w, View(seen, w), NEW a \in Nat
  PROVE  /\ w # "defer" => Keep(ScopeExitDefers(a), seen) = <<>>
         /\ w # "errdefer" => Keep(Downward(Lines("errdefer", errdefers), a), seen) = <<>>
         /\ w # "release" => /\ Keep(Downward(Releases, a), seen) = <<>>
                             /\ Keep(Upward(Releases, a), seen) = <<>>
<1>0. TypeOK
  BY DEF Struct
<1>d. defers \in Seq(Seq(Nat)) /\ errdefers \in Seq(Seq(Nat))
  BY <1>0 DEF TypeOK
<1>1. ASSUME w # "defer" PROVE Keep(ScopeExitDefers(a), seen) = <<>>
  <2> DEFINE p == Lines("defer", defers)
  <2>1. p \in Seq(Seq(Ev)) /\ Len(p) = Len(defers)
        /\ \A k \in 1 .. Len(defers) : defers[k] \in Seq(Nat) /\ p[k] = Cleanups("defer", defers[k])
    BY <1>d, LinesAre
  <2>2. \A ns \in Seq(Nat) : Keep(Cleanups("defer", ns), seen) = <<>>
    BY <1>1, BlindTo
  <2> HIDE DEF p
  <2>3. Keep(Downward(p, a), seen) = <<>>
    BY <2>1, <2>2, StackedNone
  <2> QED BY <2>3 DEF ScopeExitDefers, p
<1>2. ASSUME w # "errdefer" PROVE Keep(Downward(Lines("errdefer", errdefers), a), seen) = <<>>
  <2> DEFINE p == Lines("errdefer", errdefers)
  <2>1. p \in Seq(Seq(Ev)) /\ Len(p) = Len(errdefers)
        /\ \A k \in 1 .. Len(errdefers) : errdefers[k] \in Seq(Nat) /\ p[k] = Cleanups("errdefer", errdefers[k])
    BY <1>d, LinesAre
  <2>2. \A ns \in Seq(Nat) : Keep(Cleanups("errdefer", ns), seen) = <<>>
    BY <1>2, BlindTo
  <2> HIDE DEF p
  <2>3. Keep(Downward(p, a), seen) = <<>>
    BY <2>1, <2>2, StackedNone
  <2> QED BY <2>3 DEF p
<1>3. ASSUME w # "release"
      PROVE  Keep(Downward(Releases, a), seen) = <<>> /\ Keep(Upward(Releases, a), seen) = <<>>
  <2>1. /\ Releases \in Seq(Seq(Ev)) /\ Len(Releases) = Len(loops)
        /\ \A k \in 1 .. Len(loops) : Releases[k] = Release(loops[k]) /\ loops[k] \in LoopScopes
    BY <1>0, ReleasesAre
  <2>2. \A k \in 1 .. Len(Releases) : Keep(Releases[k], seen) = <<>>
    BY <1>3, <2>1, BlindTo
  <2>3. Keep(Downward(Releases, a), seen) = <<>>
    BY <2>1, <2>2, StackedNone
  <2>4. Keep(Upward(Releases, a), seen) = Keep(Downward(Releases, a), seen)
    BY <2>1, <2>2, UpAndDown
  <2> QED BY <2>3, <2>4
<1> QED BY <1>1, <1>2, <1>3

(* A view sees the release of one list, so the order of the releases of      *)
(* several loops is not seen.                                              *)
LEMMA ReleasesEitherWay ==
  ASSUME Struct, NotFinished, NEW seen, NEW w, View(seen, w), NEW a \in Nat
  PROVE  Keep(Upward(Releases, a), seen) = Keep(Downward(Releases, a), seen)
<1>0. TypeOK
  BY DEF Struct
<1>1. PICK sc, lp : Framed(open, sc, lp, defers, errdefers, loops, baselines, count)
  BY Reading DEF Linked
<1>2. /\ Releases \in Seq(Seq(Ev)) /\ Len(Releases) = Len(loops) /\ Len(loops) \in Nat
      /\ \A k \in 1 .. Len(loops) : Releases[k] = Release(loops[k]) /\ loops[k] \in LoopScopes
  BY <1>0, ReleasesAre
<1>3. open \in Seq(Blocks) /\ Len(open) \in Nat /\ Shape(open, sc, lp)
  BY <1>1, Reading DEF Framed
<1>4. ASSUME NEW i \in 1 .. Len(Releases), NEW j \in 1 .. Len(Releases), i < j,
             Keep(Releases[i], seen) # <<>>, Keep(Releases[j], seen) # <<>>
      PROVE  FALSE
  <2>1. ASSUME NEW k \in 1 .. Len(loops), Keep(Releases[k], seen) # <<>>
        PROVE  \E t \in 1 .. Len(open) : lp[t] = k /\ <<"release", open[t].n>> \in seen
    <3>1. Len(loops) = lp[Len(open)]
      BY <1>1 DEF Framed, Mirrors
    <3>2. PICK t \in 1 .. Len(open) : open[t].k \in LoopKinds /\ lp[t] = k
      BY <1>3, <3>1 DEF Shape
    <3>3. loops[k] = LoopScope(open[t])
      BY <1>1, <3>2 DEF Framed, Mirrors
    <3> DEFINE r == loops[k].release
               tr == Release(loops[k])
    <3>4. tr = Releases[k] /\ r \in Nat /\ tr \in Seq(Ev)
      BY <1>2, ReleaseIs
    <3>5. r # 0
      <4> SUFFICES ASSUME r = 0 PROVE FALSE
        OBVIOUS
      <4>1. tr = <<>>
        BY DEF Release
      <4> QED BY <2>1, <3>4, <4>1, KeepEmpty
    <3>6. tr = <<<<"release", r>>>>
      BY <3>5 DEF Release
    <3>7. r = open[t].n
      BY <3>3, <3>5 DEF LoopScope
    <3> HIDE DEF r, tr
    <3>8. <<"release", r>> \in seen
      <4> SUFFICES ASSUME <<"release", r>> \notin seen PROVE FALSE
        OBVIOUS
      <4>1. \A q \in 1 .. Len(tr) : tr[q] \notin seen
        BY <3>6
      <4>2. Keep(tr, seen) = <<>>
        BY <3>4, <4>1, KeepNone
      <4> QED BY <2>1, <3>4, <4>2
    <3> QED BY <3>2, <3>7, <3>8
  <2>2. PICK t \in 1 .. Len(open) : lp[t] = i /\ <<"release", open[t].n>> \in seen
    BY <1>2, <1>4, <2>1
  <2>3. PICK u \in 1 .. Len(open) : lp[u] = j /\ <<"release", open[u].n>> \in seen
    BY <1>2, <1>4, <2>1
  <2>4. open[t].n = open[u].n
    BY <2>2, <2>3 DEF View
  <2>5. t \in 0 .. Len(open) /\ u \in 0 .. Len(open) /\ t \in Nat /\ u \in Nat
    BY <1>3
  <2>6. ~(u <= t)
    <3>1. u <= t => lp[u] <= lp[t]
      BY <1>3, <2>5 DEF Shape
    <3>2. i \in Nat /\ j \in Nat /\ ~(j <= i)
      BY <1>2, <1>4
    <3> QED BY <2>2, <2>3, <3>1, <3>2
  <2>7. t \in 1 .. u - 1
    BY <2>5, <2>6
  <2>8. open[t].n < open[u].n
    BY <1>3, <2>7 DEF Shape
  <2>9. open[t].n \in Nat
    BY <1>3, BlockIs
  <2> QED BY <2>4, <2>8, <2>9
<1> QED BY <1>2, <1>4, UpAndDown
-----------------------------------------------------------------------------
(* What is still to come at a jump and at a return is what C has run there. *)

(* The loop of block T is the one that the jump x is about.                *)
Target(T, x) ==
  /\ T \in 1 .. Len(open) /\ open[T].k \in LoopKinds /\ x \in Caught(open[T].label)
  /\ \A t \in T + 1 .. Len(open) : ~Catches(open[t], x)

(* From the context of block i to that of the block around it.             *)
AddsOwn(ctx, i, x, w, seen) ==
  ctx[i][x] = Keep(Own(w, x[1], open[i]), seen) \o ctx[i - 1][x]

LEMMA ContextsFrom ==
  ASSUME Struct, NotFinished, NEW seen, NEW w, View(seen, w), NEW ctx, NEW rc, SemBy(seen, open, ctx, rc),
         NEW x \in MOuts, x # Through,
         NEW i \in 1 .. Len(open), ~Catches(open[i], x)
  PROVE  AddsOwn(ctx, i, x, w, seen)
<1> DEFINE b == open[i]
           e == ctx[i - 1]
<1>1. b \in Blocks /\ i \in Nat /\ i - 1 \in 0 .. Len(open)
  BY Reading
<1>2. e \in Contexts /\ ctx[i] = Inner(seen, b, e) /\ ~Catches(b, x)
  BY <1>1 DEF SemBy
<1> HIDE DEF b, e
<1>3. Inner(seen, b, e)[x] = Keep(Unwound(b, x), seen) \o (Keep(Owned(b), seen) \o e[x])
  <2>1. Outer(seen, b, e)[x] = Keep(Owned(b), seen) \o e[x]
    BY <1>1, <1>2, OuterIs
  <2>2. Inner(seen, b, e)[x] = Keep(Unwound(b, x), seen) \o Outer(seen, b, e)[x]
    BY <1>1, <1>2, OuterIs
  <2> QED BY <2>1, <2>2
<1>4. /\ Keep(Unwound(b, x), seen) \in Seq(Ev) /\ Keep(Owned(b), seen) \in Seq(Ev) /\ e[x] \in Seq(Ev)
  BY <1>1, <1>2, BlockIs, UnwoundIs, OwnedIs, KeepType DEF Contexts
<1>5. Inner(seen, b, e)[x] = (Keep(Unwound(b, x), seen) \o Keep(Owned(b), seen)) \o e[x]
  BY <1>3, <1>4, ConcatThree
<1>6. Keep(Unwound(b, x), seen) \o Keep(Owned(b), seen) = Keep(Own(w, x[1], b), seen)
  BY <1>1, KeptOwn
<1> QED BY <1>2, <1>5, <1>6 DEF AddsOwn, b, e

(* The context of each block at x, a function on the blocks.               *)
LEMMA ContextsAt ==
  ASSUME Struct, NotFinished, NEW seen, NEW ctx, NEW rc, SemBy(seen, open, ctx, rc), NEW x \in MOuts
  PROVE  \A i \in 0 .. Len(open) : ctx[i][x] \in Seq(Ev)
BY DEF SemBy, Contexts

LEMMA JumpExit ==
  ASSUME Struct, NotFinished, NEW sc, NEW lp,
         Framed(open, sc, lp, defers, errdefers, loops, baselines, count),
         NEW seen, NEW w, View(seen, w), NEW ctx, NEW rc, SemBy(seen, open, ctx, rc),
         NEW x \in Jumps \X Labels, NEW T, Target(T, x)
  PROVE  ctx[Len(open)][x] = Keep(ScopeExitDefers(sc[T - 1]) \o Upward(Releases, lp[T]), seen)
<1> DEFINE n == Len(open)
           D == ScopeExitDefers(sc[T - 1])
           R == Upward(Releases, lp[T])
<1>0. TypeOK
  BY DEF Struct
<1>1. /\ n \in Nat /\ T \in 1 .. n /\ T \in Nat /\ T \in 0 .. n /\ T - 1 \in 0 .. n /\ T # 0
      /\ open[T] \in Blocks /\ open[T].k \in LoopKinds
  BY Reading DEF Target
<1>2. x \in MOuts /\ x # Through /\ x[1] # "fail" /\ x[1] \in Jumps /\ Catches(open[T], x)
  <2>1. x \in MOuts /\ x[1] \in Jumps
    BY DEF MOuts
  <2>2. x[1] # "fail" /\ x[1] # "next"
    BY <2>1 DEF Jumps
  <2>3. x # Through
    BY <2>2 DEF Through
  <2>4. Catches(open[T], x)
    BY DEF Target, Catches
  <2> QED BY <2>1, <2>2, <2>3, <2>4
<1>3. w \in {"defer", "errdefer", "release"}
  BY DEF View
<1>4. \A i \in 0 .. n : sc[i] \in Nat /\ lp[i] \in Nat
  BY <1>3, AtIs
<1>5. D \in Seq(Ev) /\ R \in Seq(Ev) /\ sc[T - 1] \in Nat /\ lp[T] \in Nat
  BY <1>0, <1>1, <1>4, ExitTypes
<1>6. Keep(D \o R, seen) = Keep(D, seen) \o Keep(R, seen) /\ Keep(D, seen) \in Seq(Ev) /\ Keep(R, seen) \in Seq(Ev)
  BY <1>5, KeepOf
<1>7. \A i \in T + 1 .. n : ctx[i][x] = Keep(Own(w, x[1], open[i]), seen) \o ctx[i - 1][x]
  <2> SUFFICES ASSUME NEW i \in T + 1 .. n
               PROVE ctx[i][x] = Keep(Own(w, x[1], open[i]), seen) \o ctx[i - 1][x]
    OBVIOUS
  <2>1. i \in 1 .. Len(open) /\ ~Catches(open[i], x)
    BY <1>1 DEF Target
  <2>2. AddsOwn(ctx, i, x, w, seen)
    BY <1>2, <2>1, ContextsFrom
  <2> QED BY <2>2 DEF AddsOwn
<1>8. \A i \in 0 .. n : ctx[i][x] \in Seq(Ev)
  BY <1>2, ContextsAt
<1>9. ctx[T][x] = IF w = "release" THEN <<>> ELSE Keep(Own(w, x[1], open[T]), seen)
  <2> DEFINE b == open[T]
             e == ctx[T - 1]
  <2>1. ctx[T] = Inner(seen, b, e) /\ e \in Contexts
    BY <1>1 DEF SemBy
  <2>2. Keep(Unwound(b, x), seen) \in Seq(Ev)
    BY <1>1, BlockIs, UnwoundIs, KeepType
  <2>b. b \in Blocks /\ Catches(b, x)
    BY <1>1, <1>2
  <2>3. Inner(seen, b, e)[x] = Keep(Unwound(b, x), seen) \o <<>>
    <3>0. b \in Blocks /\ e \in Contexts /\ x \in MOuts /\ Catches(b, x)
      BY <1>2, <2>b, <2>1
    <3> HIDE DEF b, e
    <3>1. Outer(seen, b, e)[x] = <<>>
      BY <3>0, OuterIs
    <3>2. Inner(seen, b, e)[x] = Keep(Unwound(b, x), seen) \o Outer(seen, b, e)[x]
      BY <3>0, OuterIs, Zenon
    <3> QED BY <3>1, <3>2
  <2>5. Keep(Unwound(b, x), seen) = IF w = "release" THEN <<>> ELSE Keep(Own(w, x[1], b), seen)
    BY <1>2, <2>b, KeptOwn
  <2> QED BY <2>1, <2>2, <2>3, <2>5, ConcatNone
<1>10. CASE w = "release"
  <2> DEFINE f == [i \in 0 .. n |-> ctx[i][x]]
  <2>1. f \in [0 .. n -> Seq(Ev)] /\ \A i \in 0 .. n : f[i] = ctx[i][x]
    BY <1>8
  <2> HIDE DEF f
  <2>2. f[T] = <<>> /\ <<>> \in Seq(Ev)
    BY <1>1, <1>9, <1>10, <2>1
  <2>3. Passes(f, T, w, x[1], seen)
    <3> SUFFICES ASSUME NEW i \in T + 1 .. n PROVE f[i] = Keep(Own(w, x[1], open[i]), seen) \o f[i - 1]
      BY DEF Passes
    <3>1. i \in 0 .. n /\ i - 1 \in 0 .. n
      BY <1>1
    <3> QED BY <1>7, <2>1, <3>1
  <2>4. RunsDown(f, At(w, sc, lp)[T], <<>>, w, x[1], seen)
    BY <1>1, <1>3, <2>1, <2>2, <2>3, ExitPast
  <2>5. Stack(w, x[1]) = Releases /\ At(w, sc, lp)[T] = lp[T]
    BY <1>10 DEF Stack, At
  <2>6. Keep(R, seen) = Keep(Downward(Releases, lp[T]), seen)
    BY <1>5, ReleasesEitherWay
  <2>7. Keep(D, seen) = <<>>
    BY <1>5, <1>10, ExitsNone
  <2>8. n \in 0 .. n
    BY <1>1
  <2> HIDE DEF D, R
  <2>9. f[n] = Keep(R, seen) \o <<>>
    BY <2>4, <2>5, <2>6 DEF RunsDown
  <2> QED BY <1>6, <2>1, <2>7, <2>8, <2>9, ConcatNone DEF D, R
<1>11. CASE w # "release"
  <2> DEFINE f == [i \in 0 .. n |-> IF i = T - 1 THEN <<>> ELSE ctx[i][x]]
  <2>0. <<>> \in Seq(Ev)
    OBVIOUS
  <2>1. /\ f \in [0 .. n -> Seq(Ev)] /\ f[T - 1] = <<>>
        /\ \A i \in 0 .. n : i # T - 1 => f[i] = ctx[i][x]
    BY <1>1, <1>8, <2>0
  <2> HIDE DEF f
  <2>2. ASSUME NEW i \in (T - 1) + 1 .. n PROVE f[i] = Keep(Own(w, x[1], open[i]), seen) \o f[i - 1]
    <3>1. i \in T .. n /\ i \in 0 .. n /\ i # T - 1 /\ i - 1 \in 0 .. n /\ i \in 1 .. n
      BY <1>1
    <3>2. CASE i = T
      <4>1. f[i] = Keep(Own(w, x[1], open[i]), seen) /\ f[i - 1] = <<>>
        BY <1>9, <1>11, <2>1, <3>1, <3>2
      <4>2. f[i] \in Seq(Ev)
        BY <2>1, <3>1
      <4> QED BY <4>1, <4>2, ConcatNone
    <3>3. CASE i # T
      <4>1. i - 1 # T - 1 /\ i \in T + 1 .. n
        BY <1>1, <3>1, <3>3
      <4> QED BY <1>7, <2>1, <3>1, <4>1
    <3> QED BY <3>2, <3>3
  <2>p. Passes(f, T - 1, w, x[1], seen)
    BY <2>2 DEF Passes
  <2>3. RunsDown(f, At(w, sc, lp)[T - 1], <<>>, w, x[1], seen)
    BY <1>1, <1>3, <2>0, <2>1, <2>p, ExitPast
  <2>4. At(w, sc, lp)[T - 1] = sc[T - 1] /\ n \in 0 .. n /\ n # T - 1
    BY <1>1, <1>11 DEF At
  <2>5. Keep(R, seen) = <<>>
    BY <1>5, <1>11, ExitsNone
  <2>6. Stack(w, x[1]) \in Seq(Seq(Ev))
    BY <1>0, StackIs
  <2>7. Keep(Downward(Stack(w, x[1]), sc[T - 1]), seen) = Keep(D, seen)
    <3>1. CASE w = "defer"
      BY <3>1 DEF Stack, ScopeExitDefers
    <3>2. CASE w # "defer"
      <4>1. Keep(D, seen) = <<>>
        BY <1>5, <3>2, ExitsNone
      <4>2. Stack(w, x[1]) = [i \in 1 .. Len(errdefers) |-> <<>>]
        BY <1>3, <1>11, <1>2, <3>2 DEF Stack
      <4>3. \A k \in 1 .. Len(Stack(w, x[1])) : Keep(Stack(w, x[1])[k], seen) = <<>>
        <5>1. /\ Len(Stack(w, x[1])) = Len(errdefers)
              /\ \A k \in 1 .. Len(errdefers) : Stack(w, x[1])[k] = <<>>
          BY <1>0, <4>2 DEF TypeOK
        <5> QED BY <5>1, KeepEmpty
      <4>4. Keep(Downward(Stack(w, x[1]), sc[T - 1]), seen) = <<>>
        BY <1>5, <2>6, <4>3, StackedNone
      <4> QED BY <4>1, <4>4
    <3> QED BY <3>1, <3>2
  <2> HIDE DEF D, R
  <2>8. f[n] = Keep(D, seen) \o <<>>
    BY <2>3, <2>4, <2>7 DEF RunsDown
  <2> QED BY <1>6, <2>1, <2>4, <2>5, <2>8, ConcatNone DEF D, R
<1> QED BY <1>10, <1>11

(* All blocks are left.                                                    *)
LEMMA ReturnExit ==
  ASSUME Struct, NotFinished, NEW seen, NEW w, View(seen, w), NEW ctx, NEW rc, SemBy(seen, open, ctx, rc),
         NEW x \in {<<"return", NoLabel>>, <<"fail", NoLabel>>}
  PROVE  ctx[Len(open)][x] = Keep(Downward(Stack(w, x[1]), 0), seen) \o Keep(Pop, seen)
<1> DEFINE n == Len(open)
           f == [i \in 0 .. n |-> ctx[i][x]]
<1>0. PICK sc, lp : Framed(open, sc, lp, defers, errdefers, loops, baselines, count)
  BY Reading DEF Linked
<1>1. x \in MOuts /\ x # Through
  BY DEF MOuts, Through
<1>2. n \in Nat /\ 0 \in 0 .. n /\ n \in 0 .. n
  BY Reading
<1>3. \A i \in 1 .. n : ~Catches(open[i], x)
  <2> SUFFICES ASSUME NEW i \in 1 .. n PROVE ~Catches(open[i], x)
    OBVIOUS
  <2>1. open[i].label \in Labels
    BY Reading, BlockIs
  <2>2. x[1] \notin Jumps
    BY DEF Jumps
  <2> QED BY <1>1, <2>1, <2>2, CaughtIs DEF Catches
<1>4. f \in [0 .. n -> Seq(Ev)] /\ \A i \in 0 .. n : f[i] = ctx[i][x]
  <2>1. \A i \in 0 .. n : ctx[i][x] \in Seq(Ev)
    BY <1>1, ContextsAt
  <2> QED BY <2>1
<1> HIDE DEF f
<1>5. f[0] = Keep(Pop, seen) /\ Keep(Pop, seen) \in Seq(Ev)
  <2>1. ctx[0] = Base(seen)
    BY DEF SemBy
  <2>2. Pop \in Seq(Ev)
    BY ExitTypes DEF Struct
  <2> QED BY <1>1, <1>2, <1>4, <2>1, <2>2, KeepType DEF Base
<1>6. Passes(f, 0, w, x[1], seen)
  <2> SUFFICES ASSUME NEW i \in 0 + 1 .. n
               PROVE f[i] = Keep(Own(w, x[1], open[i]), seen) \o f[i - 1]
    BY DEF Passes
  <2>1. i \in 0 .. n /\ i - 1 \in 0 .. n /\ i \in 1 .. n
    BY <1>2
  <2>2. AddsOwn(ctx, i, x, w, seen)
    BY <1>1, <1>3, <2>1, ContextsFrom
  <2> QED BY <1>4, <2>1, <2>2 DEF AddsOwn
<1>7. w \in {"defer", "errdefer", "release"} /\ At(w, sc, lp)[0] = 0
  BY <1>0, AtIs DEF View
<1>8. RunsDown(f, At(w, sc, lp)[0], Keep(Pop, seen), w, x[1], seen)
  BY <1>0, <1>1, <1>2, <1>4, <1>5, <1>6, <1>7, ExitPast
<1> QED BY <1>2, <1>4, <1>7, <1>8 DEF RunsDown
(* The loop a jump is about, and where the generator finds it.             *)
TargetOf(T, kind, label, sc, lp) ==
  /\ Target(T, <<kind, label>>)
  /\ IF label = NoLabel THEN sc[T - 1] = Top(baselines) /\ lp[T] = Len(loops)
     ELSE sc[T - 1] = baselines[LoopIndex(label)] /\ lp[T] = LoopIndex(label)

LEMMA JumpTarget ==
  ASSUME Struct, NotFinished, NEW sc, NEW lp,
         Framed(open, sc, lp, defers, errdefers, loops, baselines, count),
         NEW kind \in Jumps, NEW label \in Labels, MayJump(label)
  PROVE  \E T : TargetOf(T, kind, label, sc, lp)
<1> DEFINE n == Len(open)
           x == <<kind, label>>
           j == IF label = NoLabel THEN Len(loops) ELSE LoopIndex(label)
<1>0. TypeOK
  BY DEF Struct
<1>1. open \in Seq(Blocks) /\ n \in Nat /\ n > 0 /\ Shape(open, sc, lp) /\ loops \in Seq(LoopScopes)
  BY Reading DEF Framed
<1>2. /\ Len(loops) = lp[n] /\ Len(baselines) = lp[n] /\ Len(loops) \in Nat
      /\ \A i \in 1 .. n : open[i].k \in LoopKinds =>
           baselines[lp[i]] = sc[i - 1] /\ loops[lp[i]] = LoopScope(open[i])
  BY <1>1 DEF Framed, Mirrors
<1>3. j \in 1 .. Len(loops)
  <2>1. CASE label = NoLabel
    <3>1. Len(loops) # 0
      BY <1>1, <2>1 DEF MayJump
    <3> QED BY <1>2, <2>1, <3>1
  <2>2. CASE label # NoLabel
    BY <1>0, <2>2, LoopIndexIs DEF MayJump
  <2> QED BY <2>1, <2>2
<1>4. PICK T \in 1 .. n : open[T].k \in LoopKinds /\ lp[T] = j
  <2> HIDE DEF j
  <2>1. j \in 1 .. lp[n]
    BY <1>2, <1>3
  <2>2. \A q \in 1 .. lp[n] : \E i \in 1 .. n : open[i].k \in LoopKinds /\ lp[i] = q
    BY <1>1 DEF Shape
  <2> QED BY <2>1, <2>2
<1>5. loops[j] = LoopScope(open[T]) /\ baselines[j] = sc[T - 1]
  BY <1>2, <1>4
<1>6. open[T] \in Blocks /\ open[T].label \in Labels /\ loops[j].label = open[T].label
  BY <1>1, <1>4, <1>5, BlockIs DEF LoopScope
<1>7. x \in Caught(open[T].label)
  <2>1. label # NoLabel => open[T].label = label
    BY <1>0, <1>6, LoopIndexIs DEF MayJump
  <2>2. CASE label = NoLabel
    BY <1>6, <2>2, CaughtIs
  <2>3. CASE label # NoLabel
    BY <1>6, <2>1, <2>3, CaughtIs
  <2> QED BY <2>2, <2>3
<1>8. ASSUME NEW t \in T + 1 .. n PROVE ~Catches(open[t], x)
  <2>1. t \in 1 .. n /\ t \in 0 .. n /\ t - 1 \in 0 .. n /\ T \in 0 .. n /\ T <= t - 1 /\ open[t] \in Blocks
    BY <1>1
  <2>2. x # Through
    BY DEF Through, Jumps
  <2> SUFFICES ASSUME open[t].k \in LoopKinds, x \in Caught(open[t].label) PROVE FALSE
    BY <2>2 DEF Catches
  <2>3. lp[t] = lp[t - 1] + 1 /\ lp[t] \in 1 .. lp[n] /\ lp[t - 1] \in Nat /\ lp[T] \in Nat
    BY <1>1, <2>1, ShapeAt
  <2>4. lp[T] <= lp[t - 1]
    BY <1>1, <2>1 DEF Shape
  <2>5. lp[t] \in j + 1 .. Len(loops)
    BY <1>2, <1>4, <2>3, <2>4
  <2>6. label # NoLabel
    BY <1>2, <2>5
  <2>7. open[t].label = label
    <3>1. open[t].label \in Labels
      BY <2>1, BlockIs
    <3>2. x[2] \in {NoLabel, open[t].label}
      BY <3>1, CaughtIs
    <3> QED BY <2>6, <3>2
  <2>8. loops[lp[t]].label # label
    BY <1>0, <2>5, <2>6, LoopIndexIs DEF MayJump
  <2>9. loops[lp[t]] = LoopScope(open[t])
    BY <1>2, <2>1
  <2> QED BY <2>7, <2>8, <2>9 DEF LoopScope
<1>9. Target(T, x)
  BY <1>4, <1>7, <1>8 DEF Target
<1>10. Len(baselines) = Len(loops) /\ (label = NoLabel => Top(baselines) = baselines[j])
  BY <1>2 DEF Top
<1>11. TargetOf(T, kind, label, sc, lp)
  BY <1>4, <1>5, <1>9, <1>10 DEF TargetOf
<1> QED BY <1>11

LEMMA JumpLive ==
  ASSUME Struct, NotFinished, NEW seen, NEW ctx, NEW rc, SemBy(seen, open, ctx, rc),
         NEW kind \in Jumps, NEW label \in Labels, NEW T, Target(T, <<kind, label>>),
         kind = "break" /\ label = NoLabel => ~InSwitch
  PROVE  <<kind, label>> \in rc[Len(open)]
<1> DEFINE n == Len(open)
           x == <<kind, label>>
           S == {i \in 0 .. n : i >= T => x \in rc[i]}
<1>1. open \in Seq(Blocks) /\ n \in Nat /\ T \in 1 .. n /\ T \in Nat
  BY Reading DEF Target
<1>2. \A i \in 1 .. n : rc[i] = Reached(open[i], rc[i - 1])
  BY DEF SemBy
<1>3. \A t \in T + 1 .. n : open[t].k = "switch" => x # <<"break", NoLabel>>
  <2> SUFFICES ASSUME NEW t \in T + 1 .. n, open[t].k = "switch", x = <<"break", NoLabel>> PROVE FALSE
    OBVIOUS
  <2>1. kind = "break" /\ label = NoLabel
    OBVIOUS
  <2>2. ASSUME NEW u \in t + 1 .. n PROVE open[u].k \notin {"while", "for"}
    <3>1. u \in T + 1 .. n /\ u \in 1 .. n /\ open[u] \in Blocks
      BY <1>1
    <3>2. open[u].label \in Labels
      BY <3>1, BlockIs
    <3>3. x \in Caught(open[u].label)
      BY <2>1, <3>2, CaughtIs
    <3>4. ~Catches(open[u], x)
      BY <3>1 DEF Target
    <3> QED BY <3>3, <3>4 DEF Catches, LoopKinds
  <2>3. t \in 1 .. n
    BY <1>1
  <2>4. InSwitch
    BY <2>2, <2>3 DEF InSwitch
  <2> QED BY <2>1, <2>4
<1>4. 0 \in S
  BY <1>1
<1>5. ASSUME NEW i \in 1 .. n, i - 1 \in S PROVE i \in S
  <2>1. i \in 0 .. n /\ i \in Nat
    BY <1>1
  <2> SUFFICES ASSUME i >= T PROVE x \in rc[i]
    BY <2>1
  <2>2. CASE i = T
    BY <1>2, <2>2 DEF Target, Reached
  <2>3. CASE i # T
    <3>1. i - 1 >= T /\ i \in T + 1 .. n
      BY <1>1, <2>1, <2>3
    <3>2. x \in rc[i - 1]
      BY <1>5, <3>1
    <3>3. open[i].k = "switch" => x # <<"break", NoLabel>>
      BY <1>3, <3>1
    <3> HIDE DEF x
    <3>4. x \in Reached(open[i], rc[i - 1])
      BY <3>2, <3>3 DEF Reached
    <3> QED BY <1>2, <3>4
  <2> QED BY <2>2, <2>3
<1> HIDE DEF S
<1>6. \A i \in 0 .. n : i \in S
  BY <1>1, <1>4, <1>5, UpTo
<1> QED BY <1>1, <1>6 DEF S

(* A statement that ends in one way.                                       *)
LEMMA RelEnds ==
  ASSUME NEW seen, NEW e, NEW U, NEW out \in MOuts, out \in U,
         NEW s \in Seq(Ev), NEW t \in Seq(Ev), Keep(t, seen) = Keep(s, seen) \o e[out],
         NEW cout, cout = Match(out)
  PROVE  Rel(seen, e, U, Ends(s, out), Ends(t, cout))
<1>1. out \in Outs /\ cout \in Outs
  BY MOutsAre
<1>2. \A o \in Outcomes : Ends(s, out)[o].tr = s /\ Ends(s, out)[o].o = o /\ Ends(s, out)[o].out = out
  BY <1>1, EndsIs
<1>3. \A o \in Outcomes : Ends(t, cout)[o].tr = t /\ Ends(t, cout)[o].o = o /\ Ends(t, cout)[o].out = cout
  BY <1>1, EndsIs
<1> QED BY <1>2, <1>3 DEF Rel

LEMMA JumpSem ==
  ASSUME Struct, "breakInSwitch" \notin Mixed, NEW seen, NEW w, View(seen, w), Sem(seen, open),
         NEW kind \in Jumps, NEW label \in Labels, Jump(kind, label)
  PROVE  Sem(seen, open')
<1> DEFINE b == Top(open)
           n == Len(open)
           x == <<kind, label>>
           means == Ends(<<>>, x)
           does == JumpCode(kind, label)
           j == Joined(b, "jump", means, does)
           b2 == [j EXCEPT !.uses = @ \cup {<<label, kind>>}]
<1>1. /\ NotFinished /\ MayJump(label) /\ b \in Blocks /\ open' = ReplaceTop(open, b2)
      /\ b2 \in Blocks /\ SameBlock(b, b2) /\ b2.last = "jump"
      /\ b2.uses = b.uses \cup {<<label, kind>>}
      /\ b2.means = Chain(b.means, Unwinding(b, means)) /\ b2.does = Chain(b.does, does)
  BY JumpBlock
<1>2. means \in Prog /\ does \in Prog
  BY <1>1, JumpIs
<1>3. PICK ctx, rc : SemBy(seen, open, ctx, rc)
  BY DEF Sem
<1>4. open \in Seq(Blocks) /\ open # <<>>
  BY <1>1, Reading
<1>5. PICK sc, lp : Framed(open, sc, lp, defers, errdefers, loops, baselines, count)
  BY <1>1, Reading DEF Linked
<1>6. PICK T : TargetOf(T, kind, label, sc, lp)
  BY <1>1, <1>5, JumpTarget
<1>7. Target(T, x)
  BY <1>6 DEF TargetOf
<1>8. kind = "break" /\ label = NoLabel => ~InSwitch
  BY DEF Jump
<1>9. x \in rc[n]
  BY <1>1, <1>3, <1>7, <1>8, JumpLive
<1> HIDE DEF b2, j, means, does
<1>10. x \in Live(b2, rc[n]) /\ x \in MOuts
  BY <1>1, <1>9 DEF Live, MOuts
<1>11. ctx[n][x] = Keep(ScopeExitDefers(sc[T - 1]) \o Upward(Releases, lp[T]), seen)
  <2>1. x \in Jumps \X Labels
    OBVIOUS
  <2> HIDE DEF x
  <2> QED BY <1>1, <1>3, <1>5, <1>7, <2>1, JumpExit
<1>12. ctx[n] \in Contexts
  BY <1>3, <1>4, SemTop
<1>13. T \in 1 .. n /\ n \in Nat /\ T - 1 \in 0 .. n /\ T \in 0 .. n
  BY <1>1, <1>7, Reading DEF Target
<1>14. sc[T - 1] \in Nat /\ lp[T] \in Nat
  BY <1>1, <1>5, <1>13, AtIs DEF View
<1> DEFINE D == ScopeExitDefers(sc[T - 1])
           R == Upward(Releases, lp[T])
<1>15. TypeOK
  BY DEF Struct
<1>16. D \in Seq(Ev) /\ R \in Seq(Ev)
  BY <1>14, <1>15, ExitTypes
<1>17. Rel(seen, ctx[n], Live(b2, rc[n]), means, does)
  <2>1. <<>> \in Seq(Ev) /\ Keep(<<>>, seen) = <<>> /\ ctx[n][x] \in Seq(Ev)
    BY <1>10, <1>12, KeepEmpty DEF Contexts
  <2>2. Keep(<<>>, seen) \o ctx[n][x] = ctx[n][x]
    BY <2>1, ConcatNone
  <2>3. CASE label = NoLabel
    <3>1. R = <<>>
      <4>1. lp[T] = Len(Releases) /\ Releases \in Seq(Seq(Ev))
        BY <1>6, <1>15, <2>3, ReleasesAre DEF TargetOf
      <4> QED BY <4>1, AboveTop
    <3>2. D \o R = D
      BY <1>16, <3>1, ConcatNone
    <3>3. does = Ends(D, <<kind, NoLabel>>)
      BY <1>6, <2>3 DEF does, JumpCode, TargetOf
    <3>4. Match(x) = <<kind, NoLabel>>
      BY <2>3 DEF Match, Jumps
    <3>5. Keep(D, seen) = Keep(<<>>, seen) \o ctx[n][x]
      BY <1>11, <2>2, <3>2
    <3> HIDE DEF D, R, x
    <3>6. Rel(seen, ctx[n], Live(b2, rc[n]), Ends(<<>>, x), Ends(D, <<kind, NoLabel>>))
      BY <1>10, <1>16, <2>1, <3>4, <3>5, RelEnds
    <3> QED BY <3>3, <3>6 DEF means
  <2>4. CASE label # NoLabel
    <3>1. does = Ends(D \o R, Goto(label, kind))
      BY <1>6, <2>4 DEF does, JumpCode, TargetOf, LoopJumpReleases
    <3>2. Match(x) = Goto(label, kind)
      BY <2>4 DEF Match, Jumps
    <3>3. Keep(D \o R, seen) = Keep(<<>>, seen) \o ctx[n][x] /\ D \o R \in Seq(Ev)
      BY <1>11, <1>16, <2>2, ConcatType
    <3> HIDE DEF D, R, x
    <3>4. Rel(seen, ctx[n], Live(b2, rc[n]), Ends(<<>>, x), Ends(D \o R, Goto(label, kind)))
      BY <1>10, <2>1, <3>2, <3>3, RelEnds
    <3> QED BY <3>1, <3>4 DEF means
  <2> QED BY <2>3, <2>4
<1>18. \A o \in Outcomes : means[o].out # Through
  <2>1. x \in Outs /\ <<>> \in Seq(Ev)
    BY <1>10, MOutsAre
  <2>2. x # Through
    BY DEF Jumps, Through
  <2> DEFINE s == <<>>
  <2>3. means = Ends(s, x) /\ s \in Seq(Ev)
    BY <2>1 DEF means
  <2> HIDE DEF x, s
  <2>4. \A o \in Outcomes : Ends(s, x)[o].out = x
    BY <2>1, <2>3, EndsIs
  <2> QED BY <2>2, <2>3, <2>4
<1>19. b2.k = "voidJudge" => b2.first = NoBranch
  BY <1>1, TopNoFirst DEF SameBlock
<1>20. Top(open).uses \subseteq b2.uses
  BY <1>1
<1>21. Sem(seen, ReplaceTop(open, b2))
  <2> HIDE DEF x
  <2> QED BY <1>1, <1>2, <1>3, <1>4, <1>17, <1>18, <1>19, <1>20, SemRead DEF b
<1> QED BY <1>1, <1>21
(* What the mixed constructs may be for the view w.                        *)
MixedFor(w) ==
  /\ Mixed \subseteq {"tryInFor", "tupleDefer", "returnOr"}
  /\ w = "release" => "tryInFor" \notin Mixed
  /\ w = "defer" => "tupleDefer" \notin Mixed
  /\ w = "errdefer" => "returnOr" \notin Mixed

(* A return runs what is still to come at it: all that is open.            *)
Errs == Downward(Lines("errdefer", errdefers), 0)

LEMMA ReturnParts ==
  ASSUME Struct
  PROVE  /\ ScopeExitDefers(0) \in Seq(Ev) /\ Errs \in Seq(Ev)
         /\ LoopExitReleases \in Seq(Ev) /\ Pop \in Seq(Ev)
<1>1. TypeOK /\ errdefers \in Seq(Seq(Nat))
  BY DEF Struct, TypeOK
<1>2. Lines("errdefer", errdefers) \in Seq(Seq(Ev)) /\ 0 \in Nat
  BY <1>1, LinesAre
<1>3. Errs \in Seq(Ev)
  BY <1>2, StackTypes DEF Errs
<1> QED BY <1>1, <1>2, <1>3, ExitTypes

LEMMA ReturnCosts ==
  ASSUME Struct, NotFinished, NEW seen, NEW w, View(seen, w), NEW ctx, NEW rc, SemBy(seen, open, ctx, rc)
  PROVE  LET D == Keep(ScopeExitDefers(0), seen)
             E == Keep(Errs, seen)
             R == Keep(LoopExitReleases, seen)
             P == Keep(Pop, seen)
         IN /\ ctx[Len(open)][<<"return", NoLabel>>] = (D \o R) \o P
            /\ ctx[Len(open)][<<"fail", NoLabel>>] = ((E \o D) \o R) \o P
<1> DEFINE D == Keep(ScopeExitDefers(0), seen)
           E == Keep(Errs, seen)
           R == Keep(LoopExitReleases, seen)
           P == Keep(Pop, seen)
           ret == <<"return", NoLabel>>
           fail == <<"fail", NoLabel>>
           S(how) == Keep(Downward(Stack(w, how), 0), seen)
<1>1. D \in Seq(Ev) /\ E \in Seq(Ev) /\ R \in Seq(Ev) /\ P \in Seq(Ev)
  BY ReturnParts, KeepType
<1>2. ctx[Len(open)][ret] = S(ret[1]) \o P /\ ctx[Len(open)][fail] = S(fail[1]) \o P
  BY ReturnExit
<1>3. ret[1] = "return" /\ fail[1] = "fail"
  OBVIOUS
<1>4. /\ w # "defer" => D = <<>>
      /\ w # "errdefer" => E = <<>>
      /\ w # "release" => R = <<>>
  <2>1. 0 \in Nat
    OBVIOUS
  <2> QED BY <2>1, ExitsNone DEF Errs, LoopExitReleases
<1>5. /\ w = "defer" => S("return") = D /\ S("fail") = D
      /\ w = "release" => S("return") = R /\ S("fail") = R
      /\ w = "errdefer" => S("fail") = E
  BY DEF Stack, ScopeExitDefers, Errs, LoopExitReleases
<1>6. w = "errdefer" => S("return") = <<>>
  <2> SUFFICES ASSUME w = "errdefer" PROVE S("return") = <<>>
    OBVIOUS
  <2> DEFINE p == Stack(w, "return")
  <2>0. TypeOK
    BY DEF Struct
  <2>1. p \in Seq(Seq(Ev)) /\ 0 \in Nat
    BY <2>0, StackIs
  <2>2. p = [i \in 1 .. Len(errdefers) |-> <<>>]
    BY DEF Stack
  <2>3. Len(p) = Len(errdefers) /\ \A k \in 1 .. Len(errdefers) : p[k] = <<>>
    BY <2>0, <2>2 DEF TypeOK
  <2> HIDE DEF p
  <2>4. \A k \in 1 .. Len(p) : Keep(p[k], seen) = <<>>
    BY <2>3, KeepEmpty
  <2>5. Keep(Downward(p, 0), seen) = <<>>
    BY <2>1, <2>4, StackedNone
  <2> QED BY <2>5 DEF p
<1>7. w \in {"defer", "errdefer", "release"}
  BY DEF View
<1> HIDE DEF D, E, R, P, S, ret, fail
<1>8. S("return") = D \o R /\ S("fail") = (E \o D) \o R
  <2>1. CASE w = "defer"
    <3>1. E \o D = D /\ D \o R = D
      BY <1>1, <1>4, <2>1, ConcatNone
    <3> QED BY <1>5, <2>1, <3>1
  <2>2. CASE w = "errdefer"
    <3>1. D \o R = <<>> /\ E \o D = E /\ E \o R = E
      BY <1>1, <1>4, <2>2, ConcatNone
    <3> QED BY <1>5, <1>6, <2>2, <3>1
  <2>3. CASE w = "release"
    <3>1. D \o R = R /\ E \o D = D
      BY <1>1, <1>4, <2>3, ConcatNone
    <3> QED BY <1>5, <2>3, <3>1
  <2> QED BY <1>7, <2>1, <2>2, <2>3
<1> QED BY <1>2, <1>3, <1>8 DEF D, E, R, P, ret, fail

(* A statement that leaves the cleanups alone.                             *)
LEMMA EmitSem ==
  ASSUME Struct, NEW k \in StmtKinds, CanRead(k), NEW means \in Prog, NEW does \in Prog,
         Emit(k, means, does), NEW seen, NEW ctx, NEW rc, SemBy(seen, open, ctx, rc),
         Rel(seen, ctx[Len(open)], Live(Top(open), rc[Len(open)]), means, does),
         k \in {"jump", "return", "fail", "tuple", "returnOr"} => \A o \in Outcomes : means[o].out # Through
  PROVE  Sem(seen, open')
<1> DEFINE b == Top(open)
           b2 == Joined(b, k, means, does)
<1>1. NotFinished
  BY DEF CanRead
<1>2. open \in Seq(Blocks) /\ open # <<>> /\ b \in Blocks
  BY <1>1, Reading
<1>3. /\ b2 \in Blocks /\ SameBlock(b, b2) /\ b2.last = k /\ b2.uses = b.uses
      /\ b2.means = Chain(b.means, Unwinding(b, means)) /\ b2.does = Chain(b.does, does)
  BY <1>2, JoinedIs
<1>4. open' = ReplaceTop(open, b2)
  BY DEF Emit
<1> HIDE DEF b2
<1>5. Live(b2, rc[Len(open)]) = Live(b, rc[Len(open)])
  BY <1>3 DEF Live
<1>6. b2.k = "voidJudge" => b2.first = NoBranch
  BY <1>1, <1>3, TopNoFirst DEF SameBlock
<1>7. EndsWithJump(b2) => \A o \in Outcomes : means[o].out # Through
  BY <1>3 DEF EndsWithJump
<1>8. Rel(seen, ctx[Len(open)], Live(b2, rc[Len(open)]), means, does) /\ b.uses \subseteq b2.uses
  BY <1>3, <1>5
<1>9. Sem(seen, ReplaceTop(open, b2))
  BY <1>2, <1>3, <1>6, <1>7, <1>8, SemRead
<1> QED BY <1>4, <1>9

LEMMA ActSem ==
  ASSUME Struct, NEW seen, Sem(seen, open), Act
  PROVE  Sem(seen, open')
<1> DEFINE s == <<<<"act", count + 1>>>>
<1>1. PICK ctx, rc : SemBy(seen, open, ctx, rc)
  BY DEF Sem
<1>2. CanRead("act") /\ Emit("act", Do(s), Do(s)) /\ NotFinished
  BY DEF Act, CanRead
<1>3. s \in Seq(Ev)
  <2>1. count + 1 \in Nat
    BY <1>2, Reading
  <2> QED BY <2>1 DEF Ev
<1>4. open \in Seq(Blocks) /\ open # <<>> /\ Top(open) \in Blocks /\ "act" \in StmtKinds
  BY <1>2, Reading DEF StmtKinds
<1>5. ctx[Len(open)] \in Contexts /\ rc[Len(open)] \in SUBSET (Jumps \X Labels)
  BY <1>1, <1>4, SemTop
<1>6. Through \in Live(Top(open), rc[Len(open)])
  BY DEF Live
<1> HIDE DEF s
<1>7. Rel(seen, ctx[Len(open)], Live(Top(open), rc[Len(open)]), Do(s), Do(s))
  BY <1>3, <1>5, <1>6, RelDo
<1>8. Do(s) \in Prog
  BY <1>3, DoIs
<1> QED BY <1>1, <1>2, <1>4, <1>7, <1>8, EmitSem

LEMMA ReturnSem ==
  ASSUME Struct, NEW seen, NEW w, View(seen, w), MixedFor(w), Sem(seen, open),
         NEW form \in {"return", "fail", "tuple"}, Return(form)
  PROVE  Sem(seen, open')
<1> DEFINE out == Form(form)
           tr == ((Value \o Returned(form)) \o LoopExitReleases) \o Pop
           D == Keep(ScopeExitDefers(0), seen)
           E == Keep(Errs, seen)
           R == Keep(LoopExitReleases, seen)
           P == Keep(Pop, seen)
           V == Keep(Value, seen)
           C == Keep(Returned(form), seen)
<1>1. PICK ctx, rc : SemBy(seen, open, ctx, rc)
  BY DEF Sem
<1>2. /\ CanRead(form) /\ NotFinished /\ Emit(form, Ends(Value, out), Ends(tr, <<"ret", NoLabel>>))
      /\ form = "tuple" /\ ScopeExitDefers(0) # <<>> => "tupleDefer" \in Mixed
  BY ReturnEmits DEF CanRead
<1>3. /\ Value \in Seq(Ev) /\ Returned(form) \in Seq(Ev) /\ tr \in Seq(Ev)
      /\ Ends(Value, out) \in Prog /\ Ends(tr, <<"ret", NoLabel>>) \in Prog
  BY ReturnIs
<1>4. /\ ScopeExitDefers(0) \in Seq(Ev) /\ Errs \in Seq(Ev)
      /\ LoopExitReleases \in Seq(Ev) /\ Pop \in Seq(Ev)
  BY ReturnParts
<1>5. D \in Seq(Ev) /\ E \in Seq(Ev) /\ R \in Seq(Ev) /\ P \in Seq(Ev) /\ V \in Seq(Ev) /\ C \in Seq(Ev)
  BY <1>3, <1>4, KeepType
<1>6. /\ ctx[Len(open)][<<"return", NoLabel>>] = (D \o R) \o P
      /\ ctx[Len(open)][<<"fail", NoLabel>>] = ((E \o D) \o R) \o P
  BY <1>1, <1>2, ReturnCosts
<1>7. C = IF form = "fail" THEN E \o D ELSE D
  <2>1. CASE form = "return"
    <3>1. Returned(form) = <<>> \o ScopeExitDefers(0)
      BY <2>1 DEF Returned, ReturnCleanup
    <3> QED BY <1>4, <2>1, <3>1, ConcatNone
  <2>2. CASE form = "fail"
    <3>1. Returned(form) = Errs \o ScopeExitDefers(0)
      BY <2>2 DEF Returned, ReturnCleanup, Errs
    <3>2. KeepsBoth(Errs, ScopeExitDefers(0), seen)
      BY <1>4, KeepCats
    <3> QED BY <2>2, <3>1, <3>2 DEF KeepsBoth
  <2>3. CASE form = "tuple"
    <3>1. Returned(form) = <<>>
      BY <2>3 DEF Returned
    <3>2. D = <<>>
      <4>1. CASE w = "defer"
        <5>1. ScopeExitDefers(0) = <<>>
          BY <1>2, <2>3, <4>1 DEF MixedFor
        <5> QED BY <5>1, KeepEmpty
      <4>2. CASE w # "defer"
        <5>1. 0 \in Nat
          OBVIOUS
        <5> QED BY <4>2, <5>1, ExitsNone
      <4> QED BY <4>1, <4>2
    <3> QED BY <2>3, <3>1, <3>2, KeepEmpty
  <2> QED BY <2>1, <2>2, <2>3
<1>8. Keep(tr, seen) = ((V \o C) \o R) \o P
  <2> DEFINE vc == Value \o Returned(form)
             vcr == vc \o LoopExitReleases
  <2>1. vc \in Seq(Ev) /\ Keep(vc, seen) = V \o C
    <3>1. vc \in Seq(Ev)
      BY <1>3, ConcatType
    <3>2. KeepsBoth(Value, Returned(form), seen)
      BY <1>3, KeepCats
    <3> QED BY <3>1, <3>2 DEF KeepsBoth
  <2>t. tr = vcr \o Pop
    OBVIOUS
  <2> HIDE DEF vc, tr
  <2>2. vcr \in Seq(Ev) /\ Keep(vcr, seen) = Keep(vc, seen) \o R
    <3>1. vcr \in Seq(Ev)
      BY <1>4, <2>1, ConcatType
    <3>2. KeepsBoth(vc, LoopExitReleases, seen)
      BY <1>4, <2>1, KeepCats
    <3> QED BY <3>1, <3>2 DEF KeepsBoth
  <2> HIDE DEF vcr
  <2>3. Keep(vcr \o Pop, seen) = Keep(vcr, seen) \o P
    <3>1. KeepsBoth(vcr, Pop, seen)
      BY <1>4, <2>2, KeepCats
    <3> QED BY <3>1 DEF KeepsBoth
  <2> HIDE DEF V, C, R, P
  <2> QED BY <2>t, <2>1, <2>2, <2>3
<1>9. out \in MOuts /\ Match(out) = <<"ret", NoLabel>> /\ out # Through
  BY DEF Form, MOuts, Match, Through
<1>10. out \in Live(Top(open), rc[Len(open)])
  BY DEF Form, Live
<1>11. ctx[Len(open)][out] = (C \o R) \o P
  <2>1. CASE form = "fail"
    BY <1>6, <1>7, <2>1 DEF Form
  <2>2. CASE form # "fail"
    BY <1>6, <1>7, <2>2 DEF Form
  <2> QED BY <2>1, <2>2
<1> HIDE DEF out, tr, D, E, R, P, V, C
<1>12. Keep(tr, seen) = V \o ctx[Len(open)][out]
  <2>a. C \o R \in Seq(Ev)
    BY <1>5, ConcatType
  <2>b. (V \o C) \o R = V \o (C \o R)
    <3>1. Regroups(V, C, R)
      BY <1>5, RegroupAll
    <3> QED BY <3>1 DEF Regroups
  <2>1. (V \o C) \o R = V \o (C \o R) /\ C \o R \in Seq(Ev)
    BY <2>a, <2>b
  <2>2. (V \o (C \o R)) \o P = V \o ((C \o R) \o P)
    <3>1. Regroups(V, (C \o R), P)
      BY <1>5, <2>1, RegroupAll
    <3> QED BY <3>1 DEF Regroups
  <2> QED BY <1>8, <1>11, <2>1, <2>2
<1>13. Rel(seen, ctx[Len(open)], Live(Top(open), rc[Len(open)]), Ends(Value, out), Ends(tr, <<"ret", NoLabel>>))
  BY <1>3, <1>9, <1>10, <1>12, RelEnds DEF V
<1>14. \A o \in Outcomes : Ends(Value, out)[o].out # Through
  <2>1. out \in Outs
    BY <1>9, MOutsAre
  <2> QED BY <1>3, <1>9, <2>1, EndsIs
<1>15. form \in StmtKinds
  BY DEF StmtKinds
<1> QED BY <1>1, <1>2, <1>3, <1>13, <1>14, <1>15, EmitSem

LEMMA TrySem ==
  ASSUME Struct, NEW seen, NEW w, View(seen, w), MixedFor(w), Sem(seen, open), Try
  PROVE  Sem(seen, open')
<1> DEFINE out == <<"fail", NoLabel>>
           run == ReturnCleanup(TRUE)
           tr == (Value \o run) \o Pop
           D == Keep(ScopeExitDefers(0), seen)
           E == Keep(Errs, seen)
           R == Keep(LoopExitReleases, seen)
           P == Keep(Pop, seen)
           V == Keep(Value, seen)
           C == Keep(run, seen)
<1>1. PICK ctx, rc : SemBy(seen, open, ctx, rc)
  BY DEF Sem
<1> DEFINE U == Live(Top(open), rc[Len(open)])
<1>2. /\ CanRead("try") /\ NotFinished /\ Emit("try", TryMeans, TryDoes)
      /\ LoopExitReleases # <<>> => "tryInFor" \in Mixed
  BY DEF Try, TryMeans, TryDoes, Value, CanRead
<1>3. TryMeans \in Prog /\ TryDoes \in Prog /\ "try" \in StmtKinds
  BY TryIs DEF StmtKinds
<1>4. /\ ScopeExitDefers(0) \in Seq(Ev) /\ Errs \in Seq(Ev)
      /\ LoopExitReleases \in Seq(Ev) /\ Pop \in Seq(Ev)
  BY ReturnParts
<1>5. /\ Value \in Seq(Ev) /\ run \in Seq(Ev) /\ tr \in Seq(Ev)
      /\ Ends(tr, <<"ret", NoLabel>>) \in Prog
  BY ReturnIs
<1>6. D \in Seq(Ev) /\ E \in Seq(Ev) /\ R \in Seq(Ev) /\ P \in Seq(Ev) /\ V \in Seq(Ev) /\ C \in Seq(Ev)
  BY <1>4, <1>5, KeepType
<1>7. ctx[Len(open)][out] = ((E \o D) \o R) \o P
  BY <1>1, <1>2, ReturnCosts
<1>8. C = E \o D
  <2>1. run = Errs \o ScopeExitDefers(0)
    BY DEF ReturnCleanup, Errs
  <2> HIDE DEF run
  <2>2. KeepsBoth(Errs, ScopeExitDefers(0), seen)
    BY <1>4, KeepCats
  <2> QED BY <2>1, <2>2 DEF KeepsBoth
<1>9. R = <<>>
  <2>1. CASE w = "release"
    <3>1. LoopExitReleases = <<>>
      BY <1>2, <2>1 DEF MixedFor
    <3> QED BY <3>1, KeepEmpty
  <2>2. CASE w # "release"
    <3>1. 0 \in Nat
      OBVIOUS
    <3> QED BY <2>2, <3>1, ExitsNone DEF LoopExitReleases
  <2> QED BY <2>1, <2>2
<1>10. Keep(tr, seen) = (V \o C) \o P
  <2> HIDE DEF run
  <2> DEFINE vc == Value \o run
  <2>1. vc \in Seq(Ev) /\ Keep(vc, seen) = V \o C
    <3>1. vc \in Seq(Ev)
      BY <1>5, ConcatType
    <3>2. KeepsBoth(Value, run, seen)
      BY <1>5, KeepCats
    <3> QED BY <3>1, <3>2 DEF KeepsBoth
  <2>t. tr = vc \o Pop
    OBVIOUS
  <2> HIDE DEF vc, tr
  <2>2. Keep(vc \o Pop, seen) = Keep(vc, seen) \o P
    <3>1. KeepsBoth(vc, Pop, seen)
      BY <1>4, <2>1, KeepCats
    <3> QED BY <3>1 DEF KeepsBoth
  <2> HIDE DEF V, C, P
  <2> QED BY <2>t, <2>1, <2>2
<1>11. out \in MOuts /\ Match(out) = <<"ret", NoLabel>> /\ out # Through
  BY DEF MOuts, Match, Through
<1>12. out \in U /\ Through \in U
  BY DEF Live
<1>13. open \in Seq(Blocks) /\ open # <<>> /\ Top(open) \in Blocks /\ count + 1 \in Nat
  BY <1>2, Reading
<1>14. ctx[Len(open)] \in Contexts /\ rc[Len(open)] \in SUBSET (Jumps \X Labels)
       /\ rc[Len(open)] = Reached(open[Len(open)], rc[Len(open) - 1])
       /\ rc[Len(open) - 1] \in SUBSET (Jumps \X Labels) /\ Top(open) = open[Len(open)]
  BY <1>1, <1>13, SemTop
<1>15. U \in SUBSET MOuts
  BY <1>13, <1>14, LiveIs
<1> HIDE DEF out, run, tr, D, E, R, P, V, C, U
<1>16. Keep(tr, seen) = V \o ctx[Len(open)][out]
  <2>1. E \o D \in Seq(Ev)
    BY <1>6, ConcatType
  <2>2. (E \o D) \o R = C
    BY <1>8, <1>9, <2>1, ConcatNone
  <2>3. (V \o C) \o P = V \o (C \o P)
    <3>1. Regroups(V, C, P)
      BY <1>6, RegroupAll
    <3> QED BY <3>1 DEF Regroups
  <2> QED BY <1>7, <1>10, <2>2, <2>3
<1>17. Rel(seen, ctx[Len(open)], U, Ends(Value, out), Ends(tr, <<"ret", NoLabel>>))
  BY <1>5, <1>11, <1>12, <1>16, RelEnds DEF V
<1>18. Rel(seen, ctx[Len(open)], U, Skip, Skip)
  BY <1>12, <1>14, RelSkip
<1>19. Ends(Value, out) \in Prog /\ Skip \in Prog
  BY <1>5, <1>11, MOutsAre, EndsIs, SkipIs
<1>20. Rel(seen, ctx[Len(open)], U, TryMeans, TryDoes)
  <2>1. Rel(seen, ctx[Len(open)], U, Choice(count + 1, Ends(Value, out), Skip),
            Choice(count + 1, Ends(tr, <<"ret", NoLabel>>), Skip))
    BY <1>5, <1>13, <1>14, <1>15, <1>17, <1>18, <1>19, RelChoice
  <2> QED BY <2>1 DEF TryMeans, TryDoes, out, tr, run
<1> QED BY <1>1, <1>2, <1>3, <1>20, EmitSem DEF U
(* A cleanup joins the innermost block: its meaning and its C stay.        *)
LEMMA DeferSem ==
  ASSUME Struct, NEW seen, Sem(seen, open), DeferStmt \/ ErrDeferStmt
  PROVE  Sem(seen, open')
<1> DEFINE b == Top(open)
           n == Len(open)
           d == [b EXCEPT !.last = "defer", !.defers = Append(@, count + 1)]
           ed == [b EXCEPT !.last = "errdefer", !.errdefers = Append(@, count + 1)]
<1>1. PICK ctx, rc : SemBy(seen, open, ctx, rc)
  BY DEF Sem
<1>2. NotFinished
  BY DEF DeferStmt, ErrDeferStmt, CanRead
<1>3. open \in Seq(Blocks) /\ open # <<>> /\ b \in Blocks /\ count + 1 \in Nat
  BY <1>2, Reading
<1>4. open' = ReplaceTop(open, d) \/ open' = ReplaceTop(open, ed)
  BY ZenonT(40) DEF DeferStmt, ErrDeferStmt
<1>5. /\ d \in Blocks /\ SameBlock(b, d) /\ d.last = "defer" /\ d.uses = b.uses
      /\ d.means = b.means /\ d.does = b.does
      /\ ed \in Blocks /\ SameBlock(b, ed) /\ ed.last = "errdefer" /\ ed.uses = b.uses
      /\ ed.means = b.means /\ ed.does = b.does
  BY <1>3, DeferredIs
<1> HIDE DEF d, ed
<1>6. ASSUME NEW b2 \in Blocks, SameBlock(b, b2), b2.last \in {"defer", "errdefer"},
             b2.uses = b.uses, b2.means = b.means, b2.does = b.does
      PROVE  Sem(seen, ReplaceTop(open, b2))
  <2> DEFINE bl2 == ReplaceTop(open, b2)
             e == ctx[n - 1]
             r == rc[n - 1]
  <2>1. n \in Nat /\ n > 0 /\ n \in 1 .. n /\ b = open[n] /\ BlockOK(seen, b, e, r)
    BY <1>1, <1>3, SemTop
  <2>2. Outer(seen, b2, e) = Outer(seen, b, e) /\ Reached(b2, r) = Reached(b, r)
    BY <1>6, OuterSame DEF SameBlock
  <2>3. Live(b2, Reached(b, r)) = Live(b, Reached(b, r))
    BY <1>6 DEF Live
  <2>4. ~EndsWithJump(b2)
    BY <1>6 DEF EndsWithJump
  <2>5. BlockOK(seen, b2, e, r)
    <3> HIDE DEF e, r, b
    <3> QED BY <1>6, <2>1, <2>2, <2>3, <2>4 DEF BlockOK, SameBlock
  <2>6. b2.k = "voidJudge" => b2.first = NoBranch
    BY <1>2, <1>6, TopNoFirst DEF SameBlock
  <2>7. bl2 \in Seq(Blocks) /\ Len(bl2) = n /\ bl2[n] = b2 /\ \A i \in 1 .. n - 1 : bl2[i] = open[i]
    BY <1>3, BlocksTop
  <2> HIDE DEF bl2
  <2>8. Cut(open, bl2, n)
    BY <1>6, <2>1, <2>6, <2>7 DEF Cut, SameBlock
  <2>9. BlockOK(seen, bl2[n], ctx[n - 1], rc[n - 1])
    BY <2>5, <2>7
  <2> HIDE DEF n
  <2>10. Sem(seen, bl2)
    BY <1>1, <1>3, <2>7, <2>8, <2>9, SemCut
  <2> QED BY <2>10 DEF bl2
<1>7. Sem(seen, ReplaceTop(open, d))
  BY <1>5, <1>6
<1>8. Sem(seen, ReplaceTop(open, ed))
  BY <1>5, <1>6
<1> QED BY <1>4, <1>7, <1>8

(* A block is opened.                                                      *)
LEMMA EnterSem ==
  ASSUME Struct, NEW k \in Kinds \cap StmtKinds, CanRead(k),
         NEW label \in Labels, NEW cond \in {"dyn", "true", "false"}, Enter(k, label, cond),
         NEW seen, Sem(seen, open)
  PROVE  Sem(seen, open')
<1> DEFINE b == Entered(k, label, cond)
<1>1. open \in Seq(Blocks)
  BY Reading DEF CanRead
<1>2. b \in Blocks /\ b.means = Skip /\ b.does = Skip /\ b.last = "none" /\ b.first = NoBranch
  BY EnteredIs
<1>3. open' = Append(open, b)
  BY DEF Enter, Entered, BlockAs
<1> HIDE DEF b
<1>4. Sem(seen, Append(open, b))
  BY <1>1, <1>2, SemAppend
<1> QED BY <1>3, <1>4

LEMMA OpenSem ==
  ASSUME Struct, NEW seen, Sem(seen, open)
  PROVE  /\ \A cond \in Conds : OpenIf(cond) => Sem(seen, open')
         /\ \A k \in Unscoped, cond \in {"dyn", "true"} : OpenArm(k, cond) => Sem(seen, open')
         /\ \A k \in LoopKinds, label \in Labels : OpenLoop(k, label) => Sem(seen, open')
<1>1. ASSUME NEW cond \in Conds, OpenIf(cond) PROVE Sem(seen, open')
  <2>1. cond \in {"dyn", "true", "false"} /\ NoLabel \in Labels /\ "if" \in Kinds \cap StmtKinds
    BY LowerAssumption DEF Labels, Kinds, StmtKinds
  <2>2. CanRead("if") /\ Enter("if", NoLabel, cond)
    BY <1>1 DEF OpenIf, CanOpen
  <2> QED BY <2>1, <2>2, EnterSem
<1>2. ASSUME NEW k \in Unscoped, NEW cond \in {"dyn", "true"}, OpenArm(k, cond)
      PROVE  Sem(seen, open')
  <2>1. /\ cond \in {"dyn", "true", "false"} /\ NoLabel \in Labels
        /\ k \in Kinds \cap StmtKinds
    BY DEF Labels, Kinds, StmtKinds, Unscoped
  <2>2. CanRead(k) /\ Enter(k, NoLabel, cond)
    BY <1>2 DEF OpenArm, CanOpen
  <2> QED BY <2>1, <2>2, EnterSem
<1>3. ASSUME NEW k \in LoopKinds, NEW label \in Labels, OpenLoop(k, label)
      PROVE  Sem(seen, open')
  <2>1. "dyn" \in {"dyn", "true", "false"} /\ k \in Kinds \cap StmtKinds
    BY DEF Kinds, StmtKinds, LoopKinds
  <2>2. CanRead(k) /\ Enter(k, label, "dyn")
    BY <1>3 DEF OpenLoop, CanOpen
  <2> QED BY <2>1, <2>2, EnterSem
<1> QED BY <1>1, <1>2, <1>3

(* The branch that has been read and the scope of its statements.          *)
LEMMA RelIdle ==
  ASSUME NEW seen, NEW e, NEW U, NEW p \in Prog, NEW q, Rel(seen, e, U, p, q)
  PROVE  Rel(seen, e, U, Chain(p, Do(<<>>)), q)
<1>1. Do(<<>>) \in Prog /\ \A o \in Outcomes : Do(<<>>)[o].tr = <<>> /\ Do(<<>>)[o].o = o /\ Do(<<>>)[o].out = Through
  BY SkipIs DEF Skip
<1> DEFINE p2 == Do(<<>>)
           r == Chain(p, p2)
<1> HIDE DEF p2
<1>2. ASSUME NEW o \in Outcomes
      PROVE  r[o].tr = p[o].tr /\ r[o].o = p[o].o /\ r[o].out = p[o].out
  <2>1. p[o].tr \in Seq(Ev) /\ p[o].o \in Outcomes
    BY ProgIs
  <2>2. CASE p[o].out = Through
    <3>1. r[o].tr = p[o].tr \o p2[p[o].o].tr /\ r[o].o = p2[p[o].o].o /\ r[o].out = p2[p[o].o].out
      BY <1>1, <2>2, ChainIs DEF p2
    <3>2. p[o].tr \o <<>> = p[o].tr
      BY <2>1, ConcatNone
    <3> QED BY <1>1, <2>1, <2>2, <3>1, <3>2 DEF p2
  <2>3. CASE p[o].out # Through
    <3>1. r[o] = p[o]
      BY <1>1, <2>3, ChainIs DEF p2
    <3> QED BY <3>1
  <2> QED BY <2>2, <2>3
<1> HIDE DEF r
<1>3. Rel(seen, e, U, r, q)
  BY <1>2 DEF Rel
<1> QED BY <1>3 DEF r, p2

LEMMA ScopeRel ==
  ASSUME Struct, NotFinished, NEW seen, NEW ctx, NEW rc, SemBy(seen, open, ctx, rc)
  PROVE  LET b == Top(open)
             e == ctx[Len(open) - 1]
             o == Outer(seen, b, e)
             u == Live(b, Reached(b, rc[Len(open) - 1]))
         IN /\ b.k \in Unscoped => Rel(seen, o, u, Scope(b), b.does)
            /\ b.k \notin Unscoped => Rel(seen, o, u, Scope(b), ScopedBody(b))
            /\ EndsWithJump(b) => \A s \in Outcomes : Scope(b)[s].out # Through
            /\ o \in Contexts /\ u \in SUBSET MOuts /\ Through \in u
<1> DEFINE b == Top(open)
           e == ctx[Len(open) - 1]
           r == rc[Len(open) - 1]
           o == Outer(seen, b, e)
           u == Live(b, Reached(b, r))
           cl == Cleanups("defer", b.defers)
<1>1. open \in Seq(Blocks) /\ open # <<>> /\ b \in Blocks
  BY Reading
<1>2. e \in Contexts /\ r \in SUBSET (Jumps \X Labels) /\ BlockOK(seen, b, e, r)
  BY <1>1, SemTop
<1>3. o \in Contexts /\ u \in SUBSET MOuts /\ Through \in u
  BY <1>1, <1>2, OuterIs, LiveIs
<1>4. Rel(seen, o, u, b.means, b.does) /\ (EndsWithJump(b) => \A s \in Outcomes : b.means[s].out # Through)
  BY <1>2 DEF BlockOK
<1>5. b.means \in Prog /\ b.does \in Prog /\ cl \in Seq(Ev) /\ Do(cl) \in Prog
  BY <1>1, BlockIs, ScopeIs, DoIs
<1>6. b.k \notin Unscoped => Top(defers) = b.defers
  BY TopNoFirst
<1>7. b.k \in Unscoped => cl = <<>>
  <2>1. b.k \in Unscoped => b.defers = <<>>
    BY TopNoFirst
  <2>2. b.defers \in Seq(Nat)
    BY <1>1, BlockIs
  <2> QED BY <2>1, <2>2, CleanupsAre
<1> DEFINE p2 == Do(cl)
<1>8. Scope(b) = Chain(b.means, p2)
  BY DEF Scope
<1>s. ScopedBody(b) = IF EndsWithJump(b) THEN b.does ELSE Chain(b.does, Do(Cleanups("defer", Top(defers))))
  BY DEF ScopedBody
<1> HIDE DEF b, e, r, o, u
<1>9. EndsWithJump(b) => \A s \in Outcomes : Scope(b)[s].out # Through
  <2> SUFFICES ASSUME EndsWithJump(b), NEW s \in Outcomes PROVE Scope(b)[s].out # Through
    OBVIOUS
  <2>1. b.means[s].out # Through
    BY <1>4
  <2> HIDE DEF p2
  <2>2. Chain(b.means, p2)[s] = b.means[s]
    BY <1>5, <2>1, ChainIs DEF p2
  <2> QED BY <1>8, <2>1, <2>2
<1>10. ASSUME b.k \in Unscoped PROVE Rel(seen, o, u, Scope(b), b.does)
  <2>1. Scope(b) = Chain(b.means, Do(<<>>))
    BY <1>7, <1>8, <1>10
  <2> QED BY <1>4, <1>5, <2>1, RelIdle
<1>11. ASSUME b.k \notin Unscoped PROVE Rel(seen, o, u, Scope(b), ScopedBody(b))
  <2>1. CASE EndsWithJump(b)
    <3>1. ScopedBody(b) = b.does
      BY <1>s, <2>1
    <3> HIDE DEF p2
    <3>2. Rel(seen, o, u, Chain(b.means, p2), b.does)
      BY <1>4, <1>5, <2>1, RelNever DEF p2
    <3> QED BY <1>8, <3>1, <3>2
  <2>2. CASE ~EndsWithJump(b)
    <3>1. ScopedBody(b) = Chain(b.does, p2)
      BY <1>s, <1>6, <1>11, <2>2
    <3> HIDE DEF cl
    <3>2. Rel(seen, o, u, p2, p2)
      BY <1>3, <1>5, RelDo
    <3> HIDE DEF p2
    <3>3. Rel(seen, o, u, Chain(b.means, p2), Chain(b.does, p2))
      BY <1>3, <1>4, <1>5, <3>2, RelChain DEF p2
    <3> QED BY <1>8, <3>1, <3>3
  <2> QED BY <2>1, <2>2
<1> QED BY <1>3, <1>9, <1>10, <1>11 DEF b, e, r, o, u

LEMMA BranchRel ==
  ASSUME Struct, NotFinished, NEW seen, NEW ctx, NEW rc, SemBy(seen, open, ctx, rc),
         Top(open).k \in Branching
  PROVE  LET b == Top(open)
             o == Outer(seen, b, ctx[Len(open) - 1])
             u == Live(b, Reached(b, rc[Len(open) - 1]))
         IN /\ Rel(seen, o, u, Branch(b).means, Branch(b).does)
            /\ Rel(seen, o, u, First(b).means, First(b).does)
            /\ Rel(seen, o, u, Second(b).means, Second(b).does)
<1> DEFINE b == Top(open)
           o == Outer(seen, b, ctx[Len(open) - 1])
           u == Live(b, Reached(b, rc[Len(open) - 1]))
<1>1. /\ b.k \in Unscoped => Rel(seen, o, u, Scope(b), b.does)
      /\ b.k \notin Unscoped => Rel(seen, o, u, Scope(b), ScopedBody(b))
      /\ o \in Contexts /\ Through \in u
  BY ScopeRel
<1>2. BlockOK(seen, b, ctx[Len(open) - 1], rc[Len(open) - 1])
  BY Reading, SemTop
<1>3. b.first # NoBranch => Rel(seen, o, u, b.first.means, b.first.does)
  BY <1>2 DEF BlockOK
<1>4. b.k = "if" <=> b.k \notin Unscoped
  BY DEF Branching, Unscoped
<1>5. Branch(b).means = Scope(b) /\ Branch(b).does = IF b.k = "if" THEN ScopedBody(b) ELSE b.does
  BY DEF Branch
<1>6. Empty.means = Skip /\ Empty.does = Skip
  BY DEF Empty
<1> HIDE DEF b, o, u
<1>7. Rel(seen, o, u, Branch(b).means, Branch(b).does)
  BY <1>1, <1>4, <1>5
<1>8. Rel(seen, o, u, Empty.means, Empty.does)
  BY <1>1, <1>6, RelSkip
<1>9. Rel(seen, o, u, First(b).means, First(b).does)
  BY <1>3, <1>7 DEF First
<1>10. Rel(seen, o, u, Second(b).means, Second(b).does)
  BY <1>7, <1>8 DEF Second
<1> QED BY <1>7, <1>9, <1>10 DEF b, o, u

LEMMA ElseSem ==
  ASSUME Struct, "voidElse" \notin Mixed, NEW seen, Sem(seen, open), Else
  PROVE  Sem(seen, open')
<1> DEFINE b == Top(open)
           n == Len(open)
           b2 == ElseBlock(b)
           bl2 == ReplaceTop(open, b2)
<1>1. PICK ctx, rc : SemBy(seen, open, ctx, rc)
  BY DEF Sem
<1> DEFINE e == ctx[n - 1]
           r == rc[n - 1]
<1>2. /\ NotFinished /\ b.k \in Branching /\ b.k # "voidJudge"
      /\ open' = bl2
  BY DEF Else, Closes, ElseBlock
<1>3. open \in Seq(Blocks) /\ open # <<>> /\ b \in Blocks
  BY <1>2, Reading
<1>4. /\ b2 \in Blocks /\ b2.k = b.k /\ b2.n = b.n /\ b2.label = b.label
      /\ b2.last = "none" /\ b2.uses = b.uses /\ b2.means = Skip /\ b2.does = Skip
      /\ b2.first = Branch(b)
  BY <1>2, ElseBlockIs
<1>5. n \in Nat /\ n > 0 /\ n \in 1 .. n /\ b = open[n]
  BY <1>3, <1>1, SemTop
<1>6. /\ Rel(seen, Outer(seen, b, e), Live(b, Reached(b, r)), Branch(b).means, Branch(b).does)
      /\ Outer(seen, b, e) \in Contexts /\ Through \in Live(b, Reached(b, r))
  BY <1>1, <1>2, BranchRel, ScopeRel
<1>7. bl2 \in Seq(Blocks) /\ Len(bl2) = n /\ bl2[n] = b2 /\ \A i \in 1 .. n - 1 : bl2[i] = open[i]
  BY <1>3, <1>4, BlocksTop
<1> HIDE DEF b2, bl2, b, n, e, r
<1>8. BlockOK(seen, b2, e, r)
  <2>1. Outer(seen, b2, e) = Outer(seen, b, e) /\ Reached(b2, r) = Reached(b, r)
    BY <1>4, OuterSame
  <2>2. Live(b2, Reached(b, r)) = Live(b, Reached(b, r))
    BY <1>4 DEF Live
  <2>3. ~EndsWithJump(b2)
    BY <1>4 DEF EndsWithJump
  <2>4. Rel(seen, Outer(seen, b, e), Live(b, Reached(b, r)), Skip, Skip)
    BY <1>6, RelSkip
  <2> QED BY <1>4, <1>6, <2>1, <2>2, <2>3, <2>4 DEF BlockOK
<1>9. Cut(open, bl2, n)
  BY <1>2, <1>4, <1>5, <1>7 DEF Cut, n
<1>10. BlockOK(seen, bl2[n], ctx[n - 1], rc[n - 1])
  BY <1>7, <1>8 DEF e, r
<1>11. Sem(seen, bl2)
  BY <1>1, <1>3, <1>7, <1>9, <1>10, SemCut
<1> QED BY <1>2, <1>11
-----------------------------------------------------------------------------
(* Blocks that close.                                                      *)

(* A block that is no loop leaves nothing of its own to what is around it. *)
LEMMA LeaveSem ==
  ASSUME Struct, NotFinished, Top(open).k \notin LoopKinds, Top(open).k # "weave",
         NEW means \in Prog, NEW does \in Prog, Leave(means, does),
         NEW seen, NEW ctx, NEW rc, SemBy(seen, open, ctx, rc),
         Rel(seen, Outer(seen, Top(open), ctx[Len(open) - 1]),
             Live(Top(open), Reached(Top(open), rc[Len(open) - 1])), means, does),
         Top(open).k = "returnOr" => \A s \in Outcomes : means[s].out # Through
  PROVE  Sem(seen, open')
<1> DEFINE b == Top(open)
           e == ctx[Len(open) - 1]
           r == rc[Len(open) - 1]
           o == Outer(seen, b, e)
           u == Live(b, Reached(b, r))
           a2 == LeaveBlock(means, does)
<1>1. open \in Seq(Blocks) /\ open # <<>> /\ b \in Blocks
  BY Reading
<1>2. e \in Contexts /\ r \in SUBSET (Jumps \X Labels) /\ b.k \notin LoopKinds
  BY <1>1, SemTop
<1>3. b.uses \subseteq a2.uses
  BY LeaveBlockIs
<1>4. Rel(seen, o, u, means, does)
  OBVIOUS
<1> HIDE DEF b, e, r, o, u, a2
<1>5. Reached(b, r) \subseteq r
  BY <1>2 DEF Reached
<1>6. u \subseteq Live(a2, r) /\ u \in SUBSET MOuts
  BY <1>1, <1>2, <1>3, <1>5, LiveWider, LiveIs DEF u
<1>7. \A x \in u : o[x] = e[x]
  <2> SUFFICES ASSUME NEW x \in u PROVE o[x] = e[x]
    OBVIOUS
  <2>1. x \in MOuts /\ e[x] \in Seq(Ev) /\ e[Through] = <<>>
    BY <1>2, <1>6 DEF Contexts
  <2>2. Outer(seen, b, e)[x] = IF Catches(b, x) THEN <<>> ELSE Keep(Owned(b), seen) \o e[x]
    BY <1>1, <1>2, <2>1, OuterIs
  <2>3. Catches(b, x) <=> x = Through
    BY <1>2 DEF Catches
  <2>4. Keep(Owned(b), seen) = <<>>
    BY <1>2, KeepEmpty DEF Owned, LoopKinds
  <2>5. <<>> \o e[x] = e[x]
    BY <2>1, ConcatNone
  <2> QED BY <2>1, <2>2, <2>3, <2>4, <2>5 DEF o
<1>8. Rel(seen, e, Live(a2, r), means, does)
  BY <1>4, <1>6, <1>7, RelWider
<1>9. open' = Append(SubSeq(open, 1, Len(open) - 2), a2)
  BY DEF Leave, LeaveBlock, Around, a2
<1>10. Sem(seen, Append(SubSeq(open, 1, Len(open) - 2), a2))
  BY <1>8, SemLeave DEF a2, e, r
<1> QED BY <1>9, <1>10

(* A block that is no scope and no loop has nothing to run on a return: what *)
(* is to come outside it is what is to come inside it.                     *)
LEMMA OuterReturns ==
  ASSUME Struct, NotFinished, Top(open).k \in Unscoped,
         NEW seen, NEW ctx, NEW rc, SemBy(seen, open, ctx, rc),
         NEW x \in {<<"return", NoLabel>>, <<"fail", NoLabel>>}
  PROVE  Outer(seen, Top(open), ctx[Len(open) - 1])[x] = ctx[Len(open)][x]
<1> DEFINE b == Top(open)
           e == ctx[Len(open) - 1]
           o == Outer(seen, b, e)
<1>1. b \in Blocks /\ b.defers = <<>> /\ b.errdefers = <<>> /\ <<>> \in Seq(Nat)
  BY Reading, TopNoFirst
<1>2. e \in Contexts /\ ctx[Len(open)] = Inner(seen, b, e)
  BY Reading, SemTop
<1>3. x \in MOuts
  BY DEF MOuts
<1> HIDE DEF b, e
<1>4. o \in Contexts /\ Inner(seen, b, e)[x] = Keep(Unwound(b, x), seen) \o o[x]
  BY <1>1, <1>2, <1>3, OuterIs
<1>5. Unwound(b, x) = <<>>
  <2>1. Cleanups("defer", <<>>) = <<>> /\ Cleanups("errdefer", <<>>) = <<>>
    BY <1>1, CleanupsAre
  <2>2. <<>> \o <<>> = <<>>
    OBVIOUS
  <2> QED BY <1>1, <2>1, <2>2 DEF Unwound
<1>6. o[x] \in Seq(Ev)
  BY <1>3, <1>4 DEF Contexts
<1> HIDE DEF o
<1>7. <<>> \o o[x] = o[x]
  BY <1>6, ConcatNone
<1> QED BY <1>2, <1>4, <1>5, <1>7, KeepEmpty DEF b, e, o

(* What follows both branches of a test may as well be written in each.    *)
SameRuns(p, q) ==
  \A o \in Outcomes : p[o].tr = q[o].tr /\ p[o].o = q[o].o /\ p[o].out = q[o].out

LEMMA RelSame ==
  ASSUME NEW seen, NEW e, NEW U, NEW p, NEW q, NEW q2, Rel(seen, e, U, p, q), SameRuns(q, q2)
  PROVE  Rel(seen, e, U, p, q2)
BY DEF Rel, SameRuns

Goes(p, q, o) ==
  /\ Chain(p, q)[o].tr = p[o].tr \o q[p[o].o].tr
  /\ Chain(p, q)[o].o = q[p[o].o].o /\ Chain(p, q)[o].out = q[p[o].o].out

LEMMA ChainGoes ==
  ASSUME NEW p \in Prog, NEW q \in Prog, NEW o \in Outcomes, p[o].out = Through
  PROVE  Goes(p, q, o)
BY ChainIs DEF Goes

Takes(n, p, q, z, o) ==
  /\ Choice(n, p, q)[o].tr = Test(n) \o z[Rest(o)].tr
  /\ Choice(n, p, q)[o].o = z[Rest(o)].o /\ Choice(n, p, q)[o].out = z[Rest(o)].out

LEMMA ChoiceTakes ==
  ASSUME NEW n \in Nat, NEW p \in Prog, NEW q \in Prog, NEW o \in Outcomes,
         NEW z, IF Holds(o) THEN z = p ELSE z = q
  PROVE  Takes(n, p, q, z, o)
<1>1. CASE Holds(o)
  BY <1>1, ChoiceIs DEF Takes
<1>2. CASE ~Holds(o)
  BY <1>2, ChoiceIs DEF Takes
<1> QED BY <1>1, <1>2

LEMMA ChainOfChoice ==
  ASSUME NEW n \in Nat, NEW p \in Prog, NEW q \in Prog, NEW x \in Prog
  PROVE  SameRuns(Choice(n, Chain(p, x), Chain(q, x)), Chain(Choice(n, p, q), x))
<1> DEFINE ch == Choice(n, p, q)
           c == Chain(ch, x)
           px == Chain(p, x)
           qx == Chain(q, x)
           d == Choice(n, px, qx)
           s == Test(n)
<1>1. ch \in Prog /\ px \in Prog /\ qx \in Prog /\ s \in Seq(Ev)
  BY ChoiceIs, ChainIs, TestIs
<1> SUFFICES ASSUME NEW o \in Outcomes
             PROVE  d[o].tr = c[o].tr /\ d[o].o = c[o].o /\ d[o].out = c[o].out
  BY DEF SameRuns
<1>2. PICK z \in {p, q} : IF Holds(o) THEN z = p ELSE z = q
  OBVIOUS
<1> DEFINE t == Rest(o)
           zx == Chain(z, x)
<1>3. t \in Outcomes /\ z \in Prog /\ zx \in Prog
  BY <1>2, OutcomesAre, ChainIs
<1>4. ch[o].tr = s \o z[t].tr /\ ch[o].o = z[t].o /\ ch[o].out = z[t].out
  BY <1>2, ChoiceIs
<1>5. d[o].tr = s \o zx[t].tr /\ d[o].o = zx[t].o /\ d[o].out = zx[t].out
  <2>1. IF Holds(o) THEN zx = px ELSE zx = qx
    BY <1>2
  <2> HIDE DEF zx, px, qx
  <2>2. Takes(n, px, qx, zx, o)
    BY <1>1, <2>1, ChoiceTakes
  <2> QED BY <2>2 DEF Takes
<1>6. z[t].tr \in Seq(Ev) /\ z[t].o \in Outcomes /\ x[z[t].o].tr \in Seq(Ev)
  BY <1>3, ProgIs
<1> HIDE DEF ch, px, qx, d, s, t
<1>7. CASE z[t].out = Through
  <2>1. /\ zx[t].tr = z[t].tr \o x[z[t].o].tr /\ zx[t].o = x[z[t].o].o
        /\ zx[t].out = x[z[t].o].out
    BY <1>3, <1>7, ChainIs
  <2>2. /\ c[o].tr = ch[o].tr \o x[ch[o].o].tr /\ c[o].o = x[ch[o].o].o
        /\ c[o].out = x[ch[o].o].out
    <3>1. ch[o].out = Through
      BY <1>4, <1>7
    <3>2. Goes(ch, x, o)
      BY <1>1, <3>1, ChainGoes
    <3> QED BY <3>2 DEF Goes
  <2>3. (s \o z[t].tr) \o x[z[t].o].tr = s \o (z[t].tr \o x[z[t].o].tr)
    <3>1. Regroups(s, z[t].tr, x[z[t].o].tr)
      BY <1>1, <1>6, RegroupAll, Zenon
    <3> QED BY <3>1 DEF Regroups
  <2> HIDE DEF c, zx
  <2> QED BY <1>4, <1>5, <2>1, <2>2, <2>3
<1>8. CASE z[t].out # Through
  <2>1. zx[t] = z[t]
    BY <1>3, <1>8, ChainIs
  <2>2. c[o] = ch[o]
    <3>1. ch[o].out # Through
      BY <1>4, <1>8
    <3>2. Stops(ch, x, o)
      BY <1>1, <3>1, ChainStops
    <3> QED BY <3>2 DEF Stops
  <2> HIDE DEF c, zx
  <2> QED BY <1>4, <1>5, <2>1, <2>2
<1> QED BY <1>7, <1>8

LEMMA SkipChain ==
  ASSUME NEW x \in Prog
  PROVE  SameRuns(x, Chain(Skip, x))
<1> SUFFICES ASSUME NEW o \in Outcomes
             PROVE  LET c == Chain(Skip, x)[o]
                    IN x[o].tr = c.tr /\ x[o].o = c.o /\ x[o].out = c.out
  BY DEF SameRuns
<1> DEFINE p == Skip
<1>1. p \in Prog /\ p[o].tr = <<>> /\ p[o].o = o /\ p[o].out = Through
  BY SkipIs
<1> HIDE DEF p
<1>2. /\ Chain(p, x)[o].tr = p[o].tr \o x[o].tr /\ Chain(p, x)[o].o = x[o].o
      /\ Chain(p, x)[o].out = x[o].out
  <2>1. Goes(p, x, o)
    BY <1>1, ChainGoes
  <2> QED BY <1>1, <2>1 DEF Goes
<1>3. <<>> \o x[o].tr = x[o].tr
  BY ProgIs, ConcatNone
<1> QED BY <1>1, <1>2, <1>3 DEF p

(* What a returned operand with a block leaves by, seen without errdefers:   *)
(* the value, the defers of every scope, the lists of every loop, the frame. *)
LEMMA ReturnOrCosts ==
  ASSUME Struct, NotFinished, NEW seen, NEW w, View(seen, w), MixedFor(w),
         Errs # <<>> => "returnOr" \in Mixed,
         NEW ctx, NEW rc, SemBy(seen, open, ctx, rc),
         NEW x \in {<<"return", NoLabel>>, <<"fail", NoLabel>>}
  PROVE  Keep(OrExit(Top(open)), seen) = Keep(OrValue(Top(open)), seen) \o ctx[Len(open)][x]
<1> DEFINE val == OrValue(Top(open))
           run == ReturnCleanup(TRUE)
           D == Keep(ScopeExitDefers(0), seen)
           E == Keep(Errs, seen)
           R == Keep(LoopExitReleases, seen)
           P == Keep(Pop, seen)
           V == Keep(val, seen)
<1>1. val \in Seq(Ev) /\ run \in Seq(Ev)
  BY ReturnOrIs
<1>2. /\ ScopeExitDefers(0) \in Seq(Ev) /\ Errs \in Seq(Ev)
      /\ LoopExitReleases \in Seq(Ev) /\ Pop \in Seq(Ev)
  BY ReturnParts
<1>3. D \in Seq(Ev) /\ E \in Seq(Ev) /\ R \in Seq(Ev) /\ P \in Seq(Ev) /\ V \in Seq(Ev)
  BY <1>1, <1>2, KeepType
<1>4. E = <<>>
  <2>1. CASE w = "errdefer"
    <3>1. Errs = <<>>
      BY <2>1 DEF MixedFor
    <3> QED BY <3>1, KeepEmpty
  <2>2. CASE w # "errdefer"
    <3>1. 0 \in Nat
      OBVIOUS
    <3> QED BY <2>2, <3>1, ExitsNone DEF Errs
  <2> QED BY <2>1, <2>2
<1>5. Keep(run, seen) = D
  <2>1. run = Errs \o ScopeExitDefers(0)
    BY DEF ReturnCleanup, Errs
  <2> HIDE DEF run
  <2>2. KeepsBoth(Errs, ScopeExitDefers(0), seen)
    BY <1>2, KeepCats
  <2>3. <<>> \o D = D
    BY <1>3, ConcatNone
  <2> QED BY <1>4, <2>1, <2>2, <2>3 DEF KeepsBoth
<1>6. ctx[Len(open)][x] = (D \o R) \o P
  <2>1. /\ ctx[Len(open)][<<"return", NoLabel>>] = (D \o R) \o P
        /\ ctx[Len(open)][<<"fail", NoLabel>>] = ((E \o D) \o R) \o P
    BY ReturnCosts
  <2> HIDE DEF D, E, R, P
  <2>2. E \o D = D
    BY <1>3, <1>4, ConcatNone
  <2> QED BY <2>1, <2>2
<1> DEFINE vc == val \o run
           vcr == vc \o LoopExitReleases
<1>7. OrExit(Top(open)) = vcr \o Pop
  BY DEF OrExit
<1> HIDE DEF val, run
<1>8. vc \in Seq(Ev) /\ Keep(vc, seen) = V \o D
  <2>1. vc \in Seq(Ev)
    BY <1>1, ConcatType
  <2>2. KeepsBoth(val, run, seen)
    BY <1>1, KeepCats
  <2> QED BY <1>5, <2>1, <2>2 DEF KeepsBoth
<1> HIDE DEF vc
<1>9. vcr \in Seq(Ev) /\ Keep(vcr, seen) = Keep(vc, seen) \o R
  <2>1. vcr \in Seq(Ev)
    BY <1>2, <1>8, ConcatType
  <2>2. KeepsBoth(vc, LoopExitReleases, seen)
    BY <1>2, <1>8, KeepCats
  <2> QED BY <2>1, <2>2 DEF KeepsBoth
<1> HIDE DEF vcr
<1>10. Keep(vcr \o Pop, seen) = Keep(vcr, seen) \o P
  <2>1. KeepsBoth(vcr, Pop, seen)
    BY <1>2, <1>9, KeepCats
  <2> QED BY <2>1 DEF KeepsBoth
<1> HIDE DEF D, E, R, P, V
<1>11. ((V \o D) \o R) \o P = V \o ((D \o R) \o P)
  <2>1. (V \o D) \o R = V \o (D \o R)
    <3>1. Regroups(V, D, R)
      BY <1>3, RegroupAll
    <3> QED BY <3>1 DEF Regroups
  <2>2. D \o R \in Seq(Ev)
    BY <1>3, ConcatType
  <2>3. (V \o (D \o R)) \o P = V \o ((D \o R) \o P)
    <3>1. Regroups(V, (D \o R), P)
      BY <1>3, <2>2, RegroupAll
    <3> QED BY <3>1 DEF Regroups
  <2> QED BY <2>1, <2>3
<1> QED BY <1>6, <1>7, <1>8, <1>9, <1>10, <1>11 DEF V, val

LEMMA ReturnOrSem ==
  ASSUME Struct, NEW seen, NEW w, View(seen, w), MixedFor(w), Sem(seen, open), CloseReturnOr
  PROVE  Sem(seen, open')
<1> DEFINE b == Top(open)
           ret == <<"return", NoLabel>>
           fail == <<"fail", NoLabel>>
           val == OrValue(b)
           body == Scope(b)
           x == OrLeaves(b)
<1>1. PICK ctx, rc : SemBy(seen, open, ctx, rc)
  BY DEF Sem
<1> DEFINE e == ctx[Len(open) - 1]
           o == Outer(seen, b, e)
           u == Live(b, Reached(b, rc[Len(open) - 1]))
<1>2. /\ NotFinished /\ b.k = "returnOr" /\ Leave(ReturnOrMeans(b), ReturnOrDoes(b))
      /\ Errs # <<>> => "returnOr" \in Mixed
  BY ReturnOrLeaves DEF Errs
<1>3. b.k \in Unscoped /\ b.k \notin LoopKinds /\ b.k # "weave"
  BY <1>2 DEF Unscoped, LoopKinds
<1>4. /\ Rel(seen, o, u, body, b.does)
      /\ o \in Contexts /\ u \in SUBSET MOuts /\ Through \in u
  BY <1>1, <1>2, <1>3, ScopeRel
<1>5. ret \in u /\ fail \in u
  BY DEF Live
<1>6. /\ val \in Seq(Ev) /\ OrExit(b) \in Seq(Ev) /\ Ends(val, ret) \in Prog /\ Ends(val, fail) \in Prog
      /\ OrFails(b) \in Prog /\ x \in Prog /\ ReturnOrMeans(b) \in Prog /\ ReturnOrDoes(b) \in Prog
  BY <1>2, ReturnOrIs
<1>7. b.n \in Nat /\ b.does \in Prog /\ body \in Prog /\ Skip \in Prog
  BY <1>2, Reading, BlockIs, BranchIs, SkipIs
<1>8. /\ Keep(OrExit(b), seen) = Keep(val, seen) \o o[ret]
      /\ Keep(OrExit(b), seen) = Keep(val, seen) \o o[fail]
  <2>1. o[ret] = ctx[Len(open)][ret] /\ o[fail] = ctx[Len(open)][fail]
    BY <1>1, <1>2, <1>3, OuterReturns
  <2>2. /\ Keep(OrExit(b), seen) = Keep(val, seen) \o ctx[Len(open)][ret]
        /\ Keep(OrExit(b), seen) = Keep(val, seen) \o ctx[Len(open)][fail]
    BY <1>1, <1>2, ReturnOrCosts
  <2> QED BY <2>1, <2>2
<1>9. /\ ret \in MOuts /\ fail \in MOuts /\ ret # Through /\ fail # Through
      /\ Match(ret) = <<"ret", NoLabel>> /\ Match(fail) = <<"ret", NoLabel>>
  BY DEF MOuts, Match, Through
<1> HIDE DEF b, e, o, u, val, body, ret, fail
<1>10. Rel(seen, o, u, Ends(val, ret), x) /\ Rel(seen, o, u, Ends(val, fail), x)
  BY <1>5, <1>6, <1>8, <1>9, RelEnds DEF x, OrLeaves
<1> HIDE DEF x
<1>11. Rel(seen, o, u, OrFails(b), Chain(b.does, x))
  <2>1. Rel(seen, o, u, Chain(body, Ends(val, fail)), Chain(b.does, x))
    BY <1>4, <1>6, <1>7, <1>10, RelChain
  <2> QED BY <2>1 DEF OrFails, body, val, fail
<1>12. Rel(seen, o, u, Ends(val, ret), Chain(Skip, x))
  BY <1>6, <1>10, SkipChain, RelSame
<1>13. Rel(seen, o, u, ReturnOrMeans(b), ReturnOrDoes(b))
  <2>1. Chain(b.does, x) \in Prog /\ Chain(Skip, x) \in Prog
    BY <1>6, <1>7, ChainIs
  <2>2. Rel(seen, o, u, Choice(b.n, OrFails(b), Ends(val, ret)), Choice(b.n, Chain(b.does, x), Chain(Skip, x)))
    BY <1>4, <1>6, <1>7, <1>11, <1>12, <2>1, RelChoice
  <2>3. SameRuns(Choice(b.n, Chain(b.does, x), Chain(Skip, x)), Chain(Choice(b.n, b.does, Skip), x))
    BY <1>6, <1>7, ChainOfChoice
  <2>4. Rel(seen, o, u, Choice(b.n, OrFails(b), Ends(val, ret)), Chain(Choice(b.n, b.does, Skip), x))
    BY <2>2, <2>3, RelSame
  <2> QED BY <2>4 DEF ReturnOrMeans, ReturnOrDoes, val, ret, x
<1>14. \A s \in Outcomes : ReturnOrMeans(b)[s].out # Through
  <2>1. \A s \in Outcomes : Ends(val, ret)[s].out # Through /\ Ends(val, fail)[s].out # Through
    BY <1>6, <1>9, MOutsAre, EndsIs
  <2>2. \A s \in Outcomes : OrFails(b)[s].out # Through
    <3> SUFFICES ASSUME NEW s \in Outcomes PROVE OrFails(b)[s].out # Through
      OBVIOUS
    <3> DEFINE f == Ends(val, fail)
    <3>1. f \in Prog /\ OrFails(b) = Chain(body, f) /\ body[s].o \in Outcomes
      BY <1>6, <1>7, ProgIs DEF OrFails, body, val, fail
    <3>2. f[body[s].o].out # Through
      BY <2>1, <3>1
    <3> HIDE DEF f
    <3>3. CASE body[s].out = Through
      <4>1. Chain(body, f)[s].out = f[body[s].o].out
        BY <1>7, <3>1, <3>3, ChainIs
      <4> QED BY <3>1, <3>2, <4>1
    <3>4. CASE body[s].out # Through
      <4>1. Stops(body, f, s)
        BY <1>7, <3>1, <3>4, ChainStops
      <4> QED BY <3>1, <3>4, <4>1 DEF Stops
    <3> QED BY <3>3, <3>4
  <2> SUFFICES ASSUME NEW s \in Outcomes PROVE ReturnOrMeans(b)[s].out # Through
    OBVIOUS
  <2> DEFINE g == Ends(val, ret)
  <2>3. ReturnOrMeans(b) = Choice(b.n, OrFails(b), g) /\ g \in Prog /\ Rest(s) \in Outcomes
    BY <1>6, OutcomesAre DEF ReturnOrMeans, val, ret
  <2>4. g[Rest(s)].out # Through /\ OrFails(b)[Rest(s)].out # Through
    BY <2>1, <2>2, <2>3
  <2> HIDE DEF g
  <2>5. Choice(b.n, OrFails(b), g)[s].out
          = (IF Holds(s) THEN OrFails(b)[Rest(s)] ELSE g[Rest(s)]).out
    BY <1>6, <1>7, <2>3, ChoiceIs
  <2> QED BY <2>3, <2>4, <2>5
<1> QED BY <1>1, <1>2, <1>3, <1>6, <1>13, <1>14, LeaveSem DEF b, e, o, u

LEMMA RelFolded ==
  ASSUME NEW seen, NEW e \in Contexts, NEW U \in SUBSET MOuts, NEW n \in Nat, NEW cond,
         NEW p \in Prog, NEW q \in Prog, NEW p2 \in Prog, NEW q2 \in Prog,
         Rel(seen, e, U, p, q), Rel(seen, e, U, p2, q2)
  PROVE  Rel(seen, e, U, Folded(cond, n, p, p2), Folded(cond, n, q, q2))
<1>1. Rel(seen, e, U, Choice(n, p, p2), Choice(n, q, q2))
  BY RelChoice
<1> QED BY <1>1 DEF Folded

LEMMA CloseSem ==
  ASSUME Struct, NEW seen, Sem(seen, open), CloseIf \/ CloseArm \/ CloseJudge
  PROVE  Sem(seen, open')
<1> DEFINE b == Top(open)
<1>1. PICK ctx, rc : SemBy(seen, open, ctx, rc)
  BY DEF Sem
<1> DEFINE o == Outer(seen, b, ctx[Len(open) - 1])
           u == Live(b, Reached(b, rc[Len(open) - 1]))
<1>2. NotFinished
  BY DEF CloseIf, CloseArm, CloseJudge, Closes
<1>3. open \in Seq(Blocks) /\ open # <<>> /\ b \in Blocks /\ b.n \in Nat /\ b.does \in Prog
  BY <1>2, Reading, BlockIs
<1>4. o \in Contexts /\ u \in SUBSET MOuts /\ Through \in u
  BY <1>1, <1>2, ScopeRel
<1>5. First(b) \in Branches /\ Second(b) \in Branches /\ Scope(b) \in Prog
  BY <1>2, BranchIs
<1>6. /\ First(b).means \in Prog /\ First(b).does \in Prog
      /\ Second(b).means \in Prog /\ Second(b).does \in Prog
  BY <1>5 DEF Branches
<1>7. b.k \in Branching => /\ Rel(seen, o, u, First(b).means, First(b).does)
                           /\ Rel(seen, o, u, Second(b).means, Second(b).does)
  BY <1>1, <1>2, BranchRel
<1>8. b.k \in Unscoped => Rel(seen, o, u, Scope(b), b.does)
  BY <1>1, <1>2, ScopeRel
<1>9. Rel(seen, o, u, Skip, Skip) /\ Skip \in Prog
  BY <1>4, RelSkip, SkipIs
<1>t. /\ IfMeans(b) \in Prog /\ IfDoes(b) \in Prog /\ ArmMeans(b) \in Prog
      /\ ArmDoes(b) \in Prog /\ JudgeMeans(b) \in Prog /\ JudgeDoes(b) \in Prog
      /\ Written(b) \in Prog
  BY <1>2, CloseTypes
<1>k. b.k = "switch" => <<"break", NoLabel>> \notin u
  <2> SUFFICES ASSUME b.k = "switch" PROVE <<"break", NoLabel>> \notin u
    OBVIOUS
  <2>1. <<"break", NoLabel>> \notin Reached(b, rc[Len(open) - 1])
    BY DEF Reached, LoopKinds
  <2>2. <<"break", NoLabel>> \notin {Through, <<"return", NoLabel>>, <<"fail", NoLabel>>}
    BY DEF Through
  <2> QED BY <2>1, <2>2 DEF Live
<1>v. b.k = "voidJudge" => b.first = NoBranch
  BY <1>2, TopNoFirst
<1>10. CASE CloseIf
  <2>1. b.k = "if" /\ Leave(IfMeans(b), IfDoes(b))
    BY <1>10 DEF CloseIf, Closes, IfMeans, IfDoes
  <2> HIDE DEF b, o, u
  <2>2. Rel(seen, o, u, IfMeans(b), IfDoes(b))
    BY <1>3, <1>4, <1>6, <1>7, <2>1, RelFolded DEF IfMeans, IfDoes, Branching
  <2>3. b.k \notin LoopKinds /\ b.k # "weave" /\ b.k # "returnOr"
    BY <2>1 DEF LoopKinds
  <2> QED BY <1>1, <1>2, <1>t, <2>1, <2>2, <2>3, LeaveSem DEF b, o, u
<1>11. CASE CloseArm
  <2>1. b.k = "arm" /\ Leave(ArmMeans(b), ArmDoes(b))
    BY <1>11 DEF CloseArm, Closes, ArmMeans, ArmDoes
  <2> HIDE DEF b, o, u
  <2>2. Rel(seen, o, u, ArmMeans(b), ArmDoes(b))
    BY <1>3, <1>4, <1>5, <1>8, <1>9, <2>1, RelFolded DEF ArmMeans, ArmDoes, Unscoped
  <2>3. b.k \notin LoopKinds /\ b.k # "weave" /\ b.k # "returnOr"
    BY <2>1 DEF LoopKinds
  <2> QED BY <1>1, <1>2, <1>t, <2>1, <2>2, <2>3, LeaveSem DEF b, o, u
<1>12. CASE CloseJudge
  <2>1. b.k \in {"switch", "judge", "voidJudge"} /\ Leave(JudgeMeans(b), JudgeDoes(b))
    BY <1>12 DEF CloseJudge, Closes, JudgeMeans, JudgeDoes, Written, Unscoped
  <2> HIDE DEF b, o, u
  <2>2. Rel(seen, o, u, Second(b).means, Written(b))
    <3>1. CASE b.k = "voidJudge"
      BY <1>9, <1>v, <3>1 DEF Second, Empty, Written
    <3>2. CASE b.k # "voidJudge"
      BY <1>7, <2>1, <3>2 DEF Written, Branching
    <3> QED BY <3>1, <3>2
  <2>3. Rel(seen, o, u, First(b).means, First(b).does)
    BY <1>7, <2>1 DEF Branching
  <2>4. Rel(seen, o, u, JudgeMeans(b), JudgeDoes(b))
    <3>1. CASE b.k = "switch"
      BY <1>3, <1>4, <1>6, <1>k, <1>t, <2>2, <2>3, <3>1, RelSwitch DEF JudgeMeans, JudgeDoes
    <3>2. CASE b.k # "switch"
      BY <1>3, <1>4, <1>6, <1>t, <2>2, <2>3, <3>2, RelChoice DEF JudgeMeans, JudgeDoes
    <3> QED BY <3>1, <3>2
  <2>5. b.k \notin LoopKinds /\ b.k # "weave" /\ b.k # "returnOr"
    BY <2>1 DEF LoopKinds
  <2> QED BY <1>1, <1>2, <1>t, <2>1, <2>4, <2>5, LeaveSem DEF b, o, u
<1> QED BY <1>10, <1>11, <1>12

LEMMA TopOwned ==
  ASSUME Struct, NotFinished, Top(open).k \in LoopKinds
  PROVE  Release(Top(loops)) = Owned(Top(open))
<1> DEFINE n == Len(open)
<1>0. TypeOK
  BY DEF Struct
<1>1. PICK sc, lp : Framed(open, sc, lp, defers, errdefers, loops, baselines, count)
  BY Reading DEF Linked
<1>2. open \in Seq(Blocks) /\ n \in 1 .. n /\ Top(open) = open[n] /\ Shape(open, sc, lp)
  BY <1>1, Reading DEF Framed
<1>3. lp[n] = lp[n - 1] + 1 /\ lp[n - 1] \in Nat /\ lp[n] \in 1 .. lp[n]
  BY <1>2, ShapeAt
<1>4. Adds(n, "release", "none", lp)
  <2>1. Adds(n, "release", "none", At("release", sc, lp))
    BY <1>1, <1>2, OwnStacked
  <2> QED BY <2>1 DEF At
<1>5. Owned(open[n]) = Releases[lp[n]]
  <2>1. lp[n] # lp[n - 1]
    BY <1>3
  <2> QED BY <1>4, <2>1 DEF Adds, Own, Stack
<1>6. lp[n] = Len(loops)
  BY <1>1 DEF Framed, Mirrors
<1>7. Releases[lp[n]] = Release(loops[lp[n]])
  BY <1>0, <1>3, <1>6, ReleasesAre
<1> QED BY <1>2, <1>5, <1>6, <1>7 DEF Top

(* A label of a loop is anchored when a jump in it names the loop.         *)
LEMMA AnchorIs ==
  ASSUME NEW b \in Blocks, b.k \in LoopKinds, NEW kind \in Jumps, NEW r,
         NEW c \in Prog
  PROVE  LET label == b.label
             u == Live(b, Reached(b, r))
         IN IF label # NoLabel /\ <<kind, label>> \in u
            THEN Arrives(AnchorIfUsed(b, kind, c), c, Goto(label, kind))
            ELSE AnchorIfUsed(b, kind, c) = c
<1> DEFINE label == b.label
           u == Live(b, Reached(b, r))
           x == <<kind, label>>
<1>1. label \in Labels /\ x \in Caught(label)
  BY BlockIs, CaughtIs
<1>2. label # NoLabel => (x \in u <=> <<label, kind>> \in b.uses)
  <2>1. x \in Reached(b, r)
    BY <1>1 DEF Reached
  <2>2. x \notin {Through, <<"return", NoLabel>>, <<"fail", NoLabel>>}
    BY DEF Jumps, Through
  <2>3. x[1] = kind /\ x[2] = label
    OBVIOUS
  <2> HIDE DEF x
  <2> QED BY <2>1, <2>2, <2>3 DEF Live
<1>3. Arrives(Anchored(c, label, kind), c, Goto(label, kind))
  BY AnchoredIs
<1>4. AnchorIfUsed(b, kind, c) =
        IF label # NoLabel /\ <<label, kind>> \in b.uses THEN Anchored(c, label, kind) ELSE c
  BY DEF AnchorIfUsed
<1> HIDE DEF u, x, label
<1>5. IF label # NoLabel /\ x \in u
      THEN Arrives(AnchorIfUsed(b, kind, c), c, Goto(label, kind))
      ELSE AnchorIfUsed(b, kind, c) = c
  BY <1>2, <1>3, <1>4
<1> QED BY <1>5 DEF u, x, label

LEMMA CloseLoopSem ==
  ASSUME Struct, NEW seen, Sem(seen, open), CloseLoop
  PROVE  Sem(seen, open')
<1> DEFINE b == Top(open)
           n == Len(open)
<1>1. PICK ctx, rc : SemBy(seen, open, ctx, rc)
  BY DEF Sem
<1> DEFINE e == ctx[n - 1]
           r == rc[n - 1]
           o == Outer(seen, b, e)
           u == Live(b, Reached(b, r))
           v == u \ Caught(b.label)
           body == Scope(b)
           code == ScopedBody(b)
           c == LoopBody(b)
           d == LoopDoes(b)
           p == LoopMeans(b)
           m == ForMeans(b)
           q == ForDoes(b)
           a2 == LeaveBlock(m, q)
           w == Owned(b)
<1>2. NotFinished /\ b.k \in LoopKinds /\ b.k # "weave" /\ b.k \notin Unscoped /\ b.k # "returnOr"
  BY DEF CloseLoop, Closes, LoopKinds, Unscoped
<1>3. /\ open \in Seq(Blocks) /\ open # <<>> /\ b \in Blocks /\ b.n \in Nat /\ b.label \in Labels
  BY <1>2, Reading, BlockIs
<1>4. e \in Contexts /\ r \in SUBSET (Jumps \X Labels)
  BY <1>1, <1>3, SemTop
<1>5. o \in Contexts /\ u \in SUBSET MOuts /\ Through \in u /\ Rel(seen, o, u, body, code)
  BY <1>1, <1>2, ScopeRel
<1>6. p \in Prog /\ m \in Prog /\ code \in Prog /\ c \in Prog /\ CLoop(b.n, c) \in Prog /\ d \in Prog /\ q \in Prog
  BY <1>2, LoopTypes
<1>7. body \in Prog /\ w \in Seq(Ev)
  BY <1>3, ScopeIs, OwnedIs
<1>8. IF b.label # NoLabel /\ <<"continue", b.label>> \in u
      THEN Arrives(c, code, Goto(b.label, "continue")) ELSE c = code
  <2>1. "continue" \in Jumps
    BY DEF Jumps
  <2> QED BY <1>2, <1>3, <1>6, <2>1, AnchorIs DEF LoopBody
<1>9. IF b.label # NoLabel /\ <<"break", b.label>> \in u
      THEN Arrives(d, CLoop(b.n, c), Goto(b.label, "break")) ELSE d = CLoop(b.n, c)
  <2>1. "break" \in Jumps
    BY DEF Jumps
  <2> QED BY <1>2, <1>3, <1>6, <2>1, AnchorIs DEF LoopDoes
<1>10. p = Loop(b.n, body, {Through} \cup Jumping("continue", b.label), Jumping("break", b.label))
  BY DEF LoopMeans
<1>11. m = IF b.k = "for" THEN Releasing(b.n, p) ELSE p
  BY DEF ForMeans
<1>12. q = Chain(d, Do(w))
  BY <1>2, TopOwned DEF ForDoes
<1>13. w = IF b.k = "for" THEN <<<<"release", b.n>>>> ELSE <<>>
  BY DEF Owned
<1>14. b.uses \subseteq a2.uses
  BY <1>2, <1>6, LeaveBlockIs
<1>15. open' = Append(SubSeq(open, 1, n - 2), a2)
  BY DEF CloseLoop, Leave, LeaveBlock, Around, ForMeans, ForDoes, LoopDoes, LoopBody
<1>16. \A x \in MOuts : o[x] = IF Catches(b, x) THEN <<>> ELSE Keep(w, seen) \o e[x]
  BY <1>3, <1>4, OuterIs
<1>17. Caught(b.label) \subseteq MOuts /\ Through \notin Caught(b.label)
  BY <1>3, CaughtIs
<1>18. v \subseteq Live(a2, r)
  <2> SUFFICES ASSUME NEW x \in v PROVE x \in Live(a2, r)
    OBVIOUS
  <2>1. x \in Live(b, Reached(b, r)) /\ x \notin Caught(b.label)
    OBVIOUS
  <2> HIDE DEF v, u, a2, b
  <2>2. x \in Reached(b, r) => x \in r
    BY <1>2, <2>1 DEF Reached
  <2> QED BY <1>14, <2>1, <2>2 DEF Live
<1> HIDE DEF e, r, o, body, code, c, d, p, m, q, a2, w, b
<1>19. \A x \in u \cap Caught(b.label) : o[x] = <<>>
  BY <1>2, <1>16, <1>17 DEF Catches
<1>20. Rel(seen, o, v, p, d)
  <2> HIDE DEF u
  <2> QED BY <1>3, <1>5, <1>6, <1>7, <1>8, <1>9, <1>10, <1>19, RelLoop
<1>21. \A x \in v \ {Through} : o[x] = Keep(w, seen) \o e[x]
  <2> SUFFICES ASSUME NEW x \in v, x # Through PROVE o[x] = Keep(w, seen) \o e[x]
    OBVIOUS
  <2>1. x \in MOuts /\ ~Catches(b, x)
    BY <1>5 DEF Catches
  <2> QED BY <1>16, <2>1
<1>22. v \in SUBSET MOuts
  BY <1>5
<1> HIDE DEF u, v
<1>23. \A s \in Outcomes : m[s].tr = p[s].tr \o w /\ m[s].o = p[s].o /\ m[s].out = p[s].out
  <2>1. CASE b.k = "for"
    BY <1>3, <1>6, <1>11, <1>13, <2>1, ReleasingIs
  <2>2. CASE b.k # "for"
    <3>1. \A s \in Outcomes : p[s].tr \in Seq(Ev)
      BY <1>6, ProgIs
    <3>2. m = p /\ w = <<>>
      BY <1>11, <1>13, <2>2
    <3> QED BY <3>1, <3>2, ConcatNone
  <2> QED BY <2>1, <2>2
<1>24. Rel(seen, e, v, m, q)
  BY <1>4, <1>5, <1>6, <1>7, <1>12, <1>20, <1>21, <1>22, <1>23, RelRelease
<1>25. Rel(seen, e, Live(a2, r), m, q)
  BY <1>18, <1>24, RelWider
<1>26. Sem(seen, Append(SubSeq(open, 1, n - 2), a2))
  BY <1>1, <1>2, <1>6, <1>25, SemLeave DEF a2, e, r, b
<1> QED BY <1>15, <1>26
-----------------------------------------------------------------------------
(* The weave is finished.                                                  *)
LEMMA FinishSem ==
  ASSUME Struct, NEW seen, Sem(seen, open), Finish
  PROVE  SameFor(seen)'
<1> DEFINE b == Top(open)
           n == Len(open)
           e == Base(seen)
           o == Outer(seen, b, e)
           u == Live(b, {})
           p == Scope(b)
           c == ScopedBody(b)
           d == FinishDoes(b)
<1>1. PICK ctx, rc : SemBy(seen, open, ctx, rc)
  BY DEF Sem
<1>2. NotFinished /\ b.k = "weave" /\ b.k \notin Unscoped
  BY DEF Finish, Closes, Unscoped
<1>3. open \in Seq(Blocks) /\ open # <<>> /\ b \in Blocks
  BY <1>2, Reading
<1>4. n = 1
  BY <1>2, TopNoFirst
<1>5. ctx[n - 1] = e /\ rc[n - 1] = {} /\ ctx[n - 1] \in Contexts
  <2> DEFINE m == n - 1
  <2>1. m = 0
    BY <1>4
  <2>2. ctx[m] \in Contexts
    BY <1>1, <1>3, SemTop
  <2>3. ctx[0] = Base(seen) /\ rc[0] = {}
    BY <1>1 DEF SemBy
  <2> HIDE DEF m
  <2>4. ctx[m] = e /\ rc[m] = {}
    BY <2>1, <2>3
  <2> QED BY <2>2, <2>4 DEF m
<1>6. Reached(b, {}) = {}
  BY <1>2 DEF Reached, LoopKinds
<1>7. /\ Rel(seen, o, u, p, c) /\ o \in Contexts /\ u \in SUBSET MOuts
      /\ EndsWithJump(b) => \A s \in Outcomes : p[s].out # Through
  BY <1>1, <1>2, <1>5, <1>6, ScopeRel
<1>8. e \in Contexts
  BY <1>5
<1>9. weave' = [means |-> p, does |-> d]
  BY DEF Finish, FinishDoes
<1>10. Pop \in Seq(Ev) /\ Keep(Pop, seen) \in Seq(Ev)
  BY ReturnParts, KeepType
<1>11. p \in Prog /\ c \in Prog /\ Do(Pop) \in Prog
  BY <1>2, <1>3, <1>10, BranchIs, DoIs
<1>12. \A s \in Outcomes : Do(Pop)[s].tr = Pop
  BY <1>10, DoIs
<1>13. \A x \in u : x = Through \/ x \in {<<"return", NoLabel>>, <<"fail", NoLabel>>}
  BY DEF Live
<1>14. ASSUME NEW x \in {<<"return", NoLabel>>, <<"fail", NoLabel>>}
       PROVE  o[x] = Keep(Pop, seen) /\ Match(x) = <<"ret", NoLabel>> /\ x # Through
  <2>1. x \in MOuts /\ x # Through
    BY DEF MOuts, Through
  <2>2. ~Catches(b, x) /\ Owned(b) = <<>>
    BY <1>2, <2>1 DEF Catches, LoopKinds, Owned
  <2>3. o[x] = Keep(<<>>, seen) \o e[x]
    <3> HIDE DEF b, e
    <3>1. Outer(seen, b, e)[x] = IF Catches(b, x) THEN <<>> ELSE Keep(Owned(b), seen) \o e[x]
      BY <1>3, <1>8, <2>1, OuterIs
    <3> QED BY <2>2, <3>1
  <2>4. e[x] = Keep(Pop, seen)
    BY <2>1 DEF Base
  <2>5. <<>> \o Keep(Pop, seen) = Keep(Pop, seen)
    BY <1>10, ConcatNone
  <2>6. Match(x) = <<"ret", NoLabel>>
    BY DEF Match
  <2> QED BY <2>1, <2>3, <2>4, <2>5, <2>6, KeepEmpty
<1>15. o[Through] = <<>> /\ Match(Through) = Through
  BY <1>7 DEF Contexts, Match, Through, Jumps
<1>16. d = IF EndsWithJump(b) THEN b.does ELSE Chain(c, Do(Pop))
  BY DEF FinishDoes
<1>17. EndsWithJump(b) => c = b.does
  BY DEF ScopedBody
<1> HIDE DEF b, n, e, o, u, p, c, d
<1>18. ASSUME NEW s \in Outcomes
       PROVE  Keep(d[s].tr, seen) = Keep(p[s].tr \o Pop, seen)
  <2>1. /\ p[s].out \in u /\ c[s].out = Match(p[s].out)
        /\ Keep(c[s].tr, seen) = Keep(p[s].tr, seen) \o o[p[s].out]
    BY <1>7 DEF Rel
  <2>2. p[s].tr \in Seq(Ev) /\ c[s].tr \in Seq(Ev) /\ c[s].o \in Outcomes
    BY <1>11, ProgIs
  <2>3. Keep(p[s].tr \o Pop, seen) = Keep(p[s].tr, seen) \o Keep(Pop, seen)
    <3> DEFINE t == p[s].tr
    <3>1. t \in Seq(Ev)
      BY <2>2
    <3> HIDE DEF t
    <3>2. Keep(t \o Pop, seen) = Keep(t, seen) \o Keep(Pop, seen)
      <4>1. KeepsBoth(t, Pop, seen)
        BY <1>10, <3>1, KeepCats
      <4> QED BY <4>1 DEF KeepsBoth
    <3> QED BY <3>2 DEF t
  <2>4. Keep(p[s].tr, seen) \in Seq(Ev)
    BY <2>2, KeepType
  <2>5. CASE p[s].out = Through
    <3>1. c[s].out = Through /\ Keep(c[s].tr, seen) = Keep(p[s].tr, seen)
      BY <1>15, <2>1, <2>4, <2>5, ConcatNone
    <3>2. d = Chain(c, Do(Pop))
      BY <1>7, <1>16, <2>5
    <3> DEFINE q == Do(Pop)
    <3>3. q \in Prog /\ q[c[s].o].tr = Pop
      BY <1>11, <1>12, <2>2
    <3> HIDE DEF q
    <3>4. Chain(c, q)[s].tr = c[s].tr \o q[c[s].o].tr
      BY <1>11, <3>1, <3>3, ChainIs
    <3>5. d[s].tr = c[s].tr \o Pop
      BY <3>2, <3>3, <3>4 DEF q
    <3>6. Keep(c[s].tr \o Pop, seen) = Keep(c[s].tr, seen) \o Keep(Pop, seen)
      <4>1. KeepsBoth(c[s].tr, Pop, seen)
        BY <1>10, <2>2, KeepCats
      <4> QED BY <4>1 DEF KeepsBoth
    <3> QED BY <2>3, <3>1, <3>5, <3>6
  <2>6. CASE p[s].out # Through
    <3>1. p[s].out \in {<<"return", NoLabel>>, <<"fail", NoLabel>>}
      BY <1>13, <2>1, <2>6
    <3>2. o[p[s].out] = Keep(Pop, seen) /\ Match(p[s].out) = <<"ret", NoLabel>>
      BY <1>14, <3>1
    <3>3. c[s].out # Through
      BY <2>1, <3>2 DEF Through
    <3>4. d[s].tr = c[s].tr
      <4>1. CASE EndsWithJump(b)
        BY <1>16, <1>17, <4>1
      <4>2. CASE ~EndsWithJump(b)
        <5> DEFINE q == Do(Pop)
        <5>1. q \in Prog /\ d = Chain(c, q)
          BY <1>11, <1>16, <4>2
        <5> HIDE DEF q
        <5>2. Stops(c, q, s)
          BY <1>11, <3>3, <5>1, ChainStops
        <5> QED BY <5>1, <5>2 DEF Stops
      <4> QED BY <4>1, <4>2
    <3> QED BY <2>1, <2>3, <3>2, <3>4
  <2> QED BY <2>5, <2>6
<1>19. weave'.means = p /\ weave'.does = d
  BY <1>9
<1>20. \A s \in Outcomes : Keep(weave'.does[s].tr, seen) = Keep(weave'.means[s].tr \o Pop, seen)
  BY <1>18, <1>19
<1> QED BY <1>20 DEF SameFor

-----------------------------------------------------------------------------
(* The invariant: the stacks mirror the open blocks; every open block does   *)
(* what it means, up to what the blocks around it still run; and so does     *)
(* the finished weave.                                                     *)
Means(views) ==
  \A seen \in views : (weave = <<>> => Sem(seen, open)) /\ SameFor(seen)
Inv(views) == Struct /\ Means(views)

LEMMA InitSem ==
  ASSUME Init, NEW seen
  PROVE  Sem(seen, open)
<1> DEFINE b == Block("weave", 0)
           ctx == [i \in Nat |-> Base(seen)]
           rc == [i \in Nat |-> {}]
           none == <<>>
<1>1. Struct /\ open = <<b>> /\ open \in Seq(Blocks)
  BY InitStruct DEF Init, Struct, TypeOK
<1>2. b \in Blocks
  BY <1>1
<1>3. b.means = Skip /\ b.does = Skip /\ b.last = "none" /\ b.first = NoBranch
  BY DEF Block
<1>4. none \in Seq(Blocks) /\ Len(none) = 0 /\ Append(none, b) = <<b>>
  OBVIOUS
<1>5. Base(seen) \in Contexts
  <2>1. Keep(Pop, seen) \in Seq(Ev)
    BY <1>1, ReturnParts, KeepType
  <2>2. Base(seen) \in [MOuts -> Seq(Ev)]
    BY <2>1 DEF Base
  <2>3. Base(seen)[Through] = <<>>
    BY MOutsAre DEF Base, Through
  <2> QED BY <2>2, <2>3 DEF Contexts
<1>6. 0 \in Nat /\ ctx[0] = Base(seen) /\ rc[0] = {}
  OBVIOUS
<1> HIDE DEF b, ctx, rc, none
<1>7. SemBy(seen, none, ctx, rc)
  BY <1>4, <1>5, <1>6 DEF SemBy
<1>8. Sem(seen, Append(none, b))
  BY <1>2, <1>3, <1>4, <1>7, SemAppend DEF Sem
<1> QED BY <1>1, <1>4, <1>8

LEMMA NextSem ==
  ASSUME Struct, NEW seen, NEW w, View(seen, w), MixedFor(w), Next, Sem(seen, open), NotFinished
  PROVE  (weave' = <<>> => Sem(seen, open')) /\ SameFor(seen)'
<1>m. "breakInSwitch" \notin Mixed /\ "voidElse" \notin Mixed /\ "deferInArm" \notin Mixed
  BY DEF MixedFor
<1>1. ASSUME Sem(seen, open'), UNCHANGED weave
      PROVE  (weave' = <<>> => Sem(seen, open')) /\ SameFor(seen)'
  <2>1. weave' = <<>>
    BY <1>1 DEF NotFinished
  <2> QED BY <1>1, <2>1 DEF SameFor
<1>2. CASE Finish
  <2>1. SameFor(seen)'
    BY <1>2, FinishSem
  <2>2. weave' # <<>>
    BY <1>2, FinishStruct
  <2> QED BY <2>1, <2>2
<1>3. CASE Act
  BY <1>1, <1>3, ActSem DEF Act, Emit, Number
<1>4. CASE DeferStmt \/ ErrDeferStmt
  BY <1>1, <1>4, DeferSem DEF DeferStmt, ErrDeferStmt, Number
<1>5. CASE Try
  BY <1>1, <1>5, TrySem DEF Try, Emit, Number
<1>6. ASSUME NEW kind \in {"break", "continue"}, NEW l \in LoopLabels \cup {NoLabel}, Jump(kind, l)
      PROVE  (weave' = <<>> => Sem(seen, open')) /\ SameFor(seen)'
  <2>1. kind \in Jumps /\ l \in Labels
    BY DEF Jumps, Labels
  <2>2. Sem(seen, open')
    BY <1>m, <1>6, <2>1, JumpSem
  <2>3. UNCHANGED weave
    BY <1>6 DEF Jump, Number
  <2> QED BY <1>1, <2>2, <2>3
<1>7. ASSUME NEW form \in {"return", "fail", "tuple"}, Return(form)
      PROVE  (weave' = <<>> => Sem(seen, open')) /\ SameFor(seen)'
  BY <1>1, <1>7, ReturnSem DEF Return, Emit, Number
<1>8. ASSUME NEW cond \in Conds, OpenIf(cond)
      PROVE  (weave' = <<>> => Sem(seen, open')) /\ SameFor(seen)'
  BY <1>1, <1>8, OpenSem DEF OpenIf, Enter, Number
<1>9. ASSUME NEW k \in Unscoped, NEW cond \in {"dyn", "true"}, OpenArm(k, cond)
      PROVE  (weave' = <<>> => Sem(seen, open')) /\ SameFor(seen)'
  BY <1>1, <1>9, OpenSem DEF OpenArm, Enter, Number
<1>10. ASSUME NEW k \in {"while", "for"}, NEW l \in LoopLabels \cup {NoLabel}, OpenLoop(k, l)
       PROVE  (weave' = <<>> => Sem(seen, open')) /\ SameFor(seen)'
  <2>1. k \in LoopKinds /\ l \in Labels
    BY DEF LoopKinds, Labels
  <2> QED BY <1>1, <1>10, <2>1, OpenSem DEF OpenLoop, Enter, Number
<1>11. CASE Else
  BY <1>m, <1>1, <1>11, ElseSem DEF Else
<1>12. CASE CloseIf \/ CloseArm \/ CloseJudge
  <2>1. Sem(seen, open')
    BY <1>12, CloseSem
  <2>2. UNCHANGED weave
    BY <1>12 DEF CloseIf, CloseArm, CloseJudge, Leave
  <2> QED BY <1>1, <2>1, <2>2
<1>13. CASE CloseLoop
  BY <1>1, <1>13, CloseLoopSem DEF CloseLoop, Leave
<1>14. CASE CloseReturnOr
  BY <1>1, <1>14, ReturnOrSem, ReturnOrLeaves
<1> QED BY <1>2, <1>3, <1>4, <1>5, <1>6, <1>7, <1>8, <1>9, <1>10, <1>11, <1>12, <1>13, <1>14 DEF Next

LEMMA NextInv ==
  ASSUME NEW views, NEW w, \A seen \in views : View(seen, w), MixedFor(w), Inv(views), [Next]_vars
  PROVE  Inv(views)'
<1>1. "deferInArm" \notin Mixed /\ "voidElse" \notin Mixed /\ Struct /\ Means(views)
  BY DEF MixedFor, Inv
<1>2. Struct'
  BY <1>1, NextStruct
<1>3. ASSUME NEW seen \in views
      PROVE  (weave' = <<>> => Sem(seen, open')) /\ SameFor(seen)'
  <2>1. (weave = <<>> => Sem(seen, open)) /\ SameFor(seen) /\ View(seen, w)
    BY <1>1 DEF Means
  <2>2. CASE UNCHANGED vars
    BY <2>1, <2>2 DEF SameFor, vars
  <2>3. CASE Next
    <3>1. NotFinished
      BY <2>3 DEF Next, Act, DeferStmt, ErrDeferStmt, Try, Jump, Return, OpenIf, OpenArm, OpenLoop,
            Else, CloseIf, CloseArm, CloseJudge, CloseReturnOr, CloseLoop, Finish, Closes, CanOpen, CanRead
    <3> QED BY <1>1, <2>1, <2>3, <3>1, NextSem DEF NotFinished
  <2> QED BY <2>2, <2>3
<1>4. Means(views)'
  BY <1>3 DEF Means
<1> QED BY <1>2, <1>4 DEF Inv

LEMMA InitInv ==
  ASSUME NEW views, Init
  PROVE  Inv(views)
<1>1. Struct
  BY InitStruct
<1>2. weave = <<>>
  BY DEF Init
<1>3. Means(views)
  BY <1>2, InitSem DEF Means, SameFor
<1> QED BY <1>1, <1>3 DEF Inv
-----------------------------------------------------------------------------
(* What is watched: the computations with the defers, with the errdefers, or *)
(* with the releases of one loop.                                          *)
LEMMA WatchDefers ==
  View(Events(Visible \cup {"defer"}), "defer")
BY DEF View, Blind, Events, Visible

LEMMA WatchErrDefers ==
  View(Events(Visible \cup {"errdefer"}), "errdefer")
BY DEF View, Blind, Events, Visible

LEMMA WatchReleases ==
  ASSUME NEW n
  PROVE  View(Events(Visible) \cup {<<"release", n>>}, "release")
<1> DEFINE seen == Events(Visible) \cup {<<"release", n>>}
<1>1. \A ev \in seen : ev[1] # "defer" /\ ev[1] # "errdefer"
  BY DEF Events, Visible
<1>2. ASSUME NEW i, <<"release", i>> \in seen
      PROVE  i = n
  <2>1. <<"release", i>> \notin Events(Visible)
    BY DEF Events, Visible
  <2> QED BY <1>2, <2>1
<1> HIDE DEF seen
<1>3. View(seen, "release")
  BY <1>1, <1>2 DEF View, Blind
<1> QED BY <1>3 DEF seen

(* The four stacks of the code generator mirror the blocks that are open:    *)
(* defer_stack and errdefer_stack hold the cleanups of every open scope,       *)
(* _loop_release_stack the label and the temporary of every open loop, and     *)
(* _loop_defer_baseline how many scopes were open around it.  A defer in a     *)
(* body that is no scope and the else of a judge without a value apart.       *)
THEOREM StacksMirrorBlocks ==
  ASSUME "deferInArm" \notin Mixed, "voidElse" \notin Mixed
  PROVE  Spec => []Struct
<1>1. Init => Struct
  BY InitStruct
<1>2. Struct /\ [Next]_vars => Struct'
  BY NextStruct
<1> QED BY <1>1, <1>2, PTL DEF Spec

(* However a scope is left, the C that is written runs the defers reached in  *)
(* it, once, the latest first, between the same computations as the program,  *)
(* and pops the frame once: for every program, every nesting and every        *)
(* outcome of its tests.  Left out are the statements the code lowers          *)
(* otherwise: a defer in a body that is no scope, a break in a C switch, a     *)
(* return of several values under a defer, the else of a judge without value; *)
(* and a weave with `or return`, which has no C.                              *)
THEOREM DefersRun ==
  ASSUME Mixed \subseteq {"tryInFor", "returnOr"}
  PROVE  Spec => []DefersRunOnExit
<1> DEFINE views == {Events(Visible \cup {"defer"})}
<1>1. \A seen \in views : View(seen, "defer")
  BY WatchDefers
<1>2. MixedFor("defer")
  BY DEF MixedFor
<1>3. Inv(views) => DefersRunOnExit
  BY DEF Inv, Means, DefersRunOnExit
<1> HIDE DEF views
<1>4. Init => Inv(views)
  BY InitInv
<1>5. Inv(views) /\ [Next]_vars => Inv(views)'
  BY <1>1, <1>2, NextInv
<1> QED BY <1>3, <1>4, <1>5, PTL DEF Spec

(* The errdefers run when, and only when, the weave leaves by an error return *)
(* below them: all that are open, the latest first, after the value was       *)
(* computed.  A `try` inside a `for` and a return of several values are in.    *)
(* Left out besides is `return x or:` with a block while an errdefer is open,  *)
(* which leaves by an error return in C even when x succeeds, so that "only    *)
(* when" does not hold of it.                                                 *)
THEOREM ErrDefersRun ==
  ASSUME Mixed \subseteq {"tryInFor", "tupleDefer"}
  PROVE  Spec => []ErrDefersRunOnFailure
<1> DEFINE views == {Events(Visible \cup {"errdefer"})}
<1>1. \A seen \in views : View(seen, "errdefer")
  BY WatchErrDefers
<1>2. MixedFor("errdefer")
  BY DEF MixedFor
<1>3. Inv(views) => ErrDefersRunOnFailure
  BY DEF Inv, Means, ErrDefersRunOnFailure
<1> HIDE DEF views
<1>4. Init => Inv(views)
  BY InitInv
<1>5. Inv(views) /\ [Next]_vars => Inv(views)'
  BY <1>1, <1>2, NextInv
<1> QED BY <1>3, <1>4, <1>5, PTL DEF Spec

(* The list that a `for` materialised is released once per loop entered,      *)
(* after its last iteration, whichever jump or return left it; a `try` inside *)
(* such a loop apart, and a weave with `or return`, which has no C.           *)
THEOREM TemporariesAreReleased ==
  ASSUME Mixed \subseteq {"tupleDefer", "returnOr"}
  PROVE  Spec => []TemporariesReleased
<1> DEFINE views == {Events(Visible) \cup {<<"release", n>>} : n \in 1 .. MaxStmts}
<1>1. \A seen \in views : View(seen, "release")
  BY WatchReleases
<1>2. MixedFor("release")
  BY DEF MixedFor
<1>3. Inv(views) => TemporariesReleased
  BY DEF Inv, Means, TemporariesReleased
<1> HIDE DEF views
<1>4. Init => Inv(views)
  BY InitInv
<1>5. Inv(views) /\ [Next]_vars => Inv(views)'
  BY <1>1, <1>2, NextInv
<1> QED BY <1>3, <1>4, <1>5, PTL DEF Spec

=============================================================================
