-------------------------- MODULE DepProjectProofs --------------------------
(***************************************************************************)
(* Theorems about the dependency manager, for every set of packages, their *)
(* manifests, and every length of a session.                               *)
(***************************************************************************)
EXTENDS DepProject, FiniteSetTheorems, SequenceTheorems, WellFoundedInduction,
        NaturalsInduction, TLAPS

Entry == [name : Names, want : Wants]

Requirement == [name : Names, want : Wants, by : Names \union {Root}, depth : 0 .. MaxDepth]

-----------------------------------------------------------------------------
(* Numbers and sequences.                                                  *)

(* A set of natural numbers that is not empty has a smallest one. *)
LEMMA Smallest ==
    ASSUME NEW S \in SUBSET Nat, S # {}
    PROVE  \E n \in S : \A m \in S : n <= m
<1> DEFINE Less == OpToRel(<, Nat)
<1>1. IsWellFoundedOn(Less, Nat)
  BY NatLessThanWellFounded
<1>2. \A m, n \in Nat : <<m, n>> \in Less <=> m < n
  BY DEF OpToRel
<1> HIDE DEF Less
<1>3. PICK n \in S : \A m \in S : ~(<<m, n>> \in Less)
  BY <1>1, WFMin, Zenon
<1>4. \A m \in S : ~(m < n) /\ m \in Nat /\ n \in Nat
  BY <1>2, <1>3
<1> QED
  BY <1>4

(* The newest of some versions up to k. *)
LEMMA BestVersion ==
    ASSUME NEW c \in SUBSET Versions, NEW k \in Versions
    PROVE  /\ Best(c, k) \in Versions \union {0}
           /\ Best(c, k) # 0 => Best(c, k) \in c /\ Best(c, k) <= k
           /\ \A v \in c : v <= k => Best(c, k) # 0
<1> USE DepAssumption
<1> DEFINE fit == {v \in c : v <= k}
           above == {u \in Nat : \A w \in fit : w <= u}
<1>1. CASE fit = {}
  <2>1. Best(c, k) = 0
    BY <1>1 DEF Best
  <2> QED
    BY <1>1, <2>1
<1>2. CASE fit # {}
  <2>1. k \in above /\ above \subseteq Nat
    BY DEF Versions
  <2>2. PICK u \in above : \A m \in above : u <= m
    BY <2>1, Smallest
  <2>3. PICK x \in fit : TRUE
    BY <1>2
  <2>4. u \in Nat /\ x \in Nat /\ 1 <= x /\ x <= u
    BY <2>2, <2>3 DEF Versions
  <2>5. u \in fit
    <3> SUFFICES ASSUME u \notin fit PROVE FALSE
      OBVIOUS
    <3>1. \A w \in fit : w <= u /\ w # u /\ w \in Nat
      BY <2>2 DEF Versions
    <3>2. u - 1 \in Nat /\ \A w \in fit : w <= u - 1
      BY <2>4, <3>1
    <3>3. u - 1 \in above
      BY <3>2
    <3> HIDE DEF above
    <3> QED
      BY <2>2, <2>4, <3>3
  <2>6. \E v \in fit : \A w \in fit : w <= v
    BY <2>2, <2>5
  <2>7. Best(c, k) = CHOOSE v \in fit : \A w \in fit : w <= v
    BY <1>2 DEF Best
  <2>8. Best(c, k) \in fit
    BY <2>6, <2>7
  <2>9. Best(c, k) \in c /\ Best(c, k) <= k /\ Best(c, k) \in Versions
    BY <2>8
  <2> QED
    BY <2>9 DEF Versions
<1> QED
  BY <1>1, <1>2

(* What Others counts: the positions of a set up to i. *)
Low(P, i) == {j \in P : j <= i}
Upto(P, i) == Cardinality(Low(P, i))

LEMMA LowSets ==
    ASSUME NEW P \in SUBSET Nat, NEW i \in Nat
    PROVE  /\ Low(P, i) \in SUBSET P
           /\ i \in P => i \in Low(P, i)
           /\ 0 \notin P => Low(P, 0) = {}
           /\ \A n \in Nat : (\A j \in P : j <= n) => Low(P, n) = P
           /\ \A j \in P : i < j => Low(P, i) \in SUBSET Low(P, j) /\ j \notin Low(P, i)
           /\ i # 0 /\ i \in P => /\ Low(P, i) = Low(P, i - 1) \union {i}
                                /\ i \notin Low(P, i - 1)
           /\ i # 0 /\ i \notin P => Low(P, i) = Low(P, i - 1)
<1>1. \A j \in P : j \in Nat
  OBVIOUS
<1>2. \A m \in Nat : \A x : x \in Low(P, m) <=> x \in P /\ x <= m
  BY DEF Low
<1>3. 0 \notin P => Low(P, 0) = {}
  <2>1. \A x \in P : x <= 0 => x = 0
    BY <1>1
  <2> QED
    BY <1>2, <2>1
<1>4. Low(P, i) \in SUBSET P
  BY <1>2
<1>5. i \in P => i \in Low(P, i)
  <2>1. i <= i
    OBVIOUS
  <2> QED
    BY <1>2, <2>1
<1>6. \A n \in Nat : (\A j \in P : j <= n) => Low(P, n) = P
  BY <1>2
<1>7. ASSUME NEW j \in P, i < j
      PROVE  Low(P, i) \in SUBSET Low(P, j) /\ j \notin Low(P, i)
  <2>1. \A x \in P : x <= i => x <= j
    BY <1>1, <1>7
  <2>2. ~(j <= i)
    BY <1>1, <1>7
  <2> QED
    BY <1>1, <1>2, <2>1, <2>2
<1>8. ASSUME i # 0
      PROVE  /\ i \in P => /\ Low(P, i) = Low(P, i - 1) \union {i}
                          /\ i \notin Low(P, i - 1)
             /\ i \notin P => Low(P, i) = Low(P, i - 1)
  <2>1. i - 1 \in Nat /\ ~(i <= i - 1)
    BY <1>8
  <2>2. \A x \in P : x <= i <=> x <= i - 1 \/ x = i
    BY <1>1, <1>8
  <2>3. i <= i
    OBVIOUS
  <2> QED
    BY <1>2, <2>1, <2>2, <2>3
<1> QED
  BY <1>3, <1>4, <1>5, <1>6, <1>7, <1>8

LEMMA Counting ==
    ASSUME NEW n \in Nat, NEW P \in SUBSET Nat, \A j \in P : 1 <= j /\ j <= n
    PROVE  /\ IsFiniteSet(P) /\ Cardinality(P) \in Nat
           /\ \A k \in 1 .. Cardinality(P) : \E i \in P : Upto(P, i) = k
           /\ \A i \in P : Upto(P, i) \in 1 .. Cardinality(P)
           /\ \A i, j \in P : Upto(P, i) = Upto(P, j) => i = j
<1>0. \A j \in P : j \in Nat /\ 1 <= j /\ j <= n
  OBVIOUS
<1>1. IsFiniteSet(P) /\ Cardinality(P) \in Nat
  BY <1>0, FS_BoundedSetOfNaturals, FS_CardinalityType
<1>2. \A i \in Nat : /\ IsFiniteSet(Low(P, i)) /\ Cardinality(Low(P, i)) \in Nat
                    /\ Cardinality(Low(P, i)) <= Cardinality(P)
  BY <1>1, LowSets, FS_Subset, FS_CardinalityType
<1>3. ASSUME NEW i \in P, NEW j \in P, i < j
      PROVE  Upto(P, i) < Upto(P, j)
  <2>1. /\ Low(P, i) \in SUBSET Low(P, j)
        /\ j \in Low(P, j) /\ j \notin Low(P, i)
    BY <1>3, LowSets
  <2>2. /\ IsFiniteSet(Low(P, j)) /\ Cardinality(Low(P, i)) \in Nat
        /\ Cardinality(Low(P, j)) \in Nat
    BY <1>2
  <2>3. /\ Cardinality(Low(P, i)) <= Cardinality(Low(P, j))
        /\ Cardinality(Low(P, i)) # Cardinality(Low(P, j))
    BY <2>1, <2>2, FS_Subset
  <2> QED
    BY <2>2, <2>3 DEF Upto
<1>4. ASSUME NEW k \in 1 .. Cardinality(P)
      PROVE  \E i \in P : Upto(P, i) = k
  <2> DEFINE reach == {m \in Nat : k <= Cardinality(Low(P, m))}
  <2>1. n \in reach
    <3>1. Low(P, n) = P
      BY <1>0, LowSets
    <3> QED
      BY <1>1, <3>1
  <2>2. PICK m \in reach : \A l \in reach : m <= l
    BY <2>1, Smallest
  <2>3. m # 0
    <3>1. Low(P, 0) = {}
      BY <1>0, LowSets
    <3>2. 0 \notin reach
      BY <3>1, FS_EmptySet
    <3> QED
      BY <2>2, <3>2
  <2>4. /\ m \in Nat /\ m - 1 \in Nat
        /\ k <= Cardinality(Low(P, m)) /\ Cardinality(Low(P, m)) \in Nat
        /\ Cardinality(Low(P, m - 1)) \in Nat
    BY <1>2, <2>2, <2>3
  <2>5. Cardinality(Low(P, m - 1)) < k
    <3>1. m - 1 \notin reach
      BY <2>2, <2>4
    <3>2. ~(k <= Cardinality(Low(P, m - 1)))
      BY <2>4, <3>1
    <3> QED
      BY <1>1, <2>4, <3>2
  <2> HIDE DEF reach
  <2>6. CASE m \in P
    <3>1. Low(P, m) = Low(P, m - 1) \union {m} /\ m \notin Low(P, m - 1)
      BY <2>3, <2>4, <2>6, LowSets
    <3>2. Cardinality(Low(P, m)) = Cardinality(Low(P, m - 1)) + 1
      BY <1>2, <2>4, <3>1, FS_AddElement
    <3>3. Cardinality(Low(P, m)) = k
      BY <1>1, <2>4, <2>5, <3>2
    <3> QED
      BY <2>6, <3>3 DEF Upto
  <2>7. CASE m \notin P
    <3>1. Low(P, m) = Low(P, m - 1)
      BY <2>3, <2>4, <2>7, LowSets
    <3>2. k \in Int
      BY <1>1
    <3> QED
      BY <2>4, <2>5, <3>1, <3>2
  <2> QED
    BY <2>6, <2>7
<1>5. ASSUME NEW i \in P
      PROVE  Upto(P, i) \in 1 .. Cardinality(P)
  <2>1. i \in Nat /\ i \in Low(P, i)
    BY <1>0, LowSets
  <2>2. Cardinality(Low(P, i)) # 0
    BY <1>2, <2>1, FS_EmptySet
  <2>3. /\ Cardinality(Low(P, i)) \in Nat
        /\ Cardinality(Low(P, i)) <= Cardinality(P)
    BY <1>2, <2>1
  <2> QED
    BY <1>1, <2>2, <2>3 DEF Upto
<1>6. ASSUME NEW i \in P, NEW j \in P, Upto(P, i) = Upto(P, j)
      PROVE  i = j
  <2>1. i \in Nat /\ j \in Nat
    BY <1>0
  <2>2. Upto(P, i) \in Nat
    BY <1>2, <2>1 DEF Upto
  <2>3. ~(i < j) /\ ~(j < i)
    BY <1>3, <1>6, <2>2
  <2> QED
    BY <2>1, <2>3
<1> QED
  BY <1>1, <1>4, <1>5, <1>6

(* Others keeps the entries that are not excluded, all of them. *)
LEMMA OthersFacts ==
    ASSUME NEW S, NEW entries \in Seq(S), NEW names
    PROVE  /\ Others(entries, names) \in Seq(S)
           /\ \A k \in DOMAIN Others(entries, names) :
                 \E i \in DOMAIN entries : /\ Others(entries, names)[k] = entries[i]
                                           /\ entries[i].name \notin names
           /\ \A i \in DOMAIN entries : entries[i].name \notin names =>
                 \E k \in DOMAIN Others(entries, names) : Others(entries, names)[k] = entries[i]
<1> DEFINE P == {i \in DOMAIN entries : entries[i].name \notin names}
           At(k) == CHOOSE i \in P : Upto(P, i) = k
           kept == [k \in 1 .. Cardinality(P) |-> entries[At(k)]]
<1>1. Others(entries, names) = kept
  BY DEF Others, Upto, Low
<1>2. /\ Len(entries) \in Nat /\ DOMAIN entries = 1 .. Len(entries)
      /\ P \in SUBSET Nat /\ \A i \in P : 1 <= i /\ i <= Len(entries)
  OBVIOUS
<1>3. \A i \in P : i \in DOMAIN entries /\ entries[i] \in S /\ entries[i].name \notin names
  BY <1>2, ElementOfSeq
<1>4. \A i \in DOMAIN entries : entries[i].name \notin names => i \in P
  OBVIOUS
<1> HIDE DEF P
<1>5. /\ Cardinality(P) \in Nat
      /\ \A k \in 1 .. Cardinality(P) : At(k) \in P /\ Upto(P, At(k)) = k
      /\ \A i \in P : Upto(P, i) \in 1 .. Cardinality(P) /\ At(Upto(P, i)) = i
  <2>1. /\ Cardinality(P) \in Nat
        /\ \A k \in 1 .. Cardinality(P) : \E i \in P : Upto(P, i) = k
        /\ \A i \in P : Upto(P, i) \in 1 .. Cardinality(P)
        /\ \A i, j \in P : Upto(P, i) = Upto(P, j) => i = j
    BY <1>2, Counting
  <2>2. ASSUME NEW k \in 1 .. Cardinality(P)
        PROVE  At(k) \in P /\ Upto(P, At(k)) = k
    <3>1. \E i \in P : Upto(P, i) = k
      BY <2>1
    <3> QED
      BY <3>1
  <2>3. ASSUME NEW i \in P
        PROVE  Upto(P, i) \in 1 .. Cardinality(P) /\ At(Upto(P, i)) = i
    <3>1. PICK k \in 1 .. Cardinality(P) : k = Upto(P, i)
      BY <2>1
    <3>2. At(k) \in P /\ Upto(P, At(k)) = k
      BY <2>2
    <3> QED
      BY <2>1, <3>1, <3>2
  <2> QED
    BY <2>1, <2>2, <2>3
<1> HIDE DEF At
<1>6. kept \in Seq(S)
  BY <1>3, <1>5
<1>7. DOMAIN kept = 1 .. Cardinality(P) /\ \A k \in 1 .. Cardinality(P) : kept[k] = entries[At(k)]
  OBVIOUS
<1> HIDE DEF kept
<1>8. ASSUME NEW i \in DOMAIN entries, entries[i].name \notin names
      PROVE  \E k \in DOMAIN kept : kept[k] = entries[i]
  <2>1. i \in P
    BY <1>4, <1>8
  <2>2. Upto(P, i) \in DOMAIN kept /\ kept[Upto(P, i)] = entries[i]
    BY <1>5, <1>7, <2>1
  <2> QED
    BY <2>2
<1> QED
  BY <1>1, <1>3, <1>5, <1>6, <1>7, <1>8

(* Excluding the entry that was appended gives the sequence back. *)
LEMMA OthersOfAppend ==
    ASSUME NEW entries \in Manifests, NEW e \in Entry, e.name \notin NamesOf(entries)
    PROVE  Others(Append(entries, e), {e.name}) = entries
<1> DEFINE longer == Append(entries, e)
           P == {i \in DOMAIN longer : longer[i].name \notin {e.name}}
           n == Len(entries)
           At(k) == CHOOSE i \in P : Upto(P, i) = k
<1>1. entries \in Seq(Entry) /\ n \in Nat /\ DOMAIN entries = 1 .. n
  BY DEF Manifests, Entry
<1>2. /\ DOMAIN longer = 1 .. n + 1 /\ longer[n + 1] = e
      /\ \A i \in 1 .. n : longer[i] = entries[i] /\ entries[i].name # e.name
  BY <1>1 DEF NamesOf
<1>3. P = 1 .. n
  <2> HIDE DEF longer
  <2>1. \A i \in 1 .. n + 1 : i \in 1 .. n \/ i = n + 1
    BY <1>1
  <2>2. 1 .. n \subseteq 1 .. n + 1 /\ n + 1 \in 1 .. n + 1
    BY <1>1
  <2> QED
    BY <1>2, <2>1, <2>2
<1>4. Others(longer, {e.name}) = [k \in 1 .. Cardinality(P) |-> longer[At(k)]]
  BY DEF Others, Upto, Low
<1> HIDE DEF P, longer, n
<1>5. Cardinality(P) = n
  BY <1>1, <1>3, FS_Interval
<1>6. ASSUME NEW i \in 1 .. n
      PROVE  Upto(P, i) = i
  <2>1. i \in Nat /\ 1 <= i /\ i <= n
    BY <1>1
  <2>2. Low(P, i) = 1 .. i
    BY <1>1, <1>3, <2>1 DEF Low
  <2>3. Cardinality(1 .. i) = i
    BY <2>1, FS_Interval
  <2> QED
    BY <2>2, <2>3 DEF Upto
<1>7. \A k \in 1 .. n : At(k) = k
  BY <1>3, <1>6
<1> HIDE DEF At
<1>8. \A k \in 1 .. n : longer[At(k)] = entries[k]
  BY <1>2, <1>7
<1>9. Others(longer, {e.name}) = [k \in 1 .. n |-> entries[k]]
  BY <1>4, <1>5, <1>8
<1> QED
  BY <1>1, <1>9 DEF longer, n

-----------------------------------------------------------------------------
(* Types.                                                                  *)

LEMMA ManifestsAre == Manifests = Seq(Entry)
  BY DEF Manifests, Entry

LEMMA WantIs == \A c \in Wants : c # Any => c \in SUBSET Versions
  BY DEF Wants

LEMMA VersionsAre == Versions \subseteq Nat /\ 1 \in Versions /\ 0 \notin Versions
  BY DepAssumption DEF Versions

LEMMA NothingResolved == <<>> \in Resolutions /\ DOMAIN <<>> = {}
<1>1. <<>> \in Seq({0}) /\ Len(<<>>) = 0
  BY EmptySeq
<1>2. DOMAIN <<>> = {} /\ <<>> \in [1 .. 0 -> {0}]
  BY <1>1, LenProperties
<1>3. <<>> = [m \in {} |-> 0]
  BY <1>2
<1>4. [m \in {} |-> 0] \in [{} -> Versions \union {0}]
  OBVIOUS
<1> QED
  BY <1>2, <1>3, <1>4 DEF Resolutions

LEMMA RequirementsFacts ==
    ASSUME NEW entries \in Manifests, NEW parent \in Names \union {Root},
           NEW depth \in 0 .. MaxDepth
    PROVE  /\ Requirements(entries, parent, depth) \in Seq(Requirement)
           /\ DOMAIN Requirements(entries, parent, depth) = DOMAIN entries
           /\ \A i \in DOMAIN entries :
                 /\ Requirements(entries, parent, depth)[i].name = entries[i].name
                 /\ Requirements(entries, parent, depth)[i].depth = depth
<1>1. entries \in Seq(Entry) /\ Len(entries) \in Nat /\ DOMAIN entries = 1 .. Len(entries)
  BY ManifestsAre
<1>2. \A i \in 1 .. Len(entries) : entries[i].name \in Names /\ entries[i].want \in Wants
  <2>1. \A i \in 1 .. Len(entries) : entries[i] \in Entry
    BY <1>1, ElementOfSeq
  <2> QED
    BY <2>1 DEF Entry
<1> QED
  BY <1>1, <1>2 DEF Requirements, Requirement

LEMMA WithEntryType ==
    ASSUME manifest \in Manifests, NEW n \in Names, NEW c \in Wants
    PROVE  WithEntry(n, c) \in Manifests
<1>1. manifest \in Seq(Entry) /\ [name |-> n, want |-> c] \in Entry
  BY ManifestsAre DEF Entry
<1>2. CASE Listed(n)
  <2> DEFINE w == [i \in DOMAIN manifest |->
                     IF i \in Entries(n) THEN [name |-> n, want |-> c] ELSE manifest[i]]
  <2>1. Len(manifest) \in Nat /\ DOMAIN manifest = 1 .. Len(manifest)
    BY <1>1
  <2>2. \A i \in 1 .. Len(manifest) : manifest[i] \in Entry
    BY <1>1, ElementOfSeq
  <2>3. w \in Seq(Entry)
    BY <1>1, <2>1, <2>2
  <2> QED
    BY <1>2, <2>3, ManifestsAre DEF WithEntry
<1>3. CASE ~Listed(n)
  BY <1>1, <1>3, ManifestsAre DEF WithEntry
<1> QED
  BY <1>2, <1>3

LEMMA WithoutType ==
    ASSUME manifest \in Manifests, NEW n
    PROVE  Without(n) \in Manifests
  BY ManifestsAre, OthersFacts DEF Without

(* A checkout knows its own tag, and only tags that exist. *)
Sound(n, d) == d \in Checkouts /\ d.at <= d.known /\ d.known <= published[n]

LEMMA SoundCheckouts ==
    ASSUME TypeOK, NEW n \in Names
    PROVE  /\ Sound(n, Cloned(n))
           /\ lib[n] # None => Sound(n, lib[n]) /\ Sound(n, Pulled(n))
           /\ \A d, c : Sound(n, d) /\ c \in Wants => \A m \in Matched(n, d, c) : Sound(n, m)
           /\ \A v \in Versions : lib[n] # None /\ v <= published[n] =>
                 Sound(n, Checkout(n, v, published[n], lib[n].module))
<1>1. published[n] \in Versions /\ published[n] \in Nat
  BY VersionsAre DEF TypeOK
<1>2. lib[n] # None => Sound(n, lib[n])
  BY DEF TypeOK, Sound
<1>3. \A v, k, x \in Versions : v <= k /\ k <= published[n] => Sound(n, Checkout(n, v, k, x))
  BY DEF Checkout, Checkouts, Sound
<1>4. ASSUME NEW d, NEW c, Sound(n, d), c \in Wants, NEW m \in Matched(n, d, c)
      PROVE  Sound(n, m)
  <2>1. d.at \in Versions /\ d.known \in Versions /\ d.module \in Versions
    BY <1>4 DEF Sound, Checkouts
  <2>2. CASE c = Any
    BY <1>4, <2>2 DEF Matched
  <2>3. CASE c # Any
    <3>1. PICK k \in {d.known, published[n]} :
                m = Checkout(n, IF Best(c, k) = 0 THEN d.at ELSE Best(c, k), k, d.module)
      BY <1>4, <2>3 DEF Matched
    <3>2. k \in Versions /\ k <= published[n] /\ d.at <= k
      <4>1. d.at \in Nat /\ d.known \in Nat
        BY <2>1, VersionsAre
      <4>2. d.at <= d.known /\ d.known <= published[n]
        BY <1>4 DEF Sound
      <4>3. d.at <= published[n] /\ published[n] <= published[n]
        BY <1>1, <4>1, <4>2
      <4> QED
        BY <1>1, <2>1, <3>1, <4>2, <4>3
    <3>3. /\ Best(c, k) # 0 => Best(c, k) \in Versions /\ Best(c, k) <= k
      BY <1>4, <2>3, <3>2, WantIs, BestVersion
    <3> QED
      BY <1>3, <2>1, <3>1, <3>2, <3>3
  <2> QED
    BY <2>2, <2>3
<1>5. published[n] <= published[n]
  BY <1>1
<1>6. Sound(n, Cloned(n))
  BY <1>1, <1>3, <1>5 DEF Cloned
<1>7. lib[n] # None => lib[n].module \in Versions
  BY <1>2 DEF Sound, Checkouts
<1>8. lib[n] # None => Sound(n, Pulled(n))
  BY <1>1, <1>3, <1>5, <1>7 DEF Pulled
<1>9. \A v \in Versions : lib[n] # None /\ v <= published[n] =>
         Sound(n, Checkout(n, v, published[n], lib[n].module))
  BY <1>1, <1>3, <1>5, <1>7
<1> QED
  BY <1>2, <1>4, <1>6, <1>8, <1>9

(* What a round asks for next. *)
Own(w, r, v) ==
    IF v # 0 /\ r.depth < MaxDepth
    THEN Requirements(w[r.name][v], r.name, r.depth + 1) ELSE <<>>

LEMMA OwnType ==
    ASSUME NEW w \in Worlds, NEW r \in Requirement, NEW v \in Versions \union {0}
    PROVE  /\ Own(w, r, v) \in Seq(Requirement)
           /\ v # 0 => w[r.name][v] \in Manifests
<1>1. v # 0 => w[r.name][v] \in Manifests
  BY DepAssumption DEF Requirement
<1>2. CASE v # 0 /\ r.depth < MaxDepth
  <2>1. r.depth + 1 \in 0 .. MaxDepth /\ r.name \in Names
    BY <1>2, DepAssumption DEF Requirement
  <2> QED
    BY <1>1, <1>2, <2>1, RequirementsFacts DEF Own
<1>3. CASE ~(v # 0 /\ r.depth < MaxDepth)
  BY <1>1, <1>3, EmptySeq DEF Own
<1> QED
  BY <1>2, <1>3

LEMMA QueueType ==
    ASSUME TypeOK, Walking
    PROVE  /\ queue \in Seq(Requirement) /\ Req \in Requirement /\ Tail(queue) \in Seq(Requirement)
           /\ Req.name \in Names /\ Req.want \in Wants
           /\ Len(queue) \in Nat \ {0} /\ DOMAIN queue = 1 .. Len(queue)
           /\ DOMAIN Tail(queue) = 1 .. Len(queue) - 1
           /\ \A i \in 1 .. Len(queue) - 1 : Tail(queue)[i] = queue[i + 1]
           /\ Req = queue[1]
<1>1. queue \in Seq(Requirement) /\ queue # <<>>
  BY DEF TypeOK, Walking, Requirement
<1>2. Req \in Requirement /\ Tail(queue) \in Seq(Requirement)
  BY <1>1, HeadTailProperties DEF Req
<1>3. Req.name \in Names /\ Req.want \in Wants
  BY <1>2 DEF Requirement
<1>4. Len(queue) \in Nat \ {0} /\ DOMAIN queue = 1 .. Len(queue)
  BY <1>1, EmptySeq
<1> QED
  BY <1>1, <1>2, <1>3, <1>4, HeadTailProperties DEF Req

(* A round that resolves a package to v. *)
LEMMA ResolvedFacts ==
    ASSUME TypeOK, Walking, ~Seen, NEW v \in Versions \union {0}, ResolveTo(v)
    PROVE  /\ resolved' \in Resolutions
           /\ DOMAIN resolved' = DOMAIN resolved \union {Req.name}
           /\ resolved'[Req.name] = v
           /\ \A m \in DOMAIN resolved : resolved'[m] = resolved[m]
           /\ resolved' = [m \in DOMAIN resolved \union {Req.name} |->
                              IF m = Req.name THEN v ELSE resolved[m]]
           /\ queue' = Tail(queue) \o Others(Own(world, Req, v), DOMAIN resolved \union {Req.name})
           /\ queue' \in Seq(Requirement)
<1>1. /\ Req \in Requirement /\ Tail(queue) \in Seq(Requirement) /\ Req.name \in Names
  BY QueueType
<1>2. resolved' = [m \in DOMAIN resolved \union {Req.name} |->
                      IF m = Req.name THEN v ELSE resolved[m]]
  BY DEF ResolveTo
<1>3. queue' = Tail(queue) \o Others(Own(world, Req, v), DOMAIN resolved \union {Req.name})
  BY DEF ResolveTo, Own
<1>4. PICK S \in SUBSET Names : resolved \in [S -> Versions \union {0}]
  BY DEF TypeOK, Resolutions
<1>5. /\ S \union {Req.name} \in SUBSET Names
      /\ resolved' \in [S \union {Req.name} -> Versions \union {0}]
  BY <1>1, <1>2, <1>4
<1>6. world \in Worlds
  BY DEF TypeOK
<1>7. Own(world, Req, v) \in Seq(Requirement)
  BY <1>1, <1>6, OwnType
<1>8. Others(Own(world, Req, v), DOMAIN resolved \union {Req.name}) \in Seq(Requirement)
  BY <1>7, OthersFacts
<1>9. queue' \in Seq(Requirement)
  BY <1>1, <1>3, <1>8, ConcatProperties
<1>10. resolved' \in Resolutions
  BY <1>5 DEF Resolutions
<1> QED
  BY <1>2, <1>3, <1>4, <1>9, <1>10 DEF Seen

(* The two lines of TypeOK about lib/. *)
LibOK ==
    /\ lib \in [Names -> Checkouts \union {None}]
    /\ \A n \in Names : lib[n] # None => lib[n].at <= lib[n].known /\ lib[n].known <= published[n]

LEMMA CheckoutChanges ==
    ASSUME TypeOK, UNCHANGED published, NEW N \in SUBSET Names,
           lib' \in [Names -> Checkouts \union {None}],
           \A n \in Names \ N : lib'[n] = lib[n],
           \A n \in N : lib'[n] # None => Sound(n, lib'[n])
    PROVE  LibOK'
<1>1. ASSUME NEW n \in Names, lib'[n] # None
      PROVE  lib'[n].at <= lib'[n].known /\ lib'[n].known <= published'[n]
  <2>1. CASE n \in N
    BY <1>1, <2>1 DEF Sound
  <2>2. CASE n \notin N
    BY <1>1, <2>2 DEF TypeOK
  <2> QED
    BY <2>1, <2>2
<1> QED
  BY <1>1 DEF LibOK

LEMMA CheckoutChange ==
    ASSUME TypeOK, UNCHANGED published, NEW n \in Names, NEW d, Sound(n, d) \/ d = None,
           lib' = [lib EXCEPT ![n] = d]
    PROVE  LibOK'
<1>1. lib \in [Names -> Checkouts \union {None}] /\ d \in Checkouts \union {None}
  BY DEF TypeOK, Sound
<1>2. /\ lib' \in [Names -> Checkouts \union {None}]
      /\ \A m \in Names \ {n} : lib'[m] = lib[m]
      /\ lib'[n] = d
  BY <1>1
<1>3. {n} \in SUBSET Names
  OBVIOUS
<1> QED
  BY <1>2, <1>3, CheckoutChanges

LEMMA UnchangedLib ==
    ASSUME TypeOK, UNCHANGED <<published, lib>>
    PROVE  LibOK'
  BY DEF TypeOK, LibOK

(* The requirements that found no tag, in this walk and for pengu.lock. *)
OpenOK == open \union Awaited \subseteq [name : Names, want : SUBSET Versions]

LEMMA OpenStays ==
    ASSUME TypeOK, UNCHANGED open, unmet' = unmet \/ unmet' = {}
    PROVE  OpenOK'
  BY DEF TypeOK, OpenOK, Awaited

\* a round adds its requirement, if there is a tag checked out that it does not allow
LEMMA AwaitedAfter ==
    ASSUME TypeOK, Walking, NEW v \in Versions \union {0}, ResolveTo(v)
    PROVE  /\ Awaited' = Awaited \union (IF v = 0 \/ Allows(Req.want, v) THEN {}
                                       ELSE {[name |-> Req.name, want |-> Req.want]})
           /\ open' = open => OpenOK'
<1>1. Req.name \in Names /\ Req.want \in Wants
  BY QueueType
<1>2. PICK A : A = IF v = 0 \/ Allows(Req.want, v) THEN {}
                   ELSE {[name |-> Req.name, want |-> Req.want]}
  OBVIOUS
<1>3. PICK T : T = IF v = 0 \/ Allows(Req.want, v) THEN {}
                   ELSE {[why |-> "noTag", name |-> Req.name, want |-> Req.want]}
  OBVIOUS
<1>4. PICK R : unmet' = unmet \union {[why |-> "passedOver", name |-> r.name, want |-> r.want] :
                                        r \in R} \union T
  BY <1>3 DEF ResolveTo
<1>5. {w \in unmet' : w.why = "noTag"} = {w \in unmet : w.why = "noTag"} \union T
  <2>1. \A w \in T : w.why = "noTag"
    BY <1>3
  <2> QED
    BY <1>4, <2>1
<1>6. Awaited' = Awaited \union A
  <2>1. {[name |-> u.name, want |-> u.want] : u \in T} = A
    <3>1. CASE v = 0 \/ Allows(Req.want, v)
      BY <1>2, <1>3, <3>1
    <3>2. CASE ~(v = 0 \/ Allows(Req.want, v))
      <4>1. T = {[why |-> "noTag", name |-> Req.name, want |-> Req.want]}
        BY <1>3, <3>2
      <4>2. A = {[name |-> Req.name, want |-> Req.want]}
        BY <1>2, <3>2
      <4> QED
        BY <4>1, <4>2
    <3> QED
      BY <3>1, <3>2
  <2> QED
    BY <1>5, <2>1 DEF Awaited
<1>7. A \subseteq [name : Names, want : SUBSET Versions]
  BY <1>1, <1>2, WantIs DEF Allows
<1>8. open' = open => OpenOK'
  BY <1>6, <1>7 DEF TypeOK, OpenOK
<1> QED
  BY <1>2, <1>6, <1>8

(* A command that ends in a walk. *)
LEMMA WalkType ==
    ASSUME TypeOK, NEW op \in {"add", "update", "build", "frozen"}, NEW n \in Names \union {None},
           NEW deps \in Manifests, Given(op), Walk(op, n, deps)
    PROVE  /\ cmd' \in Orders \union {None} /\ queue' \in Seq(Requirement)
           /\ resolved' \in Resolutions /\ count' \in 0 .. MaxCommands
<1>1. manifest \in Manifests /\ count \in 0 .. MaxCommands /\ count < MaxCommands
  BY DEF TypeOK, Given
<1>2. cmd' \in Orders
  BY <1>1 DEF Walk, Orders
<1>3. queue' \in Seq(Requirement)
  BY RequirementsFacts, DepAssumption DEF Walk
<1>4. resolved' \in Resolutions
  BY NothingResolved DEF Walk
<1>5. count' \in 0 .. MaxCommands
  BY <1>1, DepAssumption DEF Walk
<1> QED
  BY <1>2, <1>3, <1>4, <1>5

LEMMA QuietType ==
    ASSUME Quiet
    PROVE  queue' \in Seq(Requirement) /\ resolved' \in Resolutions
  BY NothingResolved, EmptySeq DEF Quiet

(* The types, with the library's lines apart. *)
Parts ==
    /\ world \in Worlds /\ published \in [Names -> Versions] /\ manifest \in Manifests
    /\ LibOK
    /\ lock \in Resolutions \union {None} /\ cmd \in Orders \union {None}
    /\ queue \in Seq(Requirement) /\ resolved \in Resolutions
    /\ OpenOK
    /\ drift \in BOOLEAN /\ count \in 0 .. MaxCommands

LEMMA TypeParts == (TypeOK <=> Parts) /\ (TypeOK' <=> Parts')
  BY DEF TypeOK, LibOK, OpenOK, Parts, Requirement

LEMMA TypeStep == TypeOK /\ [Next]_vars => TypeOK'
<1> SUFFICES ASSUME TypeOK, [Next]_vars PROVE TypeOK'
  OBVIOUS
<1>0. /\ world \in Worlds /\ published \in [Names -> Versions] /\ manifest \in Manifests
      /\ lib \in [Names -> Checkouts \union {None}]
      /\ lock \in Resolutions \union {None} /\ cmd \in Orders \union {None}
      /\ queue \in Seq(Requirement) /\ resolved \in Resolutions
      /\ drift \in BOOLEAN /\ count \in 0 .. MaxCommands
  BY TypeParts DEF LibOK, Parts
<1>1. ASSUME NEW n \in Names, Add(n) PROVE TypeOK'
  <2>1. LibOK'
    <3>1. CASE UNCHANGED lib
      BY <1>1, <3>1, UnchangedLib DEF Add
    <3>2. CASE lib' = [lib EXCEPT ![n] = IF lib[n] = None THEN Cloned(n) ELSE Pulled(n)]
      BY <1>1, <3>2, SoundCheckouts, CheckoutChange DEF Add
    <3> QED
      BY <1>1, <3>1, <3>2 DEF Add
  <2>2. manifest' \in Manifests
    <3>1. Any \in Wants
      BY DEF Wants
    <3> QED
      BY <1>0, <1>1, <3>1, WithEntryType DEF Add
  <2>3. /\ cmd' \in Orders \union {None} /\ queue' \in Seq(Requirement)
        /\ resolved' \in Resolutions /\ count' \in 0 .. MaxCommands
    BY <1>1, <2>2, WalkType DEF Add
  <2> QED
    BY <1>0, <1>1, <2>1, <2>2, <2>3, TypeParts, OpenStays DEF Parts, Add, Walk
<1>2. ASSUME NEW n \in Names, Remove(n) PROVE TypeOK'
  <2>1. LibOK'
    <3>1. CASE UNCHANGED lib
      BY <1>2, <3>1, UnchangedLib DEF Remove
    <3>2. CASE lib' = [lib EXCEPT ![n] = None]
      BY <1>2, <3>2, CheckoutChange DEF Remove
    <3> QED
      BY <1>2, <3>1, <3>2 DEF Remove
  <2>2. manifest' \in Manifests /\ count' \in 0 .. MaxCommands
    BY <1>0, <1>2, WithoutType, DepAssumption DEF Remove, Given
  <2> QED
    BY <1>0, <1>2, <2>1, <2>2, TypeParts, OpenStays DEF Parts, Remove, walk
<1>3. ASSUME NEW n \in Names, Publish(n) PROVE TypeOK'
  <2>1. published[n] \in Versions /\ published[n] < MaxVersion
    BY <1>0, <1>3 DEF Publish
  <2>2. published[n] + 1 \in Versions /\ published[n] <= published[n] + 1
    BY <2>1, DepAssumption DEF Versions
  <2>3. /\ published' \in [Names -> Versions]
        /\ \A m \in Names : published'[m] = IF m = n THEN published[n] + 1 ELSE published[m]
    BY <1>0, <1>3, <2>2 DEF Publish
  <2>4. ASSUME NEW m \in Names, lib[m] # None
        PROVE  lib[m].at <= lib[m].known /\ lib[m].known <= published'[m]
    <3>1. lib[m] \in Checkouts /\ lib[m].at <= lib[m].known /\ lib[m].known <= published[m]
      BY <2>4 DEF TypeOK
    <3>2. lib[m].known \in Nat /\ published[m] \in Nat
      BY <1>0, <3>1, VersionsAre DEF Checkouts
    <3>3. published[m] <= published'[m] /\ published'[m] \in Nat
      BY <1>0, <2>2, <2>3, <3>2, VersionsAre
    <3> QED
      BY <3>1, <3>2, <3>3
  <2>5. LibOK'
    BY <1>0, <1>3, <2>4 DEF Publish, LibOK
  <2> QED
    BY <1>0, <1>3, <2>3, <2>5, TypeParts, OpenStays DEF Parts, Publish, walk
<1>4. ASSUME NEW n \in Names, NEW v \in Versions, Upgrade(n, v) PROVE TypeOK'
  <2>1. LibOK'
    <3>1. lib' = [lib EXCEPT ![n] = Checkout(n, v, published[n], lib[n].module)]
      BY <1>4 DEF Upgrade
    <3>2. Sound(n, Checkout(n, v, published[n], lib[n].module))
      BY <1>4, SoundCheckouts DEF Upgrade
    <3> QED
      BY <1>4, <3>1, <3>2, CheckoutChange DEF Upgrade
  <2>2. manifest' \in Manifests
    <3>1. {v} \in Wants
      <4>1. {v} \in SUBSET Versions /\ {v} # {}
        OBVIOUS
      <4> QED
        BY <4>1 DEF Wants
    <3> QED
      BY <1>0, <1>4, <3>1, WithEntryType DEF Upgrade
  <2>3. count' \in 0 .. MaxCommands
    BY <1>0, <1>4, DepAssumption DEF Upgrade, Given
  <2> QED
    BY <1>0, <1>4, <2>1, <2>2, <2>3, TypeParts, OpenStays DEF Parts, Upgrade, walk
<1>5. ASSUME NEW n \in Names, NEW c \in Constraints, Edit(n, c) PROVE TypeOK'
  <2>1. manifest' \in Manifests /\ count' \in 0 .. MaxCommands
    BY <1>0, <1>5, WithEntryType, DepAssumption DEF Edit, Given
  <2>2. LibOK'
    BY <1>5, UnchangedLib DEF Edit
  <2> QED
    BY <1>0, <1>5, <2>1, <2>2, TypeParts, OpenStays DEF Parts, Edit, walk
<1>6. ASSUME Update PROVE TypeOK'
  <2>1. PICK reached \in SUBSET {n \in Names : Listed(n) /\ lib[n] # None} :
              lib' = [n \in Names |-> IF n \in reached THEN Pulled(n) ELSE lib[n]]
    BY <1>6 DEF Update
  <2>2. \A n \in reached : n \in Names /\ Sound(n, Pulled(n)) /\ lib'[n] = Pulled(n)
    BY <2>1, SoundCheckouts
  <2>3. lib' \in [Names -> Checkouts \union {None}]
    BY <1>0, <2>1, <2>2 DEF Sound
  <2>4. \A n \in Names \ reached : lib'[n] = lib[n]
    BY <2>1
  <2>5. LibOK'
    BY <1>6, <2>2, <2>3, <2>4, CheckoutChanges DEF Update
  <2>6. /\ cmd' \in Orders \union {None} /\ queue' \in Seq(Requirement)
        /\ resolved' \in Resolutions /\ count' \in 0 .. MaxCommands
    BY <1>0, <1>6, WalkType DEF Update
  <2> QED
    BY <1>0, <1>6, <2>5, <2>6, TypeParts, OpenStays DEF Parts, Update, Walk
<1>7. ASSUME Build \/ BuildFrozen PROVE TypeOK'
  <2>1. /\ cmd' \in Orders \union {None} /\ queue' \in Seq(Requirement)
        /\ resolved' \in Resolutions /\ count' \in 0 .. MaxCommands
    BY <1>0, <1>7, WalkType DEF Build, BuildFrozen
  <2>2. LibOK'
    BY <1>7, UnchangedLib DEF Build, BuildFrozen
  <2> QED
    BY <1>0, <1>7, <2>1, <2>2, TypeParts, OpenStays DEF Parts, Build, BuildFrozen, Walk
<1>8. ASSUME Revisit PROVE TypeOK'
  <2>1. queue' \in Seq(Requirement)
    BY <1>8, QueueType DEF Revisit
  <2>2. LibOK'
    BY <1>8, UnchangedLib DEF Revisit
  <2> QED
    BY <1>0, <1>8, <2>1, <2>2, TypeParts, OpenStays DEF Parts, Revisit
<1>9. ASSUME Settle PROVE TypeOK'
  <2>1. PICK m \in Matched(Req.name, IF lib[Req.name] = None THEN Cloned(Req.name) ELSE lib[Req.name],
                           Req.want) :
              lib' = [lib EXCEPT ![Req.name] = m] /\ ResolveTo(m.at)
    BY <1>9 DEF Settle
  <2>2. Req.name \in Names /\ Req.want \in Wants
    BY <1>9, QueueType DEF Settle
  <2>3. Sound(Req.name, m)
    BY <2>1, <2>2, SoundCheckouts
  <2>4. m.at \in Versions \union {0}
    BY <2>3 DEF Sound, Checkouts
  <2>5. resolved' \in Resolutions /\ queue' \in Seq(Requirement)
    BY <1>9, <2>1, <2>4, ResolvedFacts DEF Settle
  <2>6. LibOK'
    BY <1>9, <2>1, <2>2, <2>3, CheckoutChange DEF Settle
  <2>7. OpenOK'
    BY <1>9, <2>1, <2>4, AwaitedAfter DEF Settle
  <2> QED
    BY <1>0, <1>9, <2>5, <2>6, <2>7, TypeParts DEF Parts, Settle
<1>10. ASSUME Missing PROVE TypeOK'
  <2>1. resolved' \in Resolutions /\ queue' \in Seq(Requirement)
    BY <1>10, ResolvedFacts DEF Missing
  <2>2. LibOK'
    BY <1>10, UnchangedLib DEF Missing
  <2>3. OpenOK'
    BY <1>10, AwaitedAfter DEF Missing
  <2> QED
    BY <1>0, <1>10, <2>1, <2>2, <2>3, TypeParts DEF Parts, Missing
<1>11. ASSUME ConflictEnds PROVE TypeOK'
  <2>1. queue' \in Seq(Requirement) /\ resolved' \in Resolutions
    BY <1>11, QuietType DEF ConflictEnds
  <2>2. LibOK' /\ manifest' \in Manifests
    <3>1. CASE UNCHANGED <<manifest, lib>>
      BY <1>0, <1>11, <3>1, UnchangedLib DEF ConflictEnds
    <3>2. CASE manifest' = Without(cmd.name) /\ lib' = [lib EXCEPT ![cmd.name] = None]
      <4>1. manifest' \in Manifests
        BY <1>0, <3>2, WithoutType
      <4>2. CASE cmd.name \in Names
        BY <1>11, <3>2, <4>1, <4>2, CheckoutChange DEF ConflictEnds
      <4>3. CASE cmd.name \notin Names
        <5>1. lib' = lib
          BY <1>0, <3>2, <4>3
        <5> QED
          BY <1>11, <4>1, <5>1, UnchangedLib DEF ConflictEnds
      <4> QED
        BY <4>2, <4>3
    <3> QED
      BY <1>11, <3>1, <3>2 DEF ConflictEnds
  <2> QED
    BY <1>0, <1>11, <2>1, <2>2, TypeParts, OpenStays DEF Parts, ConflictEnds, Quiet
<1>12. ASSUME EndAdd \/ WriteLock \/ Verdict PROVE TypeOK'
  <2>1. queue' \in Seq(Requirement) /\ resolved' \in Resolutions
    BY <1>12, QuietType DEF EndAdd, WriteLock, Verdict
  <2>2. LibOK'
    BY <1>12, UnchangedLib DEF EndAdd, WriteLock, Verdict
  <2>3. OpenOK'
    <3>1. CASE WriteLock
      <4>1. open' = Awaited /\ Awaited' = {}
        BY <3>1 DEF WriteLock, Quiet, Awaited
      <4> QED
        BY <4>1 DEF TypeOK, OpenOK
    <3> QED
      BY <1>12, <3>1, OpenStays DEF EndAdd, Verdict, Quiet
  <2> QED
    BY <1>0, <1>12, <2>1, <2>2, <2>3, TypeParts DEF Parts, EndAdd, WriteLock, Verdict
<1>13. ASSUME UNCHANGED vars PROVE TypeOK'
  BY <1>13 DEF vars, walk, TypeOK, Awaited
<1> QED
  BY <1>1, <1>2, <1>3, <1>4, <1>5, <1>6, <1>7, <1>8, <1>9, <1>10, <1>11, <1>12, <1>13
  DEF Next, Resolve

LEMMA DepInit == Init => TypeOK
<1> SUFFICES ASSUME Init PROVE TypeOK
  OBVIOUS
<1>1. /\ manifest \in Manifests /\ queue \in Seq(Requirement) /\ resolved \in Resolutions
  BY NothingResolved, ManifestsAre, EmptySeq DEF Init
<1>2. LibOK /\ published \in [Names -> Versions]
  BY VersionsAre DEF Init, LibOK
<1>3. world \in Worlds /\ lock = None /\ cmd = None
  BY DEF Init
<1>4. drift \in BOOLEAN
  BY DEF Init
<1>5. count = 0
  BY DEF Init
<1>6. count \in 0 .. MaxCommands
  BY <1>5, DepAssumption
<1>7. OpenOK
  BY DEF Init, OpenOK, Awaited
<1> QED
  BY <1>1, <1>2, <1>3, <1>4, <1>6, <1>7, TypeParts DEF Parts

(* The manifest, the checkouts, pengu.lock and the walk keep their shapes, *)
(* and a checkout stands at a tag it knows, which its repository has.      *)
THEOREM DepTypeCorrect == Spec => []TypeOK
  BY DepInit, TypeStep, PTL DEF Spec

-----------------------------------------------------------------------------
(* The walk as a worklist.  When no round is left, everything is resolved  *)
(* that is in the manifest or asked for by a resolved package, because     *)
(* before that it is resolved or waits in the queue.  A requirement waits  *)
(* no deeper than the number of packages that were resolved before it, so  *)
(* that the walk is never cut off at MaxDepth when there are no more       *)
(* packages than that.                                                     *)
Pending == DOMAIN resolved \union NamesOf(queue)

Closing ==
    /\ \A i \in DOMAIN manifest : manifest[i].name \in Pending
    /\ \A n \in DOMAIN resolved : resolved[n] # 0 =>
          /\ lib[n] # None /\ resolved[n] = lib[n].at
          /\ \A i \in DOMAIN world[n][resolved[n]] : world[n][resolved[n]][i].name \in Pending
    /\ \A i \in DOMAIN queue : queue[i].depth <= Cardinality(DOMAIN resolved)

ClosedInv == cmd # None => Closing

(* u consists of what s and t consist of. *)
Joins(u, s, t) ==
    /\ \A i \in DOMAIN s : \E j \in DOMAIN u : u[j] = s[i]
    /\ \A i \in DOMAIN t : \E j \in DOMAIN u : u[j] = t[i]
    /\ \A j \in DOMAIN u : (\E i \in DOMAIN s : u[j] = s[i]) \/ (\E i \in DOMAIN t : u[j] = t[i])

LEMMA Concatenated ==
    ASSUME NEW S, NEW s \in Seq(S), NEW t \in Seq(S)
    PROVE  Joins(s \o t, s, t)
<1> PICK u : u = s \o t
  OBVIOUS
<1>1. /\ u \in Seq(S) /\ Len(u) = Len(s) + Len(t) /\ DOMAIN u = 1 .. Len(s) + Len(t)
      /\ \A j \in 1 .. Len(s) + Len(t) : u[j] = IF j <= Len(s) THEN s[j] ELSE t[j - Len(s)]
  BY ConcatProperties
<1>2. /\ Len(s) \in Nat /\ DOMAIN s = 1 .. Len(s)
      /\ Len(t) \in Nat /\ DOMAIN t = 1 .. Len(t)
  OBVIOUS
<1>3. ASSUME NEW i \in DOMAIN s PROVE \E j \in DOMAIN u : u[j] = s[i]
  <2>1. i \in DOMAIN u /\ u[i] = s[i]
    BY <1>1, <1>2
  <2> QED
    BY <2>1
<1>4. ASSUME NEW i \in DOMAIN t PROVE \E j \in DOMAIN u : u[j] = t[i]
  <2>1. i + Len(s) \in DOMAIN u /\ u[i + Len(s)] = t[i]
    BY <1>1, <1>2
  <2> QED
    BY <2>1
<1>5. ASSUME NEW j \in DOMAIN u
      PROVE  (\E i \in DOMAIN s : u[j] = s[i]) \/ (\E i \in DOMAIN t : u[j] = t[i])
  <2>1. CASE j <= Len(s)
    <3>1. j \in DOMAIN s /\ u[j] = s[j]
      BY <1>1, <1>2, <2>1
    <3> QED
      BY <3>1
  <2>2. CASE ~(j <= Len(s))
    <3>1. j - Len(s) \in DOMAIN t /\ u[j] = t[j - Len(s)]
      BY <1>1, <1>2, <2>2
    <3> QED
      BY <3>1
  <2> QED
    BY <2>1, <2>2
<1> QED
  BY <1>3, <1>4, <1>5 DEF Joins

(* The queue after a package was resolved: what waited behind it, and what *)
(* it asks for and is not resolved.                                        *)
LEMMA QueueAfter ==
    ASSUME TypeOK, Walking, ~Seen, NEW v \in Versions \union {0}, ResolveTo(v)
    PROVE  /\ \A i \in DOMAIN queue : i # 1 => \E j \in DOMAIN queue' : queue'[j] = queue[i]
           /\ \A i \in DOMAIN Own(world, Req, v) :
                 Own(world, Req, v)[i].name \notin DOMAIN resolved \union {Req.name} =>
                    \E j \in DOMAIN queue' : queue'[j] = Own(world, Req, v)[i]
           /\ \A j \in DOMAIN queue' :
                 \/ \E i \in DOMAIN queue : queue'[j] = queue[i]
                 \/ \E i \in DOMAIN Own(world, Req, v) : queue'[j] = Own(world, Req, v)[i]
<1>1. PICK own : own = Own(world, Req, v)
  OBVIOUS
<1>2. PICK done : done = DOMAIN resolved \union {Req.name}
  OBVIOUS
<1>3. /\ Tail(queue) \in Seq(Requirement) /\ Req \in Requirement
      /\ Len(queue) \in Nat \ {0} /\ DOMAIN queue = 1 .. Len(queue)
      /\ DOMAIN Tail(queue) = 1 .. Len(queue) - 1
      /\ \A i \in 1 .. Len(queue) - 1 : Tail(queue)[i] = queue[i + 1]
  BY QueueType
<1>4. own \in Seq(Requirement)
  BY <1>1, <1>3, OwnType DEF TypeOK
<1>5. /\ Others(own, done) \in Seq(Requirement)
      /\ \A k \in DOMAIN Others(own, done) :
            \E i \in DOMAIN own : Others(own, done)[k] = own[i] /\ own[i].name \notin done
      /\ \A i \in DOMAIN own : own[i].name \notin done =>
            \E k \in DOMAIN Others(own, done) : Others(own, done)[k] = own[i]
  BY <1>4, OthersFacts
<1>6. queue' = Tail(queue) \o Others(own, done)
  BY <1>1, <1>2, ResolvedFacts
<1>7. PICK rest \in Seq(Requirement) : rest = Others(own, done)
  BY <1>5
<1>8. PICK tail \in Seq(Requirement) : tail = Tail(queue)
  BY <1>3
<1>9. PICK next : next = tail \o rest
  OBVIOUS
<1>10. Joins(next, tail, rest)
  BY <1>9, Concatenated
<1>11. /\ \A i \in DOMAIN queue : i # 1 => \E k \in DOMAIN tail : tail[k] = queue[i]
       /\ \A k \in DOMAIN tail : \E i \in DOMAIN queue : tail[k] = queue[i]
  <2>1. ASSUME NEW i \in DOMAIN queue, i # 1
        PROVE  \E k \in DOMAIN tail : tail[k] = queue[i]
    <3>1. i - 1 \in DOMAIN tail /\ tail[i - 1] = queue[i]
      BY <1>3, <1>8, <2>1
    <3> QED
      BY <3>1
  <2>2. \A k \in DOMAIN tail : k + 1 \in DOMAIN queue /\ tail[k] = queue[k + 1]
    BY <1>3, <1>8
  <2> QED
    BY <2>1, <2>2
<1>12. /\ \A k \in DOMAIN rest : \E i \in DOMAIN own : rest[k] = own[i]
       /\ \A i \in DOMAIN own : own[i].name \notin done => \E k \in DOMAIN rest : rest[k] = own[i]
  BY <1>5, <1>7
<1>13. queue' = next
  BY <1>6, <1>7, <1>8, <1>9
<1>14. \A i \in DOMAIN queue : i # 1 => \E j \in DOMAIN next : next[j] = queue[i]
  BY <1>10, <1>11 DEF Joins
<1>15. \A i \in DOMAIN own : own[i].name \notin done => \E j \in DOMAIN next : next[j] = own[i]
  BY <1>10, <1>12 DEF Joins
<1>16. \A j \in DOMAIN next : \/ \E i \in DOMAIN queue : next[j] = queue[i]
                              \/ \E i \in DOMAIN own : next[j] = own[i]
  BY <1>10, <1>11, <1>12 DEF Joins
<1> QED
  BY <1>1, <1>2, <1>13, <1>14, <1>15, <1>16

(* Resolving a package keeps the worklist. *)
LEMMA ClosingResolved ==
    ASSUME TypeOK, Closing, Walking, ~Seen, NEW v \in Versions \union {0}, ResolveTo(v),
           UNCHANGED <<world, manifest>>,
           IsFiniteSet(Names), Cardinality(Names) <= MaxDepth,
           \A n \in DOMAIN resolved : lib'[n] = lib[n],
           v # 0 => lib'[Req.name] # None /\ v = lib'[Req.name].at
    PROVE  Closing'
<1> DEFINE own == Own(world, Req, v)
           done == DOMAIN resolved \union {Req.name}
<1>1. /\ Req \in Requirement /\ Req.name \in Names /\ Req = queue[1]
      /\ DOMAIN queue = 1 .. Len(queue) /\ Len(queue) \in Nat \ {0}
  BY QueueType
<1>2. /\ DOMAIN resolved' = done /\ resolved'[Req.name] = v
      /\ \A m \in DOMAIN resolved : resolved'[m] = resolved[m]
  BY ResolvedFacts
<1>3. DOMAIN resolved \in SUBSET Names
  BY DEF TypeOK, Resolutions
<1>4. Req.name \notin DOMAIN resolved
  BY DEF Seen
<1>5. /\ Cardinality(DOMAIN resolved) \in Nat
      /\ Cardinality(done) = Cardinality(DOMAIN resolved) + 1
      /\ Cardinality(done) <= MaxDepth
  <2>1. IsFiniteSet(DOMAIN resolved) /\ Cardinality(DOMAIN resolved) \in Nat
    BY <1>3, FS_Subset, FS_CardinalityType
  <2>2. Cardinality(done) = Cardinality(DOMAIN resolved) + 1
    BY <1>4, <2>1, FS_AddElement
  <2>3. done \in SUBSET Names
    BY <1>1, <1>3
  <2>4. Cardinality(done) <= Cardinality(Names) /\ Cardinality(Names) \in Nat
    BY <2>3, FS_Subset, FS_CardinalityType
  <2> HIDE DEF done
  <2> QED
    BY <2>1, <2>2, <2>4, DepAssumption
<1>6. Req.depth \in Nat /\ Req.depth <= Cardinality(DOMAIN resolved)
  <2>1. 1 \in DOMAIN queue
    BY <1>1
  <2>2. Req.depth \in 0 .. MaxDepth
    BY <1>1 DEF Requirement
  <2> QED
    BY <1>1, <2>1, <2>2, DepAssumption DEF Closing
<1>7. Req.depth < MaxDepth /\ Req.depth + 1 \in 0 .. MaxDepth
  BY <1>5, <1>6, DepAssumption
<1>8. v # 0 => /\ DOMAIN own = DOMAIN world[Req.name][v]
               /\ \A i \in DOMAIN own : /\ own[i].name = world[Req.name][v][i].name
                                        /\ own[i].depth = Req.depth + 1
  <2> SUFFICES ASSUME v # 0
               PROVE  /\ DOMAIN own = DOMAIN world[Req.name][v]
                      /\ \A i \in DOMAIN own : /\ own[i].name = world[Req.name][v][i].name
                                               /\ own[i].depth = Req.depth + 1
    OBVIOUS
  <2>1. own = Requirements(world[Req.name][v], Req.name, Req.depth + 1)
    BY <1>7 DEF Own
  <2>2. world[Req.name][v] \in Manifests
    BY <1>1, OwnType DEF TypeOK
  <2> QED
    BY <1>1, <1>7, <2>1, <2>2, RequirementsFacts
<1>9. v = 0 => own = <<>>
  BY DEF Own
<1>10. /\ \A i \in DOMAIN queue : i # 1 => \E j \in DOMAIN queue' : queue'[j] = queue[i]
       /\ \A i \in DOMAIN own : own[i].name \notin done =>
             \E j \in DOMAIN queue' : queue'[j] = own[i]
       /\ \A j \in DOMAIN queue' : \/ \E i \in DOMAIN queue : queue'[j] = queue[i]
                                   \/ \E i \in DOMAIN own : queue'[j] = own[i]
  BY QueueAfter
<1>11. DOMAIN <<>> = {}
  BY NothingResolved
<1> HIDE DEF own, done
<1>12. \A x : x \in Pending => x \in Pending'
  <2> SUFFICES ASSUME NEW x, x \in NamesOf(queue), x \notin done
               PROVE  x \in NamesOf(queue')
    BY <1>2 DEF Pending, NamesOf, done
  <2>1. PICK i \in DOMAIN queue : queue[i].name = x
    BY DEF NamesOf
  <2>2. i # 1
    BY <1>1, <2>1 DEF done
  <2>3. PICK j \in DOMAIN queue' : queue'[j] = queue[i]
    BY <1>10, <2>2
  <2> QED
    BY <2>1, <2>3 DEF NamesOf
<1>13. \A i \in DOMAIN manifest' : manifest'[i].name \in Pending'
  BY <1>12 DEF Closing
<1>14. ASSUME NEW n \in DOMAIN resolved', resolved'[n] # 0
       PROVE  /\ lib'[n] # None /\ resolved'[n] = lib'[n].at
              /\ \A i \in DOMAIN world'[n][resolved'[n]] :
                    world'[n][resolved'[n]][i].name \in Pending'
  <2>1. CASE n \in DOMAIN resolved
    <3>1. /\ lib[n] # None /\ resolved[n] = lib[n].at
          /\ \A i \in DOMAIN world[n][resolved[n]] : world[n][resolved[n]][i].name \in Pending
      BY <1>2, <1>14, <2>1 DEF Closing
    <3>2. resolved'[n] = resolved[n] /\ lib'[n] = lib[n] /\ world' = world
      BY <1>2, <2>1
    <3> QED
      BY <1>12, <3>1, <3>2
  <2>2. CASE n \notin DOMAIN resolved
    <3>1. n = Req.name /\ resolved'[n] = v /\ v # 0 /\ world' = world
      BY <1>2, <1>14, <2>2 DEF done
    <3>2. ASSUME NEW i \in DOMAIN world[n][v]
          PROVE  world[n][v][i].name \in Pending'
      <4>1. i \in DOMAIN own /\ own[i].name = world[n][v][i].name
        BY <1>8, <3>1, <3>2
      <4>2. CASE own[i].name \in done
        BY <1>2, <4>1, <4>2 DEF Pending
      <4>3. CASE own[i].name \notin done
        <5>1. PICK j \in DOMAIN queue' : queue'[j] = own[i]
          BY <1>10, <4>1, <4>3
        <5>2. own[i].name \in NamesOf(queue')
          BY <5>1 DEF NamesOf
        <5> QED
          BY <4>1, <5>2 DEF Pending, NamesOf
      <4> QED
        BY <4>2, <4>3
    <3> QED
      BY <3>1, <3>2
  <2> QED
    BY <2>1, <2>2
<1>15. ASSUME NEW j \in DOMAIN queue'
       PROVE  queue'[j].depth <= Cardinality(DOMAIN resolved')
  <2>1. CASE \E i \in DOMAIN queue : queue'[j] = queue[i]
    <3>1. PICK i \in DOMAIN queue : queue'[j] = queue[i]
      BY <2>1
    <3>2. queue[i].depth <= Cardinality(DOMAIN resolved)
      BY DEF Closing
    <3>3. queue \in Seq(Requirement) /\ i \in 1 .. Len(queue)
      BY <1>1, QueueType
    <3>4. queue[i] \in Requirement
      BY <3>3, ElementOfSeq
    <3>5. queue[i].depth \in Nat
      BY <3>4, DepAssumption DEF Requirement
    <3> QED
      BY <1>2, <1>5, <3>1, <3>2, <3>5
  <2>2. CASE \E i \in DOMAIN own : queue'[j] = own[i]
    <3>1. PICK i \in DOMAIN own : queue'[j] = own[i]
      BY <2>2
    <3>2. v # 0
      BY <1>9, <1>11, <3>1
    <3>3. queue'[j].depth = Req.depth + 1
      BY <1>8, <3>1, <3>2
    <3> QED
      BY <1>2, <1>5, <1>6, <3>3
  <2> QED
    BY <1>10, <2>1, <2>2
<1> QED
  BY <1>13, <1>14, <1>15 DEF Closing

(* A command starts with its manifest in the queue. *)
LEMMA ClosingStarts ==
    ASSUME NEW op, NEW n, manifest' \in Manifests, Walk(op, n, manifest')
    PROVE  Closing'
<1>1. PICK q : q = Requirements(manifest', Root, 0)
  OBVIOUS
<1>2. PICK m : m = manifest'
  OBVIOUS
<1>3. /\ DOMAIN q = DOMAIN m
      /\ \A i \in DOMAIN m : q[i].name = m[i].name /\ q[i].depth = 0
  BY <1>1, <1>2, RequirementsFacts, DepAssumption
<1>4. queue' = q /\ resolved' = <<>>
  BY <1>1 DEF Walk
<1>5. DOMAIN resolved' = {} /\ Cardinality(DOMAIN resolved') = 0
  BY <1>4, NothingResolved, FS_EmptySet
<1>6. \A i \in DOMAIN manifest' : manifest'[i].name \in Pending'
  BY <1>2, <1>3, <1>4 DEF Pending, NamesOf
<1>7. \A i \in DOMAIN queue' : queue'[i].depth <= Cardinality(DOMAIN resolved')
  BY <1>3, <1>4, <1>5
<1> QED
  BY <1>5, <1>6, <1>7 DEF Closing

LEMMA ClosingStep ==
    ASSUME TypeOK, ClosedInv, [Next]_vars, IsFiniteSet(Names), Cardinality(Names) <= MaxDepth
    PROVE  ClosedInv'
<1>0. manifest \in Manifests /\ lib \in [Names -> Checkouts \union {None}]
  BY DEF TypeOK
<1>1. ASSUME NEW n \in Names, Add(n) PROVE ClosedInv'
  <2>1. Any \in Wants
    BY DEF Wants
  <2>2. manifest' \in Manifests
    BY <1>0, <1>1, <2>1, WithEntryType DEF Add
  <2> QED
    BY <1>1, <2>2, ClosingStarts DEF Add, ClosedInv
<1>2. ASSUME Update \/ Build \/ BuildFrozen PROVE ClosedInv'
  <2>1. manifest' \in Manifests /\ \E op, n : Walk(op, n, manifest')
    BY <1>0, <1>2 DEF Update, Build, BuildFrozen
  <2> QED
    BY <2>1, ClosingStarts DEF ClosedInv
<1>3. ASSUME NEW n \in Names,
             Remove(n) \/ (\E v \in Versions : Upgrade(n, v)) \/ (\E c \in Constraints : Edit(n, c))
      PROVE  ClosedInv'
  BY <1>3 DEF Remove, Upgrade, Edit, Given, ClosedInv
<1>4. ASSUME UNCHANGED <<world, manifest, lib, cmd, walk>>
      PROVE  ClosedInv'
  BY <1>4 DEF ClosedInv, Closing, Pending, NamesOf, walk
<1>5. ASSUME NEW n \in Names, Publish(n) PROVE ClosedInv'
  BY <1>4, <1>5 DEF Publish
<1>6. ASSUME Revisit PROVE ClosedInv'
  <2>1. /\ Walking /\ Req.name \in DOMAIN resolved /\ Closing
        /\ queue' = Tail(queue) /\ UNCHANGED <<world, manifest, lib, resolved>>
    BY <1>6 DEF Revisit, Seen, Walking, ClosedInv
  <2>2. /\ Len(queue) \in Nat \ {0} /\ DOMAIN queue = 1 .. Len(queue) /\ Req = queue[1]
        /\ DOMAIN queue' = 1 .. Len(queue) - 1
        /\ \A i \in 1 .. Len(queue) - 1 : queue'[i] = queue[i + 1]
    BY <2>1, QueueType
  <2>3. \A x : x \in Pending => x \in Pending'
    <3> SUFFICES ASSUME NEW x, x \in NamesOf(queue), x \notin DOMAIN resolved
                 PROVE  x \in NamesOf(queue')
      BY <2>1 DEF Pending, NamesOf
    <3>1. PICK i \in DOMAIN queue : queue[i].name = x
      BY DEF NamesOf
    <3>2. i # 1
      BY <2>1, <2>2, <3>1
    <3>3. i - 1 \in DOMAIN queue' /\ queue'[i - 1] = queue[i]
      BY <2>2, <3>2
    <3> QED
      BY <3>1, <3>3 DEF NamesOf
  <2>4. \A i \in DOMAIN queue' : i + 1 \in DOMAIN queue /\ queue'[i] = queue[i + 1]
    BY <2>2
  <2>5. Closing'
    BY <2>1, <2>3, <2>4 DEF Closing
  <2> QED
    BY <2>5 DEF ClosedInv
<1>7. ASSUME Settle PROVE ClosedInv'
  <2>1. PICK m \in Matched(Req.name, IF lib[Req.name] = None THEN Cloned(Req.name) ELSE lib[Req.name],
                           Req.want) :
              lib' = [lib EXCEPT ![Req.name] = m] /\ ResolveTo(m.at)
    BY <1>7 DEF Settle
  <2>2. Req.name \in Names /\ Req.want \in Wants /\ Walking /\ ~Seen
    BY <1>7, QueueType DEF Settle
  <2>3. Sound(Req.name, m)
    BY <2>1, <2>2, SoundCheckouts
  <2>4. m.at \in Versions \union {0} /\ m # None
    BY <2>3, DepAssumption DEF Sound, Checkouts
  <2>5. lib'[Req.name] = m /\ \A n \in DOMAIN resolved : lib'[n] = lib[n]
    <3>1. DOMAIN resolved \in SUBSET Names /\ Req.name \notin DOMAIN resolved
      BY <2>2 DEF TypeOK, Resolutions, Seen
    <3> QED
      BY <1>0, <2>1, <2>2, <3>1
  <2>6. Closing /\ UNCHANGED <<world, manifest>>
    BY <1>7 DEF Settle, Walking, ClosedInv
  <2>7. Closing'
    BY <2>1, <2>2, <2>4, <2>5, <2>6, ClosingResolved
  <2> QED
    BY <2>7 DEF ClosedInv
<1>8. ASSUME Missing PROVE ClosedInv'
  <2>1. Closing /\ UNCHANGED <<world, manifest, lib>> /\ Walking /\ ~Seen /\ ResolveTo(0)
    BY <1>8 DEF Missing, Walking, ClosedInv
  <2>2. Closing'
    BY <2>1, ClosingResolved
  <2> QED
    BY <2>2 DEF ClosedInv
<1>9. ASSUME ConflictEnds \/ EndAdd \/ WriteLock \/ Verdict PROVE ClosedInv'
  BY <1>9 DEF ConflictEnds, EndAdd, WriteLock, Verdict, ClosedInv
<1>10. ASSUME UNCHANGED vars PROVE ClosedInv'
  BY <1>4, <1>10 DEF vars
<1> QED
  BY <1>1, <1>2, <1>3, <1>5, <1>6, <1>7, <1>8, <1>9, <1>10 DEF Next, Resolve

(* When the walk ends, everything in the graph is resolved, at the version *)
(* that is checked out: no diamond and no cycle of any size makes it lose  *)
(* a package, as long as there are no more packages than levels.           *)
THEOREM TheWalkIsComplete ==
    ASSUME IsFiniteSet(Names), Cardinality(Names) <= MaxDepth
    PROVE  Spec => []GraphIsClosed
<1>1. Init => TypeOK /\ ClosedInv
  <2>1. Init => ClosedInv
    BY DEF Init, ClosedInv
  <2> QED
    BY <2>1, DepInit
<1>2. TypeOK /\ ClosedInv /\ [Next]_vars => TypeOK' /\ ClosedInv'
  BY TypeStep, ClosingStep
<1>3. TypeOK /\ ClosedInv => GraphIsClosed
  <2> SUFFICES ASSUME TypeOK, ClosedInv, Walked PROVE GraphIsClosed
    BY DEF GraphIsClosed
  <2>1. Closing /\ queue = <<>>
    BY DEF ClosedInv, Walked
  <2>2. NamesOf(queue) = {}
    BY <2>1, NothingResolved DEF NamesOf
  <2> QED
    BY <2>1, <2>2 DEF GraphIsClosed, Closing, Pending
<1> QED
  BY <1>1, <1>2, <1>3, PTL DEF Spec

-----------------------------------------------------------------------------
(* Taking an add back.  While an add walks, the manifest is the one it     *)
(* found with its entry at the end, unless the package was listed before.  *)
AddInv ==
    cmd # None /\ cmd.op = "add" =>
        /\ cmd.name \in Names
        /\ cmd.before \in Manifests
        /\ cmd.name \notin NamesOf(cmd.before) =>
              manifest = Append(cmd.before, [name |-> cmd.name, want |-> Any])

LEMMA AddStep == TypeOK /\ AddInv /\ [Next]_vars => AddInv'
<1> SUFFICES ASSUME TypeOK, AddInv, [Next]_vars PROVE AddInv'
  OBVIOUS
<1>1. ASSUME NEW n \in Names, Add(n) PROVE AddInv'
  <2>1. /\ cmd' = [op |-> "add", name |-> n, before |-> manifest]
        /\ manifest' = WithEntry(n, Any) /\ manifest \in Manifests
    BY <1>1 DEF Add, Walk, TypeOK
  <2>2. n \notin NamesOf(manifest) => manifest' = Append(manifest, [name |-> n, want |-> Any])
    BY <2>1 DEF WithEntry, Listed, Entries, NamesOf
  <2> QED
    BY <2>1, <2>2 DEF AddInv
<1>2. ASSUME Update \/ Build \/ BuildFrozen PROVE AddInv'
  <2>1. cmd'.op # "add"
    BY <1>2 DEF Update, Build, BuildFrozen, Walk
  <2> QED
    BY <2>1 DEF AddInv
<1>3. ASSUME NEW n \in Names,
             Remove(n) \/ (\E v \in Versions : Upgrade(n, v)) \/ (\E c \in Constraints : Edit(n, c))
      PROVE  AddInv'
  BY <1>3 DEF Remove, Upgrade, Edit, Given, AddInv
<1>4. ASSUME UNCHANGED <<manifest, cmd>> PROVE AddInv'
  BY <1>4 DEF AddInv, NamesOf
<1>5. ASSUME (\E n \in Names : Publish(n)) \/ Revisit \/ Settle \/ Missing
      PROVE  AddInv'
  BY <1>4, <1>5 DEF Publish, Revisit, Settle, Missing
<1>6. ASSUME ConflictEnds \/ EndAdd \/ WriteLock \/ Verdict PROVE AddInv'
  BY <1>6 DEF ConflictEnds, EndAdd, WriteLock, Verdict, AddInv
<1>7. ASSUME UNCHANGED vars PROVE AddInv'
  BY <1>4, <1>7 DEF vars
<1> QED
  BY <1>1, <1>2, <1>3, <1>5, <1>6, <1>7 DEF Next, Resolve

(* An add that fails because of a conflict leaves neither an entry nor a   *)
(* checkout of a package that the manifest did not list.                   *)
THEOREM AFreshAddRollsBack == Spec => FreshAddRollsBack
<1> DEFINE Rolls == FailedAdd /\ cmd' = None /\ cmd.name \notin NamesOf(cmd.before)
                      => manifest' = cmd.before /\ lib'[cmd.name] = None
<1>1. Init => TypeOK /\ AddInv
  <2>1. Init => AddInv
    BY DEF Init, AddInv
  <2> QED
    BY <2>1, DepInit
<1>2. TypeOK /\ AddInv /\ [Next]_vars => TypeOK' /\ AddInv'
  BY TypeStep, AddStep
<1>3. TypeOK /\ AddInv /\ [Next]_vars => [Rolls]_vars
  <2> SUFFICES ASSUME TypeOK, AddInv, Next, FailedAdd, cmd' = None,
                      cmd.name \notin NamesOf(cmd.before)
               PROVE  manifest' = cmd.before /\ lib'[cmd.name] = None
    BY DEF vars
  <2>1. cmd # None /\ cmd.op = "add" /\ queue # <<>>
    BY DEF FailedAdd, Conflict, Walking
  <2>2. /\ cmd.name \in Names /\ cmd.before \in Manifests
        /\ manifest = Append(cmd.before, [name |-> cmd.name, want |-> Any])
    BY <2>1 DEF AddInv
  <2>3. ConflictEnds
    <3>1. \A n \in Names : ~Add(n) /\ ~Remove(n) /\ ~Publish(n)
      BY <2>1 DEF Add, Remove, Publish, Given
    <3>2. \A n \in Names : (\A v \in Versions : ~Upgrade(n, v)) /\ (\A c \in Constraints : ~Edit(n, c))
      BY <2>1 DEF Upgrade, Edit, Given
    <3>3. ~Update /\ ~Build /\ ~BuildFrozen
      BY <2>1 DEF Update, Build, BuildFrozen, Given
    <3>4. ~Revisit /\ ~Settle /\ ~Missing /\ ~EndAdd /\ ~WriteLock /\ ~Verdict
      BY <2>1 DEF Revisit, Settle, Missing, EndAdd, WriteLock, Verdict, Walked
    <3> QED
      BY <3>1, <3>2, <3>3, <3>4 DEF Next, Resolve
  <2>4. manifest' = Without(cmd.name) /\ lib' = [lib EXCEPT ![cmd.name] = None]
    BY <2>1, <2>3 DEF ConflictEnds
  <2>5. PICK e : e = [name |-> cmd.name, want |-> Any]
    OBVIOUS
  <2>6. e \in Entry /\ e.name = cmd.name
    BY <2>2, <2>5 DEF Entry, Wants
  <2>7. Others(Append(cmd.before, e), {e.name}) = cmd.before
    BY <2>2, <2>6, OthersOfAppend
  <2>8. manifest' = cmd.before
    BY <2>2, <2>4, <2>5, <2>6, <2>7 DEF Without
  <2>9. lib'[cmd.name] = None
    BY <2>2, <2>4 DEF TypeOK
  <2> QED
    BY <2>8, <2>9
<1> QED
  BY <1>1, <1>2, <1>3, PTL DEF Spec, FreshAddRollsBack

-----------------------------------------------------------------------------
(* A frozen build repeats the last one.  A track is the course of a walk   *)
(* from manifest M, over checkouts L and packages W, that moves no         *)
(* checkout: it depends on the versions that are checked out and on        *)
(* nothing else.  A state of it is the queue, the versions recorded so far *)
(* and the requirement that each of these packages was resolved for.  That *)
(* a walk moves no checkout is due to these requirements: each selects the *)
(* tag that is checked out, or is one of the open ones.                    *)
At(L, n) == IF L[n] = None THEN 0 ELSE L[n].at

Stays(L, O, n, c) ==
    \/ L[n] = None \/ c = Any
    \/ Best(c, L[n].known) = L[n].at
    \/ [name |-> n, want |-> c] \in O

Firm(L, O, h) == \A n \in DOMAIN h : Stays(L, O, n, h[n])

Passed(s) == <<Tail(s[1]), s[2], s[3]>>

Entered(W, L, s) ==
    LET r == Head(s[1])
        done == DOMAIN s[2] \union {r.name}
    IN <<Tail(s[1]) \o Others(Own(W, r, At(L, r.name)), done),
         [m \in done |-> IF m = r.name THEN At(L, r.name) ELSE s[2][m]],
         [m \in done |-> IF m = r.name THEN r.want ELSE s[3][m]]>>

Meets(s) ==
    /\ Head(s[1]).name \in DOMAIN s[2]
    /\ s[2][Head(s[1]).name] = 0 \/ Allows(Head(s[1]).want, s[2][Head(s[1]).name])

Enters(s) == Head(s[1]).name \notin DOMAIN s[2]

Round(W, L, s, u) ==
    /\ s[1] # <<>>
    /\ \/ Meets(s) /\ u = Passed(s)
       \/ Enters(s) /\ u = Entered(W, L, s)

Start(M) == <<Requirements(M, Root, 0), <<>>, <<>>>>

\* what f says of the packages it is about, g says too
Keeps(f, g) == \A x \in DOMAIN f : x \in DOMAIN g /\ g[x] = f[x]

Track(M, W, L, k, t) ==
    /\ k \in Nat /\ DOMAIN t = 0 .. k
    /\ t[0] = Start(M)
    /\ \A j \in 0 .. k - 1 : Round(W, L, t[j], t[j + 1])
    /\ \A j \in 0 .. k : DOMAIN t[j][3] = DOMAIN t[j][2] /\ Keeps(t[j][3], t[k][3])

\* s is on a track that goes on to e
Passes(M, W, L, s, e) ==
    \E k, t : Track(M, W, L, k, t) /\ t[k] = e /\ \E j \in 0 .. k : t[j] = s

LEMMA TrackStarts ==
    ASSUME NEW M, NEW W, NEW L
    PROVE  Passes(M, W, L, Start(M), Start(M))
<1> DEFINE t == [j \in 0 .. 0 |-> Start(M)]
<1>1. 0 \in 0 .. 0 /\ \A j \in 0 .. 0 : j = 0
  OBVIOUS
<1>2. DOMAIN t = 0 .. 0 /\ t[0] = Start(M)
  BY <1>1
<1> HIDE DEF t
<1>3. t[0][3] = <<>> /\ t[0][2] = <<>>
  BY <1>2 DEF Start
<1>4. Track(M, W, L, 0, t)
  BY <1>1, <1>2, <1>3 DEF Track, Keeps
<1> QED
  BY <1>1, <1>2, <1>4 DEF Passes

LEMMA TrackGrows ==
    ASSUME NEW M, NEW W, NEW L, NEW s, NEW u, Passes(M, W, L, s, s), Round(W, L, s, u)
    PROVE  Passes(M, W, L, u, u)
<1>1. PICK k, t : Track(M, W, L, k, t) /\ t[k] = s
  BY DEF Passes
<1>2. /\ k \in Nat /\ DOMAIN t = 0 .. k /\ t[0] = Start(M)
      /\ \A j \in 0 .. k - 1 : Round(W, L, t[j], t[j + 1])
      /\ \A j \in 0 .. k : DOMAIN t[j][3] = DOMAIN t[j][2] /\ Keeps(t[j][3], s[3])
  BY <1>1 DEF Track
<1>3. DOMAIN u[3] = DOMAIN u[2] /\ Keeps(s[3], u[3])
  <2>1. DOMAIN s[3] = DOMAIN s[2]
    <3>1. k \in 0 .. k
      BY <1>2
    <3> QED
      BY <1>1, <1>2, <3>1
  <2>2. CASE u = Passed(s)
    BY <2>1, <2>2 DEF Passed, Keeps
  <2>3. CASE Enters(s) /\ u = Entered(W, L, s)
    <3>1. PICK r : r = Head(s[1])
      OBVIOUS
    <3>2. u[3] = [m \in DOMAIN s[2] \union {r.name} |-> IF m = r.name THEN r.want ELSE s[3][m]]
      BY <2>3, <3>1 DEF Entered
    <3>3. r.name \notin DOMAIN s[2]
      BY <2>3, <3>1 DEF Enters
    <3>4. DOMAIN u[2] = DOMAIN s[2] \union {r.name}
      BY <2>3, <3>1 DEF Entered
    <3> QED
      BY <2>1, <3>2, <3>3, <3>4 DEF Keeps
  <2>4. u = Passed(s) \/ (Enters(s) /\ u = Entered(W, L, s))
    BY DEF Round
  <2> QED
    BY <2>2, <2>3, <2>4
<1> DEFINE x == [j \in 0 .. k + 1 |-> IF j = k + 1 THEN u ELSE t[j]]
<1>4. /\ k + 1 \in Nat /\ DOMAIN x = 0 .. k + 1 /\ x[k + 1] = u /\ x[0] = t[0]
      /\ \A j \in 0 .. k : x[j] = t[j]
  BY <1>2
<1>5. \A j \in 0 .. k + 1 : j \in 0 .. k \/ j = k + 1
  BY <1>2
<1>6. ASSUME NEW j \in 0 .. (k + 1) - 1
      PROVE  Round(W, L, x[j], x[j + 1])
  <2>1. CASE j = k
    <3>1. x[j] = s /\ x[j + 1] = u
      BY <1>1, <1>2, <1>4, <2>1
    <3> QED
      BY <3>1
  <2>2. CASE j # k
    <3>1. j \in 0 .. k - 1 /\ j \in 0 .. k /\ j + 1 \in 0 .. k
      BY <1>2, <2>2
    <3>2. x[j] = t[j] /\ x[j + 1] = t[j + 1]
      BY <1>4, <3>1
    <3> QED
      BY <1>2, <3>1, <3>2
  <2> QED
    BY <2>1, <2>2
<1> HIDE DEF x
<1>7. \A j \in 0 .. k + 1 : DOMAIN x[j][3] = DOMAIN x[j][2] /\ Keeps(x[j][3], x[k + 1][3])
  <2>1. Keeps(u[3], u[3])
    BY DEF Keeps
  <2>2. ASSUME NEW j \in 0 .. k PROVE Keeps(t[j][3], u[3])
    BY <1>2, <1>3, <2>2 DEF Keeps
  <2> QED
    BY <1>2, <1>3, <1>4, <1>5, <2>1, <2>2
<1>8. Track(M, W, L, k + 1, x)
  BY <1>2, <1>4, <1>6, <1>7 DEF Track
<1>9. k + 1 \in 0 .. k + 1
  BY <1>2
<1> QED
  BY <1>4, <1>8, <1>9 DEF Passes

LEMMA TrackMoves ==
    ASSUME NEW M, NEW W, NEW L, NEW K, NEW s, NEW e, Passes(M, W, L, s, e),
           \A n \in DOMAIN e[3] : At(K, n) = At(L, n)
    PROVE  Passes(M, W, K, s, e)
<1>1. PICK k, t : Track(M, W, L, k, t) /\ t[k] = e /\ \E j \in 0 .. k : t[j] = s
  BY DEF Passes
<1>2. ASSUME NEW j \in 0 .. k - 1
      PROVE  Round(W, K, t[j], t[j + 1])
  <2>1. /\ Round(W, L, t[j], t[j + 1]) /\ k \in Nat
        /\ DOMAIN t[j + 1][3] \subseteq DOMAIN e[3]
    <3>1. k \in Nat
      BY <1>1 DEF Track
    <3>2. j + 1 \in 0 .. k
      BY <3>1
    <3> QED
      BY <1>1, <3>1, <3>2 DEF Track, Keeps
  <2>2. PICK a, b : a = t[j] /\ b = t[j + 1]
    OBVIOUS
  <2>3. PICK r : r = Head(a[1])
    OBVIOUS
  <2>4. Round(W, L, a, b)
    BY <2>1, <2>2
  <2>5. /\ a[1] # <<>>
        /\ \/ Meets(a) /\ b = Passed(a)
           \/ Enters(a) /\ b = Entered(W, L, a)
    BY <2>4 DEF Round
  <2>6. ASSUME b = Entered(W, L, a)
        PROVE  b = Entered(W, K, a)
    <3>1. r.name \in DOMAIN b[3]
      BY <2>3, <2>6 DEF Entered
    <3>2. At(K, r.name) = At(L, r.name)
      BY <2>1, <2>2, <3>1
    <3> QED
      BY <2>3, <2>6, <3>2 DEF Entered
  <2>7. Round(W, K, a, b)
    BY <2>5, <2>6 DEF Round
  <2> QED
    BY <2>2, <2>7
<1>3. Track(M, W, K, k, t)
  BY <1>1, <1>2 DEF Track
<1> QED
  BY <1>1, <1>3 DEF Passes

(* A state on a track to e is e, or the next round is on it too. *)
LEMMA TrackGoesOn ==
    ASSUME NEW M, NEW W, NEW L, NEW s, NEW e, Passes(M, W, L, s, e)
    PROVE  /\ s = e \/ \E u : Round(W, L, s, u) /\ Passes(M, W, L, u, e)
           /\ Passes(M, W, L, e, e) /\ Passes(M, W, L, Start(M), e)
           /\ Keeps(s[3], e[3]) /\ DOMAIN s[3] = DOMAIN s[2]
<1>1. PICK k, t : Track(M, W, L, k, t) /\ t[k] = e /\ \E j \in 0 .. k : t[j] = s
  BY DEF Passes
<1>2. PICK j \in 0 .. k : t[j] = s
  BY <1>1
<1>3. k \in Nat /\ t[0] = Start(M) /\ k \in 0 .. k /\ 0 \in 0 .. k
  BY <1>1 DEF Track
<1>4. Passes(M, W, L, e, e) /\ Passes(M, W, L, Start(M), e)
  BY <1>1, <1>3 DEF Passes
<1>5. Keeps(s[3], e[3]) /\ DOMAIN s[3] = DOMAIN s[2]
  BY <1>1, <1>2 DEF Track
<1>6. CASE j = k
  BY <1>1, <1>2, <1>4, <1>5, <1>6
<1>7. CASE j # k
  <2>1. j \in 0 .. k - 1 /\ j + 1 \in 0 .. k
    BY <1>3, <1>7
  <2>2. Round(W, L, s, t[j + 1])
    BY <1>1, <1>2, <2>1 DEF Track
  <2>3. Passes(M, W, L, t[j + 1], e)
    BY <1>1, <2>1 DEF Passes
  <2> QED
    BY <1>4, <1>5, <2>2, <2>3
<1> QED
  BY <1>6, <1>7

(* What pengu.lock records while nobody has changed the project since, and *)
(* where a build and a frozen build are on their way to it.  A tag that an *)
(* open requirement waited for may lead a frozen build off its track.      *)
LockInv ==
    /\ cmd # None /\ cmd.op = "add" => drift
    /\ cmd # None /\ cmd.op = "frozen" => lock # None
    /\ cmd # None /\ cmd.op \in {"build", "update"} =>
          \E h \in [DOMAIN resolved -> Wants] :
              /\ Passes(manifest, world, lib, <<queue, resolved, h>>, <<queue, resolved, h>>)
              /\ Firm(lib, Awaited, h)
    /\ cmd = None /\ ~drift /\ ~Overtaken /\ lock # None =>
          \E h \in [DOMAIN lock -> Wants] :
              /\ Passes(manifest, world, lib, <<<<>>, lock, h>>, <<<<>>, lock, h>>)
              /\ Firm(lib, open, h)
    /\ cmd # None /\ cmd.op = "frozen" /\ ~drift /\ ~Overtaken =>
          \E h \in [DOMAIN lock -> Wants] :
              /\ \E g : Passes(manifest, world, lib, <<queue, resolved, g>>, <<<<>>, lock, h>>)
              /\ Firm(lib, open, h)

(* What a frozen build finds at a requirement on its track. *)
LEMMA OnTrack ==
    ASSUME TypeOK, Walking, NEW g, NEW h,
           Passes(manifest, world, lib, <<queue, resolved, g>>, <<<<>>, lock, h>>)
    PROVE  \E u : /\ Passes(manifest, world, lib, u, <<<<>>, lock, h>>)
                  /\ \/ /\ Seen /\ (resolved[Req.name] = 0 \/ Allows(Req.want, resolved[Req.name]))
                        /\ u = <<Tail(queue), resolved, g>>
                     \/ /\ ~Seen /\ Req.name \in DOMAIN h /\ h[Req.name] = Req.want
                        /\ u = Entered(world, lib, <<queue, resolved, g>>)
<1>1. PICK s : s = <<queue, resolved, g>>
  OBVIOUS
<1>2. s[1] = queue /\ s[2] = resolved /\ s[3] = g /\ Head(s[1]) = Req /\ s[1] # <<>>
  BY <1>1 DEF Req, Walking
<1>3. PICK e : e = <<<<>>, lock, h>>
  OBVIOUS
<1>4. Passes(manifest, world, lib, s, e)
  BY <1>1, <1>3
<1>5. s # e /\ e[3] = h
  BY <1>2, <1>3
<1>6. PICK u : Round(world, lib, s, u) /\ Passes(manifest, world, lib, u, e)
  BY <1>4, <1>5, TrackGoesOn
<1>7. \/ Meets(s) /\ u = Passed(s)
      \/ Enters(s) /\ u = Entered(world, lib, s)
  BY <1>6 DEF Round
<1>8. Meets(s) => Seen /\ (resolved[Req.name] = 0 \/ Allows(Req.want, resolved[Req.name]))
  BY <1>2 DEF Meets, Seen
<1>9. ASSUME Enters(s), u = Entered(world, lib, s)
      PROVE  ~Seen /\ Req.name \in DOMAIN h /\ h[Req.name] = Req.want
  <2>1. ~Seen
    BY <1>2, <1>9 DEF Enters, Seen
  <2>2. Req.name \in DOMAIN u[3] /\ u[3][Req.name] = Req.want
    BY <1>2, <1>9 DEF Entered
  <2>3. Keeps(u[3], e[3])
    BY <1>6, TrackGoesOn
  <2> QED
    BY <1>5, <2>1, <2>2, <2>3 DEF Keeps
<1>10. Passed(s) = <<Tail(queue), resolved, g>>
  BY <1>2 DEF Passed
<1> QED
  BY <1>1, <1>3, <1>6, <1>7, <1>8, <1>9, <1>10

LEMMA EnteredIs ==
    ASSUME TypeOK, Walking, ~Seen, NEW L, NEW g, ResolveTo(At(L, Req.name)),
           At(L, Req.name) \in Versions \union {0}
    PROVE  Entered(world, L, <<queue, resolved, g>>)
             = <<queue', resolved', [m \in DOMAIN resolved \union {Req.name} |->
                                        IF m = Req.name THEN Req.want ELSE g[m]]>>
<1>1. PICK s : s = <<queue, resolved, g>>
  OBVIOUS
<1>2. s[1] = queue /\ s[2] = resolved /\ s[3] = g /\ Head(s[1]) = Req
  BY <1>1 DEF Req
<1>3. PICK v : v = At(L, Req.name)
  OBVIOUS
<1>4. /\ resolved' = [m \in DOMAIN resolved \union {Req.name} |->
                        IF m = Req.name THEN v ELSE resolved[m]]
      /\ queue' = Tail(queue) \o Others(Own(world, Req, v), DOMAIN resolved \union {Req.name})
  BY <1>3, ResolvedFacts
<1>5. Entered(world, L, s) =
        <<Tail(queue) \o Others(Own(world, Req, v), DOMAIN resolved \union {Req.name}),
          [m \in DOMAIN resolved \union {Req.name} |-> IF m = Req.name THEN v ELSE resolved[m]],
          [m \in DOMAIN resolved \union {Req.name} |-> IF m = Req.name THEN Req.want ELSE g[m]]>>
  BY <1>2, <1>3 DEF Entered
<1> QED
  BY <1>1, <1>4, <1>5

LEMMA AtType ==
    ASSUME TypeOK, NEW n \in Names
    PROVE  At(lib, n) \in Versions \union {0}
  BY DEF TypeOK, Checkouts, At

(* A tag that is there stays there. *)
LEMMA OvertakenStays ==
    ASSUME TypeOK, UNCHANGED open, \A n \in Names : published[n] <= published'[n],
           published' \in [Names -> Versions], Overtaken
    PROVE  Overtaken'
<1>1. PICK o \in open : Best(o.want, published[o.name]) # 0
  BY DEF Overtaken
<1>2. PICK c \in SUBSET Versions, n \in Names : c = o.want /\ n = o.name
  BY <1>1 DEF TypeOK
<1>3. /\ published[n] \in Versions /\ published'[n] \in Versions /\ published[n] <= published'[n]
      /\ published[n] \in Nat /\ published'[n] \in Nat
  BY VersionsAre DEF TypeOK
<1>4. PICK v : v = Best(c, published[n])
  OBVIOUS
<1>5. v \in c /\ v <= published[n] /\ v \in Nat
  BY <1>1, <1>2, <1>3, <1>4, BestVersion, VersionsAre
<1>6. v <= published'[n]
  BY <1>3, <1>5
<1>7. Best(c, published'[n]) # 0
  BY <1>3, <1>5, <1>6, BestVersion
<1> QED
  BY <1>1, <1>2, <1>7 DEF Overtaken

(* A requirement that a frozen build finds on its track moves nothing: the *)
(* tag it selects is checked out, or there is still none for it.           *)
LEMMA MatchedStays ==
    ASSUME TypeOK, ~Overtaken, NEW n \in Names, NEW c \in Wants, lib[n] # None,
           Stays(lib, open, n, c), NEW m \in Matched(n, lib[n], c)
    PROVE  m.at = lib[n].at /\ \A K : K[n] = m => Stays(K, open, n, c)
<1>1. Sound(n, lib[n])
  BY SoundCheckouts
<1>2. CASE c = Any
  BY <1>2 DEF Matched, Stays
<1>3. CASE c # Any /\ Best(c, lib[n].known) = lib[n].at
  <2>1. Best(c, lib[n].known) # 0
    BY <1>1, <1>3, VersionsAre DEF Sound, Checkouts
  <2>2. m = Checkout(n, lib[n].at, lib[n].known, lib[n].module)
    BY <1>3, <2>1 DEF Matched
  <2>3. m.at = lib[n].at /\ m.known = lib[n].known
    BY <2>2 DEF Checkout
  <2> QED
    BY <1>3, <2>3 DEF Stays
<1>4. CASE c # Any /\ [name |-> n, want |-> c] \in open
  <2>1. Best(c, published[n]) = 0
    BY <1>4 DEF Overtaken
  <2>2. /\ c \in SUBSET Versions /\ lib[n].known \in Versions /\ published[n] \in Versions
        /\ lib[n].known \in Nat /\ published[n] \in Nat /\ lib[n].known <= published[n]
    BY <1>1, <1>4, WantIs, VersionsAre DEF Sound, Checkouts, TypeOK
  <2>3. Best(c, lib[n].known) = 0
    <3> SUFFICES ASSUME Best(c, lib[n].known) # 0 PROVE FALSE
      OBVIOUS
    <3>1. PICK k : k = lib[n].known
      OBVIOUS
    <3>2. PICK v : v = Best(c, k)
      OBVIOUS
    <3>3. v \in c /\ v <= k /\ k <= published[n] /\ v \in Nat /\ k \in Nat
      BY <2>2, <3>1, <3>2, BestVersion, VersionsAre
    <3>4. v <= published[n]
      BY <2>2, <3>3
    <3> QED
      BY <2>1, <2>2, <3>3, <3>4, BestVersion
  <2>4. PICK k \in {lib[n].known, published[n]} : m = Checkout(n, lib[n].at, k, lib[n].module)
    BY <1>4, <2>1, <2>3 DEF Matched
  <2>5. m.at = lib[n].at
    BY <2>4 DEF Checkout
  <2> QED
    BY <1>4, <2>5 DEF Stays
<1> QED
  BY <1>2, <1>3, <1>4 DEF Stays

(* A requirement that is met selects the tag it was met with. *)
LEMMA MetStays ==
    ASSUME TypeOK, NEW n \in Names, NEW c \in Wants, NEW d, Sound(n, d), NEW m \in Matched(n, d, c),
           Allows(c, m.at)
    PROVE  c = Any \/ Best(c, m.known) = m.at
<1> SUFFICES ASSUME c # Any PROVE Best(c, m.known) = m.at
  OBVIOUS
<1>1. PICK k \in {d.known, published[n]} :
            m = Checkout(n, IF Best(c, k) = 0 THEN d.at ELSE Best(c, k), k, d.module)
  BY DEF Matched
<1>2. m.known = k /\ m.at = IF Best(c, k) = 0 THEN d.at ELSE Best(c, k)
  BY <1>1 DEF Checkout
<1>3. k \in Versions /\ d.at <= k
  <2>1. /\ d.at \in Nat /\ d.known \in Versions /\ d.known \in Nat
        /\ published[n] \in Versions /\ published[n] \in Nat
    BY VersionsAre DEF Sound, Checkouts, TypeOK
  <2>2. d.at <= d.known /\ d.known <= published[n]
    BY DEF Sound
  <2>3. d.at <= published[n]
    BY <2>1, <2>2
  <2> QED
    BY <2>1, <2>2, <2>3
<1>4. c \in SUBSET Versions
  BY WantIs
<1>5. CASE Best(c, k) = 0
  <2>1. d.at \in c
    BY <1>2, <1>5 DEF Allows
  <2>2. Best(c, k) # 0
    BY <1>3, <1>4, <2>1, BestVersion
  <2> QED
    BY <1>5, <2>2
<1>6. CASE Best(c, k) # 0
  BY <1>2, <1>6
<1> QED
  BY <1>5, <1>6

(* A round of a build or an update goes on with the track. *)
LEMMA BuildRound ==
    ASSUME TypeOK, Walking, ~Seen, UNCHANGED <<manifest, world>>,
           At(lib', Req.name) \in Versions \union {0}, ResolveTo(At(lib', Req.name)),
           \A x \in Names \ {Req.name} : lib'[x] = lib[x],
           Stays(lib', Awaited', Req.name, Req.want),
           NEW h \in [DOMAIN resolved -> Wants], Firm(lib, Awaited, h),
           Passes(manifest, world, lib, <<queue, resolved, h>>, <<queue, resolved, h>>)
    PROVE  \E g \in [DOMAIN resolved' -> Wants] :
              /\ Passes(manifest', world', lib', <<queue', resolved', g>>, <<queue', resolved', g>>)
              /\ Firm(lib', Awaited', g)
<1> DEFINE n == Req.name
<1>1. n \in Names /\ Req.want \in Wants /\ queue # <<>>
  BY QueueType DEF Walking
<1>2. DOMAIN resolved \subseteq Names \ {n}
  BY DEF TypeOK, Resolutions, Seen
<1>3. PICK g : g = [m \in DOMAIN resolved \union {n} |-> IF m = n THEN Req.want ELSE h[m]]
  OBVIOUS
<1>4. DOMAIN resolved' = DOMAIN resolved \union {n}
  BY ResolvedFacts
<1>5. g \in [DOMAIN resolved' -> Wants]
  BY <1>1, <1>3, <1>4
<1>6. Awaited \subseteq Awaited'
  BY AwaitedAfter
<1>7. Firm(lib', Awaited', g)
  <2> SUFFICES ASSUME NEW x \in DOMAIN g PROVE Stays(lib', Awaited', x, g[x])
    BY DEF Firm
  <2>1. CASE x = n
    BY <1>3, <2>1
  <2>2. CASE x # n
    <3>1. x \in DOMAIN h /\ x \in Names \ {n} /\ g[x] = h[x]
      BY <1>2, <1>3, <2>2
    <3>2. lib'[x] = lib[x] /\ Stays(lib, Awaited, x, h[x])
      BY <3>1 DEF Firm
    <3> QED
      BY <1>6, <3>1, <3>2 DEF Stays
  <2> QED
    BY <2>1, <2>2
<1>8. PICK s : s = <<queue, resolved, h>>
  OBVIOUS
<1>9. s[1] = queue /\ s[2] = resolved /\ s[3] = h /\ Head(s[1]) = Req
  BY <1>8 DEF Req
<1>10. PICK u : u = <<queue', resolved', g>>
  OBVIOUS
<1>11. u = Entered(world, lib', s)
  BY <1>3, <1>8, <1>10, EnteredIs
<1>12. Round(world, lib', s, u)
  BY <1>1, <1>9, <1>11 DEF Round, Enters, Seen
<1>13. Passes(manifest, world, lib', s, s)
  <2>1. \A x \in DOMAIN s[3] : At(lib', x) = At(lib, x)
    BY <1>2, <1>9 DEF At
  <2>2. Passes(manifest, world, lib, s, s)
    BY <1>8
  <2> QED
    BY <2>1, <2>2, TrackMoves
<1>14. Passes(manifest, world, lib', u, u)
  BY <1>12, <1>13, TrackGrows
<1> QED
  BY <1>5, <1>7, <1>10, <1>14

LEMMA LockStep == TypeOK /\ LockInv /\ [Next]_vars => LockInv'
<1> SUFFICES ASSUME TypeOK, LockInv, [Next]_vars PROVE LockInv'
  OBVIOUS
<1>1. ASSUME NEW n \in Names, Add(n) PROVE LockInv'
  <2>1. TypeOK'
    BY TypeStep
  <2>2. drift' = TRUE /\ cmd'.op = "add" /\ cmd' \in Orders
    <3>1. /\ cmd' = [op |-> "add", name |-> n, before |-> manifest]
          /\ drift' = TRUE /\ manifest \in Manifests
      BY <1>1 DEF Add, Walk, TypeOK
    <3> QED
      BY <3>1 DEF Orders
  <2> QED
    BY <2>2, DepAssumption DEF LockInv
<1>2. ASSUME NEW n \in Names,
             Remove(n) \/ (\E v \in Versions : Upgrade(n, v)) \/ (\E c \in Constraints : Edit(n, c))
      PROVE  LockInv'
  <2>1. drift' = TRUE /\ cmd' = None
    BY <1>2 DEF Remove, Upgrade, Edit, Given
  <2> QED
    BY <2>1 DEF LockInv
<1>3. ASSUME Update \/ Build PROVE LockInv'
  <2>1. PICK op \in {"update", "build"} :
              /\ cmd' = [op |-> op, name |-> None, before |-> manifest]
              /\ queue' = Requirements(manifest, Root, 0) /\ resolved' = <<>>
              /\ manifest' = manifest /\ world' = world
    BY <1>3 DEF Update, Build, Walk
  <2>2. cmd' \in Orders /\ cmd'.op = op
    BY <2>1 DEF TypeOK, Orders
  <2>3. PICK h : h = <<>>
    OBVIOUS
  <2>4. h \in [DOMAIN resolved' -> Wants] /\ Firm(lib', Awaited', h)
    BY <2>1, <2>3, NothingResolved DEF Firm
  <2>5. <<queue', resolved', h>> = Start(manifest')
    BY <2>1, <2>3 DEF Start
  <2>6. Passes(manifest', world', lib', <<queue', resolved', h>>, <<queue', resolved', h>>)
    BY <2>5, TrackStarts
  <2> QED
    BY <2>2, <2>4, <2>6, DepAssumption DEF LockInv
<1>4. ASSUME BuildFrozen PROVE LockInv'
  <2>1. /\ cmd' = [op |-> "frozen", name |-> None, before |-> manifest]
        /\ queue' = Requirements(manifest, Root, 0) /\ resolved' = <<>>
        /\ cmd = None /\ lock # None
        /\ UNCHANGED <<manifest, world, published, lib, lock, open, drift>>
    BY <1>4 DEF BuildFrozen, Walk, Given
  <2>2. cmd' \in Orders /\ cmd'.op = "frozen"
    BY <2>1 DEF TypeOK, Orders
  <2>3. <<queue', resolved', <<>>>> = Start(manifest)
    BY <2>1 DEF Start
  <2>4. ASSUME ~drift, ~Overtaken'
        PROVE  \E h \in [DOMAIN lock -> Wants] :
                  /\ \E g : Passes(manifest, world, lib, <<queue', resolved', g>>, <<<<>>, lock, h>>)
                  /\ Firm(lib, open, h)
    <3>1. ~Overtaken
      BY <2>1, <2>4 DEF Overtaken
    <3>2. PICK h \in [DOMAIN lock -> Wants] :
                /\ Passes(manifest, world, lib, <<<<>>, lock, h>>, <<<<>>, lock, h>>)
                /\ Firm(lib, open, h)
      BY <2>1, <2>4, <3>1 DEF LockInv
    <3>3. Passes(manifest, world, lib, Start(manifest), <<<<>>, lock, h>>)
      BY <3>2, TrackGoesOn
    <3> QED
      BY <2>3, <3>2, <3>3
  <2> QED
    BY <2>1, <2>2, <2>4, DepAssumption DEF LockInv
<1>5. ASSUME UNCHANGED <<manifest, world, lib, lock, open, drift, cmd, queue, resolved, unmet>>,
             Overtaken => Overtaken'
      PROVE  LockInv'
  <2>1. Awaited' = Awaited
    BY <1>5 DEF Awaited
  <2> QED
    BY <1>5, <2>1 DEF LockInv
<1>6. ASSUME NEW n \in Names, Publish(n) PROVE LockInv'
  <2>1. TypeOK'
    BY TypeStep
  <2>2. ASSUME NEW m \in Names PROVE published[m] <= published'[m]
    <3>1. published[m] \in Nat /\ (m = n => published'[m] = published[m] + 1)
      BY <1>6, VersionsAre DEF Publish, TypeOK
    <3>2. m # n => published'[m] = published[m]
      BY <1>6 DEF Publish, TypeOK
    <3> QED
      BY <3>1, <3>2
  <2>3. Overtaken => Overtaken'
    BY <1>6, <2>1, <2>2, OvertakenStays DEF TypeOK, Publish
  <2> QED
    BY <1>5, <1>6, <2>3 DEF Publish, walk
<1>7. ASSUME Revisit PROVE LockInv'
  <2>1. /\ Walking /\ Seen /\ ~Conflict /\ queue' = Tail(queue)
        /\ UNCHANGED <<manifest, world, published, lib, lock, open, drift, cmd, resolved, unmet>>
    BY <1>7 DEF Revisit
  <2>2. cmd # None /\ queue # <<>>
    BY <2>1 DEF Walking
  <2>3. (Awaited' = Awaited) /\ (Overtaken' <=> Overtaken)
    BY <2>1 DEF Awaited, Overtaken
  <2>4. ASSUME cmd.op \in {"build", "update"}
        PROVE  \E h \in [DOMAIN resolved -> Wants] :
                  /\ Passes(manifest, world, lib, <<queue', resolved, h>>, <<queue', resolved, h>>)
                  /\ Firm(lib, Awaited, h)
    <3>1. PICK h \in [DOMAIN resolved -> Wants] :
                /\ Passes(manifest, world, lib, <<queue, resolved, h>>, <<queue, resolved, h>>)
                /\ Firm(lib, Awaited, h)
      BY <2>2, <2>4 DEF LockInv
    <3>2. PICK s : s = <<queue, resolved, h>>
      OBVIOUS
    <3>3. s[1] = queue /\ s[2] = resolved /\ s[3] = h /\ Head(s[1]) = Req
      BY <3>2 DEF Req
    <3>4. resolved[Req.name] = 0 \/ Allows(Req.want, resolved[Req.name])
      BY <2>1 DEF Conflict
    <3>5. Meets(s) /\ Passed(s) = <<queue', resolved, h>>
      BY <2>1, <3>3, <3>4 DEF Meets, Passed, Seen
    <3>6. Round(world, lib, s, <<queue', resolved, h>>)
      BY <2>2, <3>3, <3>5 DEF Round
    <3>7. Passes(manifest, world, lib, s, s)
      BY <3>1, <3>2
    <3> QED
      BY <3>1, <3>6, <3>7, TrackGrows
  <2>5. ASSUME cmd.op = "frozen", ~drift, ~Overtaken
        PROVE  \E h \in [DOMAIN lock -> Wants] :
                  /\ \E g : Passes(manifest, world, lib, <<queue', resolved, g>>, <<<<>>, lock, h>>)
                  /\ Firm(lib, open, h)
    <3>0. PICK h \in [DOMAIN lock -> Wants] :
                /\ \E g : Passes(manifest, world, lib, <<queue, resolved, g>>, <<<<>>, lock, h>>)
                /\ Firm(lib, open, h)
      BY <2>2, <2>5 DEF LockInv
    <3>1. PICK g : Passes(manifest, world, lib, <<queue, resolved, g>>, <<<<>>, lock, h>>)
      BY <3>0
    <3>2. Passes(manifest, world, lib, <<queue', resolved, g>>, <<<<>>, lock, h>>)
      BY <2>1, <3>1, OnTrack
    <3> QED
      BY <3>0, <3>2
  <2> QED
    BY <2>1, <2>2, <2>3, <2>4, <2>5 DEF LockInv
<1>8. ASSUME Settle PROVE LockInv'
  <2> DEFINE n == Req.name
  <2>1. PICK d : d = IF lib[n] = None THEN Cloned(n) ELSE lib[n]
    OBVIOUS
  <2>2. PICK m \in Matched(n, d, Req.want) : lib' = [lib EXCEPT ![n] = m] /\ ResolveTo(m.at)
    BY <1>8, <2>1 DEF Settle
  <2>3. /\ Walking /\ ~Seen /\ cmd # None /\ queue # <<>>
        /\ lib[n] # None \/ cmd.op # "frozen"
        /\ UNCHANGED <<manifest, world, published, lock, open, drift, cmd>>
    BY <1>8 DEF Settle, Walking
  <2>4. n \in Names /\ Req.want \in Wants
    BY <2>3, QueueType
  <2>5. Sound(n, d) /\ Sound(n, m)
    BY <2>1, <2>2, <2>4, SoundCheckouts
  <2>6. m.at \in Versions /\ m # None
    BY <2>5, DepAssumption DEF Sound, Checkouts
  <2>7. lib'[n] = m /\ \A x \in Names \ {n} : lib'[x] = lib[x]
    BY <2>2, <2>4 DEF TypeOK
  <2>8. At(lib', n) = m.at
    BY <2>6, <2>7 DEF At
  <2>9. ASSUME cmd.op \in {"build", "update"}
        PROVE  \E g \in [DOMAIN resolved' -> Wants] :
                  /\ Passes(manifest', world', lib', <<queue', resolved', g>>, <<queue', resolved', g>>)
                  /\ Firm(lib', Awaited', g)
    <3>1. PICK h \in [DOMAIN resolved -> Wants] :
                /\ Passes(manifest, world, lib, <<queue, resolved, h>>, <<queue, resolved, h>>)
                /\ Firm(lib, Awaited, h)
      BY <2>3, <2>9 DEF LockInv
    <3>2. CASE Allows(Req.want, m.at)
      <4>1. Stays(lib', Awaited', n, Req.want)
        BY <2>4, <2>5, <2>7, <3>2, MetStays DEF Stays
      <4> QED
        BY <2>2, <2>3, <2>6, <2>7, <2>8, <3>1, <4>1, BuildRound
    <3>3. CASE ~Allows(Req.want, m.at)
      <4>1. m.at # 0
        BY <2>6, VersionsAre
      <4>2. [name |-> n, want |-> Req.want] \in Awaited'
        BY <2>2, <2>3, <2>6, <3>3, <4>1, AwaitedAfter
      <4>3. Stays(lib', Awaited', n, Req.want)
        BY <4>2 DEF Stays
      <4> QED
        BY <2>2, <2>3, <2>6, <2>7, <2>8, <3>1, <4>3, BuildRound
    <3> QED
      BY <3>2, <3>3
  <2>10. ASSUME cmd.op = "frozen", ~drift, ~Overtaken
         PROVE  \E h \in [DOMAIN lock -> Wants] :
                  /\ \E g : Passes(manifest, world, lib', <<queue', resolved', g>>, <<<<>>, lock, h>>)
                  /\ Firm(lib', open, h)
    <3>0. PICK h \in [DOMAIN lock -> Wants] :
                /\ \E g : Passes(manifest, world, lib, <<queue, resolved, g>>, <<<<>>, lock, h>>)
                /\ Firm(lib, open, h)
      BY <2>3, <2>10 DEF LockInv
    <3>1. PICK g : /\ Passes(manifest, world, lib, <<queue, resolved, g>>, <<<<>>, lock, h>>)
                   /\ Firm(lib, open, h)
      BY <3>0
    <3>2. PICK u : /\ Passes(manifest, world, lib, u, <<<<>>, lock, h>>)
                   /\ n \in DOMAIN h /\ h[n] = Req.want
                   /\ u = Entered(world, lib, <<queue, resolved, g>>)
      BY <2>3, <3>1, OnTrack
    <3>3. lib[n] # None /\ d = lib[n]
      BY <2>1, <2>3, <2>10
    <3>4. Stays(lib, open, n, Req.want)
      BY <3>1, <3>2 DEF Firm
    <3>5. m.at = lib[n].at /\ Stays(lib', open, n, Req.want)
      BY <2>2, <2>4, <2>7, <2>10, <3>3, <3>4, MatchedStays
    <3>6. At(lib, n) = m.at
      BY <3>3, <3>5 DEF At
    <3>7. PICK f : u = <<queue', resolved', f>>
      BY <2>2, <2>3, <2>6, <3>2, <3>6, EnteredIs
    <3>8. DOMAIN h \subseteq Names
      <4>1. lock \in Resolutions
        BY <2>3, <2>10 DEF TypeOK, LockInv
      <4> QED
        BY <4>1 DEF Resolutions
    <3>9. PICK e : e = <<<<>>, lock, h>>
      OBVIOUS
    <3>10. \A x \in DOMAIN e[3] : At(lib', x) = At(lib, x)
      BY <2>7, <2>8, <3>6, <3>8, <3>9 DEF At
    <3>11. Passes(manifest, world, lib', u, e)
      BY <3>2, <3>9, <3>10, TrackMoves
    <3>12. Firm(lib', open, h)
      <4> SUFFICES ASSUME NEW x \in DOMAIN h PROVE Stays(lib', open, x, h[x])
        BY DEF Firm
      <4>1. CASE x = n
        BY <3>2, <3>5, <4>1
      <4>2. CASE x # n
        <5>1. lib'[x] = lib[x] /\ Stays(lib, open, x, h[x])
          BY <2>7, <3>1, <3>8, <4>2 DEF Firm
        <5> QED
          BY <5>1 DEF Stays
      <4> QED
        BY <4>1, <4>2
    <3> QED
      BY <3>7, <3>9, <3>11, <3>12
  <2>11. Overtaken' <=> Overtaken
    BY <2>3 DEF Overtaken
  <2> QED
    BY <2>3, <2>9, <2>10, <2>11 DEF LockInv
<1>9. ASSUME Missing PROVE LockInv'
  <2>1. /\ Walking /\ ~Seen /\ cmd # None /\ queue # <<>> /\ lib[Req.name] = None /\ ResolveTo(0)
        /\ UNCHANGED <<manifest, world, published, lib, lock, open, drift, cmd>>
    BY <1>9 DEF Missing, Walking
  <2>2. At(lib, Req.name) = 0 /\ At(lib', Req.name) = 0
    BY <2>1 DEF At
  <2>3. ASSUME cmd.op \in {"build", "update"}
        PROVE  \E g \in [DOMAIN resolved' -> Wants] :
                  /\ Passes(manifest', world', lib', <<queue', resolved', g>>, <<queue', resolved', g>>)
                  /\ Firm(lib', Awaited', g)
    <3>1. PICK h \in [DOMAIN resolved -> Wants] :
                /\ Passes(manifest, world, lib, <<queue, resolved, h>>, <<queue, resolved, h>>)
                /\ Firm(lib, Awaited, h)
      BY <2>1, <2>3 DEF LockInv
    <3>2. Stays(lib', Awaited', Req.name, Req.want)
      BY <2>1 DEF Stays
    <3> QED
      BY <2>1, <2>2, <3>1, <3>2, BuildRound
  <2>4. ASSUME cmd.op = "frozen", ~drift, ~Overtaken
        PROVE  \E h \in [DOMAIN lock -> Wants] :
                  /\ \E g : Passes(manifest, world, lib, <<queue', resolved', g>>, <<<<>>, lock, h>>)
                  /\ Firm(lib, open, h)
    <3>0. PICK h \in [DOMAIN lock -> Wants] :
                /\ \E g : Passes(manifest, world, lib, <<queue, resolved, g>>, <<<<>>, lock, h>>)
                /\ Firm(lib, open, h)
      BY <2>1, <2>4 DEF LockInv
    <3>1. PICK g : /\ Passes(manifest, world, lib, <<queue, resolved, g>>, <<<<>>, lock, h>>)
                   /\ Firm(lib, open, h)
      BY <3>0
    <3>2. PICK u : /\ Passes(manifest, world, lib, u, <<<<>>, lock, h>>)
                   /\ u = Entered(world, lib, <<queue, resolved, g>>)
      BY <2>1, <3>1, OnTrack
    <3>3. PICK f : u = <<queue', resolved', f>>
      BY <2>1, <2>2, <3>2, EnteredIs
    <3> QED
      BY <3>1, <3>2, <3>3
  <2>5. Overtaken' <=> Overtaken
    BY <2>1 DEF Overtaken
  <2> QED
    BY <2>1, <2>3, <2>4, <2>5 DEF LockInv
<1>10. ASSUME ConflictEnds PROVE LockInv'
  BY <1>10 DEF ConflictEnds, LockInv
<1>11. ASSUME EndAdd PROVE LockInv'
  BY <1>11 DEF EndAdd, Walked, LockInv
<1>12. ASSUME WriteLock PROVE LockInv'
  <2>1. /\ cmd # None /\ queue = <<>> /\ cmd.op \in {"build", "update"} /\ cmd' = None
        /\ lock' = resolved /\ open' = Awaited /\ UNCHANGED <<manifest, world, lib>>
    BY <1>12 DEF WriteLock, Walked
  <2>2. \E h \in [DOMAIN resolved -> Wants] :
            /\ Passes(manifest, world, lib, <<<<>>, resolved, h>>, <<<<>>, resolved, h>>)
            /\ Firm(lib, Awaited, h)
    BY <2>1 DEF LockInv
  <2> QED
    BY <2>1, <2>2 DEF LockInv
<1>13. ASSUME Verdict PROVE LockInv'
  <2>1. /\ cmd # None /\ cmd.op = "frozen" /\ cmd' = None
        /\ UNCHANGED <<manifest, world, published, lib, lock, open, drift>>
    BY <1>13 DEF Verdict, Walked
  <2>2. Overtaken' <=> Overtaken
    BY <2>1 DEF Overtaken
  <2>3. ASSUME ~drift, ~Overtaken
        PROVE  \E h \in [DOMAIN lock -> Wants] :
                  /\ Passes(manifest, world, lib, <<<<>>, lock, h>>, <<<<>>, lock, h>>)
                  /\ Firm(lib, open, h)
    <3>0. PICK h \in [DOMAIN lock -> Wants] :
                /\ \E g : Passes(manifest, world, lib, <<queue, resolved, g>>, <<<<>>, lock, h>>)
                /\ Firm(lib, open, h)
      BY <2>1, <2>3 DEF LockInv
    <3>1. PICK g : /\ Passes(manifest, world, lib, <<queue, resolved, g>>, <<<<>>, lock, h>>)
                   /\ Firm(lib, open, h)
      BY <3>0
    <3>2. Passes(manifest, world, lib, <<<<>>, lock, h>>, <<<<>>, lock, h>>)
      BY <3>1, TrackGoesOn
    <3> QED
      BY <3>1, <3>2
  <2> QED
    BY <2>1, <2>2, <2>3 DEF LockInv
<1>14. ASSUME UNCHANGED vars PROVE LockInv'
  <2>1. Overtaken => Overtaken'
    BY <1>14 DEF vars, Overtaken
  <2> QED
    BY <1>5, <1>14, <2>1 DEF vars, walk
<1> QED
  BY <1>1, <1>2, <1>3, <1>4, <1>6, <1>7, <1>8, <1>9, <1>10, <1>11, <1>12, <1>13, <1>14
  DEF Next, Resolve

(* What a build has locked, a frozen build accepts, unless the project was *)
(* changed in between, whatever is published in the meantime except for a  *)
(* tag that a requirement was waiting for when the lock was written.       *)
THEOREM AFrozenBuildRepeats == Spec => FrozenAcceptsBuild
<1> DEFINE Repeats == cmd # None /\ cmd' = None /\ cmd.op = "frozen"
                        => drift \/ Overtaken \/ (resolved = lock /\ ~Conflict)
<1>1. Init => TypeOK /\ LockInv
  <2>1. Init => LockInv
    BY DEF Init, LockInv
  <2> QED
    BY <2>1, DepInit
<1>2. TypeOK /\ LockInv /\ [Next]_vars => TypeOK' /\ LockInv'
  BY TypeStep, LockStep
<1>3. TypeOK /\ LockInv /\ [Next]_vars => [Repeats]_vars
  <2> SUFFICES ASSUME TypeOK, LockInv, Next, cmd # None, cmd' = None, cmd.op = "frozen", ~drift, ~Overtaken
               PROVE  resolved = lock /\ ~Conflict
    BY DEF vars
  <2>0. PICK h, g : Passes(manifest, world, lib, <<queue, resolved, g>>, <<<<>>, lock, h>>)
    BY DEF LockInv
  <2>1. ~Conflict
    <3> SUFFICES ASSUME Conflict PROVE FALSE
      OBVIOUS
    <3>1. /\ Walking /\ Seen
          /\ ~(resolved[Req.name] = 0 \/ Allows(Req.want, resolved[Req.name]))
      BY DEF Conflict
    <3> QED
      BY <2>0, <3>1, OnTrack
  <2>2. Verdict
    <3>1. \A n \in Names : ~Add(n) /\ ~Remove(n) /\ ~Publish(n)
      BY DEF Add, Remove, Publish, Given
    <3>2. \A n \in Names : (\A v \in Versions : ~Upgrade(n, v)) /\ (\A c \in Constraints : ~Edit(n, c))
      BY DEF Upgrade, Edit, Given
    <3>3. ~Update /\ ~Build /\ ~BuildFrozen
      BY DEF Update, Build, BuildFrozen, Given
    <3>4. ~Revisit /\ ~Settle /\ ~Missing /\ ~EndAdd /\ ~WriteLock /\ ~ConflictEnds
      BY <2>1 DEF Revisit, Settle, Missing, EndAdd, WriteLock, ConflictEnds
    <3> QED
      BY <3>1, <3>2, <3>3, <3>4 DEF Next, Resolve
  <2>3. PICK s : s = <<queue, resolved, g>>
    OBVIOUS
  <2>4. PICK e : e = <<<<>>, lock, h>>
    OBVIOUS
  <2>5. Passes(manifest, world, lib, s, e) /\ s[1] = <<>>
    BY <2>0, <2>2, <2>3, <2>4 DEF Verdict, Walked
  <2>6. s = e
    <3>1. \A u : ~Round(world, lib, s, u)
      BY <2>5 DEF Round
    <3> QED
      BY <2>5, <3>1, TrackGoesOn
  <2>7. resolved = lock
    BY <2>3, <2>4, <2>6
  <2> QED
    BY <2>1, <2>7
<1> QED
  BY <1>1, <1>2, <1>3, PTL DEF Spec, FrozenAcceptsBuild

=============================================================================
