--------------------------- MODULE PenguMapProofs ---------------------------
(***************************************************************************)
(* Every key of a map is where its probes find it, len counts the entries, *)
(* no growth starts inside a growth, and the map implements MapSpec: for   *)
(* every set of keys, every hash function and every first capacity above   *)
(* one, as long as the allocations made while the table is rehashed        *)
(* succeed.                                                                *)
(***************************************************************************)
EXTENDS PenguMap, FiniteSetTheorems, WellFoundedInduction, TLAPS

-----------------------------------------------------------------------------
(* Numbers: the remainder, and the least element of a finite set.           *)

LEMMA Remainder ==
    ASSUME NEW c \in Nat \ {0}
    PROVE  /\ \A x \in Nat : x % c \in 0..(c - 1)
           /\ \A x \in 0..(c - 1) : x % c = x /\ (x + c) % c = x
  OBVIOUS

(* A non-empty set of positions has a first one. *)
LEMMA FirstIs ==
    ASSUME NEW c \in Nat, NEW S \in SUBSET (0..(c - 1)), S # {}
    PROVE  First(S) \in S /\ \A j \in S : First(S) <= j
  <1> DEFINE D == 0..(c - 1)
             T == {0..(i - 1) : i \in S}
  <1>1. IsFiniteSet(D)
    BY FS_Interval
  <1>2. IsWellFoundedOn(StrictSubsetOrdering(D), SUBSET D)
    <2>1. FiniteSubsetsOf(D) = SUBSET D
      BY <1>1, FS_FiniteSubsetsOfFinite
    <2> HIDE DEF D
    <2> QED BY <2>1, FS_StrictSubsetOrderingWellFounded
  <1>3. T \subseteq SUBSET D /\ T # {}
    <2>1. \A i \in S : 0..(i - 1) \subseteq D
      OBVIOUS
    <2>2. PICK i \in S : TRUE
      OBVIOUS
    <2>3. 0..(i - 1) \in T
      OBVIOUS
    <2> QED BY <2>1, <2>3
  <1>4. \E x \in T : \A y \in T : ~ (<<y, x>> \in StrictSubsetOrdering(D))
    <2> HIDE DEF T, D
    <2> QED BY <1>2, <1>3, WFMin
  <1>5. PICK i \in S : \A y \in T : ~ (<<y, 0..(i - 1)>> \in StrictSubsetOrdering(D))
    BY <1>4
  <1>6. \A j \in S : i <= j
    <2> SUFFICES ASSUME NEW j \in S, j < i PROVE FALSE
      OBVIOUS
    <2>1. 0..(j - 1) \in T
      OBVIOUS
    <2>2. 0..(j - 1) \subseteq 0..(i - 1) /\ j \in 0..(i - 1) /\ j \notin 0..(j - 1)
      OBVIOUS
    <2>3. <<0..(j - 1), 0..(i - 1)>> \in StrictSubsetOrdering(D)
      BY <2>2 DEF StrictSubsetOrdering
    <2> QED BY <1>5, <2>1, <2>3
  <1> QED BY <1>6 DEF First

-----------------------------------------------------------------------------
(* Probing.                                                                 *)

Tables(c) == [0..(c - 1) -> Slot]

LEMMA ProbeRange ==
    ASSUME NEW c \in Nat \ {0}, NEW k \in Keys
    PROVE  \A i \in Nat : Probe(k, i, c) \in 0..(c - 1)
  <1>1. Hash[k] \in Nat
    BY MapAssumption
  <1>2. Home(k, c) \in 0..(c - 1)
    BY <1>1, Remainder DEF Home
  <1>3. \A i \in Nat : Home(k, c) + i \in Nat
    BY <1>2
  <1> QED BY <1>3, Remainder DEF Probe

(* The probes of a key visit every slot. *)
LEMMA ProbeOnto ==
    ASSUME NEW c \in Nat \ {0}, NEW k \in Keys, NEW s \in 0..(c - 1)
    PROVE  \E i \in 0..(c - 1) : Probe(k, i, c) = s
  <1>1. Hash[k] \in Nat
    BY MapAssumption
  <1>2. Home(k, c) \in 0..(c - 1)
    BY <1>1, Remainder DEF Home
  <1>3. CASE Home(k, c) <= s
    <2>1. s - Home(k, c) \in 0..(c - 1) /\ Home(k, c) + (s - Home(k, c)) = s
      BY <1>2, <1>3
    <2>2. Probe(k, s - Home(k, c), c) = s
      BY <2>1, Remainder DEF Probe
    <2> QED BY <2>1, <2>2
  <1>4. CASE s < Home(k, c)
    <2>1. /\ s - Home(k, c) + c \in 0..(c - 1)
          /\ Home(k, c) + (s - Home(k, c) + c) = s + c
      BY <1>2, <1>4
    <2>2. Probe(k, s - Home(k, c) + c, c) = s
      BY <2>1, Remainder DEF Probe
    <2> QED BY <2>1, <2>2
  <1> QED BY <1>2, <1>3, <1>4

-----------------------------------------------------------------------------
(* What a search finds in a table whose keys are reachable.                 *)

Has(t, k) == \E s \in UsedIn(t) : t[s].key = k

LEMMA SlotIs ==
    ASSUME NEW c \in Nat, NEW t \in Tables(c), NEW s \in UsedIn(t)
    PROVE  /\ s \in 0..(c - 1)
           /\ t[s].key \in Keys /\ t[s].val \in Values
           /\ t[s] = Used(t[s].key, t[s].val)
  BY DEF Tables, UsedIn, Slot, Used, Virgin, Tombstone

LEMMA HitsAreSound ==
    ASSUME NEW c \in Nat, NEW t \in Tables(c), NEW k \in Keys,
           Hits(t, c, k) # {}
    PROVE  LET p == Probe(k, First(Hits(t, c, k)), c)
           IN  p \in UsedIn(t) /\ t[p].key = k
  <1>1. c \in Nat \ {0}
    BY DEF Hits, Searched
  <1>2. Hits(t, c, k) \in SUBSET (0..(c - 1))
    BY DEF Hits, Searched
  <1>3. First(Hits(t, c, k)) \in Hits(t, c, k)
    BY <1>2, FirstIs
  <1>4. Probe(k, First(Hits(t, c, k)), c) \in 0..(c - 1)
    BY <1>1, <1>2, <1>3, ProbeRange
  <1> QED BY <1>3, <1>4 DEF Hits, UsedIn, Tables

(* An entry whose probes reach it is hit. *)
LEMMA EntryIsHit ==
    ASSUME NEW c \in Nat, NEW t \in Tables(c), Reachable(t, c),
           NEW s \in UsedIn(t)
    PROVE  /\ Hits(t, c, t[s].key) # {}
           /\ Probe(t[s].key, First(Hits(t, c, t[s].key)), c) = s
  <1> DEFINE k == t[s].key
  <1>0. k \in Keys
    BY SlotIs
  <1>1. PICK i \in Searched(t, c, k) : Probe(k, i, c) = s
    BY DEF Reachable
  <1>2. i \in Hits(t, c, k)
    BY <1>1 DEF Hits, UsedIn
  <1> HIDE DEF k
  <1>3. LET p == Probe(k, First(Hits(t, c, k)), c)
        IN  p \in UsedIn(t) /\ t[p].key = k
    BY <1>0, <1>2, HitsAreSound
  <1> QED BY <1>2, <1>3 DEF Reachable, k

LEMMA HitsIffHas ==
    ASSUME NEW c \in Nat, NEW t \in Tables(c), Reachable(t, c), NEW k \in Keys
    PROVE  Hits(t, c, k) # {} <=> Has(t, k)
  <1>1. ASSUME Hits(t, c, k) # {} PROVE Has(t, k)
    BY <1>1, HitsAreSound DEF Has
  <1>2. ASSUME Has(t, k) PROVE Hits(t, c, k) # {}
    BY <1>2, EntryIsHit DEF Has
  <1> QED BY <1>1, <1>2

LEMMA LookupFinds ==
    ASSUME NEW c \in Nat, NEW t \in Tables(c), Reachable(t, c)
    PROVE  /\ \A s \in UsedIn(t) : Lookup(t, c, t[s].key) = t[s].val
           /\ \A k \in Keys : ~ Has(t, k) => Lookup(t, c, k) = None
  <1>1. ASSUME NEW s \in UsedIn(t) PROVE Lookup(t, c, t[s].key) = t[s].val
    BY EntryIsHit DEF Lookup
  <1>2. ASSUME NEW k \in Keys, ~ Has(t, k) PROVE Lookup(t, c, k) = None
    BY <1>2, HitsIffHas DEF Lookup
  <1> QED BY <1>1, <1>2

-----------------------------------------------------------------------------
(* What the calls do to a table.                                            *)

LEMMA BlankTable ==
    ASSUME NEW c \in Nat
    PROVE  /\ Blank(c) \in Tables(c) /\ UsedIn(Blank(c)) = {}
           /\ Reachable(Blank(c), c)
  BY DEF Blank, Tables, UsedIn, Reachable, Virgin, Slot

(* A value is overwritten in its slot. *)
LEMMA OverwriteTable ==
    ASSUME NEW c \in Nat, NEW t \in Tables(c), Reachable(t, c),
           NEW s \in UsedIn(t), NEW v \in Values
    PROVE  LET u == [t EXCEPT ![s].val = v]
           IN  /\ u \in Tables(c) /\ Reachable(u, c) /\ UsedIn(u) = UsedIn(t)
               /\ u[s].val = v
               /\ \A r \in UsedIn(t) : u[r].key = t[r].key
               /\ \A r \in UsedIn(t) \ {s} : u[r] = t[r]
  <1> DEFINE u == [t EXCEPT ![s].val = v]
  <1>1. /\ DOMAIN u = DOMAIN t /\ DOMAIN t = 0..(c - 1)
        /\ u[s] = Used(t[s].key, v)
        /\ \A r \in DOMAIN t \ {s} : u[r] = t[r]
    BY SlotIs DEF Tables, UsedIn, Used
  <1>2. u \in Tables(c)
    BY <1>1, SlotIs DEF Tables, Slot
  <1>3. \A r \in DOMAIN t : u[r].st = t[r].st /\ u[r].key = t[r].key
    <2>1. u[s].st = t[s].st /\ u[s].key = t[s].key
      BY <1>1 DEF Used, UsedIn
    <2> QED BY <1>1, <2>1
  <1>4. UsedIn(u) = UsedIn(t)
    BY <1>1, <1>3 DEF UsedIn
  <1>5. \A k \in Keys : Searched(u, c, k) = Searched(t, c, k)
    <2> SUFFICES ASSUME NEW k \in Keys PROVE Searched(u, c, k) = Searched(t, c, k)
      OBVIOUS
    <2>1. \A i \in 0..(c - 1) : \A j \in 0..(i - 1) : Probe(k, j, c) \in DOMAIN t
      BY ProbeRange, <1>1
    <2> HIDE DEF u
    <2> QED BY <2>1, <1>3 DEF Searched
  <1>6. Reachable(u, c)
    <2>1. \A r \in UsedIn(t) : u[r].key = t[r].key /\ t[r].key \in Keys
      BY <1>3, SlotIs DEF UsedIn
    <2> HIDE DEF u
    <2> QED BY <2>1, <1>4, <1>5 DEF Reachable
  <1> QED BY <1>1, <1>2, <1>3, <1>4, <1>6 DEF Used, UsedIn

(* A key that is not in the table takes its first vacant slot. *)
LEMMA InsertTable ==
    ASSUME NEW c \in Nat, NEW t \in Tables(c), Reachable(t, c),
           NEW k \in Keys, NEW v \in Values, ~ Has(t, k), Vacant(t, c, k) # {}
    PROVE  LET p == Probe(k, First(Vacant(t, c, k)), c)
               u == [t EXCEPT ![p] = Used(k, v)]
           IN  /\ p \notin UsedIn(t) /\ UsedIn(u) = UsedIn(t) \cup {p}
               /\ u \in Tables(c) /\ Reachable(u, c)
               /\ u[p] = Used(k, v) /\ \A r \in UsedIn(t) : u[r] = t[r]
  <1> DEFINE f == First(Vacant(t, c, k))
             p == Probe(k, f, c)
             u == [t EXCEPT ![p] = Used(k, v)]
  <1>0. c \in Nat \ {0}
    BY DEF Vacant
  <1>1. /\ f \in Vacant(t, c, k) /\ \A j \in Vacant(t, c, k) : f <= j
        /\ f \in 0..(c - 1)
    <2>1. Vacant(t, c, k) \in SUBSET (0..(c - 1))
      BY DEF Vacant
    <2> QED BY <2>1, FirstIs
  <1> HIDE DEF f
  <1>2. p \in 0..(c - 1) /\ t[p].st # "used" /\ p \notin UsedIn(t)
    BY <1>0, <1>1, ProbeRange DEF Vacant, UsedIn
  <1> HIDE DEF p
  <1>3. /\ DOMAIN u = 0..(c - 1) /\ DOMAIN t = 0..(c - 1)
        /\ u[p] = Used(k, v) /\ \A r \in 0..(c - 1) \ {p} : u[r] = t[r]
        /\ u \in Tables(c)
    BY <1>2 DEF Tables, Slot
  <1>4. UsedIn(u) = UsedIn(t) \cup {p}
    BY <1>3, <1>2 DEF UsedIn, Used
  <1>5. \A r \in UsedIn(t) : u[r] = t[r]
    BY <1>2, <1>3 DEF UsedIn
  <1> HIDE DEF u
  <1>6. \A x \in Keys : Searched(t, c, x) \subseteq Searched(u, c, x)
    <2> SUFFICES ASSUME NEW x \in Keys, NEW i \in 0..(c - 1), NEW j \in 0..(i - 1),
                        t[Probe(x, j, c)].st # "virgin"
                 PROVE  u[Probe(x, j, c)].st # "virgin"
      BY DEF Searched
    <2>1. Probe(x, j, c) \in 0..(c - 1)
      BY <1>0, ProbeRange
    <2> QED BY <2>1, <1>3 DEF Used
  <1>7. f \in Searched(u, c, k)
    <2> SUFFICES ASSUME NEW j \in 0..(f - 1)
                 PROVE  u[Probe(k, j, c)].st # "virgin"
      BY <1>1 DEF Searched
    <2>1. j \in 0..(c - 1) /\ j < f
      BY <1>1
    <2>2. t[Probe(k, j, c)].st = "used"
      BY <2>1, <1>1 DEF Vacant
    <2>3. Probe(k, j, c) \in 0..(c - 1)
      BY <1>0, ProbeRange
    <2> QED BY <2>2, <2>3, <1>3 DEF Used
  <1>8. Reachable(u, c)
    <2>1. ASSUME NEW s \in UsedIn(u)
          PROVE  \E i \in Searched(u, c, u[s].key) : Probe(u[s].key, i, c) = s
      <3>1. CASE s = p
        BY <3>1, <1>3, <1>7 DEF Used, p
      <3>2. CASE s \in UsedIn(t)
        BY <3>2, <1>5, <1>6, SlotIs DEF Reachable
      <3> QED BY <3>1, <3>2, <1>4
    <2>2. ASSUME NEW s1 \in UsedIn(u), NEW s2 \in UsedIn(u), u[s1].key = u[s2].key
          PROVE  s1 = s2
      <3>1. \A s \in UsedIn(t) : u[s].key # u[p].key
        BY <1>3, <1>5 DEF Has, Used
      <3> QED BY <2>2, <3>1, <1>4, <1>5 DEF Reachable
    <2> QED BY <2>1, <2>2 DEF Reachable
  <1> QED BY <1>2, <1>3, <1>4, <1>5, <1>8 DEF u, p, f

(* A removed entry leaves a tombstone, which the searches pass. *)
LEMMA RemoveTable ==
    ASSUME NEW c \in Nat, NEW t \in Tables(c), Reachable(t, c),
           NEW s \in UsedIn(t)
    PROVE  LET u == [t EXCEPT ![s] = Tombstone]
           IN  /\ u \in Tables(c) /\ Reachable(u, c)
               /\ UsedIn(u) = UsedIn(t) \ {s}
               /\ \A r \in UsedIn(u) : u[r] = t[r]
  <1> DEFINE u == [t EXCEPT ![s] = Tombstone]
  <1>1. /\ DOMAIN u = 0..(c - 1) /\ DOMAIN t = 0..(c - 1) /\ s \in 0..(c - 1)
        /\ u[s] = Tombstone /\ \A r \in 0..(c - 1) \ {s} : u[r] = t[r]
        /\ u \in Tables(c)
    BY DEF Tables, Slot, UsedIn
  <1>2. UsedIn(u) = UsedIn(t) \ {s} /\ \A r \in UsedIn(u) : u[r] = t[r]
    BY <1>1 DEF UsedIn, Tombstone
  <1> HIDE DEF u
  <1>3. \A x \in Keys : Searched(t, c, x) \subseteq Searched(u, c, x)
    <2> SUFFICES ASSUME NEW x \in Keys, NEW i \in 0..(c - 1), NEW j \in 0..(i - 1),
                        t[Probe(x, j, c)].st # "virgin"
                 PROVE  u[Probe(x, j, c)].st # "virgin"
      BY DEF Searched
    <2>1. Probe(x, j, c) \in 0..(c - 1)
      BY ProbeRange
    <2> QED BY <2>1, <1>1 DEF Tombstone
  <1>4. Reachable(u, c)
    BY <1>2, <1>3, SlotIs DEF Reachable
  <1> QED BY <1>1, <1>2, <1>4 DEF u

-----------------------------------------------------------------------------
(* A call of pengu_map_put in a table that is not full.                     *)

Sound(t, c, n) ==
  /\ c \in Nat \ {0} /\ t \in Tables(c) /\ Reachable(t, c)
  /\ n = Cardinality(UsedIn(t))

LEMMA UsedIsFinite ==
    ASSUME NEW c \in Nat, NEW t \in Tables(c)
    PROVE  IsFiniteSet(UsedIn(t)) /\ Cardinality(UsedIn(t)) \in Nat
  <1>1. UsedIn(t) \subseteq 0..(c - 1) /\ IsFiniteSet(0..(c - 1))
    BY FS_Interval DEF UsedIn, Tables
  <1> QED BY <1>1, FS_Subset, FS_CardinalityType

LEMMA VacantExists ==
    ASSUME NEW c \in Nat \ {0}, NEW t \in Tables(c), NEW k \in Keys,
           Cardinality(UsedIn(t)) < c
    PROVE  Vacant(t, c, k) # {}
  <1>1. Cardinality(0..(c - 1)) = c
    BY FS_Interval
  <1>2. PICK s \in 0..(c - 1) : s \notin UsedIn(t)
    <2> SUFFICES ASSUME 0..(c - 1) \subseteq UsedIn(t) PROVE FALSE
      OBVIOUS
    <2>1. UsedIn(t) = 0..(c - 1)
      BY DEF UsedIn, Tables
    <2> QED BY <2>1, <1>1
  <1>3. PICK i \in 0..(c - 1) : Probe(k, i, c) = s
    BY ProbeOnto
  <1>4. t[s].st # "used"
    BY <1>2 DEF UsedIn, Tables
  <1> QED BY <1>3, <1>4 DEF Vacant

(* Overwrite and Insert leave a sound table that maps the key to the value  *)
(* and is otherwise what it was.                                            *)
LEMMA StoreTable ==
    ASSUME NEW c, NEW t, NEW n, Sound(t, c, n), NEW k \in Keys, NEW v \in Values,
           Overwrite(t, c, n, k, v) \/ Insert(t, c, n, k, v)
    PROVE  /\ Sound(slots', c, len') /\ len' \in {n, n + 1} /\ n \in Nat
           /\ \A x \in Keys : Has(slots', x) <=> x = k \/ Has(t, x)
           /\ \A x \in Keys :
                Lookup(slots', c, x) = IF x = k THEN v ELSE Lookup(t, c, x)
  <1>0. c \in Nat /\ c \in Nat \ {0} /\ t \in Tables(c) /\ Reachable(t, c)
    BY DEF Sound
  <1>1. IsFiniteSet(UsedIn(t)) /\ n \in Nat
    BY <1>0, UsedIsFinite DEF Sound
  <1>2. SUFFICES /\ Sound(slots', c, len') /\ len' \in {n, n + 1}
                 /\ \E s \in UsedIn(slots') :
                      /\ slots'[s].key = k /\ slots'[s].val = v
                      /\ UsedIn(t) \cup {s} = UsedIn(slots')
                      /\ \A r \in UsedIn(t) \ {s} : slots'[r] = t[r]
                      /\ s \in UsedIn(t) => t[s].key = k
    <2>1. PICK s \in UsedIn(slots') :
                      /\ slots'[s].key = k /\ slots'[s].val = v
                      /\ UsedIn(t) \cup {s} = UsedIn(slots')
                      /\ \A r \in UsedIn(t) \ {s} : slots'[r] = t[r]
                      /\ s \in UsedIn(t) => t[s].key = k
      BY <1>2
    <2>2. slots' \in Tables(c) /\ Reachable(slots', c)
      BY <1>2 DEF Sound
    <2>3. ASSUME NEW x \in Keys PROVE Has(slots', x) <=> x = k \/ Has(t, x)
      BY <2>1 DEF Has
    <2>4. Lookup(slots', c, k) = v
      BY <2>1, <2>2, <1>0, LookupFinds
    <2>5. ASSUME NEW x \in Keys, x # k
          PROVE  Lookup(slots', c, x) = Lookup(t, c, x)
      <3>1. CASE Has(t, x)
        <4>1. PICK r \in UsedIn(t) : t[r].key = x
          BY <3>1 DEF Has
        <4>2. r \in UsedIn(slots') /\ slots'[r] = t[r]
          BY <4>1, <2>1, <2>5
        <4>3. Lookup(slots', c, slots'[r].key) = slots'[r].val
          BY <4>2, <2>2, <1>0, LookupFinds
        <4>4. Lookup(t, c, t[r].key) = t[r].val
          BY <1>0, LookupFinds
        <4> QED BY <4>1, <4>2, <4>3, <4>4
      <3>2. CASE ~ Has(t, x)
        BY <3>2, <2>3, <2>5, <2>2, <1>0, LookupFinds
      <3> QED BY <3>1, <3>2
    <2> QED BY <2>3, <2>4, <2>5, <1>1, <1>2
  <1>3. CASE Overwrite(t, c, n, k, v)
    <2> DEFINE s == Probe(k, First(Hits(t, c, k)), c)
    <2>1. s \in UsedIn(t) /\ t[s].key = k
      BY <1>0, <1>3, HitsAreSound DEF Overwrite
    <2>2. slots' = [t EXCEPT ![s].val = v] /\ len' = n
      BY <1>3 DEF Overwrite
    <2> HIDE DEF s
    <2>3. /\ slots' \in Tables(c) /\ Reachable(slots', c)
          /\ UsedIn(slots') = UsedIn(t) /\ slots'[s].val = v
          /\ \A r \in UsedIn(t) : slots'[r].key = t[r].key
          /\ \A r \in UsedIn(t) \ {s} : slots'[r] = t[r]
      <3> DEFINE u == [t EXCEPT ![s].val = v]
      <3>1. /\ u \in Tables(c) /\ Reachable(u, c) /\ UsedIn(u) = UsedIn(t)
            /\ u[s].val = v
            /\ \A r \in UsedIn(t) : u[r].key = t[r].key
            /\ \A r \in UsedIn(t) \ {s} : u[r] = t[r]
        BY <2>1, <1>0, OverwriteTable
      <3>2. slots' = u
        BY <2>2
      <3> HIDE DEF u
      <3> QED BY <3>1, <3>2
    <2>4. Sound(slots', c, len')
      BY <2>2, <2>3, <1>0 DEF Sound
    <2> QED BY <2>1, <2>2, <2>3, <2>4
  <1>4. CASE Insert(t, c, n, k, v)
    <2> DEFINE s == Probe(k, First(Vacant(t, c, k)), c)
    <2>1. ~ Has(t, k) /\ Vacant(t, c, k) # {}
      BY <1>0, <1>4, HitsIffHas DEF Insert
    <2>2. slots' = [t EXCEPT ![s] = Used(k, v)] /\ len' = n + 1
      BY <1>4 DEF Insert
    <2>3. /\ s \notin UsedIn(t) /\ UsedIn(slots') = UsedIn(t) \cup {s}
          /\ slots' \in Tables(c) /\ Reachable(slots', c)
          /\ slots'[s] = Used(k, v) /\ \A r \in UsedIn(t) : slots'[r] = t[r]
      <3> DEFINE u == [t EXCEPT ![s] = Used(k, v)]
      <3>1. /\ s \notin UsedIn(t) /\ UsedIn(u) = UsedIn(t) \cup {s}
            /\ u \in Tables(c) /\ Reachable(u, c)
            /\ u[s] = Used(k, v) /\ \A r \in UsedIn(t) : u[r] = t[r]
        BY <2>1, <1>0, InsertTable
      <3>2. slots' = u
        BY <2>2
      <3> HIDE DEF u, s
      <3> QED BY <3>1, <3>2
    <2> HIDE DEF s
    <2>4. Cardinality(UsedIn(slots')) = n + 1
      BY <2>3, <1>1, FS_AddElement DEF Sound
    <2>5. Sound(slots', c, len')
      BY <2>2, <2>3, <2>4, <1>0 DEF Sound
    <2>6. slots'[s].key = k /\ slots'[s].val = v /\ s \in UsedIn(slots')
      BY <2>3 DEF Used
    <2> QED BY <2>2, <2>3, <2>5, <2>6
  <1> QED BY <1>3, <1>4

-----------------------------------------------------------------------------
(* The inductive invariant.                                                 *)

OldSize == Cardinality(DOMAIN old)

(* While the table grows, what waits in the old one is not in the new one,  *)
(* and the two together hold no more than the old one did.                  *)
Growing ==
  /\ OldSize \in Nat /\ OldSize > 1 /\ cap = OldSize * 2 /\ pos <= OldSize
  /\ \A s1, s2 \in UsedIn(old) : old[s1].key = old[s2].key => s1 = s2
  /\ \A w \in Waiting : ~ Has(slots, old[w].key)
  /\ len <= pos
  /\ (len + Cardinality(Waiting)) * 2 <= OldSize + 1

IInv ==
  /\ TypeOK /\ KeysReachable /\ LenCounts
  /\ cap # 1
  /\ Idle => old = NoTable /\ pos = 0
  /\ ~Idle => Growing

LEMMA InitInv == Init => IInv
  <1> SUFFICES ASSUME Init PROVE IInv
    OBVIOUS
  <1>1. cap \in Nat /\ cap # 1
    BY MapAssumption DEF Init
  <1>2. slots \in Tables(cap) /\ UsedIn(slots) = {} /\ Reachable(slots, cap)
    BY <1>1, BlankTable DEF Init
  <1>3. DOMAIN NoTable = {} /\ Cardinality({}) = 0
    BY FS_EmptySet DEF NoTable
  <1>4. TypeOK
    BY <1>1, <1>2, <1>3 DEF Init, TypeOK, Tables
  <1>5. LenCounts
    BY <1>1, <1>2, <1>3 DEF Init, LenCounts
  <1> QED BY <1>1, <1>2, <1>4, <1>5 DEF Init, IInv, KeysReachable, Idle

LEMMA SoundNow ==
    ASSUME IInv, cap # 0
    PROVE  Sound(slots, cap, len) /\ cap > 1 /\ len \in Nat /\ len < cap
  BY DEF IInv, TypeOK, KeysReachable, LenCounts, Sound, Tables

(* A put that does not grow the table, or has grown it. *)
LEMMA StoreStep ==
    ASSUME NEW c, NEW t, NEW n, Sound(t, c, n), c > 1, n * 2 < c,
           NEW k \in Keys, NEW v \in Values, Store(t, c, n, k, v)
    PROVE  /\ Sound(slots', c, len') /\ len' * 2 <= c + 1 /\ len' \in Nat
           /\ \/ /\ answer' = <<"put", k, v>>
                 /\ \A x \in Keys :
                      Lookup(slots', c, x) = IF x = k THEN v ELSE Lookup(t, c, x)
              \/ /\ answer' = <<"refused", k, v>>
                 /\ slots' = t
  <1>1. c \in Nat /\ n \in Nat /\ Vacant(t, c, k) # {}
    BY VacantExists, UsedIsFinite DEF Sound
  <1>2. CASE NoSlot(t, c, n, k, "put")
             /\ answer' = <<IF Vacant(t, c, k) = {} THEN "dropped" ELSE "refused", k, v>>
    BY <1>1, <1>2 DEF NoSlot
  <1>3. CASE (Overwrite(t, c, n, k, v) \/ Insert(t, c, n, k, v)) /\ answer' = <<"put", k, v>>
    BY <1>1, <1>3, StoreTable
  <1> QED BY <1>2, <1>3 DEF Store

-----------------------------------------------------------------------------
(* A state between two calls, and what the map then is.                     *)

LEMMA IdleView ==
    ASSUME IInv, Idle
    PROVE  View = [k \in Keys |-> Lookup(slots, cap, k)]
  <1>1. Waiting = {}
    BY DEF IInv, Waiting, UsedIn, NoTable
  <1> QED BY <1>1 DEF View

LEMMA AfterStore ==
    ASSUME NEW c, c > 1, Sound(slots', c, len'), len' * 2 <= c + 1, cap' = c,
           (Idle)', (old = NoTable)', (pos = 0)'
    PROVE  IInv' /\ View' = [k \in Keys |-> Lookup(slots', c, k)]
  <1>1. /\ c \in Nat /\ slots' \in Tables(c) /\ len' \in Nat
        /\ Reachable(slots', c) /\ len' = Cardinality(UsedIn(slots'))
    BY UsedIsFinite DEF Sound
  <1>2. DOMAIN old' = 0..(Cardinality(DOMAIN old') - 1)
    BY FS_EmptySet DEF NoTable
  <1>3. TypeOK'
    BY <1>1, <1>2 DEF TypeOK, Tables, Idle, NoTable
  <1>4. KeysReachable' /\ LenCounts'
    BY <1>1 DEF KeysReachable, LenCounts
  <1>5. Waiting' = {}
    BY DEF Waiting, UsedIn, NoTable
  <1>6. IInv'
    BY <1>1, <1>3, <1>4 DEF IInv
  <1> QED BY <1>5, <1>6 DEF View

(* The calls of put that do not have to grow the table. *)
LEMMA PutStores ==
    ASSUME NEW c, c > 1, NEW t, NEW n, Sound(t, c, n), n * 2 < c, cap' = c,
           NEW k \in Keys, NEW v \in Values, Store(t, c, n, k, v),
           (Idle)', (old = NoTable)', (pos = 0)',
           View = [x \in Keys |-> Lookup(t, c, x)]
    PROVE  IInv' /\ Abstract!Put(k, v)
  <1>1. /\ Sound(slots', c, len') /\ len' * 2 <= c + 1
        /\ \/ /\ answer' = <<"put", k, v>>
              /\ \A x \in Keys :
                   Lookup(slots', c, x) = IF x = k THEN v ELSE Lookup(t, c, x)
           \/ /\ answer' = <<"refused", k, v>>
              /\ slots' = t
    BY StoreStep
  <1>2. IInv' /\ View' = [x \in Keys |-> Lookup(slots', c, x)]
    BY <1>1, AfterStore
  <1>3. CASE /\ answer' = <<"put", k, v>>
             /\ \A x \in Keys :
                  Lookup(slots', c, x) = IF x = k THEN v ELSE Lookup(t, c, x)
    <2>1. View' = [View EXCEPT ![k] = v]
      BY <1>2, <1>3
    <2> QED BY <1>2, <1>3, <2>1 DEF Abstract!Put
  <1>4. CASE answer' = <<"refused", k, v>> /\ slots' = t
    BY <1>2, <1>4 DEF Abstract!Put
  <1> QED BY <1>1, <1>3, <1>4

LEMMA PutFirstStep ==
    ASSUME IInv, NEW k \in Keys, NEW v \in Values, PutFirst(k, v)
    PROVE  IInv' /\ Abstract!Put(k, v)
  <1>1. InitCap \in Nat /\ InitCap > 1
    BY MapAssumption
  <1>2. Sound(Blank(InitCap), InitCap, 0)
    BY <1>1, BlankTable, FS_EmptySet DEF Sound
  <1>3. View = [x \in Keys |-> Lookup(Blank(InitCap), InitCap, x)]
    <2>1. View = [x \in Keys |-> Lookup(slots, cap, x)]
      BY IdleView DEF PutFirst
    <2>2. \A x \in Keys : Lookup(slots, cap, x) = None
      BY DEF PutFirst, Lookup, Hits, Searched
    <2>3. \A x \in Keys : Lookup(Blank(InitCap), InitCap, x) = None
      BY <1>1, BlankTable, LookupFinds DEF Has
    <2> QED BY <2>1, <2>2, <2>3
  <1>4. (Idle)' /\ (old = NoTable)' /\ (pos = 0)'
    BY DEF PutFirst, Idle, IInv
  <1>5. cap' = InitCap /\ Store(Blank(InitCap), InitCap, 0, k, v)
    BY DEF PutFirst
  <1> QED BY <1>1, <1>2, <1>3, <1>4, <1>5, PutStores

LEMMA PutRoomStep ==
    ASSUME IInv, NEW k \in Keys, NEW v \in Values, PutRoom(k, v)
    PROVE  IInv' /\ Abstract!Put(k, v)
  <1>1. Sound(slots, cap, len) /\ cap > 1 /\ len * 2 < cap
    BY SoundNow DEF PutRoom, HalfFull, IInv, TypeOK
  <1>2. View = [x \in Keys |-> Lookup(slots, cap, x)]
    BY IdleView DEF PutRoom
  <1>3. (Idle)' /\ (old = NoTable)' /\ (pos = 0)'
    BY DEF PutRoom, Idle, IInv
  <1>4. cap' = cap /\ Store(slots, cap, len, k, v)
    BY DEF PutRoom
  <1> QED BY <1>1, <1>2, <1>3, <1>4, PutStores

LEMMA PutGrownStep ==
    ASSUME IInv, PutGrown
    PROVE  IInv' /\ \E k \in Keys, v \in Values : Abstract!Put(k, v)
  <1>0. Growing /\ ~Idle
    BY DEF IInv, PutGrown
  <1>1. call.key \in Keys /\ call.val \in Values
    BY <1>0 DEF IInv, TypeOK, Idle
  <1>2. Waiting = {}
    BY DEF Waiting, UsedIn, IInv, TypeOK, PutGrown
  <1>3. Sound(slots, cap, len) /\ cap > 1 /\ len * 2 < cap
    <2>1. Cardinality(Waiting) = 0 /\ cap # 0
      BY <1>0, <1>2, FS_EmptySet DEF Growing
    <2>2. Sound(slots, cap, len) /\ cap > 1 /\ len \in Nat
      BY <2>1, SoundNow
    <2> QED BY <1>0, <2>1, <2>2 DEF Growing
  <1>4. View = [x \in Keys |-> Lookup(slots, cap, x)]
    BY <1>2 DEF View
  <1>5. (Idle)' /\ (old = NoTable)' /\ (pos = 0)'
    BY DEF PutGrown, Idle
  <1>6. cap' = cap /\ Store(slots, cap, len, call.key, call.val)
    BY DEF PutGrown
  <1>7. IInv' /\ Abstract!Put(call.key, call.val)
    BY <1>1, <1>3, <1>4, <1>5, <1>6, PutStores
  <1> QED BY <1>1, <1>7

LEMMA PutGrowsStep ==
    ASSUME IInv, NEW k \in Keys, NEW v \in Values, PutGrows(k, v)
    PROVE  IInv' /\ View' = View
  <1>1. /\ cap \in Nat /\ cap > 1 /\ Idle /\ len \in Nat
        /\ slots \in Tables(cap) /\ Reachable(slots, cap)
        /\ len = Cardinality(UsedIn(slots)) /\ len * 2 <= cap + 1
    BY DEF IInv, PutGrows, TypeOK, KeysReachable, LenCounts, Tables
  <1>2. /\ old' = slots /\ pos' = 0 /\ call' = [key |-> k, val |-> v]
        /\ cap' = cap * 2 /\ slots' = Blank(cap * 2) /\ len' = 0
    BY DEF PutGrows
  <1>3. /\ slots' \in Tables(cap') /\ UsedIn(slots') = {}
        /\ Reachable(slots', cap') /\ cap' \in Nat
    BY <1>1, <1>2, BlankTable
  <1>4. DOMAIN slots = 0..(cap - 1) /\ Cardinality(0..(cap - 1)) = cap
    BY <1>1, FS_Interval DEF Tables
  <1>5. TypeOK'
    BY <1>1, <1>2, <1>3, <1>4 DEF TypeOK, Tables
  <1>6. Waiting' = UsedIn(slots)
    BY <1>2, <1>4 DEF Waiting, UsedIn
  <1>7. Growing'
    <2>1. (OldSize)' = cap
      BY <1>2, <1>4 DEF OldSize
    <2>2. \A s1, s2 \in UsedIn(slots) : slots[s1].key = slots[s2].key => s1 = s2
      BY <1>1 DEF Reachable
    <2> QED BY <1>1, <1>2, <1>3, <1>6, <2>1, <2>2 DEF Growing, Has
  <1>8. ~ (Idle)'
    BY <1>2, MapAssumption DEF Idle
  <1>9. IInv'
    <2>1. KeysReachable' /\ LenCounts'
      <3>1. Cardinality(UsedIn(slots')) = 0
        BY <1>3, FS_EmptySet
      <3> QED BY <1>2, <1>3, <3>1 DEF KeysReachable, LenCounts
    <2> QED BY <1>1, <1>2, <1>5, <1>7, <1>8, <2>1 DEF IInv
  <1>10. View' = View
    <2>1. View = [x \in Keys |-> Lookup(slots, cap, x)]
      BY IdleView, <1>1
    <2>2. \A x \in Keys : Lookup(slots', cap', x) = None
      BY <1>3, LookupFinds DEF Has
    <2>3. ASSUME NEW x \in Keys PROVE View'[x] = Lookup(slots, cap, x)
      <3>1. CASE Has(slots, x)
        <4> DEFINE s == CHOOSE r \in UsedIn(slots) : slots[r].key = x
        <4>1. s \in UsedIn(slots) /\ slots[s].key = x
          BY <3>1 DEF Has
        <4>2. View'[x] = slots[s].val
          BY <3>1, <1>2, <1>6 DEF View, Has
        <4> HIDE DEF s
        <4>3. Lookup(slots, cap, slots[s].key) = slots[s].val
          BY <4>1, <1>1, LookupFinds
        <4> QED BY <4>1, <4>2, <4>3
      <3>2. CASE ~ Has(slots, x)
        <4>1. View'[x] = Lookup(slots', cap', x)
          BY <3>2, <1>2, <1>6 DEF View, Has
        <4>2. Lookup(slots, cap, x) = None
          BY <3>2, <1>1, LookupFinds
        <4> QED BY <4>1, <4>2, <2>2
      <3> QED BY <3>1, <3>2
    <2>4. View' = [x \in Keys |-> View'[x]]
      BY DEF View
    <2> QED BY <2>1, <2>3, <2>4
  <1> QED BY <1>9, <1>10

(* One entry of the old table, unless it cannot be allocated a slot, is in  *)
(* the new one; the invariant holds either way.                             *)
LEMMA MoveEntryStep ==
    ASSUME IInv, MoveEntry
    PROVE  IInv' /\ ("rehash" \notin Fails => View' = View)
  <1>1. Growing /\ ~Idle /\ pos \in DOMAIN old /\ pos \in Nat
    BY DEF IInv, MoveEntry, TypeOK, Growing, OldSize
  <1>2. Sound(slots, cap, len) /\ cap > 1 /\ len < cap /\ len \in Nat
    BY <1>1, SoundNow DEF Growing
  <1>3. /\ pos' = pos + 1 /\ cap' = cap /\ old' = old /\ call' = call
        /\ pos + 1 <= OldSize /\ (OldSize)' = OldSize /\ OldSize \in Nat
    BY <1>1 DEF MoveEntry, OldSize, Growing
  <1>4. /\ Waiting' = Waiting \ {pos}
        /\ pos \in Waiting <=> old[pos].st = "used"
        /\ Waiting \subseteq UsedIn(old) /\ \A w \in Waiting : w \in DOMAIN old
    <2>1. \A w \in DOMAIN old : w \in Nat
      BY <1>3 DEF IInv, TypeOK, OldSize
    <2> QED BY <1>1, <1>3, <2>1 DEF Waiting, UsedIn
  <1>5. IsFiniteSet(Waiting) /\ Cardinality(Waiting) \in Nat
    <2>1. DOMAIN old = 0..(OldSize - 1) /\ IsFiniteSet(0..(OldSize - 1))
      BY <1>3, FS_Interval DEF IInv, TypeOK, OldSize
    <2>2. Waiting \subseteq DOMAIN old
      BY <1>4
    <2> QED BY <2>1, <2>2, FS_Subset, FS_CardinalityType
  <1>6. /\ Cardinality(Waiting') \in Nat
        /\ Cardinality(Waiting') = IF old[pos].st = "used"
                                   THEN Cardinality(Waiting) - 1
                                   ELSE Cardinality(Waiting)
    BY <1>4, <1>5, FS_RemoveElement, FS_CardinalityType
  <1>7. \A w1, w2 \in Waiting : old[w1].key = old[w2].key => w1 = w2
    BY <1>1, <1>4 DEF Growing
  <1> DEFINE K == old[pos].key
             V == old[pos].val
  <1>8. old[pos].st = "used" => /\ K \in Keys /\ V \in Values /\ ~ Has(slots, K)
                                /\ Hits(slots, cap, K) = {}
                                /\ Vacant(slots, cap, K) # {}
    <2> SUFFICES ASSUME old[pos].st = "used"
                 PROVE  /\ K \in Keys /\ V \in Values /\ ~ Has(slots, K)
                        /\ Hits(slots, cap, K) = {}
                        /\ Vacant(slots, cap, K) # {}
      OBVIOUS
    <2>1. K \in Keys /\ V \in Values
      BY <1>1 DEF IInv, TypeOK, Slot, Used, Virgin, Tombstone
    <2>2. ~ Has(slots, K)
      BY <1>1, <1>4 DEF Growing
    <2> HIDE DEF K, V
    <2> QED BY <2>1, <2>2, <1>2, HitsIffHas, VacantExists DEF Sound
  \* What the turn does to the new table.
  <1>9. CASE slots' = slots /\ len' = len
    <2>1. TypeOK' /\ KeysReachable' /\ LenCounts' /\ ~ (Idle)'
      BY <1>1, <1>3, <1>9 DEF IInv, TypeOK, KeysReachable, LenCounts, Idle
    <2>2. Growing'
      BY <1>1, <1>2, <1>3, <1>4, <1>5, <1>6, <1>9 DEF Growing
    <2>3. IInv'
      BY <2>1, <2>2, <1>3 DEF IInv
    <2>4. ASSUME "rehash" \notin Fails PROVE View' = View
      <3>1. old[pos].st # "used"
        BY <1>8, <1>9, <2>4, <1>2 DEF MoveEntry, NoSlot, Insert, Overwrite
      <3>2. Waiting' = Waiting
        BY <3>1, <1>4
      <3> QED BY <3>2, <1>3, <1>9 DEF View
    <2> QED BY <2>3, <2>4
  <1>10. CASE old[pos].st = "used" /\ Insert(slots, cap, len, K, V)
    <2>1. /\ Sound(slots', cap, len') /\ len' = len + 1
          /\ \A x \in Keys : Has(slots', x) <=> x = K \/ Has(slots, x)
          /\ \A x \in Keys :
               Lookup(slots', cap, x) = IF x = K THEN V ELSE Lookup(slots, cap, x)
      <3>1. len' = len + 1
        BY <1>10 DEF Insert
      <3> HIDE DEF K, V
      <3> QED BY <3>1, <1>2, <1>8, <1>10, StoreTable
    <2>2. (len + 1) * 2 <= cap
      BY <1>1, <1>2, <1>3 DEF Growing
    <2>3. TypeOK' /\ KeysReachable' /\ LenCounts' /\ ~ (Idle)'
      BY <2>1, <2>2, <1>1, <1>2, <1>3
      DEF Sound, IInv, TypeOK, KeysReachable, LenCounts, Idle, Tables
    <2>4. \A w \in Waiting' : old[w].key # K /\ old[w].key \in Keys
      <3>1. \A w \in Waiting' : old[w].key # K
        BY <1>4, <1>7, <1>10
      <3>2. \A w \in Waiting : old[w].key \in Keys
        BY <1>4 DEF IInv, TypeOK, Slot, Used, Virgin, Tombstone, UsedIn
      <3> QED BY <3>1, <3>2, <1>4
    <2>5. Growing'
      <3>1. \A w \in Waiting' : ~ Has(slots', old[w].key)
        BY <2>1, <2>4, <1>1, <1>4 DEF Growing
      <3> QED BY <3>1, <2>1, <1>1, <1>2, <1>3, <1>5, <1>6, <1>10 DEF Growing
    <2>6. IInv'
      BY <2>3, <2>5, <1>3 DEF IInv
    <2>7. View' = View
      <3>1. ASSUME NEW x \in Keys PROVE View'[x] = View[x]
        <4>1. CASE x = K
          <5>1. View[x] = V
            <6>1. (CHOOSE s \in Waiting : old[s].key = K) = pos
              BY <1>4, <1>7, <1>10
            <6> QED BY <6>1, <1>4, <1>10, <4>1 DEF View
          <5>2. View'[x] = Lookup(slots', cap, x)
            BY <4>1, <2>4, <1>3 DEF View
          <5> QED BY <5>1, <5>2, <4>1, <2>1
        <4>2. CASE x # K /\ \E s \in Waiting : old[s].key = x
          <5>1. PICK w \in Waiting : old[w].key = x
            BY <4>2
          <5>2. w \in Waiting'
            BY <5>1, <4>2, <1>4
          <5>3. /\ (CHOOSE s \in Waiting : old[s].key = x) = w
                /\ (CHOOSE s \in Waiting' : old[s].key = x) = w
            BY <5>1, <5>2, <1>4, <1>7
          <5>4. View[x] = old[w].val
            BY <5>1, <5>3 DEF View
          <5>5. View'[x] = old[w].val
            BY <5>1, <5>2, <5>3, <1>3 DEF View
          <5> QED BY <5>4, <5>5
        <4>3. CASE x # K /\ ~ \E s \in Waiting : old[s].key = x
          BY <4>3, <2>1, <1>3, <1>4 DEF View
        <4> QED BY <4>1, <4>2, <4>3
      <3>2. View = [x \in Keys |-> View[x]] /\ View' = [x \in Keys |-> View'[x]]
        BY DEF View
      <3> QED BY <3>1, <3>2
    <2> QED BY <2>6, <2>7
  <1> QED BY <1>8, <1>9, <1>10 DEF MoveEntry, NoSlot, Overwrite

LEMMA RemoveStep ==
    ASSUME IInv, NEW k \in Keys, Remove(k)
    PROVE  IInv' /\ Abstract!Remove(k)
  <1>1. /\ cap \in Nat /\ len \in Nat /\ slots \in Tables(cap)
        /\ Reachable(slots, cap) /\ len = Cardinality(UsedIn(slots))
        /\ cap # 1 /\ Idle /\ old = NoTable /\ pos = 0
    BY DEF IInv, TypeOK, KeysReachable, LenCounts, Tables, Remove
  <1>2. /\ cap' = cap /\ old' = old /\ pos' = pos /\ call' = call
        /\ (Idle)' /\ (old = NoTable)' /\ (pos = 0)'
    BY <1>1 DEF Remove, Idle
  <1>3. View = [x \in Keys |-> Lookup(slots, cap, x)]
    BY <1>1, IdleView
  <1>4. CASE Hits(slots, cap, k) = {}
    <2>1. slots' = slots /\ len' = len /\ answer' = <<"absent", k, None>>
      BY <1>4 DEF Remove
    <2>2. IInv' /\ View' = View
      BY <1>2, <2>1 DEF IInv, TypeOK, KeysReachable, LenCounts, Growing, Idle,
                        View, Waiting
    <2>3. View[k] = None
      BY <1>3, <1>4 DEF Lookup
    <2>4. View' = [View EXCEPT ![k] = None]
      BY <1>3, <2>2, <2>3
    <2> QED BY <2>1, <2>2, <2>3, <2>4 DEF Abstract!Remove
  <1>5. CASE Hits(slots, cap, k) # {}
    <2> DEFINE s == Probe(k, First(Hits(slots, cap, k)), cap)
               u == [slots EXCEPT ![s] = Tombstone]
    <2>1. s \in UsedIn(slots) /\ slots[s].key = k
      BY <1>1, <1>5, HitsAreSound
    <2>2. slots' = u /\ len' = len - 1 /\ answer' = <<"removed", k, None>>
      BY <1>5 DEF Remove
    <2> HIDE DEF s
    <2>3. /\ u \in Tables(cap) /\ Reachable(u, cap)
          /\ UsedIn(u) = UsedIn(slots) \ {s}
          /\ \A r \in UsedIn(u) : u[r] = slots[r]
      BY <1>1, <2>1, RemoveTable
    <2> HIDE DEF u
    <2>4. len' = Cardinality(UsedIn(slots')) /\ len' \in Nat
      <3>1. IsFiniteSet(UsedIn(slots))
        BY <1>1, UsedIsFinite
      <3>2. Cardinality(UsedIn(u)) = len - 1
        BY <3>1, <2>1, <2>3, <1>1, FS_RemoveElement
      <3>3. Cardinality(UsedIn(u)) \in Nat
        BY <1>1, <2>3, UsedIsFinite
      <3> QED BY <3>2, <3>3, <2>2
    <2>5. IInv'
      <3>1. TypeOK' /\ KeysReachable' /\ LenCounts'
        BY <1>1, <1>2, <2>2, <2>3, <2>4
        DEF IInv, TypeOK, KeysReachable, LenCounts, Tables
      <3> QED BY <1>1, <1>2, <3>1 DEF IInv
    <2>6. View[k] # None
      <3>1. Lookup(slots, cap, slots[s].key) = slots[s].val
        BY <1>1, <2>1, LookupFinds
      <3>2. slots[s].val \in Values
        BY <1>1, <2>1, SlotIs
      <3> QED BY <1>3, <2>1, <3>1, <3>2, MapAssumption
    <2>7. \A x \in Keys : Lookup(u, cap, x) = IF x = k THEN None ELSE Lookup(slots, cap, x)
      <3> SUFFICES ASSUME NEW x \in Keys
                   PROVE  Lookup(u, cap, x) =
                          IF x = k THEN None ELSE Lookup(slots, cap, x)
        OBVIOUS
      <3>1. Has(u, x) <=> Has(slots, x) /\ x # k
        <4>1. \A r \in UsedIn(slots) : slots[r].key = k => r = s
          BY <1>1, <2>1 DEF Reachable
        <4> QED BY <4>1, <2>1, <2>3 DEF Has
      <3>2. CASE Has(u, x)
        <4>1. PICK r \in UsedIn(u) : u[r].key = x
          BY <3>2 DEF Has
        <4>2. r \in UsedIn(slots) /\ slots[r] = u[r]
          BY <4>1, <2>3
        <4>3. Lookup(u, cap, u[r].key) = u[r].val
          BY <4>1, <1>1, <2>3, LookupFinds
        <4>4. Lookup(slots, cap, slots[r].key) = slots[r].val
          BY <4>2, <1>1, LookupFinds
        <4> QED BY <3>1, <3>2, <4>1, <4>2, <4>3, <4>4
      <3>3. CASE ~ Has(u, x)
        <4>1. Lookup(u, cap, x) = None
          BY <3>3, <1>1, <2>3, LookupFinds
        <4>2. x # k => Lookup(slots, cap, x) = None
          BY <3>1, <3>3, <1>1, LookupFinds
        <4> QED BY <4>1, <4>2
      <3> QED BY <3>2, <3>3
    <2>8. View' = [x \in Keys |-> Lookup(slots', cap, x)]
      <3>1. Waiting' = {}
        BY <1>2 DEF Waiting, UsedIn, NoTable
      <3> QED BY <3>1, <1>2 DEF View
    <2>9. View' = [View EXCEPT ![k] = None]
      BY <1>3, <2>2, <2>7, <2>8
    <2> QED BY <2>2, <2>5, <2>6, <2>9 DEF Abstract!Remove
  <1> QED BY <1>4, <1>5

LEMMA ClearStep ==
    ASSUME IInv, Clear
    PROVE  IInv' /\ Abstract!Clear
  <1>1. /\ cap' \in Nat /\ cap' # 1 /\ slots' = Blank(cap') /\ len' = 0
        /\ (Idle)' /\ (old = NoTable)' /\ (pos = 0)' /\ old' = old /\ call' = call
    BY DEF Clear, IInv, TypeOK, Idle
  <1>2. /\ slots' \in Tables(cap') /\ UsedIn(slots') = {}
        /\ Reachable(slots', cap')
    BY <1>1, BlankTable
  <1>3. Cardinality(UsedIn(slots')) = 0
    BY <1>2, FS_EmptySet
  <1>4. TypeOK' /\ KeysReachable' /\ LenCounts'
    <2>1. TypeOK'
      BY <1>1, <1>2 DEF IInv, TypeOK, Tables
    <2>2. KeysReachable'
      BY <1>2 DEF KeysReachable
    <2>3. len' * 2 <= cap' + 1 /\ len' = Cardinality(UsedIn(slots'))
      <3>1. cap' \in Nat /\ len' = 0
        BY <1>1
      <3>2. \A c \in Nat : 0 * 2 <= c + 1
        OBVIOUS
      <3> QED BY <3>1, <3>2, <1>3
    <2>4. LenCounts'
      BY <2>3 DEF LenCounts
    <2> QED BY <2>1, <2>2, <2>4
  <1>5. IInv'
    BY <1>1, <1>4 DEF IInv
  <1>6. \A x \in Keys : Lookup(slots', cap', x) = None
    BY <1>1, <1>2, LookupFinds DEF Has
  <1>7. View' = [x \in Keys |-> None]
    <2>1. Waiting' = {}
      BY <1>1 DEF Waiting, UsedIn, NoTable
    <2> QED BY <2>1, <1>6 DEF View
  <1> QED BY <1>5, <1>7 DEF Clear, Abstract!Clear, Abstract!Empty

(* The calls and loop turns that leave the table alone. *)
LEMMA SameTable ==
    ASSUME IInv, UNCHANGED <<cap, slots, len, old, pos, call>>
    PROVE  IInv' /\ View' = View
  BY DEF IInv, TypeOK, KeysReachable, LenCounts, Growing, Idle, View, Waiting,
         OldSize

-----------------------------------------------------------------------------
LEMMA NextInv ==
    ASSUME IInv, [Next]_vars
    PROVE  IInv' /\ ("rehash" \notin Fails => [Abstract!Next]_<<View, answer>>)
  <1>1. CASE \E k \in Keys, v \in Values : PutFirst(k, v) \/ PutRoom(k, v)
    BY <1>1, PutFirstStep, PutRoomStep DEF Abstract!Next
  <1>2. CASE \E k \in Keys, v \in Values : PutRefused(k, v)
    BY <1>2, SameTable DEF PutRefused, Abstract!Next, Abstract!Put
  <1>3. CASE \E k \in Keys, v \in Values : PutGrows(k, v)
    BY <1>3, PutGrowsStep DEF PutGrows
  <1>4. CASE MoveEntry
    BY <1>4, MoveEntryStep DEF MoveEntry
  <1>5. CASE PutGrown
    BY <1>5, PutGrownStep DEF Abstract!Next
  <1>6. CASE \E k \in Keys : Get(k)
    <2>1. PICK k \in Keys : Get(k)
      BY <1>6
    <2>2. IInv' /\ View' = View
      BY <2>1, SameTable DEF Get
    <2>3. View[k] = Lookup(slots, cap, k)
      BY <2>1, IdleView DEF Get
    <2>4. Abstract!Get(k)
      BY <2>1, <2>2, <2>3 DEF Get, Abstract!Get
    <2> QED BY <2>2, <2>4 DEF Abstract!Next
  <1>7. CASE \E k \in Keys : Remove(k)
    BY <1>7, RemoveStep DEF Abstract!Next
  <1>8. CASE Clear
    BY <1>8, ClearStep DEF Abstract!Next
  <1>9. CASE LoopStarts \/ LoopTurn \/ LoopEnds \/ UNCHANGED vars
    BY <1>9, SameTable DEF LoopStarts, LoopTurn, LoopEnds, vars
  <1> QED BY <1>1, <1>2, <1>3, <1>4, <1>5, <1>6, <1>7, <1>8, <1>9 DEF Next

LEMMA Invariance == Spec => []IInv
  <1>1. IInv /\ [Next]_vars => IInv'
    BY NextInv
  <1> QED BY InitInv, <1>1, PTL DEF Spec

(* The table is a function on its capacity, with an old one beside it only *)
(* while a put makes it grow (PenguMap, pengu_map_put).                    *)
THEOREM TypeCorrect == Spec => []TypeOK
  <1>1. IInv => TypeOK
    BY DEF IInv
  <1> QED BY Invariance, <1>1, PTL

(* Every entry is found by the probes of its key, and no key is there      *)
(* twice, whatever was inserted and removed before, and also while the     *)
(* table grows (pengu_map_put, pengu_map_get, pengu_map_remove).           *)
THEOREM KeysAreReachable == Spec => []KeysReachable
  <1>1. IInv => KeysReachable
    BY DEF IInv
  <1> QED BY Invariance, <1>1, PTL

(* len is the number of entries, at most half of the table: each search    *)
(* of a put meets a vacant slot.                                           *)
THEOREM LenIsRight == Spec => []LenCounts
  <1>1. IInv => LenCounts
    BY DEF IInv
  <1> QED BY Invariance, <1>1, PTL

(* The put that re-inserts an old entry does not grow the table again.     *)
THEOREM GrowsOnce == Spec => []NeverGrowsTwice
  <1>1. IInv => NeverGrowsTwice
    <2> SUFFICES ASSUME IInv, ~Idle, pos < Cardinality(DOMAIN old) PROVE ~HalfFull
      BY DEF NeverGrowsTwice
    <2> QED BY DEF IInv, Growing, HalfFull, OldSize, TypeOK
  <1> QED BY Invariance, <1>1, PTL

(* Puts, gets, removals and clearing do and return what a map does: if the *)
(* allocations of the rehash succeed (see MCPenguMapOom for when they do   *)
(* not).                                                                   *)
THEOREM MapRefinement == "rehash" \notin Fails => (Spec => ImplementsMap)
  <1> SUFFICES ASSUME "rehash" \notin Fails PROVE Spec => ImplementsMap
    OBVIOUS
  <1>1. Init => Abstract!Init
    <2> SUFFICES ASSUME Init PROVE Abstract!Init
      OBVIOUS
    <2>1. IInv /\ Idle
      BY InitInv DEF Init, Idle
    <2>2. View = [x \in Keys |-> Lookup(slots, cap, x)]
      BY <2>1, IdleView
    <2>3. \A x \in Keys : Lookup(slots, cap, x) = None
      <3>1. cap \in Nat
        BY <2>1 DEF IInv, TypeOK
      <3> QED BY <3>1, BlankTable, LookupFinds DEF Init, Has
    <2> QED BY <2>2, <2>3 DEF Init, Abstract!Init, Abstract!Empty
  <1>2. IInv /\ [Next]_vars => [Abstract!Next]_<<View, answer>>
    BY NextInv
  <1> QED BY Invariance, <1>1, <1>2, PTL
          DEF Spec, ImplementsMap, Abstract!Spec, Abstract!vars

-----------------------------------------------------------------------------
(* Loops.                                                                   *)

Passed == {s \in UsedIn(slots) : s < loop.slot}

(* A loop that is followed has visited the keys of the slots it passed.     *)
LoopInv ==
  /\ loop.slot \in Nat /\ loop.seen \in Nat
  /\ loop.on \in BOOLEAN
  /\ DOMAIN loop = {"on", "slot", "seen", "visits"}
  /\ DOMAIN loop.visits = Keys
  /\ loop.on => /\ Idle
                /\ loop.seen = Cardinality(Passed)
                /\ \A k \in Keys : loop.visits[k] =
                     IF \E s \in Passed : slots[s].key = k THEN 1 ELSE 0

AllDisturb == {"insert", "remove", "grow"} \subseteq Disturbing

LEMMA NoLoopInv ==
    ASSUME loop' = NoLoop
    PROVE  LoopInv'
  BY DEF NoLoop, LoopInv

(* What a loop has passed depends on the keys in their slots alone. *)
LEMMA SameKeys ==
    ASSUME LoopInv, loop' = loop, loop.on => (Idle)',
           UsedIn(slots') = UsedIn(slots),
           \A s \in UsedIn(slots) : slots'[s].key = slots[s].key
    PROVE  LoopInv'
  <1>1. Passed' = Passed /\ \A s \in Passed : slots'[s].key = slots[s].key
    BY DEF Passed
  <1> QED BY <1>1 DEF LoopInv

LEMMA StoreLoop ==
    ASSUME LoopInv, AllDisturb, NEW c, NEW t, NEW n, Sound(t, c, n),
           NEW k \in Keys, NEW v \in Values, Store(t, c, n, k, v), (Idle)',
           UsedIn(t) = UsedIn(slots),
           \A s \in UsedIn(t) : t[s].key = slots[s].key
    PROVE  LoopInv'
  <1>1. CASE Overwrite(t, c, n, k, v) /\ UNCHANGED loop
    <2> DEFINE s == Probe(k, First(Hits(t, c, k)), c)
               u == [t EXCEPT ![s].val = v]
    <2>0. c \in Nat /\ t \in Tables(c) /\ Reachable(t, c)
      BY DEF Sound
    <2>1. s \in UsedIn(t)
      BY <1>1, <2>0, HitsAreSound DEF Overwrite
    <2>2. slots' = u
      BY <1>1 DEF Overwrite
    <2> HIDE DEF s
    <2>3. /\ u \in Tables(c) /\ Reachable(u, c) /\ UsedIn(u) = UsedIn(t)
          /\ u[s].val = v
          /\ \A r \in UsedIn(t) : u[r].key = t[r].key
          /\ \A r \in UsedIn(t) \ {s} : u[r] = t[r]
      BY <2>0, <2>1, OverwriteTable
    <2> HIDE DEF u
    <2>4. /\ UsedIn(slots') = UsedIn(slots)
          /\ \A r \in UsedIn(slots) : slots'[r].key = slots[r].key
      BY <2>2, <2>3
    <2> QED BY <2>4, <1>1, SameKeys
  <1>2. CASE Disturb("insert")
    BY <1>2, NoLoopInv DEF Disturb, AllDisturb
  <1>3. CASE NoSlot(t, c, n, k, "put") /\ UNCHANGED loop
    <2>1. slots' = t
      BY <1>3 DEF NoSlot
    <2> QED BY <2>1, <1>3, SameKeys
  <1> QED BY <1>1, <1>2, <1>3 DEF Store

LEMMA TurnLoop ==
    ASSUME IInv, LoopInv, LoopTurn
    PROVE  LoopInv'
  <1> DEFINE p == loop.slot
             e == slots[loop.slot]
  <1>1. /\ p \in Nat /\ p < cap /\ cap \in Nat /\ slots \in Tables(cap)
        /\ p \in DOMAIN slots /\ Reachable(slots, cap) /\ loop.on /\ slots' = slots
        /\ (Idle)' /\ cap' = cap
    BY DEF LoopTurn, LoopGoesOn, IInv, TypeOK, Tables, LoopInv, KeysReachable, Idle
  <1>2. /\ loop'.slot = p + 1 /\ loop'.on = loop.on
        /\ DOMAIN loop' = DOMAIN loop
        /\ e.st = "used" => /\ loop'.seen = loop.seen + 1
                            /\ loop'.visits = [loop.visits EXCEPT ![e.key] = @ + 1]
        /\ e.st # "used" => loop'.seen = loop.seen /\ loop'.visits = loop.visits
    BY DEF LoopTurn, LoopInv
  <1>3. /\ Passed' = IF e.st = "used" THEN Passed \cup {p} ELSE Passed
        /\ p \notin Passed /\ Passed \subseteq UsedIn(slots)
    <2>1. \A s \in DOMAIN slots : s < p + 1 <=> s < p \/ s = p
      BY <1>1 DEF Tables
    <2> QED BY <1>1, <1>2, <2>1 DEF Passed, UsedIn
  <1>4. IsFiniteSet(Passed) /\ Cardinality(Passed) \in Nat
    BY <1>1, <1>3, UsedIsFinite, FS_Subset, FS_CardinalityType
  <1>5. CASE e.st # "used"
    BY <1>1, <1>2, <1>3, <1>5 DEF LoopInv
  <1>6. CASE e.st = "used"
    <2>1. Cardinality(Passed') = Cardinality(Passed) + 1
      BY <1>3, <1>4, <1>6, FS_AddElement
    <2>2. p \in UsedIn(slots) /\ e.key \in Keys
      BY <1>1, <1>6, SlotIs DEF UsedIn
    <2>3. \A s \in Passed : slots[s].key # e.key
      BY <1>1, <1>3, <2>2 DEF Reachable
    <2>4. loop.visits[e.key] = 0
      BY <1>1, <2>2, <2>3 DEF LoopInv
    <2>5. \A k \in Keys : loop'.visits[k] =
            IF \E s \in Passed' : slots'[s].key = k THEN 1 ELSE 0
      <3> SUFFICES ASSUME NEW k \in Keys
                   PROVE  loop'.visits[k] =
                          IF \E s \in Passed' : slots'[s].key = k THEN 1 ELSE 0
        OBVIOUS
      <3>1. CASE k = e.key
        BY <3>1, <1>1, <1>2, <1>3, <1>6, <2>4 DEF LoopInv
      <3>2. CASE k # e.key
        <4>1. loop'.visits[k] = loop.visits[k]
          BY <3>2, <1>2, <1>6 DEF LoopInv
        <4>2. (\E s \in Passed' : slots'[s].key = k) <=> \E s \in Passed : slots[s].key = k
          BY <3>2, <1>1, <1>3, <1>6
        <4> QED BY <4>1, <4>2, <1>1 DEF LoopInv
      <3> QED BY <3>1, <3>2
    <2>6. loop'.seen = Cardinality(Passed') /\ loop'.seen \in Nat
      BY <1>1, <1>2, <1>4, <1>6, <2>1 DEF LoopInv
    <2>7. DOMAIN loop'.visits = Keys /\ loop'.slot \in Nat
      BY <1>1, <1>2, <1>6 DEF LoopInv
    <2> QED BY <1>1, <1>2, <2>5, <2>6, <2>7 DEF LoopInv
  <1> QED BY <1>5, <1>6

LEMMA LoopStep ==
    ASSUME IInv, LoopInv, AllDisturb, [Next]_vars
    PROVE  LoopInv'
  <1>1. ASSUME NEW k \in Keys, NEW v \in Values, PutFirst(k, v)
        PROVE  LoopInv'
    <2>1. InitCap \in Nat \ {0} /\ UsedIn(Blank(InitCap)) = {}
          /\ Sound(Blank(InitCap), InitCap, 0)
      BY MapAssumption, BlankTable, FS_EmptySet DEF Sound
    <2>2. (Idle)' /\ Store(Blank(InitCap), InitCap, 0, k, v)
      BY <1>1 DEF PutFirst, Idle
    <2>3. UsedIn(slots) = {}
      BY <1>1 DEF PutFirst, IInv, TypeOK, UsedIn
    <2> QED BY <2>1, <2>2, <2>3, StoreLoop
  <1>2. ASSUME NEW k \in Keys, NEW v \in Values, PutRoom(k, v)
        PROVE  LoopInv'
    <2>1. Sound(slots, cap, len)
      BY <1>2, SoundNow DEF PutRoom, IInv, TypeOK
    <2>2. (Idle)' /\ Store(slots, cap, len, k, v)
      BY <1>2 DEF PutRoom, Idle
    <2> QED BY <2>1, <2>2, StoreLoop
  <1>3. ASSUME NEW k \in Keys, NEW v \in Values, PutRefused(k, v)
        PROVE  LoopInv'
    BY <1>3, SameKeys DEF PutRefused, Idle
  <1>4. ASSUME NEW k \in Keys, NEW v \in Values, PutGrows(k, v)
        PROVE  LoopInv'
    BY <1>4, NoLoopInv DEF PutGrows, Disturb, AllDisturb
  <1>5. CASE MoveEntry
    <2>1. ~loop.on /\ loop' = loop
      BY <1>5 DEF MoveEntry, LoopInv
    <2> QED BY <2>1 DEF LoopInv
  <1>6. CASE PutGrown
    <2>1. cap # 0
      BY <1>6 DEF PutGrown, IInv, Growing
    <2>2. Sound(slots, cap, len)
      BY <2>1, SoundNow
    <2>3. call.key \in Keys /\ call.val \in Values
      BY <1>6 DEF PutGrown, IInv, TypeOK, Idle
    <2>4. (Idle)' /\ Store(slots, cap, len, call.key, call.val)
      BY <1>6 DEF PutGrown, Idle
    <2> QED BY <2>2, <2>3, <2>4, StoreLoop
  <1>7. ASSUME NEW k \in Keys, Get(k) \/ Remove(k)
        PROVE  LoopInv'
    <2>1. CASE slots' = slots /\ loop' = loop
      BY <1>7, <2>1, SameKeys DEF Get, Remove, Idle
    <2>2. CASE Disturb("remove")
      BY <2>2, NoLoopInv DEF Disturb, AllDisturb
    <2> QED BY <1>7, <2>1, <2>2 DEF Get, Remove
  <1>8. CASE Clear
    BY <1>8, NoLoopInv DEF Clear, Disturb, AllDisturb
  <1>9. CASE LoopStarts
    <2>1. loop' = [NoLoop EXCEPT !.on = TRUE] /\ slots' = slots /\ (Idle)'
      BY <1>9 DEF LoopStarts, Idle
    <2>2. Passed' = {}
      <3>1. loop'.slot = 0
        BY <2>1 DEF NoLoop
      <3>2. \A s \in UsedIn(slots) : ~ (s < 0)
        BY DEF UsedIn, IInv, TypeOK
      <3> QED BY <2>1, <3>1, <3>2 DEF Passed
    <2>3. Cardinality(Passed') = 0
      BY <2>2, FS_EmptySet
    <2> QED BY <2>1, <2>2, <2>3 DEF LoopInv, NoLoop
  <1>10. CASE LoopTurn
    BY <1>10, TurnLoop
  <1>11. CASE LoopEnds
    BY <1>11, NoLoopInv DEF LoopEnds
  <1>12. CASE UNCHANGED vars
    BY <1>12, SameKeys DEF vars, LoopInv, Idle
  <1> QED BY <1>1, <1>2, <1>3, <1>4, <1>5, <1>6, <1>7, <1>8, <1>9, <1>10, <1>11, <1>12
          DEF Next

(* A loop whose body leaves the keys and the table's size alone visits     *)
(* every key once: the two counts of the emitted loop end it neither early *)
(* nor late (loops.py, the MapType branch of the `for` statement).         *)
THEOREM LoopIsComplete == AllDisturb => (Spec => []LoopVisitsOnce)
  <1> SUFFICES ASSUME AllDisturb PROVE Spec => []LoopVisitsOnce
    OBVIOUS
  <1>1. Init => LoopInv
    BY DEF Init, NoLoop, LoopInv
  <1>2. IInv /\ LoopInv /\ [Next]_vars => LoopInv'
    BY LoopStep
  <1>3. IInv /\ LoopInv => LoopVisitsOnce
    <2> SUFFICES ASSUME IInv, LoopInv, Idle, loop.on, ~LoopGoesOn, NEW k \in Keys
                 PROVE  loop.visits[k] = IF k \in Bound(slots) THEN 1 ELSE 0
      BY DEF LoopVisitsOnce
    <2>1. /\ cap \in Nat /\ slots \in Tables(cap)
          /\ len = Cardinality(UsedIn(slots)) /\ len \in Nat
      BY DEF IInv, TypeOK, LenCounts, Tables
    <2>2. IsFiniteSet(UsedIn(slots)) /\ Passed \subseteq UsedIn(slots)
      BY <2>1, UsedIsFinite DEF Passed
    <2>3. Passed = UsedIn(slots)
      <3>1. CASE loop.seen >= len
        <4>1. /\ Cardinality(Passed) <= Cardinality(UsedIn(slots))
              /\ Cardinality(UsedIn(slots)) = Cardinality(Passed) =>
                   UsedIn(slots) = Passed
          BY <2>2, FS_Subset
        <4> QED BY <3>1, <4>1, <2>1 DEF LoopInv
      <3>2. CASE loop.slot >= cap
        BY <3>2, <2>1 DEF Passed, UsedIn, Tables, LoopInv
      <3> QED BY <3>1, <3>2, <2>1 DEF LoopGoesOn, LoopInv
    <2> QED BY <2>3 DEF LoopInv, Bound
  <1> QED BY Invariance, <1>1, <1>2, <1>3, PTL DEF Spec
=============================================================================
