------------------------------ MODULE PenguMap ------------------------------
(***************************************************************************)
(* The runtime's hash map: open addressing with linear probing, tombstones *)
(* left by remove, a table that doubles when it is half full, and the loop *)
(* the compiler emits for `for key in m`.                                  *)
(*                                                                         *)
(* A slot keeps its key and value, so a table is a function on 0..cap-1.   *)
(* The hash of a key is the constant Hash; the 32-bit FNV value itself is  *)
(* of no interest.  Growth re-inserts the old entries one per step.        *)
(***************************************************************************)
EXTENDS Naturals, FiniteSets

CONSTANTS
  Keys, Values, None,
  Hash,        \* what pengu_hash_bytes gives for each key
  InitCap,     \* 16 in the code
  MaxCap,      \* INT_MAX / 2: a larger table is not doubled
  Fails,       \* allocations that may fail: of a "table", of the slot of the
               \* pair being "put", of a slot while the table is "rehashed"
  Disturbing   \* the changes after which a running loop is not followed

ASSUME MapAssumption ==
  /\ Hash \in [Keys -> Nat]
  /\ InitCap \in Nat \ {0, 1}
  /\ MaxCap \in Nat
  /\ None \notin Keys
  /\ None \notin Values \cup [key : Keys, val : Values]
  /\ Fails \subseteq {"table", "put", "rehash"}
  /\ Disturbing \subseteq {"insert", "remove", "grow"}

VARIABLES
  cap, slots, len,   \* the PenguMap
  old, pos,          \* old_entries and i while the table grows
  call,              \* the put that made it grow, None otherwise
  answer,            \* the last call that returned and what it returned
  loop               \* the `for` loop over the map

vars == <<cap, slots, len, old, pos, call, answer, loop>>

NoTable == [s \in {} |-> None]

Virgin == [st |-> "virgin", key |-> None, val |-> None]

\* (A mistake: remove leaves a slot that looks never used.)
LeavesAHole == [st |-> "virgin", key |-> None, val |-> None]

Tombstone == [st |-> "tomb", key |-> None, val |-> None]

Used(k, v) == [st |-> "used", key |-> k, val |-> v]

Slot == {Virgin, Tombstone} \cup {Used(k, v) : k \in Keys, v \in Values}

Blank(c) == [s \in 0..(c - 1) |-> Virgin]

UsedIn(t) == {s \in DOMAIN t : t[s].st = "used"}

-----------------------------------------------------------------------------
(* Probing a table t of c slots.  A position i is the i-th probe of a key. *)

Home(k, c) == Hash[k] % c

Probe(k, i, c) == (Home(k, c) + i) % c

First(S) == CHOOSE i \in S : \A j \in S : i <= j

\* (A mistake: the search stops at a removed entry too.)
StopsAtTombstones(t, c, k) ==
  {i \in 0..(c - 1) : \A j \in 0..(i - 1) : t[Probe(k, j, c)].st = "used"}

\* The positions a search looks at: it stops at a slot never used.
Searched(t, c, k) ==
  {i \in 0..(c - 1) : \A j \in 0..(i - 1) : t[Probe(k, j, c)].st # "virgin"}

Hits(t, c, k) ==
  {i \in Searched(t, c, k) :
     t[Probe(k, i, c)].st = "used" /\ t[Probe(k, i, c)].key = k}

\* The first of them takes a new key: the first tombstone the search passed,
\* or the unused slot that ended it.
Vacant(t, c, k) == {i \in 0..(c - 1) : t[Probe(k, i, c)].st # "used"}

Lookup(t, c, k) ==
  IF Hits(t, c, k) = {} THEN None
  ELSE t[Probe(k, First(Hits(t, c, k)), c)].val

-----------------------------------------------------------------------------
Idle == call = None

NoLoop == [on |-> FALSE, slot |-> 0, seen |-> 0,
           visits |-> [k \in Keys |-> 0]]

\* A loop is followed until a call of its body changes the map in a way that
\* is in Disturbing.
Disturb(change) == loop' = IF change \in Disturbing THEN NoLoop ELSE loop

Init ==
  /\ cap \in {0, InitCap} /\ slots = Blank(cap) /\ len = 0
  /\ old = NoTable /\ pos = 0 /\ call = None
  /\ answer = <<"new", None, None>>
  /\ loop = NoLoop

-----------------------------------------------------------------------------
(* The end of pengu_map_put: the search in a table t of c slots, n used.    *)

\* (A mistake: an overwritten value is counted as a new entry.)
CountsTwice(t, c, n, k, v) ==
  /\ Hits(t, c, k) # {}
  /\ slots' = [t EXCEPT ![Probe(k, First(Hits(t, c, k)), c)].val = v]
  /\ len' = n + 1

Overwrite(t, c, n, k, v) ==
  /\ Hits(t, c, k) # {}
  /\ slots' = [t EXCEPT ![Probe(k, First(Hits(t, c, k)), c)].val = v]
  /\ len' = n

Insert(t, c, n, k, v) ==
  /\ Hits(t, c, k) = {}
  /\ Vacant(t, c, k) # {}
  /\ slots' = [t EXCEPT ![Probe(k, First(Vacant(t, c, k)), c)] = Used(k, v)]
  /\ len' = n + 1

NoSlot(t, c, n, k, what) ==
  /\ Hits(t, c, k) = {}
  /\ Vacant(t, c, k) = {} \/ what \in Fails
  /\ slots' = t
  /\ len' = n

Store(t, c, n, k, v) ==
  \/ /\ Overwrite(t, c, n, k, v)
     /\ answer' = <<"put", k, v>>
     /\ UNCHANGED loop
  \/ /\ Insert(t, c, n, k, v)
     /\ answer' = <<"put", k, v>>
     /\ Disturb("insert")
  \/ /\ NoSlot(t, c, n, k, "put")
     /\ answer' = <<IF Vacant(t, c, k) = {} THEN "dropped" ELSE "refused", k, v>>
     /\ UNCHANGED loop

HalfFull == len * 2 >= cap

\* A map without a table gets one first.
PutFirst(k, v) ==
  /\ Idle /\ cap = 0
  /\ cap' = InitCap
  /\ Store(Blank(InitCap), InitCap, 0, k, v)
  /\ UNCHANGED <<old, pos, call>>

PutRoom(k, v) ==
  /\ Idle /\ cap > 0 /\ ~HalfFull
  /\ Store(slots, cap, len, k, v)
  /\ UNCHANGED <<cap, old, pos, call>>

PutRefused(k, v) ==
  /\ Idle
  /\ \/ cap = 0 /\ "table" \in Fails
     \/ cap > 0 /\ HalfFull /\ (cap > MaxCap \/ "table" \in Fails)
  /\ answer' = <<"refused", k, v>>
  /\ UNCHANGED <<cap, slots, len, old, pos, call, loop>>

PutGrows(k, v) ==
  /\ Idle /\ cap > 0 /\ HalfFull /\ cap <= MaxCap
  /\ old' = slots /\ pos' = 0 /\ call' = [key |-> k, val |-> v]
  /\ cap' = cap * 2 /\ slots' = Blank(cap * 2) /\ len' = 0
  /\ Disturb("grow")
  /\ UNCHANGED answer

\* One turn of the loop that re-inserts the old entries.  The put it calls
\* tests the load again; NeverGrowsTwice says that test is never true.
MoveEntry ==
  /\ ~Idle /\ pos < Cardinality(DOMAIN old)
  /\ pos' = pos + 1
  /\ IF old[pos].st = "used"
     THEN \/ Overwrite(slots, cap, len, old[pos].key, old[pos].val)
          \/ Insert(slots, cap, len, old[pos].key, old[pos].val)
          \/ NoSlot(slots, cap, len, old[pos].key, "rehash")
     ELSE UNCHANGED <<slots, len>>
  /\ UNCHANGED <<cap, old, call, answer, loop>>

PutGrown ==
  /\ ~Idle /\ pos = Cardinality(DOMAIN old)
  /\ Store(slots, cap, len, call.key, call.val)
  /\ old' = NoTable /\ pos' = 0 /\ call' = None
  /\ UNCHANGED cap

-----------------------------------------------------------------------------
Get(k) ==
  /\ Idle
  /\ answer' = <<"get", k, Lookup(slots, cap, k)>>
  /\ UNCHANGED <<cap, slots, len, old, pos, call, loop>>

Remove(k) ==
  /\ Idle
  /\ IF Hits(slots, cap, k) = {}
     THEN /\ answer' = <<"absent", k, None>>
          /\ UNCHANGED <<slots, len, loop>>
     ELSE /\ slots' = [slots EXCEPT
                         ![Probe(k, First(Hits(slots, cap, k)), cap)] = Tombstone]
          /\ len' = len - 1
          /\ answer' = <<"removed", k, None>>
          /\ Disturb("remove")
  /\ UNCHANGED <<cap, old, pos, call>>

\* pengu_map_clear keeps the table, pengu_banish_map frees it.
Clear ==
  /\ Idle
  /\ cap' \in {cap, 0}
  /\ slots' = Blank(cap') /\ len' = 0
  /\ answer' = <<"cleared", None, None>>
  /\ Disturb("remove")
  /\ UNCHANGED <<old, pos, call>>

-----------------------------------------------------------------------------
(* `for key in m`: the emitted loop counts the keys it has seen and the     *)
(* slots it has passed; the calls of its body come between two turns.       *)

LoopGoesOn == loop.seen < len /\ loop.slot < cap

LoopStarts ==
  /\ Idle /\ ~loop.on
  /\ loop' = [NoLoop EXCEPT !.on = TRUE]
  /\ UNCHANGED <<cap, slots, len, old, pos, call, answer>>

\* (A mistake: a slot without a key counts as seen.)
LoopCountsSlots ==
  /\ Idle /\ loop.on /\ LoopGoesOn
  /\ loop' = IF slots[loop.slot].st = "used"
             THEN [loop EXCEPT !.slot = @ + 1, !.seen = @ + 1,
                               !.visits[slots[loop.slot].key] = @ + 1]
             ELSE [loop EXCEPT !.slot = @ + 1, !.seen = @ + 1]
  /\ UNCHANGED <<cap, slots, len, old, pos, call, answer>>

LoopTurn ==
  /\ Idle /\ loop.on /\ LoopGoesOn
  /\ loop' = IF slots[loop.slot].st = "used"
             THEN [loop EXCEPT !.slot = @ + 1, !.seen = @ + 1,
                               !.visits[slots[loop.slot].key] = @ + 1]
             ELSE [loop EXCEPT !.slot = @ + 1]
  /\ UNCHANGED <<cap, slots, len, old, pos, call, answer>>

LoopEnds ==
  /\ Idle /\ loop.on /\ ~LoopGoesOn
  /\ loop' = NoLoop
  /\ UNCHANGED <<cap, slots, len, old, pos, call, answer>>

Next ==
  \/ \E k \in Keys, v \in Values :
       PutFirst(k, v) \/ PutRoom(k, v) \/ PutRefused(k, v) \/ PutGrows(k, v)
  \/ MoveEntry
  \/ PutGrown
  \/ \E k \in Keys : Get(k) \/ Remove(k)
  \/ Clear
  \/ LoopStarts
  \/ LoopTurn
  \/ LoopEnds

Spec == Init /\ [][Next]_vars

-----------------------------------------------------------------------------
Bound(t) == {t[s].key : s \in UsedIn(t)}

TypeOK ==
  /\ cap \in Nat /\ len \in Nat /\ pos \in Nat
  /\ slots \in [0..(cap - 1) -> Slot]
  /\ DOMAIN old = 0..(Cardinality(DOMAIN old) - 1)
  /\ \A s \in DOMAIN old : old[s] \in Slot
  /\ call \in {None} \cup [key : Keys, val : Values]

\* Every key of the table is found by its own probes: nothing never used lies
\* between its home and its slot, and no key is there twice.  (pengu_map_put,
\* pengu_map_remove: what the tombstones are for.)
Reachable(t, c) ==
  /\ \A s \in UsedIn(t) : \E i \in Searched(t, c, t[s].key) :
       Probe(t[s].key, i, c) = s
  /\ \A s1, s2 \in UsedIn(t) : t[s1].key = t[s2].key => s1 = s2

KeysReachable == Reachable(slots, cap)

\* len is what the table holds, and at most half of it but for one entry: the
\* load the probing relies on to find a vacant slot.
LenCounts ==
  /\ len = Cardinality(UsedIn(slots))
  /\ len * 2 <= cap + 1

\* A put called to re-insert an entry never doubles the table again.
NeverGrowsTwice ==
  ~Idle /\ pos < Cardinality(DOMAIN old) => ~HalfFull

\* A loop that ends undisturbed has visited every key of the map, once.
LoopVisitsOnce ==
  Idle /\ loop.on /\ ~LoopGoesOn =>
    \A k \in Keys : loop.visits[k] = IF k \in Bound(slots) THEN 1 ELSE 0

-----------------------------------------------------------------------------
(* While the table grows the map is the new table and what the old one      *)
(* still has to give.                                                       *)
Waiting == {s \in UsedIn(old) : pos <= s}

View ==
  [k \in Keys |->
     IF \E s \in Waiting : old[s].key = k
     THEN old[CHOOSE s \in Waiting : old[s].key = k].val
     ELSE Lookup(slots, cap, k)]

Abstract == INSTANCE MapSpec WITH map <- View

\* The calls do to the map what MapSpec says, and return what it says.
ImplementsMap == Abstract!Spec
=============================================================================
