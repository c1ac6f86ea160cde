---------------------------- MODULE BundleProofs ----------------------------
(***************************************************************************)
(* Theorems about what becomes one C file: the modules of a program in     *)
(* order (ImportOrder) and what the bundle keeps of them (Dce).            *)
(*                                                                         *)
(* Dce, for any program, command and number of calls: the exact pass keeps *)
(* only what is reached, and, for programs without surprises, every bundle *)
(* defines what it refers to.                                              *)
(*                                                                         *)
(* ImportOrder: what resolve_imports answers is right, searched or         *)
(* remembered, for any files, imports, search paths and entries, as long   *)
(* as the world changes the files in the ways that the cache is made for   *)
(* (Changes = {}).  The search: what is visited is sorted, the open calls  *)
(* of dfs are a chain of files each of which needs the next, and           *)
(* everything a file on it needs is visited, the next on the chain, or     *)
(* still to be visited.  The cache: what an entry remembers was right when *)
(* it was stored, and stays right of every file whose signature can still  *)
(* come back.                                                              *)
(***************************************************************************)
EXTENDS Dce, ImportOrder, FiniteSetTheorems, SequenceTheorems, WellFoundedInduction, TLAPS

-----------------------------------------------------------------------------
(* The least closed set.                                                    *)

LEMMA LeastInside ==
  ASSUME NEW roots, NEW universe, NEW leads
  PROVE  Least(roots, universe, leads) \subseteq universe
BY DEF Least

LEMMA LeastHasRoots ==
  ASSUME NEW roots, NEW universe, NEW leads
  PROVE  roots \cap universe \subseteq Least(roots, universe, leads)
BY DEF Least

LEMMA LeastIsClosed ==
  ASSUME NEW roots, NEW universe, NEW leads,
         NEW y \in Least(roots, universe, leads)
  PROVE  leads[y] \cap universe \subseteq Least(roots, universe, leads)
BY DEF Least

-----------------------------------------------------------------------------
(* The exact pass keeps nothing that is not reached.                        *)

ReachClosed(S) ==
  /\ {w \in Weaves : IsRoot(w)} \cup Reached(ExtraTexts) \subseteq S
  /\ \A w \in S : Reached(Seen({w})) \subseteq S

InTables ==
  /\ all \subseteq Weaves /\ weaves \subseteq Weaves /\ registered \subseteq Late
  /\ live \subseteq Weaves
  /\ phase \in {"idle", "seed", "discover", "emit", "done"}

OnlyReached ==
  cmd.mode \in Exact =>
    /\ phase \in {"discover", "emit", "done"} =>
         \A S \in SUBSET Weaves : ReachClosed(S) => queued \subseteq S
    /\ phase = "seed" => queued = {}
    /\ phase \in {"seed", "discover"} => live \subseteq queued
    /\ phase = "emit" => weaves \subseteq queued
    /\ phase = "done" => bundle.weaves \subseteq queued

ReachInv == InTables /\ (phase # "idle" => OnlyReached)

\* A scan queues only weaves that the text or the roots reach.
LEMMA ScanQueuesReached ==
  ASSUME InTables, NEW names, NEW tables, tables \subseteq Late, Scan(names, tables)
  PROVE  /\ queued' \subseteq queued \cup Reached(names)
              \cup (IF phase = "seed" THEN {w \in Weaves : IsRoot(w)} ELSE {})
         /\ weaves' \subseteq Weaves
         /\ registered' \subseteq Late
BY DEF InTables, Scan, Materialized, Reached, Late, LateOf

LEMMA ReachInvInit == Init => ReachInv
BY DEF Init, ReachInv, InTables, LateOf, Late

LEMMA ReachInvNext == ReachInv /\ [Next]_vars => ReachInv'
<1> SUFFICES ASSUME ReachInv, [Next]_vars PROVE ReachInv'
  OBVIOUS
<1>0. program' = program
  BY DEF Next, Generate, Seed, Translate, Discovered, Emit, vars
<1> Late \subseteq Weaves /\ Late' = Late
  BY <1>0 DEF Late, LateOf
<1>1. ASSUME NEW mode \in Modes, NEW prune \in BOOLEAN, Generate(mode, prune)
      PROVE  ReachInv'
  <2>1. KeptByName(Snapshot) \subseteq Snapshot
    BY LeastInside DEF KeptByName
  <2>2. Snapshot \subseteq Weaves
    BY DEF ReachInv, InTables, Snapshot
  <2>3. InTables'
    BY <1>1, <2>1, <2>2 DEF Generate, ReachInv, InTables
  <2>4. OnlyReached'
    BY <1>1 DEF Generate, OnlyReached
  <2> QED BY <2>3, <2>4 DEF ReachInv
<1>2. ASSUME Seed PROVE ReachInv'
  <2>1. /\ queued' \subseteq Reached(ExtraTexts) \cup {w \in Weaves : IsRoot(w)}
                               \cup queued
        /\ weaves' \subseteq Weaves /\ registered' \subseteq Late
    BY <1>2, ScanQueuesReached DEF Seed, ReachInv, InTables
  <2>2. InTables'
    BY <1>2, <2>1 DEF Seed, ReachInv, InTables
  <2>3. ASSUME cmd.mode \in Exact, NEW S \in SUBSET Weaves, ReachClosed(S)'
        PROVE  queued' \subseteq S
    <3>1. ReachClosed(S)
      BY <1>2, <2>3 DEF Seed, ReachClosed, IsRoot, Exported, Home, Reached, ExtraTexts,
                        Text, Seen
    <3> QED BY <1>2, <2>1, <2>3, <3>1 DEF Seed, ReachClosed, ReachInv, OnlyReached
  <2>4. OnlyReached'
    BY <1>2, <2>3 DEF Seed, OnlyReached, ReachInv, Scan
  <2> QED BY <2>2, <2>4 DEF ReachInv
<1>3. ASSUME NEW w \in Weaves, Translate(w) PROVE ReachInv'
  <2> DEFINE tables == registered \cup (Text({w}) \cap Late)
  <2>0. Scan(Seen({w}), tables) /\ tables \subseteq Late /\ phase = "discover"
    BY <1>3 DEF Translate, ReachInv, InTables
  <2>1. /\ queued' \subseteq queued \cup Reached(Seen({w}))
        /\ queued \subseteq queued'
        /\ weaves' \subseteq Weaves /\ registered' \subseteq Late
    <3> HIDE DEF tables
    <3>1. queued \subseteq queued'
      BY <2>0 DEF Scan
    <3> QED BY <2>0, <3>1, ScanQueuesReached DEF ReachInv
  <2>2. InTables'
    BY <1>3, <2>1 DEF Translate, ReachInv, InTables
  <2>3. ASSUME cmd.mode \in Exact, NEW S \in SUBSET Weaves, ReachClosed(S)'
        PROVE  queued' \subseteq S
    <3>1. ReachClosed(S)
      BY <1>3, <2>3 DEF Translate, ReachClosed, IsRoot, Exported, Home, Reached,
                        ExtraTexts, Text, Seen
    <3>2. queued \subseteq S
      BY <1>3, <2>3, <3>1 DEF Translate, ReachInv, OnlyReached
    <3>3. w \in S
      BY <1>3, <3>2 DEF Translate
    <3> QED BY <2>1, <3>1, <3>2, <3>3 DEF ReachClosed
  <2>4. OnlyReached'
    BY <1>3, <2>1, <2>3 DEF Translate, OnlyReached, ReachInv
  <2> QED BY <2>2, <2>4 DEF ReachInv
<1>4. ASSUME Discovered PROVE ReachInv'
  <2>1. ASSUME NEW S, ReachClosed(S)' PROVE ReachClosed(S)
    BY <1>4, <2>1 DEF Discovered, ReachClosed, IsRoot, Exported, Home, Reached,
                      ExtraTexts, Text, Seen
  <2>2. cmd.mode \in Exact => weaves' \subseteq queued'
    BY <1>4 DEF Discovered, ReachInv, OnlyReached
  <2>3. InTables'
    BY <1>4 DEF Discovered, ReachInv, InTables
  <2>4. OnlyReached'
    BY <1>4, <2>1, <2>2 DEF Discovered, ReachInv, OnlyReached
  <2> QED BY <2>3, <2>4 DEF ReachInv
<1>5. ASSUME Emit PROVE ReachInv'
  <2>1. ASSUME NEW S, ReachClosed(S)' PROVE ReachClosed(S)
    BY <1>5, <2>1 DEF Emit, ReachClosed, IsRoot, Exported, Home, Reached, ExtraTexts,
                      Text, Seen
  <2>2. bundle'.weaves = weaves
    BY <1>5 DEF Emit, Sections
  <2> QED
    BY <1>5, <2>1, <2>2 DEF Emit, ReachInv, OnlyReached, InTables
<1>6. ASSUME UNCHANGED vars PROVE ReachInv'
  BY <1>6 DEF vars, ReachInv, OnlyReached, InTables, ReachClosed, IsRoot, Exported,
              Home, Reached, ExtraTexts, Text, Seen
<1> QED
  BY <1>1, <1>2, <1>3, <1>4, <1>5, <1>6 DEF Next

\* Whatever the program and the order of the worklist, a weave that the exact
\* pass keeps is in every set that contains the roots and is closed under what
\* the emitted C names.
THEOREM OnlyReachableIsKept == Spec => []KeepsOnlyReachable
<1>1. ReachInv => KeepsOnlyReachable
  <2>1. Roots = {w \in Weaves : IsRoot(w)}
    BY DEF Roots, IsRoot, Exported
  <2> QED
    BY <2>1 DEF ReachInv, OnlyReached, KeepsOnlyReachable, ReachClosed
<1> QED
  BY <1>1, ReachInvInit, ReachInvNext, PTL DEF Spec

-----------------------------------------------------------------------------
(* Bundles are closed, for programs without surprises.                      *)

Kind(S) == S \cap Weaves

\* What is registered, in every call and phase: types come with the instances
\* that need them, and the instances that lambdas and constants name are known.
Tables ==
  /\ program \in Programs
  /\ phase # "idle" => cmd.mode \in program.modes
  /\ types \subseteq Types /\ Types \ LateTypes \subseteq types
  /\ \A w \in (all \cup weaves) \cap Late : program.brings[w] \subseteq types
  /\ \A t \in types \cap LateTypes :
       \E i \in Late : t \in program.brings[i] /\ program.brings[i] \subseteq types
  /\ Text(Lambdas) \cap Late \subseteq registered
  /\ IF phase = "idle" THEN Weaves \ Late \subseteq weaves
     ELSE /\ Weaves \ Late \subseteq all
          /\ Text(Consts) \cap Late \subseteq registered
          /\ units = Blocks

\* The worklist misses nothing that has been scanned.
Worklist ==
  /\ phase \in {"seed", "discover"} =>
       all \subseteq weaves /\ cmd.mode \in Exact
  /\ phase = "seed" => live = {} /\ tried = {} /\ queued = {}
  /\ phase = "discover" =>
       /\ tried \cap Late \subseteq weaves
       /\ live \cup queued \subseteq weaves
       /\ \A x \in live \cup Lambdas \cup Consts :
            Kind(program.text[x]) \subseteq queued

\* What is emitted calls only what is emitted.
CallsComplete ==
  /\ \A x \in weaves \cup Lambdas \cup Consts :
       Kind(program.text[x]) \subseteq weaves
  /\ cmd.mode = "test" => Kind(program.tests) \subseteq weaves

ClosedInv ==
  /\ InTables /\ Tables /\ Worklist
  /\ phase = "emit" => CallsComplete
  /\ BundleIsClosed

\* A symbol that a text names when its instances are in the tables is queued.
LEMMA ScanQueuesNamed ==
  ASSUME ClosedInv, phase \in {"seed", "discover"}, NEW names, NEW tables,
         names \subseteq Idents, names \cap Late \subseteq tables,
         tables \subseteq Late, Scan(names, tables)
  PROVE  /\ Kind(names) \subseteq queued'
         /\ queued \subseteq queued'
         /\ tried' \cap Late \subseteq weaves'
<1>1. tried \cap Late \subseteq weaves /\ Weaves \ Late \subseteq weaves
  BY DEF ClosedInv, Tables, Worklist
<1>2. Kind(names) \subseteq weaves \cup Materialized(names, tables)
  BY <1>1 DEF Kind, Materialized
<1> QED
  BY <1>1, <1>2 DEF Scan, Kind, Idents, Late, LateOf

\* A scan registers the types of what it collects.
LEMMA ScanKeepsTables ==
  ASSUME ClosedInv, phase \in {"seed", "discover"}, NEW names, NEW tables,
         tables \subseteq Late, registered \subseteq tables, Scan(names, tables),
         UNCHANGED <<program, cmd, all, units>>, phase' = "discover"
  PROVE  Tables' /\ all' \cup queued' \subseteq weaves' /\ weaves \subseteq weaves'
<1> DEFINE new == Materialized(names, tables)
<1>1. /\ weaves' = weaves \cup new /\ registered' = tables /\ new \subseteq Late
      /\ types' = types \cup UNION {program.brings[w] : w \in new}
  BY DEF Scan, Materialized
<1>2. program \in Program
  BY DceAssumption DEF ClosedInv, Tables
<1>3. \A w \in new : program.brings[w] \subseteq Types
  BY <1>1, <1>2 DEF Program, Late, LateOf
<1>4. Late' = Late /\ LateTypes' = LateTypes
  BY DEF Late, LateTypes, LateOf, LateTypesOf
<1> HIDE DEF new
<1>5. types' \subseteq Types /\ types \subseteq types'
  BY <1>1, <1>3 DEF ClosedInv, Tables
<1>6. \A w \in (all' \cup weaves') \cap Late' : program'.brings[w] \subseteq types'
  BY <1>1, <1>4, <1>5 DEF ClosedInv, Tables
<1>7. ASSUME NEW t \in types' \cap LateTypes'
      PROVE  \E i \in Late' : t \in program'.brings[i] /\ program'.brings[i] \subseteq types'
  <2>1. CASE t \in types
    BY <1>4, <1>5, <2>1 DEF ClosedInv, Tables
  <2>2. CASE t \notin types
    BY <1>1, <1>4, <2>2
  <2> QED BY <2>1, <2>2
<1>8. Text(Lambdas)' = Text(Lambdas) /\ Text(Consts)' = Text(Consts)
  BY DEF Text
<1>9. queued' \subseteq weaves'
  <2>1. queued \subseteq weaves /\ all \subseteq weaves
    BY DEF ClosedInv, Worklist
  <2>2. queued' \subseteq queued \cup (weaves \cup new) \cup all
    BY DEF Scan, new
  <2> QED BY <1>1, <2>1, <2>2
<1> QED
  BY <1>9, <1>1, <1>4, <1>5, <1>6, <1>7, <1>8 DEF ClosedInv, Tables, Worklist
\* What the lemmas below need of a program that has no surprises.
LEMMA ProgramFacts ==
  ASSUME program \in Programs, Surprises = {}
  PROVE
    /\ \A x \in Texts : program.text[x] \subseteq Idents
    /\ \A w \in Weaves : program.words[w] \subseteq Idents
                           /\ program.words[w] \cap Late = {}
    /\ program.glue \subseteq Idents /\ program.glue \cap Late = {}
    /\ program.tests \subseteq Idents
    /\ \A x \in Weaves \cup Consts : program.sig[x] \subseteq Types
    /\ \A t \in Types : program.needs[t] \subseteq Types
    /\ \A b \in Blocks : program.text[b] \subseteq Blocks \cup (Types \ LateTypes)
                           /\ program.of[b] \in Types \ LateTypes
    /\ LateTypes \subseteq Types
    /\ \A x \in Weaves \cup Consts \cup Lambdas :
         \A t \in LateTypes \cap program.text[x] :
           \E i \in Late \cap (program.text[x] \cup {x}) : t \in program.brings[i]
    /\ \A x \in Weaves \cup Consts :
         \A t \in LateTypes \cap program.sig[x] :
           \E i \in Late \cap (program.text[x] \cup {x}) : t \in program.brings[i]
    /\ \A t \in Types : \A u \in LateTypes \cap program.needs[t] :
         t \in LateTypes /\ \A i \in Late : t \in program.brings[i] => u \in program.brings[i]
    /\ \A v \in Variants : program.variant[v] \in Types \ LateTypes
                             /\ program.guess[v] = program.variant[v]
    /\ \A m \in program.modes \ Exact : Late = {}
    /\ "test" \in program.modes =>
         /\ \A c \in Consts : \A w \in Weaves \cap program.text[c] : Home(w) # "std"
         /\ \A l \in Lambdas : /\ program.owner[l] \in Weaves
                               /\ Home(program.owner[l]) = "std" =>
                                    \A w \in Weaves \cap program.text[l] : Home(w) # "std"
<1>1. program \in Program /\ WellFormed(program) /\ Unsurprising(program)
  BY DceAssumption
<1> USE DEF Late, LateTypes
<1>2. LateTypes \subseteq Types /\ Late \subseteq Weaves
  BY <1>1 DEF Program, LateTypesOf, LateOf
<1>3. /\ \A x \in Texts : program.text[x] \subseteq Idents
      /\ \A w \in Weaves : program.words[w] \subseteq Idents
      /\ program.glue \subseteq Idents /\ program.tests \subseteq Idents
      /\ \A x \in Weaves \cup Consts : program.sig[x] \subseteq Types
      /\ \A t \in Types : program.needs[t] \subseteq Types
      /\ \A b \in Blocks : program.of[b] \in Types
      /\ \A v \in Variants : program.variant[v] \in Types
      /\ \A l \in Lambdas : program.owner[l] \in Weaves
  BY <1>1 DEF Program
<1>4. /\ \A w \in Weaves : program.words[w] \cap Late = {}
      /\ program.glue \cap Late = {}
      /\ \A b \in Blocks : program.of[b] \notin LateTypes
      /\ program.guess = program.variant
      /\ Late = {} \/ program.modes \subseteq Exact
  BY <1>1 DEF Unsurprising
<1>5. "test" \in program.modes =>
         /\ \A c \in Consts : \A w \in Weaves \cap program.text[c] : Home(w) # "std"
         /\ \A l \in Lambdas : Home(program.owner[l]) = "std" =>
                                 \A w \in Weaves \cap program.text[l] : Home(w) # "std"
  BY <1>1, <1>3 DEF Unsurprising, Home
<1>6. /\ \A b \in Blocks : program.text[b] \subseteq Blocks \cup (Types \ LateTypes)
      /\ \A v \in Variants : program.variant[v] \notin LateTypes
  BY <1>1 DEF WellFormed
<1>7. \A x \in Texts \ Blocks :
        \A t \in LateTypes \cap (program.text[x] \cup (IF x \in Lambdas THEN {} ELSE program.sig[x])) :
          \E i \in program.text[x] \cup {x} : i \in Late /\ t \in program.brings[i]
  BY <1>1 DEF WellFormed
<1>8. /\ \A x \in Weaves \cup Consts \cup Lambdas :
           \A t \in LateTypes \cap program.text[x] :
             \E i \in Late \cap (program.text[x] \cup {x}) : t \in program.brings[i]
      /\ \A x \in Weaves \cup Consts :
           \A t \in LateTypes \cap program.sig[x] :
             \E i \in Late \cap (program.text[x] \cup {x}) : t \in program.brings[i]
  BY <1>7, SymbolsAssumption DEF Texts
<1>9. \A t \in Types : \A u \in LateTypes \cap program.needs[t] :
        t \in LateTypes /\ \A i \in Late : t \in program.brings[i] => u \in program.brings[i]
  <2>1. \A t \in Types : \A u \in LateTypes \cap program.needs[t] :
          t \in LateTypes /\ \A i \in Weaves :
            i \in Late /\ t \in program.brings[i] => i \in Late /\ u \in program.brings[i]
    BY <1>1 DEF WellFormed
  <2> QED BY <1>2, <2>1
<1> QED
  BY <1>2, <1>3, <1>4, <1>5, <1>6, <1>8, <1>9
LEMMA ClosedInvInit == Surprises = {} /\ Init => ClosedInv
<1> SUFFICES ASSUME Surprises = {}, Init PROVE ClosedInv
  OBVIOUS
<1>1. InTables
  BY DEF Init, InTables, Late, LateOf
<1>2. Tables
  <2>1. LateTypes \subseteq Types
    BY ProgramFacts DEF Init
  <2> QED BY <2>1 DEF Init, Tables, Late, LateTypes
<1> QED
  BY <1>1, <1>2 DEF Init, ClosedInv, Worklist, BundleIsClosed

LEMMA TextOf == \A x : Text({x}) = program.text[x]
BY DEF Text

\* The pass by name: what it keeps calls only what it keeps.
LEMMA ByNameIsClosed ==
  ASSUME program \in Programs, Surprises = {}, "test" \in program.modes,
         NEW catalog \in SUBSET Weaves, Weaves \ Late \subseteq catalog
  PROVE  LET kept == KeptByName(catalog)
         IN  /\ kept \subseteq catalog
             /\ \A x \in kept \cup Lambdas \cup Consts :
                  Kind(program.text[x]) \subseteq kept
             /\ Kind(program.tests) \subseteq kept
<1> DEFINE mentioned(N) == {w \in catalog : w \in N \/ program.short[w] \in N}
           bodies(w) == Text({w} \cup {l \in Lambdas : program.owner[l] = w})
           refs == [w \in catalog |-> mentioned(bodies(w))]
           roots == {w \in catalog : Home(w) # "std"} \cup mentioned(program.tests)
           kept == Least(roots, catalog, refs)
<1>1. kept = KeptByName(catalog)
  BY DEF KeptByName
<1>2. catalog = Weaves
  <2>1. "test" \in program.modes \ Exact
    BY DEF Exact
  <2>2. Late = {}
    BY <2>1, ProgramFacts
  <2> QED BY <2>2
<1>3. kept \subseteq catalog /\ roots \subseteq kept
  <2>1. roots \cap catalog = roots
    OBVIOUS
  <2> HIDE DEF roots, refs
  <2> QED BY <2>1, LeastInside, LeastHasRoots
<1>4. \A w \in kept : mentioned(bodies(w)) \subseteq kept
  <2> SUFFICES ASSUME NEW w \in kept PROVE mentioned(bodies(w)) \subseteq kept
    OBVIOUS
  <2>1. refs[w] \cap catalog \subseteq kept
    <3> HIDE DEF roots, refs
    <3> QED BY LeastIsClosed
  <2>2. refs[w] = mentioned(bodies(w))
    BY <1>3
  <2> QED BY <2>1, <2>2
<1>5. \A w \in kept : Kind(program.text[w]) \subseteq kept
  <2> SUFFICES ASSUME NEW w \in kept PROVE Kind(program.text[w]) \subseteq kept
    OBVIOUS
  <2>1. program.text[w] \subseteq bodies(w)
    BY DEF Text
  <2> HIDE DEF kept, bodies
  <2> QED BY <1>2, <1>4, <2>1 DEF Kind
<1>6. \A w \in Weaves : Home(w) # "std" => w \in kept
  BY <1>2, <1>3
<1>7. \A l \in Lambdas : Kind(program.text[l]) \subseteq kept
  <2> SUFFICES ASSUME NEW l \in Lambdas PROVE Kind(program.text[l]) \subseteq kept
    OBVIOUS
  <2>1. program.owner[l] \in Weaves
    BY ProgramFacts
  <2>2. CASE Home(program.owner[l]) = "std"
    <3>1. \A w \in Weaves \cap program.text[l] : Home(w) # "std"
      BY <2>2, ProgramFacts
    <3> QED BY <1>6, <3>1 DEF Kind
  <2>3. CASE Home(program.owner[l]) # "std"
    <3>1. program.owner[l] \in kept
      BY <1>6, <2>1, <2>3
    <3>2. program.text[l] \subseteq bodies(program.owner[l])
      BY DEF Text
    <3> HIDE DEF kept, bodies
    <3> QED BY <1>2, <1>4, <3>1, <3>2 DEF Kind
  <2> QED BY <2>2, <2>3
<1>8. \A c \in Consts : Kind(program.text[c]) \subseteq kept
  <2> SUFFICES ASSUME NEW c \in Consts PROVE Kind(program.text[c]) \subseteq kept
    OBVIOUS
  <2>1. \A w \in Weaves \cap program.text[c] : Home(w) # "std"
    BY ProgramFacts
  <2> QED BY <1>6, <2>1 DEF Kind
<1>9. Kind(program.tests) \subseteq kept
  BY <1>2, <1>3 DEF Kind
<1> HIDE DEF kept
<1> QED
  BY <1>1, <1>3, <1>5, <1>7, <1>8, <1>9
\* Whatever instance a section that is no body names is in the tables.
LEMMA ExtraTextsAreKnown ==
  ASSUME Surprises = {}, ClosedInv, phase = "seed"
  PROVE  ExtraTexts \subseteq Idents /\ ExtraTexts \cap Late \subseteq registered
<1>0. program \in Programs /\ units = Blocks
  BY DEF ClosedInv, Tables
<1>1. Text(Blocks) \cap Late = {}
  <2>1. \A b \in Blocks : program.text[b] \subseteq Blocks \cup Types
    BY <1>0, ProgramFacts
  <2> QED BY <2>1, SymbolsAssumption DEF Text, Late, LateOf
<1>2. Text(Lambdas \cup units \cup Consts)
        = Text(Lambdas) \cup Text(Blocks) \cup Text(Consts)
  BY <1>0 DEF Text
<1>3. program.glue \subseteq Idents /\ program.glue \cap Late = {}
  BY <1>0, ProgramFacts
<1>4. \A x \in Lambdas \cup Blocks \cup Consts : program.text[x] \subseteq Idents
  BY <1>0, ProgramFacts DEF Texts
<1>5. Text(Lambdas \cup units \cup Consts) \subseteq Idents
  BY <1>0, <1>4 DEF Text
<1> QED
  BY <1>0, <1>1, <1>2, <1>3, <1>5 DEF ExtraTexts, ClosedInv, Tables

\* So is whatever instance a body names, once it is translated.
LEMMA SeenIsKnown ==
  ASSUME Surprises = {}, program \in Programs, NEW w \in Weaves
  PROVE  Seen({w}) \subseteq Idents
           /\ Seen({w}) \cap Late \subseteq registered \cup (Text({w}) \cap Late)
<1>1. Seen({w}) = program.text[w] \cup program.words[w]
  BY DEF Seen, Text
<1>2. program.text[w] \subseteq Idents
  BY ProgramFacts DEF Texts
<1>3. program.words[w] \subseteq Idents /\ program.words[w] \cap Late = {}
  BY ProgramFacts
<1> QED BY <1>1, <1>2, <1>3, TextOf

LEMMA GenerateKeeps ==
  ASSUME Surprises = {}, ClosedInv, NEW mode \in Modes, NEW prune \in BOOLEAN,
         Generate(mode, prune)
  PROVE  ClosedInv'
<1>0. /\ program' = program /\ program \in Programs /\ mode \in program.modes
      /\ cmd'.mode = mode /\ types' = types /\ all' = Snapshot
      /\ all' \subseteq Weaves /\ Weaves \ Late \subseteq all'
      /\ phase' \in {"seed", "emit"} /\ (phase' = "seed" <=> mode \in Exact)
  BY DEF Generate, ClosedInv, InTables, Tables, Snapshot
<1>1. Late' = Late /\ LateTypes' = LateTypes /\ Text(Lambdas)' = Text(Lambdas)
        /\ Text(Consts)' = Text(Consts)
  BY <1>0 DEF Late, LateTypes, LateOf, LateTypesOf, Text
<1>2. weaves' \subseteq all' /\ (mode # "test" => weaves' = all')
  BY <1>0, LeastInside DEF Generate, KeptByName
<1>3. InTables'
  BY <1>0, <1>1, <1>2 DEF Generate, ClosedInv, InTables, Late, LateOf
<1>4. units' = Blocks
  <2>1. \A b \in Blocks : program.of[b] \in Types \ LateTypes
    BY <1>0, ProgramFacts
  <2> QED BY <2>1 DEF Generate, ClosedInv, Tables
<1>5. Tables'
  <2>1. \A w \in (all' \cup weaves') \cap Late' : program'.brings[w] \subseteq types'
    BY <1>0, <1>1, <1>2 DEF ClosedInv, Tables, Snapshot
  <2>2. Text(Lambdas)' \cap Late' \subseteq registered'
          /\ Text(Consts)' \cap Late' \subseteq registered'
    BY <1>1 DEF Generate, ClosedInv, Tables
  <2> QED
    BY <1>0, <1>1, <1>4, <2>1, <2>2 DEF ClosedInv, Tables
<1>6. Worklist'
  BY <1>0, <1>2 DEF Generate, Worklist, Exact
<1>7. ASSUME phase' = "emit" PROVE CallsComplete'
  <2>1. CASE mode = "test"
    <3>1. weaves' = KeptByName(Snapshot)
      BY <2>1 DEF Generate
    <3> QED
      BY <1>0, <2>1, <3>1, ByNameIsClosed DEF CallsComplete, Kind
  <2>2. CASE mode # "test"
    <3>1. Late = {}
      BY <1>0, <1>7, ProgramFacts
    <3>2. weaves' = Weaves
      BY <1>0, <1>2, <2>2, <3>1
    <3> QED BY <1>0, <2>2, <3>2 DEF CallsComplete, Kind
  <2> QED BY <2>1, <2>2
<1>8. BundleIsClosed'
  BY <1>0 DEF BundleIsClosed
<1> QED BY <1>3, <1>5, <1>6, <1>7, <1>8 DEF ClosedInv

LEMMA SeedKeeps ==
  ASSUME Surprises = {}, ClosedInv, Seed
  PROVE  ClosedInv'
<1>0. /\ program' = program /\ program \in Programs /\ phase = "seed"
      /\ phase' = "discover" /\ live' = live /\ live = {} /\ units = Blocks
      /\ Scan(ExtraTexts, registered) /\ registered \subseteq Late
      /\ UNCHANGED <<program, cmd, all, units, live, bundle>>
  BY DEF Seed, ClosedInv, InTables, Tables, Worklist
<1>1. ExtraTexts \subseteq Idents /\ ExtraTexts \cap Late \subseteq registered
  BY <1>0, ExtraTextsAreKnown
<1>2. /\ Kind(ExtraTexts) \subseteq queued' /\ tried' \cap Late \subseteq weaves'
  BY <1>0, <1>1, ScanQueuesNamed
<1>3. Tables' /\ all' \cup queued' \subseteq weaves'
  BY <1>0, ScanKeepsTables
<1>4. Late' = Late
  BY <1>0 DEF Late, LateOf
<1>5. InTables'
  BY <1>0, <1>4 DEF Scan, Materialized, ClosedInv, InTables, Late, LateOf
<1>6. \A x \in Lambdas \cup Consts : program.text[x] \subseteq ExtraTexts
  BY DEF ExtraTexts, Text
<1>7. Worklist'
  BY <1>0, <1>2, <1>3, <1>4, <1>6 DEF Worklist, ClosedInv, Kind
<1> QED
  BY <1>0, <1>3, <1>5, <1>7 DEF ClosedInv, BundleIsClosed

LEMMA TranslateKeeps ==
  ASSUME Surprises = {}, ClosedInv, NEW w \in Weaves, Translate(w)
  PROVE  ClosedInv'
<1> DEFINE tables == registered \cup (Text({w}) \cap Late)
<1>0. /\ program' = program /\ program \in Programs /\ phase = "discover"
      /\ phase' = "discover" /\ live' = live \cup {w}
      /\ Scan(Seen({w}), tables) /\ tables \subseteq Late /\ registered \subseteq tables
      /\ UNCHANGED <<program, cmd, all, units, bundle>>
  BY DEF Translate, ClosedInv, InTables, Tables, Worklist
<1>1. Seen({w}) = program.text[w] \cup program.words[w]
  BY DEF Seen, Text
<1>2. Seen({w}) \subseteq Idents /\ Seen({w}) \cap Late \subseteq tables
  BY <1>0, SeenIsKnown
<1> HIDE DEF tables
<1>3. /\ Kind(Seen({w})) \subseteq queued' /\ queued \subseteq queued'
      /\ tried' \cap Late \subseteq weaves'
  BY <1>0, <1>2, ScanQueuesNamed
<1>4. Tables' /\ all' \cup queued' \subseteq weaves' /\ weaves \subseteq weaves'
  BY <1>0, ScanKeepsTables
<1>5. Late' = Late
  BY <1>0 DEF Late, LateOf
<1>6. InTables'
  BY <1>0, <1>5 DEF Scan, Materialized, ClosedInv, InTables, Late, LateOf
<1>7. ASSUME NEW x \in live' \cup Lambdas \cup Consts
      PROVE  Kind(program.text[x]) \subseteq queued'
  <2>1. CASE x = w
    BY <1>1, <1>3, <2>1 DEF Kind
  <2>2. CASE x # w
    BY <1>0, <1>3, <2>2 DEF Worklist, ClosedInv
  <2> QED BY <2>1, <2>2
<1>8. live' \subseteq weaves'
  BY <1>0, <1>4 DEF Translate, Worklist, ClosedInv
<1>9. Worklist'
  BY <1>0, <1>3, <1>4, <1>5, <1>7, <1>8 DEF Worklist, ClosedInv, Kind
<1> QED
  BY <1>0, <1>4, <1>6, <1>9 DEF ClosedInv, BundleIsClosed

LEMMA DiscoveredKeeps ==
  ASSUME ClosedInv, Discovered
  PROVE  ClosedInv'
<1>0. /\ program' = program /\ phase = "discover" /\ phase' = "emit"
      /\ weaves' = live /\ queued \subseteq live /\ cmd.mode \in Exact
      /\ UNCHANGED <<program, cmd, all, units, types, registered, live>>
  BY DEF Discovered, ClosedInv, Worklist
<1>1. Late' = Late /\ LateTypes' = LateTypes /\ Text(Lambdas)' = Text(Lambdas)
        /\ Text(Consts)' = Text(Consts)
  BY <1>0 DEF Late, LateTypes, LateOf, LateTypesOf, Text
<1>2. InTables'
  BY <1>0, <1>1 DEF ClosedInv, InTables
<1>3. live \subseteq weaves
  BY <1>0 DEF ClosedInv, Worklist
<1>4. Tables'
  BY <1>0, <1>1, <1>3 DEF ClosedInv, Tables
<1>5. CallsComplete'
  <2>1. cmd.mode # "test"
    BY <1>0 DEF Exact
  <2> QED BY <1>0, <2>1 DEF CallsComplete, ClosedInv, Worklist, Kind
<1> QED
  BY <1>0, <1>2, <1>4, <1>5 DEF ClosedInv, Worklist, BundleIsClosed
\* The constants that pruning may drop although they are used.
Lost == IF Pruning THEN Renamed ELSE {}

\* The sections emitted with complete weaves: helpers and constants are closed.
LEMMA SectionsAreClosed ==
  ASSUME Surprises = {}, ClosedInv, phase = "emit"
  PROVE  /\ KeptBlocks(weaves) \subseteq Blocks /\ KeptConsts(weaves) \subseteq Consts
         /\ \A x \in weaves \cup Lambdas \cup KeptBlocks(weaves) \cup KeptConsts(weaves) :
              program.text[x] \cap Blocks \subseteq KeptBlocks(weaves)
         /\ \A x \in weaves \cup Lambdas \cup KeptBlocks(weaves) \cup KeptConsts(weaves) :
              program.text[x] \cap Consts \subseteq KeptConsts(weaves) \cup Lost
<1>0. units = Blocks
  BY DEF ClosedInv, Tables
<1>1. KeptBlocks(weaves) \subseteq Blocks /\ KeptConsts(weaves) \subseteq Consts
  BY <1>0, LeastInside DEF KeptBlocks, KeptConsts
<1>2. ASSUME NEW x \in weaves \cup Lambdas \cup KeptBlocks(weaves) \cup Consts
      PROVE  program.text[x] \cap Blocks \subseteq KeptBlocks(weaves)
  <2>1. CASE cmd.mode \notin Exact
    BY <1>0, <2>1 DEF KeptBlocks
  <2>2. CASE cmd.mode \in Exact
    <3> DEFINE roots == Seen(weaves \cup Lambdas \cup Consts)
    <3>1. KeptBlocks(weaves) = Least(roots, Blocks, program.text)
      BY <1>0, <2>2 DEF KeptBlocks
    <3>2. CASE x \in KeptBlocks(weaves)
      BY <3>1, <3>2, LeastIsClosed
    <3>3. CASE x \notin KeptBlocks(weaves)
      <4>1. program.text[x] \subseteq roots
        BY <3>3 DEF Seen, Text
      <4>2. roots \cap Blocks \subseteq KeptBlocks(weaves)
        <5> HIDE DEF roots
        <5> QED BY <3>1, LeastHasRoots
      <4> QED BY <4>1, <4>2
    <3> QED BY <3>2, <3>3
  <2> QED BY <2>1, <2>2
<1>3. ASSUME NEW x \in weaves \cup Lambdas \cup KeptBlocks(weaves) \cup KeptConsts(weaves)
      PROVE  program.text[x] \cap Consts \subseteq KeptConsts(weaves) \cup Lost
  <2>1. CASE ~Pruning
    BY <2>1 DEF KeptConsts
  <2>2. CASE Pruning
    <3> DEFINE mentioned(N) == {c \in Consts : program.name[c] \in N}
               refs == [c \in Consts |-> mentioned(program.text[c])]
    <3>1. KeptConsts(weaves) = Least(mentioned(LiveText(weaves)), Consts, refs)
      BY <2>2 DEF KeptConsts
    <3>2. program.text[x] \cap Consts \subseteq mentioned(program.text[x]) \cup Lost
      BY <2>2 DEF Renamed, Lost
    <3>3. mentioned(program.text[x]) \subseteq Consts
      OBVIOUS
    <3>4. CASE x \in KeptConsts(weaves)
      <4>1. refs[x] = mentioned(program.text[x])
        BY <1>1, <3>4
      <4> HIDE DEF refs, mentioned
      <4>2. refs[x] \cap Consts \subseteq KeptConsts(weaves)
        BY <3>1, <3>4, LeastIsClosed
      <4> QED BY <3>2, <3>3, <4>1, <4>2
    <3>5. CASE x \notin KeptConsts(weaves)
      <4>1. program.text[x] \subseteq LiveText(weaves)
        BY <3>5 DEF LiveText, Seen, Text
      <4>2. mentioned(program.text[x]) \subseteq mentioned(LiveText(weaves))
        BY <4>1
      <4> HIDE DEF refs, mentioned
      <4>3. mentioned(LiveText(weaves)) \cap Consts \subseteq KeptConsts(weaves)
        BY <3>1, LeastHasRoots
      <4> QED BY <3>2, <3>3, <4>2, <4>3
    <3> QED BY <3>4, <3>5
  <2> QED BY <2>1, <2>2
<1> QED BY <1>1, <1>2, <1>3

\* Every type that what is emitted names, in a text or a signature, is registered.
LEMMA NamedTypesAreRegistered ==
  ASSUME Surprises = {}, ClosedInv, phase = "emit"
  PROVE  /\ \A x \in weaves \cup Lambdas \cup KeptBlocks(weaves) \cup KeptConsts(weaves) :
              program.text[x] \cap Types \subseteq types
         /\ \A x \in weaves \cup KeptConsts(weaves) : program.sig[x] \subseteq types
         /\ \A t \in types : program.needs[t] \subseteq types
<1>0. /\ program \in Programs /\ Types \ LateTypes \subseteq types /\ types \subseteq Types
      /\ \A w \in weaves \cap Late : program.brings[w] \subseteq types
      /\ \A t \in types \cap LateTypes :
           \E i \in Late : t \in program.brings[i] /\ program.brings[i] \subseteq types
      /\ \A x \in weaves \cup Lambdas \cup Consts : Kind(program.text[x]) \subseteq weaves
      /\ weaves \subseteq Weaves /\ Late \subseteq Weaves
  BY DEF ClosedInv, InTables, Tables, CallsComplete, Late, LateOf
<1>1. KeptBlocks(weaves) \subseteq Blocks /\ KeptConsts(weaves) \subseteq Consts
  BY SectionsAreClosed
\* an instance that is named along with a type is kept
<1>2. \A x \in weaves \cup Lambdas \cup Consts :
        Late \cap (program.text[x] \cup {x}) \subseteq weaves
  BY <1>0, SymbolsAssumption DEF Kind
<1>3. \A x \in weaves \cup Lambdas \cup Consts : program.text[x] \cap Types \subseteq types
  <2> SUFFICES ASSUME NEW x \in weaves \cup Lambdas \cup Consts,
                      NEW t \in program.text[x] \cap LateTypes
               PROVE  t \in types
    BY <1>0
  <2>1. PICK i \in Late \cap (program.text[x] \cup {x}) : t \in program.brings[i]
    <3>1. x \in Weaves \cup Consts \cup Lambdas
      BY <1>0
    <3> QED BY <1>0, <3>1, ProgramFacts
  <2> QED BY <1>0, <1>2, <2>1
<1>4. \A x \in weaves \cup Consts : program.sig[x] \subseteq types
  <2> SUFFICES ASSUME NEW x \in weaves \cup Consts, NEW t \in program.sig[x]
               PROVE  t \in types
    OBVIOUS
  <2>1. x \in Weaves \cup Consts
    BY <1>0
  <2>2. t \in Types
    BY <1>0, <2>1, ProgramFacts
  <2>3. CASE t \in LateTypes
    <3>1. PICK i \in Late \cap (program.text[x] \cup {x}) : t \in program.brings[i]
      BY <1>0, <2>1, <2>3, ProgramFacts
    <3> QED BY <1>0, <1>2, <3>1
  <2> QED BY <1>0, <2>2, <2>3
<1>5. \A b \in Blocks : program.text[b] \cap Types \subseteq types
  <2> SUFFICES ASSUME NEW b \in Blocks PROVE program.text[b] \cap Types \subseteq types
    OBVIOUS
  <2>1. program.text[b] \cap Types \subseteq Blocks \cup (Types \ LateTypes)
    BY <1>0, ProgramFacts
  <2> QED BY <1>0, <2>1, SymbolsAssumption
<1>6. \A t \in types : program.needs[t] \subseteq types
  <2> SUFFICES ASSUME NEW t \in types, NEW u \in program.needs[t] PROVE u \in types
    OBVIOUS
  <2>1. u \in Types
    BY <1>0, ProgramFacts
  <2>2. CASE u \in LateTypes
    <3>1. t \in LateTypes /\ \A i \in Late : t \in program.brings[i] => u \in program.brings[i]
      BY <1>0, <2>2, ProgramFacts
    <3> QED BY <1>0, <3>1
  <2> QED BY <1>0, <2>1, <2>2
<1> QED BY <1>1, <1>3, <1>4, <1>5, <1>6
LEMMA TypesAreClosed ==
  ASSUME Surprises = {}, ClosedInv, phase = "emit"
  PROVE  /\ \A x \in weaves \cup Lambdas \cup KeptBlocks(weaves) \cup KeptConsts(weaves) :
              /\ program.text[x] \cap Types \subseteq KeptTypes(weaves)
              /\ \A v \in Variants \cap program.text[x] : program.variant[v] \in KeptTypes(weaves)
         /\ \A x \in weaves \cup KeptConsts(weaves) : program.sig[x] \subseteq KeptTypes(weaves)
         /\ \A t \in KeptTypes(weaves) : program.needs[t] \subseteq KeptTypes(weaves)
<1>0. /\ program \in Programs /\ Types \ LateTypes \subseteq types /\ types \subseteq Types
  BY DEF ClosedInv, Tables
<1>1. \A v \in Variants : program.variant[v] \in types /\ program.guess[v] = program.variant[v]
  BY <1>0, ProgramFacts
<1>2. CASE ~Pruning
  <2>1. KeptTypes(weaves) = types
    BY <1>2 DEF KeptTypes
  <2> QED BY <1>0, <1>1, <2>1, NamedTypesAreRegistered
<1>3. CASE Pruning
  <2> DEFINE names == LiveText(weaves) \cup Text(KeptConsts(weaves))
                        \cup Signatures(weaves \cup KeptConsts(weaves))
             roots == names \cup {program.guess[v] : v \in names \cap Variants}
  <2>1. KeptTypes(weaves) = Least(roots, types, program.needs)
    BY <1>3 DEF KeptTypes
  <2>2. roots \cap types \subseteq KeptTypes(weaves) /\ KeptTypes(weaves) \subseteq types
    <3> HIDE DEF roots
    <3> QED BY <2>1, LeastHasRoots, LeastInside
  <2>3. \A t \in KeptTypes(weaves) : program.needs[t] \cap types \subseteq KeptTypes(weaves)
    <3> HIDE DEF roots
    <3> QED BY <2>1, LeastIsClosed
  <2>4. \A x \in weaves \cup Lambdas \cup KeptBlocks(weaves) \cup KeptConsts(weaves) :
          program.text[x] \subseteq names
    BY DEF LiveText, Seen, Text
  <2>5. \A x \in weaves \cup KeptConsts(weaves) : program.sig[x] \subseteq names
    BY DEF Signatures
  <2>6. \A v \in names \cap Variants : program.variant[v] \in KeptTypes(weaves)
    BY <1>1, <2>2
  <2> HIDE DEF names
  <2> QED
    BY <2>2, <2>3, <2>4, <2>5, <2>6, NamedTypesAreRegistered
<1> QED BY <1>2, <1>3

LEMMA EmitKeeps ==
  ASSUME Surprises = {}, ClosedInv, Emit
  PROVE  ClosedInv'
<1>0. /\ phase = "emit" /\ phase' = "done" /\ program \in Programs
      /\ bundle' = Sections(weaves)
      /\ registered' = registered \cup (Text(weaves) \cap Late)
      /\ UNCHANGED <<program, cmd, all, weaves, live, units, types>>
  BY DEF Emit, ClosedInv, Tables
<1>1. Late' = Late /\ LateTypes' = LateTypes /\ Text(Lambdas)' = Text(Lambdas)
        /\ Text(Consts)' = Text(Consts)
  BY <1>0 DEF Late, LateTypes, LateOf, LateTypesOf, Text
<1>2. InTables'
  BY <1>0, <1>1 DEF ClosedInv, InTables
<1>3. Tables'
  BY <1>0, <1>1 DEF ClosedInv, Tables
<1>4. BundleIsClosed'
  <2> DEFINE defined == weaves \cup KeptBlocks(weaves) \cup KeptConsts(weaves) \cup KeptTypes(weaves)
                          \cup {v \in Variants : program.variant[v] \in KeptTypes(weaves)}
                          \cup Lost
             other == Shorts \cup Keywords
  <2>1. ASSUME NEW x \in weaves \cup Lambdas \cup KeptBlocks(weaves) \cup KeptConsts(weaves)
        PROVE  program.text[x] \ other \subseteq defined
    <3>1. x \in weaves \cup Lambdas \cup Blocks \cup Consts
      BY <1>0, SectionsAreClosed
    <3>2. program.text[x] \cap Weaves \subseteq weaves
      <4>1. CASE x \in Blocks
        <5>1. program.text[x] \subseteq Blocks \cup (Types \ LateTypes)
          BY <1>0, <4>1, ProgramFacts
        <5> QED BY <5>1, SymbolsAssumption
      <4>2. CASE x \notin Blocks
        BY <1>0, <3>1, <4>2 DEF ClosedInv, CallsComplete, Kind
      <4> QED BY <4>1, <4>2
    <3>3. /\ program.text[x] \cap Blocks \subseteq KeptBlocks(weaves)
          /\ program.text[x] \cap Consts \subseteq KeptConsts(weaves) \cup Lost
      BY <1>0, SectionsAreClosed
    <3>4. /\ program.text[x] \cap Types \subseteq KeptTypes(weaves)
          /\ \A v \in Variants \cap program.text[x] : program.variant[v] \in KeptTypes(weaves)
      BY <1>0, TypesAreClosed
    <3>5. program.text[x] \subseteq Idents
      <4>1. x \in Texts
        BY <3>1 DEF ClosedInv, InTables, Texts
      <4> QED BY <1>0, <4>1, ProgramFacts
    <3> QED BY <3>2, <3>3, <3>4, <3>5 DEF Idents
  <2>2. ASSUME NEW x \in weaves \cup KeptConsts(weaves) PROVE program.sig[x] \subseteq defined
    BY <1>0, TypesAreClosed
  <2>3. ASSUME NEW t \in KeptTypes(weaves) PROVE program.needs[t] \subseteq defined
    BY <1>0, TypesAreClosed
  <2>4. ASSUME cmd.mode = "test" PROVE program.tests \ other \subseteq defined
    <3>1. cmd.mode \notin Exact /\ cmd.mode \in program.modes
      BY <1>0, <2>4 DEF Exact, ClosedInv, Tables
    <3>2. Late = {}
      BY <1>0, <3>1, ProgramFacts
    <3>3. KeptBlocks(weaves) = Blocks /\ KeptConsts(weaves) = Consts /\ KeptTypes(weaves) = types
      <4>1. ~Pruning /\ units = Blocks
        BY <1>0, <3>1 DEF Pruning, ClosedInv, Tables
      <4> QED BY <3>1, <4>1 DEF KeptBlocks, KeptConsts, KeptTypes
    <3>4. types = Types
      BY <3>2 DEF ClosedInv, Tables, LateTypes, LateTypesOf, Late
    <3>5. \A v \in Variants : program.variant[v] \in Types
      BY <1>0, ProgramFacts
    <3>6. program.tests \subseteq Idents /\ Kind(program.tests) \subseteq weaves
      BY <1>0, <2>4, ProgramFacts DEF ClosedInv, CallsComplete
    <3> QED BY <3>3, <3>4, <3>5, <3>6 DEF Idents, Kind
  <2>0. /\ bundle'.weaves = weaves /\ bundle'.blocks = KeptBlocks(weaves)
        /\ bundle'.consts = KeptConsts(weaves) /\ bundle'.types = KeptTypes(weaves)
        /\ program' = program /\ cmd' = cmd
    BY <1>0 DEF Sections
  <2>5. Defined(bundle)' \cup Lost' = defined
    BY <2>0 DEF Defined, Lost, Renamed, Pruning
  <2>6. ASSUME NEW s \in Named(bundle)'
        PROVE  \/ s \in Text(weaves \cup Lambdas \cup KeptBlocks(weaves) \cup KeptConsts(weaves))
               \/ s \in Signatures(weaves \cup KeptConsts(weaves))
               \/ \E t \in KeptTypes(weaves) : s \in program.needs[t]
               \/ cmd.mode = "test" /\ s \in program.tests
    BY <2>0 DEF Named, Text, Signatures
  <2> HIDE DEF defined, other
  <2>7. Text(weaves \cup Lambdas \cup KeptBlocks(weaves) \cup KeptConsts(weaves)) \ other \subseteq defined
    BY <2>1 DEF Text
  <2>8. Signatures(weaves \cup KeptConsts(weaves)) \subseteq defined
    BY <2>2 DEF Signatures
  <2>9. Named(bundle)' \ other \subseteq defined
    BY <2>3, <2>4, <2>6, <2>7, <2>8
  <2> QED
    BY <2>5, <2>9 DEF BundleIsClosed, Lost, other
<1> QED
  BY <1>0, <1>2, <1>3, <1>4 DEF ClosedInv, Worklist

LEMMA ClosedInvNext ==
  ASSUME Surprises = {}, ClosedInv, [Next]_vars
  PROVE  ClosedInv'
<1>1. CASE Next
  BY <1>1, GenerateKeeps, SeedKeeps, TranslateKeeps, DiscoveredKeeps, EmitKeeps
     DEF Next
<1>2. CASE UNCHANGED vars
  BY <1>2 DEF vars, ClosedInv, InTables, Tables, Worklist, CallsComplete, BundleIsClosed,
              Named, Defined, Late, LateTypes, LateOf, LateTypesOf, Text, Signatures,
              Kind, Pruning, Renamed
<1> QED BY <1>1, <1>2

\* Every bundle defines every symbol it refers to, whichever of the passes ran,
\* pruned or not, in every call on one generator, but for the renamed constants
\* that BundleIsClosed names.  It is about the programs without surprises: no word
\* looks like an instance that comes late, no such instance brings a type with
\* helpers, no name of an omen begins another, and the pass by name is not run on
\* what only the exact one sees.
THEOREM BundlesAreClosed ==
  ASSUME Surprises = {}
  PROVE  Spec => []BundleIsClosed
<1>1. Init => ClosedInv
  BY ClosedInvInit
<1>2. ClosedInv /\ [Next]_vars => ClosedInv'
  BY ClosedInvNext
<1>3. ClosedInv => BundleIsClosed
  BY DEF ClosedInv
<1> QED BY <1>1, <1>2, <1>3, PTL DEF Spec
-----------------------------------------------------------------------------
(* The same command gives the same bundle.                                  *)

\* W are the weaves that the running command keeps: there is one such set.
IsKept(W) ==
  /\ W \subseteq Weaves
  /\ cmd.mode \in Exact =>
       ReachClosed(W) /\ \A S \in SUBSET Weaves : ReachClosed(S) => W \subseteq S
  /\ cmd.mode = "test" => W = KeptByName(Weaves)
  /\ cmd.mode = "off" => W = Weaves

AgainInv ==
  /\ ReachInv /\ ClosedInv
  /\ phase = "discover" =>
       /\ {w \in Weaves : IsRoot(w)} \cup Reached(ExtraTexts) \subseteq queued
       /\ \A w \in live : Reached(Seen({w})) \subseteq queued
  /\ phase = "idle" => bundle = None
  /\ phase \in {"emit", "done"} => IsKept(weaves)
  /\ phase = "done" => bundle = Sections(weaves)
  /\ phase \in {"seed", "discover", "emit"} /\ bundle # None /\ bundle.cmd = cmd =>
       \E W : W \subseteq all /\ IsKept(W) /\ bundle = Sections(W)

LEMMA OneIsKept ==
  ASSUME NEW V, NEW W, IsKept(V), IsKept(W), cmd.mode \in Modes
  PROVE  V = W
<1>1. CASE cmd.mode \in Exact
  BY <1>1 DEF IsKept
<1>2. CASE cmd.mode \notin Exact
  BY <1>2 DEF IsKept, Exact, Modes
<1> QED BY <1>1, <1>2

LEMMA ClosedStays ==
  ASSUME UNCHANGED <<program, cmd, units>>, NEW S
  PROVE  ReachClosed(S)' = ReachClosed(S)
BY DEF ReachClosed, IsRoot, Exported, Home, Reached, ExtraTexts, Text, Seen

LEMMA KeptStays ==
  ASSUME UNCHANGED <<program, cmd, units>>, NEW W
  PROVE  IsKept(W)' = IsKept(W)
<1>1. \A S : ReachClosed(S)' = ReachClosed(S)
  BY ClosedStays
<1>2. KeptByName(Weaves)' = KeptByName(Weaves)
  BY DEF KeptByName, Least, Text, Home
<1> QED BY <1>1, <1>2 DEF IsKept

LEMMA SectionsStay ==
  ASSUME UNCHANGED <<program, cmd, units, types>>, NEW W
  PROVE  Sections(W)' = Sections(W)
<1>1. KeptBlocks(W)' = KeptBlocks(W)
  BY DEF KeptBlocks, Least, Seen, Text
<1>2. LiveText(W)' = LiveText(W)
  BY <1>1 DEF LiveText, Seen, Text
<1>3. KeptConsts(W)' = KeptConsts(W)
  BY <1>2 DEF KeptConsts, Pruning, Least
<1>4. KeptTypes(W)' = KeptTypes(W)
  BY <1>2, <1>3 DEF KeptTypes, Pruning, Least, Text, Signatures
<1> QED BY <1>1, <1>3, <1>4 DEF Sections

\* The name of an instance is its symbol: short names are those of other weaves.
LEMMA ShortNames ==
  ASSUME program \in Programs, NEW w \in Late
  PROVE  /\ w \in Weaves /\ ~IsRoot(w)
         /\ \A x \in Texts : program.short[w] \notin program.text[x]
         /\ \A x \in Weaves : program.short[w] \notin program.words[x]
         /\ program.short[w] \notin program.glue
<1>1. w \in Weaves /\ program.home[w] = "late"
  BY DEF Late, LateOf
<1>2. ~IsRoot(w)
  BY <1>1 DEF IsRoot, Exported, Home
<1>3. WellFormed(program)
  BY DceAssumption
<1>4. program.short[w] \notin
        UNION ({program.text[x] : x \in Texts} \cup {program.words[x] : x \in Weaves}
                 \cup {program.glue, program.tests})
  BY <1>1, <1>3 DEF WellFormed
<1> QED BY <1>1, <1>2, <1>4

LEMMA ScanQueuesReachable ==
  ASSUME ClosedInv, phase \in {"seed", "discover"}, NEW names, NEW tables,
         names \subseteq Idents, names \cap Late \subseteq tables,
         tables \subseteq Late, \A w \in Late : program.short[w] \notin names,
         Scan(names, tables)
  PROVE  Reached(names) \subseteq queued'
<1>1. Kind(names) \subseteq queued'
  BY ScanQueuesNamed
<1>2. Weaves \ Late \subseteq all
  BY DEF ClosedInv, Tables
<1> QED
  BY <1>1, <1>2 DEF Reached, Scan, Kind

LEMMA AgainInvInit == Surprises = {} /\ Init => AgainInv
BY ReachInvInit, ClosedInvInit DEF AgainInv, Init

LEMMA AgainGenerate ==
  ASSUME Surprises = {}, AgainInv, NEW mode \in Modes, NEW prune \in BOOLEAN,
         Generate(mode, prune), ReachInv', ClosedInv'
  PROVE  AgainInv'
<1>0. /\ program' = program /\ program \in Programs /\ mode \in program.modes
      /\ cmd' = [mode |-> mode, prune |-> prune] /\ types' = types /\ bundle' = bundle
      /\ phase' \in {"seed", "emit"} /\ (phase' = "seed" <=> mode \in Exact)
      /\ all' = Snapshot /\ Snapshot \subseteq Weaves /\ Weaves \ Late \subseteq Snapshot
      /\ phase \in {"idle", "done"} /\ units' = Blocks
      /\ (phase = "done" => units = Blocks)
  BY DEF Generate, AgainInv, ClosedInv, InTables, Tables, Snapshot
<1>1. ASSUME phase' = "emit" PROVE IsKept(weaves)'
  <2>1. Late = {}
    BY <1>0, <1>1, ProgramFacts
  <2>2. Snapshot = Weaves
    BY <1>0, <2>1
  <2>3. weaves' = IF mode = "test" THEN KeptByName(Weaves) ELSE Weaves
    BY <2>2 DEF Generate
  <2>4. KeptByName(Weaves)' = KeptByName(Weaves)
    BY <1>0 DEF KeptByName, Least, Text, Home
  <2>5. KeptByName(Weaves) \subseteq Weaves
    BY LeastInside DEF KeptByName
  <2> QED BY <1>0, <1>1, <2>3, <2>4, <2>5 DEF IsKept
<1>2. ASSUME bundle # None, bundle.cmd = cmd'
      PROVE  \E W : W \subseteq all' /\ IsKept(W)' /\ bundle' = Sections(W)'
  <2>1. phase = "done" /\ bundle = Sections(weaves) /\ IsKept(weaves)
    BY <1>0, <1>2 DEF AgainInv
  <2>2. bundle.cmd = cmd
    BY <2>1 DEF Sections
  <2>3. UNCHANGED <<program, cmd, units, types>>
    BY <1>0, <1>2, <2>1, <2>2
  <2>4. PICK W : W = weaves
    OBVIOUS
  <2>5. IsKept(W)' /\ Sections(W)' = Sections(W)
    BY <2>1, <2>3, <2>4, KeptStays, SectionsStay
  <2>6. W \subseteq all'
    BY <1>0, <2>4 DEF Snapshot
  <2> QED BY <1>0, <2>1, <2>4, <2>5, <2>6
<1> QED BY <1>0, <1>1, <1>2 DEF AgainInv
\* A scan in a repeated call collects nothing new, and so registers no type.
LEMMA RepeatedScan ==
  ASSUME ClosedInv, phase \in {"seed", "discover"}, ReachInv', phase' = "discover",
         NEW names, NEW tables, Scan(names, tables), cmd.mode \in Exact,
         UNCHANGED <<program, cmd, all, units, bundle>>,
         NEW W, W \subseteq all, IsKept(W), bundle = Sections(W)
  PROVE  /\ W \subseteq all' /\ IsKept(W)' /\ bundle' = Sections(W)'
<1>1. IsKept(W)' = IsKept(W) /\ ReachClosed(W)' = ReachClosed(W)
  BY KeptStays, ClosedStays
<1>2. queued' \subseteq W
  BY <1>1 DEF IsKept, ReachInv, OnlyReached, InTables
<1> DEFINE new == Materialized(names, tables)
<1>3. new = {}
  <2>1. new \subseteq queued'
    BY DEF Scan, Materialized
  <2>2. all \subseteq weaves
    BY DEF ClosedInv, Worklist
  <2> QED BY <1>2, <2>1, <2>2 DEF Materialized
<1>4. types' = types
  BY <1>3 DEF Scan
<1>5. Sections(W)' = Sections(W)
  BY <1>4, SectionsStay
<1> QED BY <1>1, <1>5

LEMMA AgainSeed ==
  ASSUME Surprises = {}, AgainInv, Seed, ReachInv', ClosedInv'
  PROVE  AgainInv'
<1>0. /\ phase = "seed" /\ phase' = "discover" /\ program \in Programs
      /\ Scan(ExtraTexts, registered) /\ live' = {} /\ cmd.mode \in Exact
      /\ UNCHANGED <<program, cmd, all, units, bundle, live>> /\ units = Blocks
  BY DEF Seed, AgainInv, ClosedInv, Worklist, Tables
<1>1. ASSUME bundle # None, bundle.cmd = cmd
      PROVE  \E W : W \subseteq all' /\ IsKept(W)' /\ bundle' = Sections(W)'
  <2>1. PICK W : W \subseteq all /\ IsKept(W) /\ bundle = Sections(W)
    BY <1>0, <1>1 DEF AgainInv
  <2> QED
    BY <1>0, <2>1, RepeatedScan DEF AgainInv
<1>2. Reached(ExtraTexts)' = Reached(ExtraTexts)
        /\ \A w \in Weaves : IsRoot(w)' = IsRoot(w)
  BY <1>0 DEF Reached, ExtraTexts, Text, IsRoot, Exported, Home
<1>3. \A w \in Weaves : IsRoot(w) => w \in queued'
  <2>1. \A w \in Late : ~IsRoot(w)
    BY <1>0, ShortNames
  <2>2. Weaves \ Late \subseteq all
    BY <1>0 DEF AgainInv, ClosedInv, Tables
  <2> QED BY <1>0, <2>1, <2>2 DEF Scan
<1>4. Reached(ExtraTexts) \subseteq queued'
  <2>1. ExtraTexts \subseteq Idents /\ ExtraTexts \cap Late \subseteq registered
    BY <1>0, ExtraTextsAreKnown DEF AgainInv
  <2>2. \A w \in Late : program.short[w] \notin ExtraTexts
    <3>1. \A w \in Late : program.short[w] \notin Text(Lambdas \cup units \cup Consts)
      <4>1. Lambdas \cup units \cup Consts \subseteq Texts
        BY <1>0 DEF Texts
      <4> QED BY <1>0, <4>1, ShortNames DEF Text
    <3> QED BY <1>0, <3>1, ShortNames DEF ExtraTexts
  <2>3. registered \subseteq Late
    BY DEF AgainInv, ClosedInv, InTables
  <2> QED BY <1>0, <2>1, <2>2, <2>3, ScanQueuesReachable DEF AgainInv
<1> QED
  BY <1>0, <1>1, <1>2, <1>3, <1>4 DEF AgainInv

LEMMA AgainTranslate ==
  ASSUME Surprises = {}, AgainInv, NEW w \in Weaves, Translate(w), ReachInv', ClosedInv'
  PROVE  AgainInv'
<1> DEFINE tables == registered \cup (Text({w}) \cap Late)
<1>0. /\ phase = "discover" /\ phase' = "discover" /\ program \in Programs
      /\ Scan(Seen({w}), tables) /\ live' = live \cup {w} /\ cmd.mode \in Exact
      /\ UNCHANGED <<program, cmd, all, units, bundle>> /\ tables \subseteq Late
  BY DEF Translate, AgainInv, ClosedInv, Worklist, Tables, InTables
<1>a. Seen({w}) \subseteq Idents /\ Seen({w}) \cap Late \subseteq tables
  BY <1>0, SeenIsKnown
<1> HIDE DEF tables
<1>1. ASSUME bundle # None, bundle.cmd = cmd
      PROVE  \E W : W \subseteq all' /\ IsKept(W)' /\ bundle' = Sections(W)'
  <2>1. PICK W : W \subseteq all /\ IsKept(W) /\ bundle = Sections(W)
    BY <1>0, <1>1 DEF AgainInv
  <2> QED
    BY <1>0, <2>1, RepeatedScan DEF AgainInv
<1>2. /\ Reached(ExtraTexts)' = Reached(ExtraTexts)
      /\ \A x \in Weaves : IsRoot(x)' = IsRoot(x)
      /\ \A x \in Weaves : Reached(Seen({x}))' = Reached(Seen({x}))
  BY <1>0 DEF Reached, Seen, ExtraTexts, Text, IsRoot, Exported, Home
<1>3. queued \subseteq queued'
  BY <1>0 DEF Scan
<1>4. Reached(Seen({w})) \subseteq queued'
  <2>1. \A i \in Late : program.short[i] \notin Seen({w})
    <3>1. Seen({w}) = program.text[w] \cup program.words[w]
      BY DEF Seen, Text
    <3> QED BY <1>0, <3>1, ShortNames DEF Texts
  <2> QED BY <1>0, <1>a, <2>1, ScanQueuesReachable DEF AgainInv
<1>5. live \subseteq Weaves
  BY DEF AgainInv, ClosedInv, InTables
<1>6. \A x \in live' : Reached(Seen({x}))' \subseteq queued'
  BY <1>0, <1>2, <1>3, <1>4, <1>5 DEF AgainInv
<1> QED
  BY <1>0, <1>1, <1>2, <1>3, <1>6 DEF AgainInv

LEMMA AgainDiscovered ==
  ASSUME AgainInv, Discovered, ReachInv', ClosedInv'
  PROVE  AgainInv'
<1>0. /\ phase = "discover" /\ phase' = "emit" /\ cmd.mode \in Exact
      /\ weaves' = live /\ queued \subseteq live /\ live \subseteq queued
      /\ UNCHANGED <<program, cmd, all, units, types, bundle>> /\ live \subseteq Weaves
  BY DEF Discovered, AgainInv, ClosedInv, Worklist, ReachInv, OnlyReached, InTables
<1>1. ASSUME bundle # None, bundle.cmd = cmd
      PROVE  \E W : W \subseteq all' /\ IsKept(W)' /\ bundle' = Sections(W)'
  <2>1. PICK W : W \subseteq all /\ IsKept(W) /\ bundle = Sections(W)
    BY <1>0, <1>1 DEF AgainInv
  <2> QED
    BY <1>0, <2>1, KeptStays, SectionsStay
<1>2. IsKept(live)
  <2>1. ReachClosed(live)
    BY <1>0 DEF AgainInv, ReachClosed
  <2>2. \A S \in SUBSET Weaves : ReachClosed(S) => live \subseteq S
    BY <1>0 DEF AgainInv, ReachInv, OnlyReached
  <2>3. cmd.mode \notin {"test", "off"}
    BY <1>0 DEF Exact
  <2> QED BY <1>0, <2>1, <2>2, <2>3 DEF IsKept
<1>3. IsKept(weaves)'
  <2>1. PICK W : W = live
    OBVIOUS
  <2>2. IsKept(W)'
    BY <1>0, <1>2, <2>1, KeptStays
  <2>3. weaves' = W
    BY <1>0, <2>1
  <2> QED BY <2>2, <2>3 DEF IsKept
<1> QED
  BY <1>0, <1>1, <1>3 DEF AgainInv

LEMMA AgainEmit ==
  ASSUME AgainInv, Emit, ReachInv', ClosedInv'
  PROVE  AgainInv' /\ (bundle # None /\ bundle.cmd = cmd => bundle' = bundle)
<1>0. /\ phase = "emit" /\ phase' = "done" /\ bundle' = Sections(weaves)
      /\ UNCHANGED <<program, cmd, all, weaves, units, types>>
      /\ IsKept(weaves)
  BY DEF Emit, AgainInv
<1>1. PICK W : W = weaves
  OBVIOUS
<1>2. IsKept(W)' /\ Sections(W)' = Sections(W)
  BY <1>0, <1>1, KeptStays, SectionsStay
<1>3. weaves' = W
  BY <1>0, <1>1
<1>4. IsKept(weaves)'
  BY <1>2, <1>3 DEF IsKept
<1>5. bundle' = Sections(weaves)'
  <2>1. Sections(weaves)' = Sections(W)'
    BY <1>3 DEF Sections, KeptBlocks, LiveText, KeptConsts, KeptTypes
  <2> QED BY <1>0, <1>1, <1>2, <2>1
<1>6. ASSUME bundle # None, bundle.cmd = cmd PROVE bundle' = bundle
  <2>1. PICK V : V \subseteq all /\ IsKept(V) /\ bundle = Sections(V)
    BY <1>0, <1>6 DEF AgainInv
  <2>2. cmd.mode \in Modes
    <3>1. program \in Program
      BY DceAssumption DEF AgainInv, ClosedInv, Tables
    <3> QED BY <1>0, <3>1 DEF AgainInv, ClosedInv, Tables, Program
  <2>3. V = W
    BY <1>0, <1>1, <2>1, <2>2, OneIsKept
  <2> QED BY <1>0, <1>1, <2>1, <2>3
<1> QED
  BY <1>0, <1>4, <1>5, <1>6 DEF AgainInv

LEMMA AgainStutter ==
  ASSUME AgainInv, UNCHANGED vars, ReachInv', ClosedInv'
  PROVE  AgainInv'
<1>0. UNCHANGED <<program, cmd, phase, all, weaves, queued, live, types, units, bundle>>
  BY DEF vars
<1>1. ASSUME bundle # None, bundle.cmd = cmd, phase \in {"seed", "discover", "emit"}
      PROVE  \E W : W \subseteq all' /\ IsKept(W)' /\ bundle' = Sections(W)'
  <2>1. PICK W : W \subseteq all /\ IsKept(W) /\ bundle = Sections(W)
    BY <1>1 DEF AgainInv
  <2> QED
    BY <1>0, <2>1, KeptStays, SectionsStay
<1>2. PICK W : W = weaves
  OBVIOUS
<1>3. IsKept(W)' = IsKept(W) /\ Sections(W)' = Sections(W) /\ weaves' = W
  BY <1>0, <1>2, KeptStays, SectionsStay
<1>4. phase \in {"emit", "done"} => IsKept(weaves)'
  BY <1>2, <1>3 DEF AgainInv, IsKept
<1>5. phase = "done" => bundle' = Sections(weaves)'
  <2>1. Sections(weaves)' = Sections(W)'
    BY <1>3 DEF Sections, KeptBlocks, LiveText, KeptConsts, KeptTypes
  <2> QED BY <1>0, <1>2, <1>3, <2>1 DEF AgainInv
<1>6. /\ Reached(ExtraTexts)' = Reached(ExtraTexts)
      /\ \A x \in Weaves : IsRoot(x)' = IsRoot(x)
      /\ \A x \in Weaves : Reached(Seen({x}))' = Reached(Seen({x}))
  BY <1>0 DEF Reached, Seen, ExtraTexts, Text, IsRoot, Exported, Home
<1>7. live \subseteq Weaves
  BY DEF AgainInv, ClosedInv, InTables
<1> QED
  BY <1>0, <1>1, <1>4, <1>5, <1>6, <1>7 DEF AgainInv

LEMMA AgainInvNext ==
  ASSUME Surprises = {}, AgainInv, [Next]_vars
  PROVE  /\ AgainInv'
         /\ Emit /\ bundle # None /\ bundle.cmd = cmd => bundle' = bundle
<1>1. ReachInv' /\ ClosedInv'
  BY ReachInvNext, ClosedInvNext DEF AgainInv
<1>2. CASE Next
  BY <1>1, <1>2, AgainGenerate, AgainSeed, AgainTranslate, AgainDiscovered, AgainEmit
     DEF Next
<1>3. CASE UNCHANGED vars
  <2>1. AgainInv'
    BY <1>1, <1>3, AgainStutter
  <2>2. ~Emit
    BY <1>3 DEF vars, Emit
  <2> QED BY <2>1, <2>2
<1> QED BY <1>2, <1>3

\* One generator gives the same bundle when it is asked the same again: the set
\* of weaves that is kept is the least closed one, whatever the order of the
\* worklist and whatever the first call has collected, and no type is new.
THEOREM TheSameAgain ==
  ASSUME Surprises = {}
  PROVE  Spec => SameBundleAgain
<1>1. Init => AgainInv
  BY AgainInvInit
<1>2. AgainInv /\ [Next]_vars =>
        AgainInv' /\ [Emit /\ bundle # None /\ bundle.cmd = cmd => bundle' = bundle]_vars
  BY AgainInvNext
<1> QED BY <1>1, <1>2, PTL DEF Spec, SameBundleAgain

-----------------------------------------------------------------------------
(* Sorted sequences of files.                                              *)

Has(seq) == {seq[i] : i \in DOMAIN seq}

(* seq has what e reaches by needs, each file once and behind its needs. *)
Sorted(e, seq, needs) ==
  /\ e \in Has(seq) /\ Len(seq) = Cardinality(Has(seq))
  /\ \A i \in DOMAIN seq : needs[seq[i]] \subseteq {seq[j] : j \in 1 .. i - 1}
  /\ \A S \in SUBSET Files :
       e \in S /\ (\A f \in S \cap Has(seq) : needs[f] \subseteq S) => Has(seq) \subseteq S

NeedsNow == [f \in Files |-> Needed(f)]

(* A set of natural numbers that is not empty has a smallest one. *)
LEMMA Smallest ==
  ASSUME NEW S \in SUBSET Nat, S # {}
  PROVE  \E n \in S : \A m \in S : n <= m
<1> DEFINE R == {ss \in Nat \X Nat : ss[1] < ss[2]}
<1>1. IsWellFoundedOn(R, Nat)
  BY NatLessThanWellFounded DEF OpToRel
<1>2. \A m, n \in Nat : <<m, n>> \in R <=> m < n
  OBVIOUS
<1> HIDE DEF R
<1>3. PICK n \in S : \A m \in S : ~(<<m, n>> \in R)
  BY <1>1, WFMin, Zenon
<1>4. \A m \in S : ~(m < n) /\ m \in Nat /\ n \in Nat
  BY <1>2, <1>3
<1> QED BY <1>4

(* A set of files in a sorted sequence has one that needs none of them. *)
LEMMA SortedIsAcyclic ==
  ASSUME NEW seq \in Seq(Files), NEW needs,
         \A i \in DOMAIN seq : needs[seq[i]] \subseteq {seq[j] : j \in 1 .. i - 1},
         NEW C \in SUBSET Has(seq), C # {}
  PROVE  \E f \in C : needs[f] \cap C = {}
<1> DEFINE I == {i \in DOMAIN seq : seq[i] \in C}
<1>1. I \in SUBSET Nat /\ I # {} /\ DOMAIN seq = 1 .. Len(seq)
  BY DEF Has
<1> HIDE DEF I
<1>2. PICK i \in I : \A j \in I : i <= j
  BY <1>1, Smallest
<1>3. i \in 1 .. Len(seq) /\ seq[i] \in C
  BY <1>1, <1>2 DEF I
<1>4. ASSUME NEW j \in 1 .. i - 1 PROVE seq[j] \notin C
  <2>1. j \in 1 .. Len(seq) /\ j < i
    BY <1>3
  <2> QED BY <1>1, <1>2, <2>1 DEF I
<1>5. needs[seq[i]] \subseteq {seq[j] : j \in 1 .. i - 1}
  BY <1>1, <1>3
<1> QED BY <1>3, <1>4, <1>5

(* A sorted sequence of complete files is what AnswerIsRight asks for. *)
LEMMA SortedIsRight ==
  ASSUME NEW e \in Files, NEW seq \in Seq(Files), Sorted(e, seq, NeedsNow),
         \A f \in Has(seq) : Complete(f)
  PROVE  /\ Has(seq) = ReachedFrom(e)
         /\ ~Cyclic(ReachedFrom(e)) /\ \A f \in ReachedFrom(e) : Complete(f)
         /\ Len(seq) = Cardinality(ReachedFrom(e))
         /\ \A i \in DOMAIN seq : Needed(seq[i]) \subseteq {seq[j] : j \in 1 .. i - 1}
<1>1. \A f \in Files : NeedsNow[f] = Needed(f) /\ Needed(f) \subseteq Files
  BY DEF NeedsNow, Needed
<1>2. Has(seq) \subseteq Files /\ \A i \in DOMAIN seq : seq[i] \in Files
  BY DEF Has
<1>3. \A i \in DOMAIN seq : Needed(seq[i]) \subseteq {seq[j] : j \in 1 .. i - 1}
  BY <1>1, <1>2 DEF Sorted
<1>4. Closed(Has(seq)) /\ e \in Has(seq)
  <2>1. ASSUME NEW i \in DOMAIN seq PROVE {seq[j] : j \in 1 .. i - 1} \subseteq Has(seq)
    BY DEF Has
  <2> QED BY <1>3, <2>1 DEF Closed, Has, Sorted
<1>5. ReachedFrom(e) \subseteq Has(seq)
  BY <1>2, <1>4 DEF ReachedFrom
<1>6. Has(seq) \subseteq ReachedFrom(e)
  <2>1. ASSUME NEW S \in SUBSET Files, e \in S, Closed(S) PROVE Has(seq) \subseteq S
    BY <1>1, <1>2, <2>1 DEF Sorted, Closed
  <2> QED BY <1>2, <2>1 DEF ReachedFrom
<1>7. ~Cyclic(Has(seq))
  BY <1>1, <1>2, SortedIsAcyclic DEF Cyclic, Sorted
<1>8. Has(seq) = ReachedFrom(e)
  BY <1>5, <1>6
<1>9. Len(seq) = Cardinality(Has(seq))
  BY DEF Sorted
<1> QED BY <1>3, <1>7, <1>8, <1>9

-----------------------------------------------------------------------------
(* Where a search looks.                                                    *)

Candidates(f, m) == Has(Search[f][m])

(* On the disk d, g is the first candidate that exists. *)
FirstOf(d, f, m, g) ==
  \E i \in DOMAIN Search[f][m] :
    /\ Search[f][m][i] = g /\ d[g] # Absent
    /\ \A j \in 1 .. i - 1 : d[Search[f][m][j]] = Absent

FoundOn(d, f, m) ==
  LET there == {i \in DOMAIN Search[f][m] : d[Search[f][m][i]] # Absent}
  IN  IF there = {} THEN Nil
      ELSE Search[f][m][CHOOSE i \in there : \A j \in there : i <= j]

LEMMA FoundIn ==
  ASSUME NEW f \in Files, NEW m \in Modules, NEW d, NEW found, found = FoundOn(d, f, m)
  PROVE  /\ found = Nil <=> \A g \in Candidates(f, m) : d[g] = Absent
         /\ found # Nil => found \in Files /\ FirstOf(d, f, m, found)
         /\ \A g : FirstOf(d, f, m, g) => found = g /\ g \in Candidates(f, m)
<1> DEFINE seq == Search[f][m]
           there == {i \in DOMAIN seq : d[seq[i]] # Absent}
           first == CHOOSE i \in there : \A j \in there : i <= j
<1>1. seq \in Seq(Files) /\ DOMAIN seq = 1 .. Len(seq) /\ Nil \notin Files
  BY ImportAssumption
<1>2. found = IF there = {} THEN Nil ELSE seq[first]
  BY DEF FoundOn
<1> HIDE DEF seq
<1>3. CASE there = {}
  <2>1. \A i \in DOMAIN seq : d[seq[i]] = Absent
    BY <1>3
  <2> QED BY <1>2, <1>3, <2>1 DEF FirstOf, Candidates, Has, seq
<1>4. CASE there # {}
  <2>1. there \in SUBSET Nat
    BY <1>1
  <2>2. \E i \in there : \A j \in there : i <= j
    BY <1>4, <2>1, Smallest
  <2>3. first \in there /\ \A j \in there : first <= j
    BY <2>2
  <2>4. found = seq[first] /\ first \in 1 .. Len(seq) /\ d[seq[first]] # Absent
    BY <1>1, <1>2, <1>4, <2>3
  <2>5. \A j \in 1 .. first - 1 : d[seq[j]] = Absent
    BY <1>1, <2>3, <2>4
  <2>6. found \in Files /\ found # Nil
    <3>1. \A i \in 1 .. Len(seq) : seq[i] \in Files
      BY <1>1
    <3>2. seq[first] \in Files
      BY <2>4, <3>1, Zenon
    <3> QED BY <1>1, <2>4, <3>2, Zenon
  <2>7. FirstOf(d, f, m, found)
    <3>1. first \in DOMAIN Search[f][m] /\ Search[f][m][first] = found /\ d[found] # Absent
      BY <1>1, <2>4, Zenon DEF seq
    <3>2. \A j \in 1 .. first - 1 : d[Search[f][m][j]] = Absent
      BY <2>5, Zenon DEF seq
    <3> QED BY <3>1, <3>2, Zenon DEF FirstOf
  <2>8. ~\A g \in Candidates(f, m) : d[g] = Absent
    BY <1>1, <2>4 DEF Candidates, Has, seq
  <2>9. ASSUME NEW g, FirstOf(d, f, m, g) PROVE found = g /\ g \in Candidates(f, m)
    <3>1. PICK i \in 1 .. Len(seq) : /\ seq[i] = g /\ d[g] # Absent
                                     /\ \A j \in 1 .. i - 1 : d[seq[j]] = Absent
      BY <1>1, <2>9 DEF FirstOf, seq
    <3>2. i = first
      BY <1>1, <2>3, <2>4, <2>5, <3>1
    <3> QED BY <1>1, <2>4, <3>1, <3>2 DEF Candidates, Has, seq
  <2> QED BY <2>6, <2>7, <2>8, <2>9
<1> QED BY <1>3, <1>4

LEMMA FoundIs ==
  ASSUME NEW f \in Files, NEW m \in Modules
  PROVE  /\ Found(f, m) = Nil <=> \A g \in Candidates(f, m) : disk[g] = Absent
         /\ Found(f, m) # Nil => Found(f, m) \in Files /\ FirstOf(disk, f, m, Found(f, m))
         /\ \A g : FirstOf(disk, f, m, g) => Found(f, m) = g /\ g \in Candidates(f, m)
<1>1. Found(f, m) = FoundOn(disk, f, m)
  BY DEF Found, FoundOn, Exists
<1> QED BY <1>1, FoundIn

LEMMA FoundIsNext ==
  ASSUME NEW f \in Files, NEW m \in Modules
  PROVE  \A g : FirstOf(disk', f, m, g) => Found(f, m)' = g
<1>1. Found(f, m)' = FoundOn(disk', f, m)
  BY DEF Found, FoundOn, Exists
<1> QED BY <1>1, FoundIn

-----------------------------------------------------------------------------
(* The invariant.                                                           *)

Frame == [file : Files, rest : Seq(Files)]

OrderTyped ==
  /\ disk \in [Files -> ModuleTexts \cup {Absent}]
  /\ buffers \in [Files -> ModuleTexts \cup {Nil}]
  /\ \A f \in Files : buffers[f] # Nil => f \in Buffers /\ Exists(f)
  /\ entry \in Entries \cup {Nil}
  /\ order \in Seq(Files) /\ path \in Seq(Frame)
  /\ cache = [e \in Entries |-> cache[e]]

(* The i-th open call of dfs: next is the file it has gone on to. *)
Stands(e, p, o, i, next) ==
  LET f == p[i].file
  IN  /\ Complete(f) /\ f \in ReachedFrom(e) /\ f \notin Has(o)
      /\ Has(p[i].rest) \subseteq Needed(f) /\ next \subseteq Needed(f)
      /\ Needed(f) \subseteq Has(o) \cup Has(p[i].rest) \cup next
      /\ \A j \in DOMAIN p : p[j].file = f => j = i

After(p, i) == IF i < Len(p) THEN {p[i + 1].file} ELSE {}

(* What was visited in the order o, and is sorted. *)
VisitedOK(e, o) ==
  /\ \A i \in DOMAIN o : Complete(o[i]) /\ Needed(o[i]) \subseteq {o[j] : j \in 1 .. i - 1}
  /\ IsFiniteSet(Has(o)) /\ Len(o) = Cardinality(Has(o)) /\ Has(o) \subseteq ReachedFrom(e)

SearchOK(e, p, o) ==
  /\ VisitedOK(e, o)
  /\ \A i \in DOMAIN p : Stands(e, p, o, i, After(p, i))
  /\ p = <<>> => e \in Has(o)
  /\ p # <<>> => p[1].file = e

SearchInv ==
  IF entry = Nil THEN path = <<>> /\ order = <<>> ELSE SearchOK(entry, path, order)

(* h is where g finds m, as soon as h is there. *)
Would(g, m, h) == h \in Candidates(g, m) /\ (Exists(h) => Found(g, m) = h)

(* What stays true of a file that was recorded with a signature that may    *)
(* still come back, and that needed the files N then.                       *)
Holds(g, sig, N) ==
  LET imports == ImportsOf[IF sig = "now" THEN disk[g] ELSE sig]
  IN  /\ IF sig = "now" THEN Exists(g) ELSE g \in Buffers
      /\ \A k \in DOMAIN imports : \E h \in N : Would(g, imports[k], h)
      /\ Companion[g] # Nil /\ Exists(Companion[g]) => Companion[g] \in N
      /\ \A h \in N : h = Companion[g] \/ \E k \in DOMAIN imports : Would(g, imports[k], h)

SigValues == ModuleTexts \cup {"now", "before"}

Remembers(e, seq, sigs, needs) ==
  /\ Sorted(e, seq, needs)
  /\ \A i \in DOMAIN seq : sigs[i] # "before" => Holds(seq[i], sigs[i], needs[seq[i]])

CacheInv ==
  \A e \in Entries : cache[e] # Nil =>
    \E seq \in Seq(Files), needs \in [Files -> SUBSET Files] :
      \E sigs \in [DOMAIN seq -> SigValues] :
        cache[e] = [order |-> seq, signatures |-> sigs] /\ Remembers(e, seq, sigs, needs)

OrderInv == OrderTyped /\ SearchInv /\ CacheInv /\ AnswerIsRight

-----------------------------------------------------------------------------
(* Sequences.                                                               *)

LEMMA HasConcat ==
  ASSUME NEW S, NEW s \in Seq(S), NEW t \in Seq(S)
  PROVE  Has(s \o t) = Has(s) \cup Has(t)
<1>1. /\ DOMAIN s = 1 .. Len(s) /\ DOMAIN t = 1 .. Len(t)
      /\ DOMAIN (s \o t) = 1 .. Len(s) + Len(t) /\ Len(s) \in Nat /\ Len(t) \in Nat
      /\ \A i \in 1 .. Len(s) + Len(t) :
           (s \o t)[i] = IF i <= Len(s) THEN s[i] ELSE t[i - Len(s)]
  BY ConcatProperties
<1>2. ASSUME NEW i \in 1 .. Len(s) + Len(t) PROVE (s \o t)[i] \in Has(s) \cup Has(t)
  BY <1>1 DEF Has
<1>3. ASSUME NEW i \in 1 .. Len(s) PROVE s[i] \in Has(s \o t)
  BY <1>1 DEF Has
<1>4. ASSUME NEW i \in 1 .. Len(t) PROVE t[i] \in Has(s \o t)
  <2>1. i + Len(s) \in 1 .. Len(s) + Len(t) /\ (s \o t)[i + Len(s)] = t[i]
    BY <1>1
  <2> QED BY <1>1, <2>1 DEF Has
<1> QED BY <1>1, <1>2, <1>3, <1>4 DEF Has

LEMMA HasAppend ==
  ASSUME NEW S, NEW s \in Seq(S), NEW x \in S
  PROVE  /\ Append(s, x) \in Seq(S) /\ Append(s, x) # <<>>
         /\ Has(Append(s, x)) = Has(s) \cup {x}
         /\ DOMAIN s = 1 .. Len(s) /\ Len(s) \in Nat
         /\ Len(Append(s, x)) = Len(s) + 1 /\ DOMAIN Append(s, x) = 1 .. Len(s) + 1
         /\ \A i \in 1 .. Len(s) : Append(s, x)[i] = s[i]
         /\ Append(s, x)[Len(s) + 1] = x
<1>1. /\ Append(s, x) \in Seq(S) /\ Append(s, x) # <<>> /\ Len(Append(s, x)) = Len(s) + 1
      /\ \A i \in 1 .. Len(s) : Append(s, x)[i] = s[i]
      /\ Append(s, x)[Len(s) + 1] = x
  BY AppendProperties
<1>2. DOMAIN s = 1 .. Len(s) /\ Len(s) \in Nat /\ DOMAIN Append(s, x) = 1 .. Len(s) + 1
  BY <1>1
<1>3. \A i \in 1 .. Len(s) + 1 : i \in 1 .. Len(s) \/ i = Len(s) + 1
  BY <1>2
<1> QED BY <1>1, <1>2, <1>3 DEF Has

LEMMA HasHead ==
  ASSUME NEW S, NEW s \in Seq(S), s # <<>>
  PROVE  /\ Head(s) \in Has(s) /\ Tail(s) \in Seq(S)
         /\ Has(Tail(s)) \subseteq Has(s)
         /\ Has(s) \subseteq {Head(s)} \cup Has(Tail(s))
<1>1. /\ Tail(s) \in Seq(S) /\ Len(Tail(s)) = Len(s) - 1 /\ Head(s) = s[1]
      /\ \A i \in 1 .. Len(Tail(s)) : Tail(s)[i] = s[i + 1]
  BY HeadTailProperties
<1>2. /\ Len(s) \in Nat \ {0} /\ DOMAIN s = 1 .. Len(s)
      /\ DOMAIN Tail(s) = 1 .. Len(s) - 1
  BY <1>1
<1>3. Has(Tail(s)) \subseteq Has(s)
  <2>1. ASSUME NEW i \in 1 .. Len(s) - 1 PROVE Tail(s)[i] \in Has(s)
    <3>1. i + 1 \in 1 .. Len(s) /\ Tail(s)[i] = s[i + 1]
      BY <1>1, <1>2
    <3> QED BY <1>2, <3>1 DEF Has
  <2> QED BY <1>2, <2>1 DEF Has
<1>4. ASSUME NEW i \in 1 .. Len(s), i # 1 PROVE s[i] \in Has(Tail(s))
  <2>1. i - 1 \in 1 .. Len(s) - 1 /\ Tail(s)[i - 1] = s[i]
    BY <1>1, <1>2, <1>4
  <2> QED BY <1>2, <2>1 DEF Has
<1> QED BY <1>1, <1>2, <1>3, <1>4 DEF Has

(* The path without its last call, and with one import of it dealt with. *)
LEMMA PathParts ==
  ASSUME path \in Seq(Frame), path # <<>>
  PROVE  /\ Len(path) \in Nat \ {0} /\ DOMAIN path = 1 .. Len(path)
         /\ Top \in Frame /\ Top = path[Len(path)]
         /\ Callers \in Seq(Frame) /\ Len(Callers) = Len(path) - 1
         /\ DOMAIN Callers = 1 .. Len(path) - 1
         /\ \A i \in 1 .. Len(path) - 1 : Callers[i] = path[i]
         /\ Top.rest # <<>> =>
              /\ Passed \in Seq(Frame) /\ Len(Passed) = Len(path)
              /\ DOMAIN Passed = 1 .. Len(path)
              /\ \A i \in 1 .. Len(path) - 1 : Passed[i] = path[i]
              /\ Passed[Len(path)] = [file |-> Top.file, rest |-> Tail(Top.rest)]
<1>1. Len(path) \in Nat \ {0} /\ DOMAIN path = 1 .. Len(path)
  OBVIOUS
<1>2. Top \in Frame /\ Top = path[Len(path)]
  BY <1>1 DEF Top
<1>3. \A i \in 1 .. Len(path) - 1 : path[i] \in Frame
  BY <1>1
<1>4. /\ Callers \in Seq(Frame) /\ Len(Callers) = Len(path) - 1
      /\ \A i \in 1 .. Len(path) - 1 : Callers[i] = path[i]
  <2>1. /\ 1 \in Int /\ Len(path) - 1 \in Int
        /\ (IF 1 <= Len(path) - 1 THEN Len(path) - 1 - 1 + 1 ELSE 0) = Len(path) - 1
        /\ Len(path) - 1 - 1 + 1 = Len(path) - 1
        /\ \A i \in 1 .. Len(path) - 1 : 1 + i - 1 = i
    BY <1>1
  <2> QED BY <1>3, <2>1, SubSeqProperties DEF Callers
<1>5. DOMAIN Callers = 1 .. Len(path) - 1
  BY <1>4
<1>6. ASSUME Top.rest # <<>>
      PROVE  /\ Passed \in Seq(Frame) /\ Len(Passed) = Len(path)
             /\ DOMAIN Passed = 1 .. Len(path)
             /\ \A i \in 1 .. Len(path) - 1 : Passed[i] = path[i]
             /\ Passed[Len(path)] = [file |-> Top.file, rest |-> Tail(Top.rest)]
  <2> DEFINE x == [Top EXCEPT !.rest = Tail(@)]
  <2>1. Top.rest \in Seq(Files) /\ Top.file \in Files
    BY <1>2 DEF Frame
  <2>2. Tail(Top.rest) \in Seq(Files)
    BY <1>6, <2>1, HasHead
  <2>3. x = [file |-> Top.file, rest |-> Tail(Top.rest)] /\ x \in Frame
    <3> DEFINE top == Top
    <3>1. top \in [file : Files, rest : Seq(Files)] /\ x = [top EXCEPT !.rest = Tail(@)]
      BY <1>2 DEF Frame
    <3>2. Tail(top.rest) \in Seq(Files) /\ top.file \in Files
      BY <2>1, <2>2
    <3> HIDE DEF top, x
    <3>3. x = [file |-> top.file, rest |-> Tail(top.rest)]
      BY <3>1
    <3>4. x \in Frame
      BY <3>2, <3>3 DEF Frame
    <3> QED BY <3>3, <3>4 DEF top
  <2>4. Passed = Append(Callers, x)
    BY DEF Passed
  <2> HIDE DEF x
  <2>5. /\ Append(Callers, x) \in Seq(Frame) /\ Len(Append(Callers, x)) = Len(Callers) + 1
        /\ DOMAIN Append(Callers, x) = 1 .. Len(Callers) + 1
        /\ \A i \in 1 .. Len(Callers) : Append(Callers, x)[i] = Callers[i]
        /\ Append(Callers, x)[Len(Callers) + 1] = x
    BY <1>4, <2>3, HasAppend
  <2>6. Len(Callers) + 1 = Len(path)
    BY <1>1, <1>4
  <2> QED BY <1>4, <2>3, <2>4, <2>5, <2>6
<1> QED BY <1>1, <1>2, <1>4, <1>5, <1>6

-----------------------------------------------------------------------------
(* What is needed and reached.                                              *)

LEMMA Reaches ==
  ASSUME NEW e \in Files
  PROVE  /\ e \in ReachedFrom(e) /\ ReachedFrom(e) \subseteq Files
         /\ \A f \in ReachedFrom(e) : Needed(f) \subseteq ReachedFrom(e)
BY DEF ReachedFrom, Closed, Needed

(* What dfs goes through for a file. *)
LEMMA DepsHave ==
  ASSUME OrderTyped, NEW f \in Files, Readable(f)
  PROVE  LET imports == ImportsOf[ModuleText(f)]
         IN  /\ imports \in Seq(Modules) /\ ModuleText(f) \in ModuleTexts
             /\ Deps(f) \in Seq(Files \cup {Nil})
             /\ Has(Deps(f)) =
                  (IF Companion[f] # Nil /\ Exists(Companion[f]) THEN {Companion[f]} ELSE {})
                    \cup {Found(f, imports[i]) : i \in DOMAIN imports}
<1> DEFINE S == Files \cup {Nil}
           imports == ImportsOf[ModuleText(f)]
           own == IF Companion[f] # Nil /\ Exists(Companion[f]) THEN <<Companion[f]>> ELSE <<>>
           found == [i \in 1 .. Len(imports) |-> Found(f, imports[i])]
<1>1. ModuleText(f) \in ModuleTexts
  BY DEF Readable, ModuleText, OrderTyped
<1>2. imports \in Seq(Modules) /\ DOMAIN imports = 1 .. Len(imports) /\ Len(imports) \in Nat
  BY <1>1, ImportAssumption
<1>3. \A i \in 1 .. Len(imports) : Found(f, imports[i]) \in S
  BY <1>2, FoundIs
<1>4. found \in Seq(S)
  BY <1>2, <1>3
<1>5. Companion[f] \in S
  BY ImportAssumption
<1>6. /\ own \in Seq(S)
      /\ Has(own) = IF Companion[f] # Nil /\ Exists(Companion[f]) THEN {Companion[f]} ELSE {}
  <2>1. CASE Companion[f] # Nil /\ Exists(Companion[f])
    <3>1. own = <<Companion[f]>>
      BY <2>1
    <3>2. <<Companion[f]>> \in Seq(S) /\ DOMAIN <<Companion[f]>> = {1} /\ <<Companion[f]>>[1] = Companion[f]
      BY <1>5
    <3>3. Has(own) = {Companion[f]}
      BY <3>1, <3>2 DEF Has
    <3> QED BY <2>1, <3>1, <3>2, <3>3
  <2>2. CASE ~(Companion[f] # Nil /\ Exists(Companion[f]))
    <3>1. own = <<>>
      BY <2>2
    <3>2. <<>> \in Seq(S) /\ DOMAIN <<>> = {}
      OBVIOUS
    <3>3. Has(own) = {}
      BY <3>1, <3>2 DEF Has
    <3> QED BY <2>2, <3>1, <3>2, <3>3
  <2> QED BY <2>1, <2>2
<1>7. Deps(f) = own \o found
  BY DEF Deps
<1>8. DOMAIN found = 1 .. Len(imports) /\ Has(found) = {Found(f, imports[i]) : i \in DOMAIN imports}
  BY <1>2 DEF Has
<1> HIDE DEF own, found, imports, S
<1>9. Has(Deps(f)) = Has(own) \cup Has(found) /\ Deps(f) \in Seq(S)
  BY <1>4, <1>6, <1>7, HasConcat, ConcatProperties
<1> QED BY <1>1, <1>2, <1>6, <1>8, <1>9 DEF imports, S

(* A file is complete if all it imports is found; it needs what dfs goes through. *)
LEMMA CompleteIs ==
  ASSUME OrderTyped, NEW f \in Files, Readable(f)
  PROVE  Complete(f) <=> \A i \in DOMAIN ImportsOf[ModuleText(f)] :
                           Found(f, ImportsOf[ModuleText(f)][i]) # Nil
<1> DEFINE imports == ImportsOf[ModuleText(f)]
<1>1. Has(Deps(f)) =
        (IF Companion[f] # Nil /\ Exists(Companion[f]) THEN {Companion[f]} ELSE {})
          \cup {Found(f, imports[i]) : i \in DOMAIN imports}
  BY DepsHave
<1>2. Complete(f) <=> Nil \notin Has(Deps(f))
  BY DEF Complete, Has
<1> HIDE DEF imports
<1>3. Nil \in Has(Deps(f)) <=> Nil \in {Found(f, imports[i]) : i \in DOMAIN imports}
  BY <1>1
<1>4. Complete(f) <=> \A i \in DOMAIN imports : Found(f, imports[i]) # Nil
  BY <1>2, <1>3
<1> QED BY <1>4 DEF imports

LEMMA DepsAre ==
  ASSUME OrderTyped, NEW f \in Files, Complete(f)
  PROVE  Deps(f) \in Seq(Files) /\ Has(Deps(f)) = Needed(f)
<1> DEFINE imports == ImportsOf[ModuleText(f)]
<1>1. Readable(f)
  BY DEF Complete
<1>2. /\ Deps(f) \in Seq(Files \cup {Nil})
      /\ Has(Deps(f)) =
           (IF Companion[f] # Nil /\ Exists(Companion[f]) THEN {Companion[f]} ELSE {})
             \cup {Found(f, imports[i]) : i \in DOMAIN imports}
  BY <1>1, DepsHave
<1>3. Companion[f] \in Files \cup {Nil} /\ Nil \notin Files
  BY ImportAssumption
<1>4. Needed(f) = {g \in Files : \/ g = Companion[f] /\ Exists(g)
                                \/ \E i \in DOMAIN imports : g = Found(f, imports[i])}
  BY <1>1 DEF Needed
<1> HIDE DEF imports
<1>5. \A i \in DOMAIN Deps(f) : Deps(f)[i] \in Files
  BY <1>2 DEF Complete
<1>6. Deps(f) \in Seq(Files) /\ Has(Deps(f)) \subseteq Files
  BY <1>2, <1>5 DEF Has
<1>7. Has(Deps(f)) = Needed(f)
  BY <1>2, <1>3, <1>4, <1>6
<1> QED BY <1>6, <1>7

(* As long as nothing is written or typed, all this stays. *)
LEMMA SameWorld ==
  ASSUME UNCHANGED <<disk, buffers>>
  PROVE  /\ \A f, m : Found(f, m)' = Found(f, m)
         /\ \A f : Exists(f)' = Exists(f) /\ Signature(f)' = Signature(f)
         /\ \A f : Needed(f)' = Needed(f)
         /\ \A f : Complete(f)' = Complete(f)
         /\ \A e : ReachedFrom(e)' = ReachedFrom(e)
         /\ \A S : Cyclic(S)' = Cyclic(S)
<1>1. \A f : Exists(f)' = Exists(f) /\ ModuleText(f)' = ModuleText(f)
  BY DEF Exists, ModuleText
<1>2. \A f, m : Found(f, m)' = Found(f, m)
  BY DEF Found, Exists
<1>3. \A f : Signature(f)' = Signature(f)
  BY DEF Signature, Exists
<1>4. \A f : Readable(f)' = Readable(f)
  BY <1>1 DEF Readable
<1>5. \A f : Needed(f)' = Needed(f)
  BY <1>1, <1>2, <1>4 DEF Needed
<1>6. \A f : Deps(f)' = Deps(f)
  BY <1>1, <1>2 DEF Deps
<1>7. \A f : Complete(f)' = Complete(f)
  BY <1>4, <1>6 DEF Complete
<1>8. \A S : Closed(S)' = Closed(S)
  BY <1>5 DEF Closed
<1>9. \A e : ReachedFrom(e)' = ReachedFrom(e)
  BY <1>8 DEF ReachedFrom
<1>10. \A S : Cyclic(S)' = Cyclic(S)
  BY <1>5 DEF Cyclic
<1> QED BY <1>1, <1>2, <1>3, <1>5, <1>7, <1>9, <1>10
-----------------------------------------------------------------------------
(* The search, one step at a time.                                          *)

(* SearchOK speaks of disk and buffers only through what SameWorld keeps. *)
LEMMA SearchStays ==
  ASSUME NEW e, NEW p, NEW o, UNCHANGED <<disk, buffers>>,
         entry' = e, path' = p, order' = o, SearchOK(e, p, o)
  PROVE  SearchOK(entry, path, order)'
<1>1. /\ \A f : Needed(f)' = Needed(f)
      /\ \A f : Complete(f)' = Complete(f)
      /\ \A f : ReachedFrom(f)' = ReachedFrom(f)
  BY SameWorld
<1>2. VisitedOK(entry, order)'
  BY <1>1 DEF SearchOK, VisitedOK, Has
<1>3. ASSUME NEW i \in DOMAIN p PROVE Stands(entry, path, order, i, After(path, i))'
  <2>1. Stands(e, p, o, i, After(p, i))
    BY DEF SearchOK
  <2>2. After(path, i)' = After(p, i)
    BY DEF After
  <2> DEFINE next == After(p, i)
  <2> HIDE DEF next
  <2>3. Stands(entry, path, order, i, After(path, i))'
          <=> /\ Complete(p[i].file)' /\ p[i].file \in ReachedFrom(e)' /\ p[i].file \notin Has(o)
              /\ Has(p[i].rest) \subseteq Needed(p[i].file)' /\ next \subseteq Needed(p[i].file)'
              /\ Needed(p[i].file)' \subseteq Has(o) \cup Has(p[i].rest) \cup next
              /\ \A j \in DOMAIN p : p[j].file = p[i].file => j = i
    BY <2>2 DEF Stands, next, Has
  <2> QED BY <1>1, <2>1, <2>3 DEF Stands, next
<1> QED BY <1>2, <1>3 DEF SearchOK, Has

(* dfs goes on to a file that the last call, or the caller, asks for. *)
LEMMA Opens ==
  ASSUME OrderTyped, NEW e \in Files, NEW p \in Seq(Frame), NEW o \in Seq(Files),
         NEW f \in ReachedFrom(e), NEW q, q = Append(p, [file |-> f, rest |-> Deps(f)]),
         VisitedOK(e, o), Complete(f), f \notin Has(o),
         \A i \in DOMAIN p : p[i].file # f,
         \A i \in DOMAIN p :
           Stands(e, p, o, i, IF i < Len(p) THEN {p[i + 1].file} ELSE {f}),
         IF p = <<>> THEN f = e ELSE p[1].file = e
  PROVE  q \in Seq(Frame) /\ SearchOK(e, q, o)
<1> DEFINE new == [file |-> f, rest |-> Deps(f)]
<1>1. f \in Files
  BY Reaches
<1>2. Deps(f) \in Seq(Files) /\ Has(Deps(f)) = Needed(f)
  BY <1>1, DepsAre
<1>3. new \in Frame /\ new.file = f /\ new.rest = Deps(f)
  BY <1>1, <1>2 DEF Frame
<1> HIDE DEF new
<1>4. q = Append(p, new)
  BY DEF new
<1>5. /\ q \in Seq(Frame) /\ q # <<>>
      /\ DOMAIN p = 1 .. Len(p) /\ Len(p) \in Nat
      /\ Len(q) = Len(p) + 1 /\ DOMAIN q = 1 .. Len(p) + 1
      /\ \A i \in 1 .. Len(p) : q[i] = p[i]
      /\ q[Len(p) + 1] = new
  BY <1>3, <1>4, HasAppend
<1>6. ASSUME NEW i \in 1 .. Len(p) PROVE Stands(e, q, o, i, After(q, i))
  <2>1. After(q, i) = IF i < Len(p) THEN {p[i + 1].file} ELSE {f}
    <3> DEFINE n == Len(p)
    <3>1. n \in Nat /\ i \in 1 .. n
      BY <1>5
    <3> HIDE DEF n
    <3>2. i < n + 1 /\ (i < n => i + 1 \in 1 .. n) /\ (~(i < n) => i = n)
      BY <3>1
    <3> QED BY <1>3, <1>5, <3>2 DEF After, n
  <2>2. Stands(e, p, o, i, After(q, i))
    BY <1>5, <2>1
  <2>3. q[i] = p[i] /\ p[i].file # f
    BY <1>5
  <2>4. \A j \in DOMAIN q : q[j].file = p[i].file => j = i
    <3>1. \A j \in 1 .. Len(p) + 1 : j \in 1 .. Len(p) \/ j = Len(p) + 1
      BY <1>5
    <3> QED BY <1>3, <1>5, <2>2, <2>3, <3>1 DEF Stands
  <2> QED BY <2>2, <2>3, <2>4 DEF Stands
<1>7. Stands(e, q, o, Len(p) + 1, After(q, Len(p) + 1))
  <2>1. After(q, Len(p) + 1) = {}
    BY <1>5 DEF After
  <2>2. \A j \in DOMAIN q : q[j].file = f => j = Len(p) + 1
    <3>1. \A j \in 1 .. Len(p) + 1 : j \in 1 .. Len(p) \/ j = Len(p) + 1
      BY <1>5
    <3> QED BY <1>5, <3>1
  <2> QED BY <1>2, <1>3, <1>5, <2>1, <2>2 DEF Stands
<1>8. q[1].file = e
  <2>1. CASE p = <<>>
    BY <1>3, <1>5, <2>1
  <2>2. CASE p # <<>>
    <3>1. 1 \in 1 .. Len(p)
      BY <1>5, <2>2
    <3> QED BY <1>5, <2>2, <3>1
  <2> QED BY <2>1, <2>2
<1>9. \A i \in DOMAIN q : i \in 1 .. Len(p) \/ i = Len(p) + 1
  BY <1>5
<1> QED BY <1>5, <1>6, <1>7, <1>8, <1>9 DEF SearchOK

(* One import of the last call is dealt with. *)
LEMMA PassedStands ==
  ASSUME path \in Seq(Frame), path # <<>>, Top.rest # <<>>, NEW e, NEW o, SearchOK(e, path, o)
  PROVE  /\ \A i \in DOMAIN Passed :
              Stands(e, Passed, o, i,
                     IF i < Len(Passed) THEN {Passed[i + 1].file} ELSE {Dep})
         /\ Dep \in Needed(Top.file) /\ Passed[1].file = e /\ Passed # <<>>
         /\ \A i \in DOMAIN Passed : Passed[i].file = path[i].file
<1> DEFINE n == Len(path)
<1>1. /\ n \in Nat \ {0} /\ DOMAIN path = 1 .. n /\ Top = path[n] /\ Top \in Frame
      /\ Passed \in Seq(Frame) /\ Len(Passed) = n /\ DOMAIN Passed = 1 .. n
      /\ \A i \in 1 .. n - 1 : Passed[i] = path[i]
      /\ Passed[n] = [file |-> Top.file, rest |-> Tail(Top.rest)]
  BY PathParts
<1> HIDE DEF n
<1>2. \A i \in 1 .. n : i \in 1 .. n - 1 \/ i = n
  BY <1>1
<1>3. \A i \in 1 .. n : Passed[i].file = path[i].file
  BY <1>1, <1>2
<1>4. Top.rest \in Seq(Files)
  BY <1>1 DEF Frame
<1>5. /\ Dep \in Has(Top.rest) /\ Has(Tail(Top.rest)) \subseteq Has(Top.rest)
      /\ Has(Top.rest) \subseteq {Dep} \cup Has(Tail(Top.rest))
  BY <1>4, HasHead DEF Dep
<1>6. \A i \in 1 .. n : Stands(e, path, o, i, After(path, i))
  BY <1>1 DEF SearchOK
<1>7. Dep \in Needed(Top.file)
  <2>1. n \in 1 .. n
    BY <1>1
  <2> QED BY <1>1, <1>5, <1>6, <2>1 DEF Stands
<1>8. ASSUME NEW i \in 1 .. n - 1 PROVE Stands(e, Passed, o, i, {Passed[i + 1].file})
  <2>1. i \in 1 .. n /\ i + 1 \in 1 .. n /\ i < n
    BY <1>1
  <2>2. After(path, i) = {Passed[i + 1].file}
    BY <1>3, <2>1 DEF After, n
  <2> QED BY <1>1, <1>3, <1>6, <2>1, <2>2 DEF Stands
<1>9. Stands(e, Passed, o, n, {Dep})
  <2>1. n \in 1 .. n /\ ~(n < n)
    BY <1>1
  <2>2. After(path, n) = {}
    BY <2>1 DEF After, n
  <2>3. Stands(e, path, o, n, {})
    BY <1>6, <2>1, <2>2
  <2>4. Passed[n].file = path[n].file /\ Passed[n].rest = Tail(Top.rest)
    BY <1>1
  <2> QED BY <1>1, <1>3, <1>5, <1>7, <2>3, <2>4 DEF Stands
<1>10. Passed[1].file = e /\ Passed # <<>>
  <2>1. 1 \in 1 .. n /\ path[1].file = e
    BY <1>1 DEF SearchOK
  <2> QED BY <1>1, <1>3, <2>1
<1>11. (\A i \in 1 .. n - 1 : i < n) /\ ~(n < n)
  BY <1>1
<1>12. \A i \in 1 .. n :
         Stands(e, Passed, o, i, IF i < n THEN {Passed[i + 1].file} ELSE {Dep})
  BY <1>2, <1>8, <1>9, <1>11
<1> QED BY <1>1, <1>3, <1>7, <1>10, <1>12

LEMMA Skips ==
  ASSUME path \in Seq(Frame), path # <<>>, Top.rest # <<>>, NEW e, NEW o, SearchOK(e, path, o),
         Dep \in Has(o)
  PROVE  SearchOK(e, Passed, o)
<1>1. /\ \A i \in DOMAIN Passed :
              Stands(e, Passed, o, i,
                     IF i < Len(Passed) THEN {Passed[i + 1].file} ELSE {Dep})
      /\ Passed[1].file = e /\ Passed # <<>>
  BY PassedStands
<1>2. ASSUME NEW i \in DOMAIN Passed
      PROVE  Stands(e, Passed, o, i, After(Passed, i))
  <2>1. CASE i < Len(Passed)
    <3>1. Stands(e, Passed, o, i, {Passed[i + 1].file})
      BY <1>1, <2>1
    <3> QED BY <2>1, <3>1 DEF After
  <2>2. CASE ~(i < Len(Passed))
    <3>1. Stands(e, Passed, o, i, {Dep})
      BY <1>1, <2>2
    <3>2. Stands(e, Passed, o, i, {})
      BY <3>1, Zenon DEF Stands
    <3> QED BY <2>2, <3>2 DEF After
  <2> QED BY <2>1, <2>2
<1> QED BY <1>1, <1>2 DEF SearchOK

(* A call of dfs that has seen all its imports returns. *)
LEMMA Leaves ==
  ASSUME path \in Seq(Frame), path # <<>>, Top.rest = <<>>, NEW e, NEW o \in Seq(Files),
         SearchOK(e, path, o)
  PROVE  SearchOK(e, Callers, Append(o, Top.file))
<1> DEFINE n == Len(path)
           q == Append(o, Top.file)
           f == Top.file
<1>1. /\ n \in Nat \ {0} /\ DOMAIN path = 1 .. n /\ Top = path[n] /\ Top \in Frame
      /\ Callers \in Seq(Frame) /\ Len(Callers) = n - 1 /\ DOMAIN Callers = 1 .. n - 1
      /\ \A i \in 1 .. n - 1 : Callers[i] = path[i]
  BY PathParts
<1>2. f \in Files
  BY <1>1 DEF Frame
<1> HIDE DEF n, q, f
<1>3. /\ q \in Seq(Files) /\ Has(q) = Has(o) \cup {f}
      /\ DOMAIN o = 1 .. Len(o) /\ Len(o) \in Nat
      /\ Len(q) = Len(o) + 1 /\ DOMAIN q = 1 .. Len(o) + 1
      /\ \A i \in 1 .. Len(o) : q[i] = o[i]
      /\ q[Len(o) + 1] = f
  BY <1>2, HasAppend DEF q, f
<1>4. \A i \in 1 .. n : Stands(e, path, o, i, After(path, i))
  BY <1>1 DEF SearchOK
<1>5. VisitedOK(e, o) /\ path[1].file = e
  BY DEF SearchOK
<1>6. /\ Complete(f) /\ f \in ReachedFrom(e) /\ f \notin Has(o) /\ Needed(f) \subseteq Has(o)
      /\ \A j \in 1 .. n - 1 : path[j].file # f
  <2>1. n \in 1 .. n /\ ~(n < n) /\ \A j \in 1 .. n - 1 : j \in 1 .. n /\ j # n
    BY <1>1
  <2>2. After(path, n) = {} /\ Has(path[n].rest) = {}
    <3>1. path[n].rest = <<>> /\ DOMAIN <<>> = {}
      BY <1>1
    <3> QED BY <2>1, <3>1 DEF After, n, Has
  <2>3. Stands(e, path, o, n, {}) /\ path[n].file = f
    BY <1>1, <1>4, <2>1, <2>2 DEF f
  <2> QED BY <1>1, <2>1, <2>2, <2>3 DEF Stands
<1>7. VisitedOK(e, q)
  <2>1. ASSUME NEW i \in 1 .. Len(o)
        PROVE  Complete(q[i]) /\ Needed(q[i]) \subseteq {q[j] : j \in 1 .. i - 1}
    <3>1. \A j \in 1 .. i - 1 : j \in 1 .. Len(o)
      BY <1>3
    <3>2. {q[j] : j \in 1 .. i - 1} = {o[j] : j \in 1 .. i - 1}
      BY <1>3, <3>1
    <3> QED BY <1>3, <1>5, <3>2 DEF VisitedOK
  <2>2. Complete(q[Len(o) + 1])
           /\ Needed(q[Len(o) + 1]) \subseteq {q[j] : j \in 1 .. Len(o) + 1 - 1}
    <3>1. {q[j] : j \in 1 .. Len(o) + 1 - 1} = Has(o)
      <4>1. Len(o) + 1 - 1 = Len(o)
        BY <1>3
      <4>2. {q[j] : j \in 1 .. Len(o)} = {o[j] : j \in 1 .. Len(o)}
        BY <1>3
      <4> QED BY <1>3, <4>1, <4>2 DEF Has
    <3> QED BY <1>3, <1>6, <3>1
  <2>3. \A i \in 1 .. Len(o) + 1 : i \in 1 .. Len(o) \/ i = Len(o) + 1
    BY <1>3
  <2>4. /\ IsFiniteSet(Has(o)) /\ Len(o) = Cardinality(Has(o)) /\ Has(o) \subseteq ReachedFrom(e)
    BY <1>5 DEF VisitedOK
  <2>5. IsFiniteSet(Has(q)) /\ Cardinality(Has(q)) = Cardinality(Has(o)) + 1
    <3>1. IsFiniteSet(Has(o) \cup {f}) /\ Cardinality(Has(o) \cup {f}) = Cardinality(Has(o)) + 1
      BY <1>6, <2>4, FS_AddElement
    <3> QED BY <1>3, <3>1
  <2>6. Len(q) = Cardinality(Has(q)) /\ Has(q) \subseteq ReachedFrom(e)
    BY <1>3, <1>6, <2>4, <2>5
  <2>7. \A i \in DOMAIN q : Complete(q[i]) /\ Needed(q[i]) \subseteq {q[j] : j \in 1 .. i - 1}
    <3> DEFINE Behind(i) == Complete(q[i]) /\ Needed(q[i]) \subseteq {q[j] : j \in 1 .. i - 1}
    <3>1. \A i \in 1 .. Len(o) : Behind(i)
      BY <2>1
    <3>2. Behind(Len(o) + 1)
      BY <2>2
    <3> HIDE DEF Behind
    <3>3. \A i \in DOMAIN q : Behind(i)
      BY <1>3, <2>3, <3>1, <3>2
    <3> QED BY <3>3 DEF Behind
  <2> QED BY <2>5, <2>6, <2>7 DEF VisitedOK
<1>8. ASSUME NEW i \in 1 .. n - 1 PROVE Stands(e, Callers, q, i, After(Callers, i))
  <2>1. i \in 1 .. n /\ (i < n - 1 => i + 1 \in 1 .. n - 1) /\ (~(i < n - 1) => i + 1 = n) /\ i < n
    BY <1>1
  <2>2. Stands(e, path, o, i, {path[i + 1].file})
    BY <1>4, <2>1 DEF After, n
  <2>3. Callers[i] = path[i] /\ path[i].file # f
    BY <1>1, <1>6
  <2>4. {path[i + 1].file} \subseteq Has(q) \cup After(Callers, i)
    BY <1>1, <1>3, <2>1 DEF After, f
  <2>5. After(Callers, i) \subseteq {path[i + 1].file}
    BY <1>1, <2>1 DEF After
  <2>6. \A j \in 1 .. n - 1 : j \in 1 .. n /\ Callers[j] = path[j]
    BY <1>1
  <2> QED BY <1>1, <1>3, <2>2, <2>3, <2>4, <2>5, <2>6 DEF Stands
<1>9. CASE n = 1
  <2>1. Callers = <<>> /\ Top.file = e
    BY <1>1, <1>5, <1>9
  <2> QED BY <1>1, <1>3, <1>7, <1>8, <2>1 DEF SearchOK, q, f
<1>10. CASE n # 1
  <2>1. 1 \in 1 .. n - 1 /\ Callers # <<>>
    BY <1>1, <1>10
  <2> QED BY <1>1, <1>5, <1>7, <1>8, <2>1 DEF SearchOK, q
<1> QED BY <1>9, <1>10

(* When the search is done, the order is sorted. *)
LEMMA DoneIsSorted ==
  ASSUME NEW e \in Files, NEW o \in Seq(Files), SearchOK(e, <<>>, o)
  PROVE  Sorted(e, o, NeedsNow) /\ \A f \in Has(o) : Complete(f)
<1>1. VisitedOK(e, o) /\ e \in Has(o)
  BY DEF SearchOK
<1>2. /\ \A i \in DOMAIN o : Complete(o[i]) /\ Needed(o[i]) \subseteq {o[j] : j \in 1 .. i - 1}
      /\ Len(o) = Cardinality(Has(o)) /\ Has(o) \subseteq ReachedFrom(e)
  BY <1>1 DEF VisitedOK
<1>3. Has(o) \subseteq Files /\ \A f \in Files : NeedsNow[f] = Needed(f)
  BY DEF Has, NeedsNow
<1>4. \A i \in DOMAIN o : NeedsNow[o[i]] \subseteq {o[j] : j \in 1 .. i - 1}
  BY <1>2, <1>3 DEF Has
<1>5. ASSUME NEW S \in SUBSET Files, e \in S, \A f \in S \cap Has(o) : NeedsNow[f] \subseteq S
      PROVE  Has(o) \subseteq S
  <2>1. \A i \in DOMAIN o : {o[j] : j \in 1 .. i - 1} \subseteq Has(o)
    BY DEF Has
  <2>2. Closed(S \cap Has(o))
    BY <1>2, <1>3, <1>5, <2>1 DEF Closed, Has
  <2>3. S \cap Has(o) \in SUBSET Files /\ e \in S \cap Has(o)
    BY <1>1, <1>5
  <2>4. ReachedFrom(e) \subseteq S \cap Has(o)
    BY <2>2, <2>3 DEF ReachedFrom
  <2> QED BY <1>2, <2>4
<1> QED BY <1>1, <1>2, <1>4, <1>5 DEF Sorted, Has

-----------------------------------------------------------------------------
(* What is remembered.                                                      *)

(* The signature that a file has now, if it has one. *)
LEMMA SignatureIs ==
  ASSUME OrderTyped, NEW f \in Files
  PROVE  /\ buffers[f] # Nil => /\ Signature(f) = buffers[f] /\ ModuleText(f) = buffers[f]
                                /\ buffers[f] \in ModuleTexts /\ f \in Buffers /\ Exists(f)
         /\ buffers[f] = Nil => /\ Signature(f) = IF Exists(f) THEN "now" ELSE Nil
                                /\ ModuleText(f) = disk[f]
         /\ Signature(f) \notin {Nil, "before"} <=> Exists(f)
         /\ Signature(f) # Nil => Signature(f) \in SigValues
         /\ Exists(f) => Readable(f) /\ disk[f] \in ModuleTexts
         /\ Readable(f) => Exists(f)
<1>1. /\ disk[f] \in ModuleTexts \cup {Absent} /\ buffers[f] \in ModuleTexts \cup {Nil}
      /\ buffers[f] # Nil => f \in Buffers /\ Exists(f)
  BY DEF OrderTyped
<1>2. /\ Nil \notin ModuleTexts /\ Absent \notin ModuleTexts /\ "now" \notin ModuleTexts
      /\ "before" \notin ModuleTexts /\ Nil # "now" /\ Nil # "before"
  BY ImportAssumption
<1> QED BY <1>1, <1>2 DEF Signature, ModuleText, Exists, Readable, SigValues

(* Texts name modules. *)
LEMMA ImportsAre ==
  ASSUME OrderTyped, NEW g \in Files, NEW sig \in SigValues \ {"before"},
         IF sig = "now" THEN Exists(g) ELSE TRUE
  PROVE  LET imports == ImportsOf[IF sig = "now" THEN disk[g] ELSE sig]
         IN  \A k \in DOMAIN imports : imports[k] \in Modules
<1> DEFINE text == IF sig = "now" THEN disk[g] ELSE sig
<1>1. text \in ModuleTexts
  BY DEF OrderTyped, Exists, SigValues
<1> HIDE DEF text
<1>2. ImportsOf[text] \in Seq(Modules)
  BY <1>1, ImportAssumption
<1>3. \A k \in DOMAIN ImportsOf[text] : ImportsOf[text][k] \in Modules
  BY <1>2
<1> QED BY <1>3 DEF text

(* What holds of the signature that a file has now is what the file needs. *)
LEMMA HoldsNow ==
  ASSUME OrderTyped, NEW f \in Files, NEW N \in SUBSET Files, Signature(f) # Nil,
         Holds(f, Signature(f), N), \A h \in N : Exists(h)
  PROVE  Complete(f) /\ Needed(f) = N
<1> DEFINE imports == ImportsOf[ModuleText(f)]
<1>1. /\ "now" \notin ModuleTexts
      /\ Companion[f] \in Files \cup {Nil} /\ Nil \notin Files
  BY ImportAssumption
<1>2. (IF Signature(f) = "now" THEN disk[f] ELSE Signature(f)) = ModuleText(f)
  BY <1>1, SignatureIs
<1>3. Readable(f)
  BY SignatureIs
<1>4. imports \in Seq(Modules)
  BY <1>3, DepsHave
<1>5. /\ \A k \in DOMAIN imports : \E h \in N : Would(f, imports[k], h)
      /\ Companion[f] # Nil /\ Exists(Companion[f]) => Companion[f] \in N
      /\ \A h \in N : h = Companion[f] \/ \E k \in DOMAIN imports : Would(f, imports[k], h)
  BY <1>2 DEF Holds
<1>6. Complete(f) <=> \A i \in DOMAIN imports : Found(f, imports[i]) # Nil
  BY <1>3, CompleteIs
<1>7. Needed(f) = {g \in Files : \/ g = Companion[f] /\ Exists(g)
                                \/ \E i \in DOMAIN imports : g = Found(f, imports[i])}
  BY <1>3 DEF Needed
<1> HIDE DEF imports
<1>8. \A k \in DOMAIN imports : Found(f, imports[k]) \in N
  BY <1>5 DEF Would
<1>9. Complete(f)
  BY <1>1, <1>6, <1>8
<1>10. N \subseteq Needed(f)
  BY <1>5, <1>7 DEF Would
<1>11. Needed(f) \subseteq N
  BY <1>1, <1>5, <1>7, <1>8
<1> QED BY <1>9, <1>10, <1>11

(* It holds of a file that is complete. *)
LEMMA NowHolds ==
  ASSUME OrderTyped, NEW f \in Files, Complete(f)
  PROVE  Signature(f) \in SigValues /\ Holds(f, Signature(f), Needed(f))
<1> DEFINE imports == ImportsOf[ModuleText(f)]
<1>1. /\ "now" \notin ModuleTexts
      /\ Companion[f] \in Files \cup {Nil} /\ Nil \notin Files
  BY ImportAssumption
<1>2. Readable(f)
  BY DEF Complete
<1>3. Signature(f) \in SigValues /\ Signature(f) # Nil
  BY <1>2, SignatureIs
<1>4. (IF Signature(f) = "now" THEN disk[f] ELSE Signature(f)) = ModuleText(f)
  BY <1>1, <1>3, SignatureIs
<1>5. IF Signature(f) = "now" THEN Exists(f) ELSE f \in Buffers
  BY <1>2, SignatureIs
<1>6. imports \in Seq(Modules)
  BY <1>2, DepsHave
<1>7. \A i \in DOMAIN imports : Found(f, imports[i]) # Nil
  BY <1>2, CompleteIs
<1>8. Needed(f) = {g \in Files : \/ g = Companion[f] /\ Exists(g)
                                \/ \E i \in DOMAIN imports : g = Found(f, imports[i])}
  BY <1>2 DEF Needed
<1> HIDE DEF imports
<1>9. ASSUME NEW k \in DOMAIN imports
      PROVE  /\ Found(f, imports[k]) \in Needed(f)
             /\ Would(f, imports[k], Found(f, imports[k]))
  <2>1. imports[k] \in Modules
    BY <1>6
  <2>2. /\ Found(f, imports[k]) \in Files
        /\ Found(f, imports[k]) \in Candidates(f, imports[k])
    BY <1>7, <2>1, FoundIs
  <2> QED BY <1>8, <2>2 DEF Would
<1>10. \A k \in DOMAIN imports : \E h \in Needed(f) : Would(f, imports[k], h)
  BY <1>9
<1>11. \A h \in Needed(f) : h = Companion[f] \/ \E k \in DOMAIN imports : Would(f, imports[k], h)
  BY <1>8, <1>9
<1>12. Companion[f] # Nil /\ Exists(Companion[f]) => Companion[f] \in Needed(f)
  BY <1>1, <1>8
<1> QED BY <1>3, <1>4, <1>5, <1>10, <1>11, <1>12 DEF Holds, imports

(* A remembered order whose signatures are those of now is right. *)
LEMMA RememberedIsRight ==
  ASSUME OrderTyped, CacheInv, NEW e \in Entries, Unchanged(e)
  PROVE  RightAnswer([of |-> e, kind |-> "order", files |-> cache[e].order])
<1>1. PICK seq \in Seq(Files), needs \in [Files -> SUBSET Files] :
        \E sigs \in [DOMAIN seq -> SigValues] :
          cache[e] = [order |-> seq, signatures |-> sigs] /\ Remembers(e, seq, sigs, needs)
  BY DEF CacheInv, Unchanged
<1>2. PICK sigs \in [DOMAIN seq -> SigValues] :
        cache[e] = [order |-> seq, signatures |-> sigs] /\ Remembers(e, seq, sigs, needs)
  BY <1>1
<1>3. cache[e].order = seq /\ sigs = [i \in DOMAIN seq |-> Signature(seq[i])]
  BY <1>2 DEF Unchanged
<1>4. /\ Sorted(e, seq, needs)
      /\ \A i \in DOMAIN seq : sigs[i] # "before" => Holds(seq[i], sigs[i], needs[seq[i]])
  BY <1>2 DEF Remembers
<1>5. Nil \notin SigValues
  BY ImportAssumption DEF SigValues
<1>6. \A i \in DOMAIN seq : /\ seq[i] \in Files /\ Signature(seq[i]) = sigs[i]
                            /\ Signature(seq[i]) # Nil
  BY <1>3, <1>5
<1>7. \A i \in DOMAIN seq : /\ sigs[i] # "before" /\ Exists(seq[i])
                            /\ Holds(seq[i], Signature(seq[i]), needs[seq[i]])
  <2>1. ASSUME NEW i \in DOMAIN seq PROVE Signature(seq[i]) # "before" /\ Exists(seq[i])
    <3>1. seq[i] \in Files /\ Signature(seq[i]) # Nil /\ "before" \notin ModuleTexts
      BY <1>6, ImportAssumption
    <3> QED BY <3>1, SignatureIs
  <2> QED BY <1>4, <1>6, <2>1
<1>8. ASSUME NEW i \in DOMAIN seq
      PROVE  Complete(seq[i]) /\ Needed(seq[i]) = needs[seq[i]]
  <2>1. needs[seq[i]] \subseteq {seq[j] : j \in 1 .. i - 1}
    BY <1>4 DEF Sorted
  <2>2. \A j \in 1 .. i - 1 : j \in DOMAIN seq
    OBVIOUS
  <2>3. \A h \in needs[seq[i]] : Exists(h)
    BY <1>7, <2>1, <2>2
  <2> QED BY <1>6, <1>7, <2>3, HoldsNow
<1>9. /\ Has(seq) \subseteq Files
      /\ \A f \in Has(seq) : Complete(f) /\ Needed(f) = needs[f] /\ NeedsNow[f] = needs[f]
  BY <1>6, <1>8 DEF Has, NeedsNow
<1>10. Sorted(e, seq, NeedsNow)
  <2>1. \A i \in DOMAIN seq : NeedsNow[seq[i]] \subseteq {seq[j] : j \in 1 .. i - 1}
    BY <1>4, <1>9 DEF Sorted, Has
  <2> QED BY <1>4, <1>9, <2>1 DEF Sorted
<1>11. e \in Files
  BY ImportAssumption
<1>12. /\ Has(seq) = ReachedFrom(e)
       /\ ~Cyclic(ReachedFrom(e)) /\ \A f \in ReachedFrom(e) : Complete(f)
       /\ Len(seq) = Cardinality(ReachedFrom(e))
       /\ \A i \in DOMAIN seq : Needed(seq[i]) \subseteq {seq[j] : j \in 1 .. i - 1}
  BY <1>9, <1>10, <1>11, SortedIsRight
<1> QED BY <1>3, <1>12 DEF RightAnswer, Has

-----------------------------------------------------------------------------
(* The world changes.                                                       *)

(* What a write that is foreseen leaves of the searches. *)
LEMMA WouldStays ==
  ASSUME OrderTyped, Changes = {}, NEW f \in Files, NEW t, Foreseen(f, t),
         disk' = [disk EXCEPT ![f] = t],
         NEW g \in Files, NEW m \in Modules, NEW h, Would(g, m, h)
  PROVE  Would(g, m, h)'
<1>1. h \in Candidates(g, m) /\ (disk[h] # Absent => Found(g, m) = h)
  BY DEF Would, Exists
<1>2. disk'[f] = t /\ \A x \in Files \ {f} : disk'[x] = disk[x]
  BY DEF OrderTyped
<1>3. Search[g][m] \in Seq(Files) /\ Nil \notin Files
  BY ImportAssumption
<1>4. Candidates(g, m) \subseteq Files
  BY <1>3 DEF Candidates, Has
<1>5. /\ ~Exists(f) /\ t # Absent =>
           (f \in {Search[g][m][i] : i \in DOMAIN Search[g][m]} => Found(g, m) = Nil)
  BY DEF Foreseen
<1>6. SUFFICES ASSUME disk'[h] # Absent PROVE Found(g, m)' = h
  <2>1. Candidates(g, m)' = Candidates(g, m)
    BY DEF Candidates, Has
  <2> QED BY <1>1, <2>1 DEF Would, Exists
<1>7. Found(g, m)' = FoundOn(disk', g, m)
  BY DEF Found, FoundOn, Exists
<1>8. CASE disk[h] # Absent
  <2>1. Found(g, m) = h /\ h # Nil
    BY <1>1, <1>3, <1>4, <1>8
  <2>2. PICK i \in DOMAIN Search[g][m] :
          /\ Search[g][m][i] = h
          /\ \A j \in 1 .. i - 1 : disk[Search[g][m][j]] = Absent
    BY <2>1, FoundIs DEF FirstOf
  <2>3. ASSUME NEW j \in 1 .. i - 1 PROVE disk'[Search[g][m][j]] = Absent
    <3>1. j \in DOMAIN Search[g][m] /\ Search[g][m][j] \in Files
      BY <1>3
    <3>2. CASE Search[g][m][j] # f
      BY <1>2, <2>2, <3>1, <3>2
    <3>3. CASE Search[g][m][j] = f
      <4>1. disk[f] = Absent
        BY <2>2, <3>3
      <4>2. t = Absent
        BY <1>5, <2>1, <3>1, <3>3, <4>1 DEF Exists
      <4> QED BY <1>2, <3>3, <4>2
    <3> QED BY <3>2, <3>3
  <2>4. FirstOf(disk', g, m, h)
    BY <1>6, <2>2, <2>3 DEF FirstOf
  <2> QED BY <2>4, FoundIsNext
<1>9. CASE disk[h] = Absent
  <2>1. h = f /\ t # Absent
    BY <1>1, <1>2, <1>4, <1>6, <1>9
  <2>2. Found(g, m) = Nil
    BY <1>1, <1>5, <1>9, <2>1 DEF Exists, Candidates, Has
  <2>3. \A x \in Candidates(g, m) : disk[x] = Absent
    BY <2>2, FoundIs
  <2>4. PICK new, d : new = FoundOn(d, g, m) /\ d = disk'
    OBVIOUS
  <2>5. FirstOf(disk', g, m, new)
    <3>1. FoundOn(d, g, m) = Nil => \A x \in Candidates(g, m) : d[x] = Absent
      BY FoundIn
    <3>2. new # Nil => FirstOf(d, g, m, new)
      BY <2>4, FoundIn
    <3> QED BY <1>1, <1>6, <2>4, <3>1, <3>2
  <2>6. new \in Candidates(g, m) /\ disk'[new] # Absent
    BY <2>5 DEF FirstOf, Candidates, Has
  <2>7. new = f
    BY <1>2, <1>4, <2>3, <2>6
  <2> QED BY <1>7, <2>1, <2>4, <2>7
<1> QED BY <1>8, <1>9

LEMMA HoldsStays ==
  ASSUME OrderTyped, Changes = {}, NEW f \in Files, NEW t, Foreseen(f, t),
         disk' = [disk EXCEPT ![f] = t],
         NEW g \in Files, NEW sig \in SigValues \ {"before"}, NEW N, Holds(g, sig, N),
         ~(g = f /\ sig = "now")
  PROVE  Holds(g, sig, N)'
<1>1. \A x \in Files \ {f} : disk'[x] = disk[x] /\ Exists(x)' = Exists(x)
  BY DEF OrderTyped, Exists
<1>2. PICK imports : imports = ImportsOf[IF sig = "now" THEN disk[g] ELSE sig]
  OBVIOUS
<1>3. ImportsOf[IF sig = "now" THEN disk[g] ELSE sig]' = imports
  BY <1>1, <1>2
<1>4. IF sig = "now" THEN Exists(g) ELSE g \in Buffers
  BY DEF Holds
<1>5. \A k \in DOMAIN imports : imports[k] \in Modules
  BY <1>2, <1>4, ImportsAre
<1>6. /\ \A k \in DOMAIN imports : \E h \in N : Would(g, imports[k], h)
      /\ Companion[g] # Nil /\ Exists(Companion[g]) => Companion[g] \in N
      /\ \A h \in N : h = Companion[g] \/ \E k \in DOMAIN imports : Would(g, imports[k], h)
  BY <1>2 DEF Holds
<1>7. ASSUME NEW m \in Modules, NEW h, Would(g, m, h) PROVE Would(g, m, h)'
  BY <1>7, WouldStays
<1>8. Companion[g] # Nil /\ Exists(Companion[g])' => Companion[g] \in N
  <2>1. Companion[g] \in Files \cup {Nil}
    BY ImportAssumption
  <2>2. CASE Companion[g] # f
    BY <1>1, <1>6, <2>1, <2>2
  <2>3. CASE Companion[g] = f
    <3>1. ~Exists(f) /\ t # Absent => ~Exists(g) /\ g \notin Buffers
      BY <2>3 DEF Foreseen
    <3>2. Exists(f)' => t # Absent
      BY DEF Exists, OrderTyped
    <3> QED BY <1>4, <1>6, <2>3, <3>1, <3>2
  <2> QED BY <2>2, <2>3
<1>9. IF sig = "now" THEN Exists(g)' ELSE g \in Buffers
  BY <1>1, <1>4
<1>10. /\ \A k \in DOMAIN imports : \E h \in N : Would(g, imports[k], h)'
       /\ \A h \in N : h = Companion[g] \/ \E k \in DOMAIN imports : Would(g, imports[k], h)'
  BY <1>5, <1>6, <1>7
<1> QED BY <1>3, <1>8, <1>9, <1>10 DEF Holds

LEMMA OutdatedIs ==
  ASSUME NEW seq, NEW sigs \in [DOMAIN seq -> SigValues], NEW f
  PROVE  Outdated([order |-> seq, signatures |-> sigs], f) =
           [order |-> seq,
            signatures |-> [i \in DOMAIN seq |->
              IF seq[i] = f /\ sigs[i] = "now" THEN "before" ELSE sigs[i]]]
<1> DEFINE c == [order |-> seq, signatures |-> sigs]
<1>1. c.order = seq /\ c.signatures = sigs /\ DOMAIN sigs = DOMAIN seq
  OBVIOUS
<1>2. \A new : [c EXCEPT !.signatures = new] = [order |-> seq, signatures |-> new]
  OBVIOUS
<1>3. Outdated(c, f) = [c EXCEPT !.signatures =
          [i \in DOMAIN c.signatures |->
             IF c.order[i] = f /\ c.signatures[i] = "now" THEN "before" ELSE c.signatures[i]]]
  BY DEF Outdated
<1> QED BY <1>1, <1>2, <1>3

(* What is in the cache stays right when a file is written. *)
LEMMA CacheWrites ==
  ASSUME OrderTyped, CacheInv, Changes = {}, NEW f \in Files, NEW t, Write(f, t)
  PROVE  CacheInv'
<1>1. Foreseen(f, t) /\ disk' = [disk EXCEPT ![f] = t]
  BY DEF Write
<1> SUFFICES ASSUME NEW e \in Entries, cache'[e] # Nil
             PROVE  \E seq \in Seq(Files), needs \in [Files -> SUBSET Files] :
                      \E sigs \in [DOMAIN seq -> SigValues] :
                        /\ cache'[e] = [order |-> seq, signatures |-> sigs]
                        /\ Remembers(e, seq, sigs, needs)'
  BY DEF CacheInv
<1>2. cache[e] # Nil /\ cache'[e] = Outdated(cache[e], f)
  BY DEF Write
<1>3. PICK seq \in Seq(Files), needs \in [Files -> SUBSET Files] :
        \E sigs \in [DOMAIN seq -> SigValues] :
          cache[e] = [order |-> seq, signatures |-> sigs] /\ Remembers(e, seq, sigs, needs)
  BY <1>2 DEF CacheInv
<1>4. PICK sigs \in [DOMAIN seq -> SigValues] :
        cache[e] = [order |-> seq, signatures |-> sigs] /\ Remembers(e, seq, sigs, needs)
  BY <1>3
<1>5. PICK new : new = [i \in DOMAIN seq |->
                          IF seq[i] = f /\ sigs[i] = "now" THEN "before" ELSE sigs[i]]
  OBVIOUS
<1>6. cache'[e] = [order |-> seq, signatures |-> new]
  BY <1>2, <1>4, <1>5, OutdatedIs
<1>7. new \in [DOMAIN seq -> SigValues]
  BY <1>5 DEF SigValues
<1>8. Sorted(e, seq, needs)
  BY <1>4 DEF Remembers
<1>9. ASSUME NEW i \in DOMAIN seq, new[i] # "before" PROVE Holds(seq[i], new[i], needs[seq[i]])'
  <2>0. /\ new[i] = sigs[i] /\ ~(seq[i] = f /\ sigs[i] = "now")
        /\ new[i] \in SigValues \ {"before"} /\ seq[i] \in Files
    BY <1>5, <1>7, <1>9
  <2>1. PICK g \in Files, sig \in SigValues \ {"before"}, N \in SUBSET Files :
          /\ g = seq[i] /\ sig = new[i] /\ N = needs[seq[i]]
          /\ sig = sigs[i] /\ ~(g = f /\ sig = "now")
    BY <2>0
  <2>2. Holds(g, sig, N)
    BY <1>4, <2>1 DEF Remembers
  <2>3. Holds(g, sig, N)'
    BY <1>1, <2>1, <2>2, HoldsStays
  <2> QED BY <2>1, <2>3
<1>10. Remembers(e, seq, new, needs)'
  BY <1>8, <1>9 DEF Remembers, Sorted, Has
<1> QED BY <1>6, <1>7, <1>10

(* While the disk stays, so does what holds of it. *)
LEMMA SameDisk ==
  ASSUME UNCHANGED disk, NEW e, NEW seq, NEW sigs, NEW needs, Remembers(e, seq, sigs, needs)
  PROVE  Remembers(e, seq, sigs, needs)'
<1>1. \A f, m : Found(f, m)' = Found(f, m)
  BY DEF Found, Exists
<1>2. \A f, m, h : Would(f, m, h)' <=> Would(f, m, h)
  BY <1>1 DEF Would, Exists, Candidates, Has
<1>3. \A g, sig, N : Holds(g, sig, N) => Holds(g, sig, N)'
  BY <1>2 DEF Holds, Exists
<1>4. Sorted(e, seq, needs)'
  BY DEF Remembers, Sorted, Has
<1> QED BY <1>3, <1>4 DEF Remembers

LEMMA CacheStays ==
  ASSUME CacheInv, UNCHANGED <<disk, cache>>
  PROVE  CacheInv'
<1> SUFFICES ASSUME NEW e \in Entries, cache[e] # Nil
             PROVE  \E seq \in Seq(Files), needs \in [Files -> SUBSET Files] :
                      \E sigs \in [DOMAIN seq -> SigValues] :
                        /\ cache[e] = [order |-> seq, signatures |-> sigs]
                        /\ Remembers(e, seq, sigs, needs)'
  BY DEF CacheInv
<1>1. PICK seq \in Seq(Files), needs \in [Files -> SUBSET Files] :
        \E sigs \in [DOMAIN seq -> SigValues] :
          cache[e] = [order |-> seq, signatures |-> sigs] /\ Remembers(e, seq, sigs, needs)
  BY DEF CacheInv
<1>2. PICK sigs \in [DOMAIN seq -> SigValues] :
        cache[e] = [order |-> seq, signatures |-> sigs] /\ Remembers(e, seq, sigs, needs)
  BY <1>1
<1>3. Remembers(e, seq, sigs, needs)'
  BY <1>2, SameDisk
<1> QED BY <1>2, <1>3

(* An order that was just found is stored with the signatures of its files. *)
LEMMA CacheStores ==
  ASSUME OrderTyped, CacheInv, entry # Nil, path = <<>>, SearchOK(entry, path, order), Store
  PROVE  CacheInv'
<1> SUFFICES ASSUME NEW e \in Entries, cache'[e] # Nil
             PROVE  \E seq \in Seq(Files), needs \in [Files -> SUBSET Files] :
                      \E sigs \in [DOMAIN seq -> SigValues] :
                        /\ cache'[e] = [order |-> seq, signatures |-> sigs]
                        /\ Remembers(e, seq, sigs, needs)'
  BY DEF CacheInv
<1>1. UNCHANGED disk /\ entry \in Entries /\ order \in Seq(Files)
  BY DEF Store, Return, OrderTyped
<1>2. PICK found : found = [i \in DOMAIN order |-> Signature(order[i])]
  OBVIOUS
<1>3. cache'[e] = IF e = entry THEN [order |-> order, signatures |-> found] ELSE cache[e]
  BY <1>1, <1>2 DEF Store, OrderTyped
<1>4. CASE e = entry
  <2>1. PICK seq : seq = order
    OBVIOUS
  <2>2. Sorted(e, seq, NeedsNow) /\ \A f \in Has(seq) : Complete(f)
    <3>1. e \in Files
      BY ImportAssumption
    <3> QED BY <1>1, <1>4, <2>1, <3>1, DoneIsSorted
  <2>3. ASSUME NEW i \in DOMAIN seq
        PROVE  found[i] \in SigValues /\ Holds(seq[i], found[i], NeedsNow[seq[i]])
    <3>1. seq[i] \in Files /\ Complete(seq[i])
      BY <1>1, <2>1, <2>2 DEF Has
    <3>2. found[i] = Signature(seq[i]) /\ NeedsNow[seq[i]] = Needed(seq[i])
      BY <1>2, <2>1, <3>1 DEF NeedsNow
    <3> QED BY <3>1, <3>2, NowHolds
  <2>4. found \in [DOMAIN seq -> SigValues]
    BY <1>2, <2>1, <2>3
  <2>5. PICK needs : needs = NeedsNow
    OBVIOUS
  <2>6. needs \in [Files -> SUBSET Files]
    BY <2>5 DEF NeedsNow, Needed
  <2>7. Remembers(e, seq, found, needs)
    BY <2>2, <2>3, <2>5 DEF Remembers
  <2>8. Remembers(e, seq, found, needs)'
    BY <1>1, <2>7, SameDisk
  <2> QED BY <1>1, <1>3, <1>4, <2>1, <2>4, <2>6, <2>8
<1>5. CASE e # entry
  <2>1. cache'[e] = cache[e]
    BY <1>3, <1>5
  <2>2. PICK seq \in Seq(Files), needs \in [Files -> SUBSET Files] :
          \E sigs \in [DOMAIN seq -> SigValues] :
            cache[e] = [order |-> seq, signatures |-> sigs] /\ Remembers(e, seq, sigs, needs)
    BY <2>1 DEF CacheInv
  <2>3. PICK sigs \in [DOMAIN seq -> SigValues] :
          cache[e] = [order |-> seq, signatures |-> sigs] /\ Remembers(e, seq, sigs, needs)
    BY <2>2
  <2>4. Remembers(e, seq, sigs, needs)'
    BY <1>1, <2>3, SameDisk
  <2> QED BY <2>1, <2>3, <2>4
<1> QED BY <1>4, <1>5

-----------------------------------------------------------------------------
(* The answers.                                                             *)

LEMMA Answers ==
  ASSUME UNCHANGED <<disk, buffers>>, NEW a, answer' = a, RightAnswer(a)
  PROVE  AnswerIsRight'
<1>1. PICK R : R = ReachedFrom(a.of) /\ ReachedFrom(a.of)' = R
  BY SameWorld
<1>2. /\ \A f \in R : Complete(f)' <=> Complete(f)
      /\ Cyclic(R)' <=> Cyclic(R)
      /\ \A f : Needed(f)' = Needed(f)
  BY SameWorld
<1>3. RightAnswer(answer)'
        <=> \/ a.kind = "missing" /\ \E f \in R : ~Complete(f)'
            \/ a.kind = "cycle" /\ Cyclic(R)'
            \/ /\ a.kind = "order"
               /\ ~Cyclic(R)' /\ \A f \in R : Complete(f)'
               /\ {a.files[i] : i \in DOMAIN a.files} = R /\ Len(a.files) = Cardinality(R)
               /\ \A i \in DOMAIN a.files :
                    Needed(a.files[i])' \subseteq {a.files[j] : j \in 1 .. i - 1}
  BY <1>1 DEF RightAnswer
<1>4. RightAnswer(answer)'
  BY <1>1, <1>2, <1>3 DEF RightAnswer
<1> QED BY <1>4 DEF AnswerIsRight

LEMMA SameAnswer ==
  ASSUME UNCHANGED <<disk, buffers, answer>>, AnswerIsRight
  PROVE  AnswerIsRight'
<1>1. CASE answer = Nil
  BY <1>1 DEF AnswerIsRight
<1>2. CASE answer # Nil
  <2>1. PICK a : a = answer
    OBVIOUS
  <2>2. RightAnswer(a) /\ answer' = a
    BY <1>2, <2>1 DEF AnswerIsRight
  <2> QED BY <2>2, Answers
<1> QED BY <1>1, <1>2

(* A file that is reached and that cannot be read, or imports what is not there. *)
LEMMA MissingIsRight ==
  ASSUME NEW e \in Files, NEW f \in ReachedFrom(e), ~Complete(f)
  PROVE  RightAnswer([of |-> e, kind |-> "missing", files |-> <<>>])
BY DEF RightAnswer

(* The open calls from the one for the import on need each other in a circle. *)
LEMMA CycleIsRight ==
  ASSUME path \in Seq(Frame), path # <<>>, Top.rest # <<>>, Dep \in Visiting,
         NEW e, NEW o, SearchOK(e, path, o)
  PROVE  RightAnswer([of |-> e, kind |-> "cycle", files |-> <<>>])
<1> DEFINE n == Len(path)
<1>1. n \in Nat \ {0} /\ DOMAIN path = 1 .. n /\ Top = path[n]
  BY PathParts
<1>2. PICK k \in 1 .. n : path[k].file = Dep
  BY <1>1 DEF Visiting
<1> DEFINE C == {path[i].file : i \in k .. n}
<1>3. \A i \in 1 .. n : Stands(e, path, o, i, After(path, i))
  BY <1>1 DEF SearchOK
<1>4. Dep \in Needed(Top.file)
  BY PassedStands
<1> HIDE DEF n
<1>5. C # {} /\ Dep \in C
  BY <1>1, <1>2
<1>6. ASSUME NEW i \in k .. n
      PROVE  path[i].file \in ReachedFrom(e) /\ Needed(path[i].file) \cap C # {}
  <2>1. i \in 1 .. n
    BY <1>1, <1>2
  <2>2. CASE i = n
    BY <1>1, <1>3, <1>4, <1>5, <2>1, <2>2 DEF Stands
  <2>3. CASE i # n
    <3>1. i < n /\ i + 1 \in k .. n
      BY <1>1, <1>2, <2>1, <2>3
    <3>2. After(path, i) = {path[i + 1].file}
      BY <3>1 DEF After, n
    <3>3. path[i].file \in ReachedFrom(e) /\ After(path, i) \subseteq Needed(path[i].file)
      BY <1>3, <2>1 DEF Stands
    <3>4. path[i + 1].file \in C
      BY <3>1
    <3> QED BY <3>2, <3>3, <3>4
  <2> QED BY <2>2, <2>3
<1>7. C \in SUBSET ReachedFrom(e) /\ \A f \in C : Needed(f) \cap C # {}
  BY <1>6
<1>8. Cyclic(ReachedFrom(e))
  BY <1>5, <1>7 DEF Cyclic
<1> QED BY <1>8 DEF RightAnswer

LEMMA OrderIsRight ==
  ASSUME NEW e \in Files, NEW o \in Seq(Files), SearchOK(e, <<>>, o)
  PROVE  RightAnswer([of |-> e, kind |-> "order", files |-> o])
<1>1. Sorted(e, o, NeedsNow) /\ \A f \in Has(o) : Complete(f)
  BY DoneIsSorted
<1>2. /\ Has(o) = ReachedFrom(e)
      /\ ~Cyclic(ReachedFrom(e)) /\ \A f \in ReachedFrom(e) : Complete(f)
      /\ Len(o) = Cardinality(ReachedFrom(e))
      /\ \A i \in DOMAIN o : Needed(o[i]) \subseteq {o[j] : j \in 1 .. i - 1}
  BY <1>1, SortedIsRight
<1> QED BY <1>2 DEF RightAnswer, Has

-----------------------------------------------------------------------------
(* The steps.                                                               *)

LEMMA OrderInvInit == OrderInit => OrderInv
<1> SUFFICES ASSUME OrderInit PROVE OrderInv
  OBVIOUS
<1>1. OrderTyped
  <2>1. <<>> \in Seq(Files) /\ <<>> \in Seq(Frame)
    OBVIOUS
  <2> QED BY <2>1 DEF OrderInit, OrderTyped
<1>2. SearchInv
  BY DEF OrderInit, SearchInv
<1>3. CacheInv
  BY DEF OrderInit, CacheInv
<1>4. AnswerIsRight
  BY DEF OrderInit, AnswerIsRight
<1> QED BY <1>1, <1>2, <1>3, <1>4 DEF OrderInv

(* A call that returns. *)
LEMMA Returns ==
  ASSUME OrderInv, NEW e \in Entries, NEW kind, NEW files, Return(e, kind, files),
         RightAnswer([of |-> e, kind |-> kind, files |-> files]),
         cache' = [x \in Entries |-> cache'[x]], CacheInv'
  PROVE  OrderInv'
<1>1. OrderTyped'
  <2>1. <<>> \in Seq(Files) /\ <<>> \in Seq(Frame)
    OBVIOUS
  <2> QED BY <2>1 DEF OrderInv, OrderTyped, Return, Exists
<1>2. SearchInv'
  BY DEF SearchInv, Return
<1>3. AnswerIsRight'
  <2>1. PICK a : a = [of |-> e, kind |-> kind, files |-> files]
    OBVIOUS
  <2>2. answer' = a /\ UNCHANGED <<disk, buffers>>
    BY <2>1 DEF Return
  <2> QED BY <2>1, <2>2, Answers
<1> QED BY <1>1, <1>2, <1>3 DEF OrderInv

(* A step of the search that answers nothing yet. *)
LEMMA Searches ==
  ASSUME OrderInv, NEW e \in Entries, NEW p \in Seq(Frame), NEW o \in Seq(Files),
         entry' = e, path' = p, order' = o, SearchOK(e, p, o),
         UNCHANGED <<disk, buffers, cache, answer>>
  PROVE  OrderInv'
<1>1. OrderTyped'
  BY DEF OrderInv, OrderTyped, Exists
<1>2. SearchInv'
  <2>1. SearchOK(entry, path, order)'
    BY SearchStays
  <2>2. entry' # Nil
    BY ImportAssumption
  <2> QED BY <2>1, <2>2 DEF SearchInv
<1>3. CacheInv'
  BY CacheStays DEF OrderInv
<1>4. AnswerIsRight'
  BY SameAnswer DEF OrderInv
<1> QED BY <1>1, <1>2, <1>3, <1>4 DEF OrderInv

LEMMA OrderInvNext == ASSUME Changes = {} PROVE OrderInv /\ [OrderNext]_orderVars => OrderInv'
<1> SUFFICES ASSUME OrderInv, [OrderNext]_orderVars PROVE OrderInv'
  OBVIOUS
<1>1. /\ OrderTyped /\ SearchInv /\ CacheInv /\ AnswerIsRight
      /\ disk \in [Files -> ModuleTexts \cup {Absent}]
      /\ buffers \in [Files -> ModuleTexts \cup {Nil}]
      /\ \A f \in Files : buffers[f] # Nil => f \in Buffers /\ Exists(f)
      /\ path \in Seq(Frame) /\ order \in Seq(Files)
      /\ cache = [x \in Entries |-> cache[x]]
  BY DEF OrderInv, OrderTyped
<1>2. \A e \in Entries : e \in Files /\ e # Nil
  BY ImportAssumption
<1>3. ASSUME Searching
      PROVE  entry \in Entries /\ SearchOK(entry, path, order) /\ path # <<>>
  BY <1>1, <1>3 DEF Searching, SearchInv, OrderTyped
<1>4. ASSUME NEW e \in Entries, Hit(e) PROVE OrderInv'
  <2>1. CacheInv'
    BY <1>1, <1>4, CacheStays DEF Hit, Return
  <2>2. Return(e, "order", cache[e].order) /\ Unchanged(e) /\ cache' = cache
    BY <1>4 DEF Hit
  <2>3. RightAnswer([of |-> e, kind |-> "order", files |-> cache[e].order])
    BY <1>1, <2>2, RememberedIsRight
  <2> QED BY <1>1, <2>1, <2>2, <2>3, Returns
<1>5. ASSUME NEW e \in Entries, NEW f \in ReachedFrom(e), Missing(f, e) PROVE OrderInv'
  <2>1. Return(e, "missing", <<>>) /\ ~Complete(f) /\ cache' = cache
    BY <1>5 DEF Missing
  <2>2. CacheInv'
    BY <1>1, <2>1, CacheStays DEF Return
  <2>3. RightAnswer([of |-> e, kind |-> "missing", files |-> <<>>])
    BY <1>2, <2>1, MissingIsRight
  <2> QED BY <1>1, <2>1, <2>2, <2>3, Returns
<1>6. ASSUME NEW e \in Entries, Miss(e) PROVE OrderInv'
  <2>1. e \in ReachedFrom(e) /\ entry = Nil
    BY <1>2, <1>6, Reaches DEF Miss
  <2>2. CASE Missing(e, e)
    BY <1>5, <2>1, <2>2
  <2>3. CASE Open(e, <<>>) /\ entry' = e
    <3>1. path = <<>> /\ order = <<>>
      BY <1>1, <2>1 DEF SearchInv
    <3>2. Has(<<>>) = {} /\ DOMAIN <<>> = {} /\ Len(<<>>) = 0 /\ <<>> \in Seq(Frame) /\ <<>> \in Seq(Files)
      BY DEF Has
    <3>3. VisitedOK(e, <<>>)
      BY <3>2, FS_EmptySet DEF VisitedOK
    <3>4. Complete(e) /\ path' = Append(<<>>, [file |-> e, rest |-> Deps(e)])
      BY <2>3 DEF Open
    <3>5. path' \in Seq(Frame) /\ SearchOK(e, path', <<>>)
      BY <1>1, <1>2, <2>1, <3>2, <3>3, <3>4, Opens
    <3> QED BY <2>3, <3>1, <3>2, <3>5, Searches DEF Open
  <2> QED BY <1>6, <2>2, <2>3 DEF Miss
<1>7. ASSUME Cycle PROVE OrderInv'
  <2>1. /\ Searching /\ Top.rest # <<>> /\ Dep \in Visiting
        /\ Return(entry, "cycle", <<>>) /\ cache' = cache
    BY <1>7 DEF Cycle
  <2>2. CacheInv'
    BY <1>1, <2>1, CacheStays DEF Return
  <2>3. RightAnswer([of |-> entry, kind |-> "cycle", files |-> <<>>])
    BY <1>1, <1>3, <2>1, CycleIsRight
  <2> QED BY <1>1, <1>3, <2>1, <2>2, <2>3, Returns
<1>8. ASSUME Skip PROVE OrderInv'
  <2>1. /\ Searching /\ Top.rest # <<>> /\ Dep \in Has(order) /\ path' = Passed
        /\ UNCHANGED <<disk, buffers, cache, entry, order, answer>>
    BY <1>8 DEF Skip, Visited, Has
  <2>2. SearchOK(entry, Passed, order)
    BY <1>1, <1>3, <2>1, Skips
  <2>3. Passed \in Seq(Frame)
    BY <1>1, <1>3, <2>1, PathParts
  <2> QED BY <1>1, <1>3, <2>1, <2>2, <2>3, Searches
<1>9. ASSUME Descend PROVE OrderInv'
  <2>1. Searching /\ Top.rest # <<>> /\ Dep \notin Visiting \cup Visited
    BY <1>9 DEF Descend
  <2>2. /\ \A i \in DOMAIN Passed :
             Stands(entry, Passed, order, i,
                    IF i < Len(Passed) THEN {Passed[i + 1].file} ELSE {Dep})
        /\ Dep \in Needed(Top.file) /\ Passed[1].file = entry /\ Passed # <<>>
        /\ \A i \in DOMAIN Passed : Passed[i].file = path[i].file
    BY <1>1, <1>3, <2>1, PassedStands
  <2>3. Passed \in Seq(Frame) /\ DOMAIN Passed = DOMAIN path
    BY <1>1, <1>3, <2>1, PathParts
  <2>4. Dep \in ReachedFrom(entry)
    <3>1. Len(path) \in DOMAIN path /\ Top = path[Len(path)]
      BY <1>1, <1>3, <2>1, PathParts
    <3>2. Top.file \in ReachedFrom(entry)
      BY <1>3, <2>1, <3>1 DEF SearchOK, Stands
    <3> QED BY <1>2, <1>3, <2>1, <2>2, <3>2, Reaches
  <2>5. CASE Missing(Dep, entry)
    BY <1>3, <1>5, <2>1, <2>4, <2>5
  <2>6. CASE Open(Dep, Passed) /\ UNCHANGED entry
    <3>1. Complete(Dep) /\ path' = Append(Passed, [file |-> Dep, rest |-> Deps(Dep)])
      BY <2>6 DEF Open
    <3>2. Dep \notin Has(order) /\ \A i \in DOMAIN Passed : Passed[i].file # Dep
      BY <2>1, <2>2, <2>3 DEF Visiting, Visited, Has
    <3>3. VisitedOK(entry, order)
      BY <1>3, <2>1 DEF SearchOK
    <3>4. path' \in Seq(Frame) /\ SearchOK(entry, path', order)
      BY <1>1, <1>2, <1>3, <2>1, <2>2, <2>3, <2>4, <3>1, <3>2, <3>3, Opens
    <3> QED BY <1>1, <1>3, <2>1, <2>6, <3>4, Searches DEF Open
  <2> QED BY <1>9, <2>5, <2>6 DEF Descend
<1>10. ASSUME Leave PROVE OrderInv'
  <2>1. /\ Searching /\ Top.rest = <<>>
        /\ order' = Append(order, Top.file) /\ path' = Callers
        /\ UNCHANGED <<disk, buffers, cache, entry, answer>>
    BY <1>10 DEF Leave
  <2>2. SearchOK(entry, Callers, Append(order, Top.file))
    BY <1>1, <1>3, <2>1, Leaves
  <2>3. Callers \in Seq(Frame) /\ Top.file \in Files
    BY <1>1, <1>3, <2>1, PathParts DEF Frame
  <2>4. Append(order, Top.file) \in Seq(Files)
    BY <1>1, <2>3, HasAppend
  <2> QED BY <1>1, <1>3, <2>1, <2>2, <2>3, <2>4, Searches
<1>11. ASSUME Store PROVE OrderInv'
  <2>1. /\ entry # Nil /\ path = <<>> /\ Return(entry, "order", order)
        /\ cache' = [x \in Entries |-> cache'[x]]
    BY <1>1, <1>11 DEF Store
  <2>2. entry \in Entries /\ SearchOK(entry, path, order)
    BY <1>1, <2>1 DEF SearchInv, OrderTyped
  <2>3. CacheInv'
    BY <1>1, <1>11, <2>1, <2>2, CacheStores
  <2>4. RightAnswer([of |-> entry, kind |-> "order", files |-> order])
    BY <1>1, <1>2, <2>1, <2>2, OrderIsRight
  <2> QED BY <1>1, <2>1, <2>2, <2>3, <2>4, Returns
<1>12. ASSUME NEW f \in Files, NEW t \in ModuleTexts \cup {Absent}, Write(f, t) PROVE OrderInv'
  <2>1. /\ Foreseen(f, t) /\ disk' = [disk EXCEPT ![f] = t] /\ answer' = Nil
        /\ UNCHANGED <<buffers, entry, path, order>>
        /\ cache' = [x \in Entries |-> cache'[x]]
    BY <1>1, <1>12 DEF Write
  <2>2. CacheInv'
    BY <1>1, <1>12, CacheWrites
  <2>3. entry = Nil /\ ~(t = Absent /\ buffers[f] # Nil)
    BY <2>1 DEF Foreseen
  <2>4. OrderTyped'
    BY <1>1, <2>1, <2>3 DEF OrderTyped, Exists
  <2>5. SearchInv'
    BY <1>1, <2>1, <2>3 DEF SearchInv
  <2>6. AnswerIsRight'
    BY <2>1 DEF AnswerIsRight
  <2> QED BY <2>2, <2>4, <2>5, <2>6 DEF OrderInv
<1>13. ASSUME NEW f \in Files, NEW t \in ModuleTexts \cup {Nil}, Type(f, t) PROVE OrderInv'
  <2>1. /\ f \in Buffers /\ Exists(f) /\ entry = Nil
        /\ buffers' = [buffers EXCEPT ![f] = t] /\ answer' = Nil
        /\ UNCHANGED <<disk, cache, entry, path, order>>
    BY <1>13 DEF Type
  <2>2. CacheInv'
    BY <1>1, <2>1, CacheStays
  <2>3. OrderTyped'
    BY <1>1, <2>1 DEF OrderTyped, Exists
  <2>4. SearchInv'
    BY <1>1, <2>1 DEF SearchInv
  <2>5. AnswerIsRight'
    BY <2>1 DEF AnswerIsRight
  <2> QED BY <2>2, <2>3, <2>4, <2>5 DEF OrderInv
<1>14. CASE UNCHANGED orderVars
  <2>1. UNCHANGED <<disk, buffers, cache, entry, path, order, answer>>
    BY <1>14 DEF orderVars
  <2>2. CacheInv' /\ AnswerIsRight'
    BY <1>1, <2>1, CacheStays, SameAnswer
  <2>3. OrderTyped'
    BY <1>1, <2>1 DEF OrderTyped, Exists
  <2>4. SearchInv'
    <3>1. CASE entry = Nil
      BY <1>1, <2>1, <3>1 DEF SearchInv
    <3>2. CASE entry # Nil
      <4>1. PICK e, p, o : e = entry /\ p = path /\ o = order
        OBVIOUS
      <4>2. SearchOK(entry, path, order)'
        BY <1>1, <2>1, <3>2, <4>1, SearchStays DEF SearchInv
      <4> QED BY <2>1, <3>2, <4>2 DEF SearchInv
    <3> QED BY <3>1, <3>2
  <2> QED BY <2>2, <2>3, <2>4 DEF OrderInv
<1> QED BY <1>4, <1>6, <1>7, <1>8, <1>9, <1>10, <1>11, <1>12, <1>13, <1>14 DEF OrderNext

(* Whatever the files import and wherever they are looked for, the answer   *)
(* of resolve_imports, searched or remembered, is the right one for the     *)
(* texts as they are, if files change only as the cache foresees.           *)
THEOREM TheAnswerIsRight == ASSUME Changes = {} PROVE OrderSpec => []AnswerIsRight
<1>1. OrderInv => AnswerIsRight
  BY DEF OrderInv
<1> QED BY <1>1, OrderInvInit, OrderInvNext, PTL DEF OrderSpec

=============================================================================
