-------------------------------- MODULE Dce --------------------------------
(***************************************************************************)
(* What a bundle contains: generate_bundle and its dead-code elimination   *)
(* (pengu_codegen/bundle.py, pengu_dce.py).  A command says which pass     *)
(* decides about the weaves: the exact one, which translates the bodies    *)
(* and looks for symbols in the C text it gets ("std", and "user" where    *)
(* the project's own weaves are prunable too), the one by name ("test"),   *)
(* or none ("off"); and whether types and constants are pruned as well.    *)
(*                                                                         *)
(* A C text is the set of the symbols it refers to; `words` are the other  *)
(* identifiers of a body (locals, fields, strings) that look like symbols. *)
(* A constant is its C identifier, which is not always its name: one that  *)
(* has the name of a word of C is written with an underscore (_c_ident).   *)
(* The order of the queue and of the words of a text is left open.         *)
(***************************************************************************)
EXTENDS Naturals

CONSTANTS
  Weaves, Lambdas, Blocks, Consts, Types, Variants,  \* what a bundle defines:
                 \* a block is a derived helper, a variant that of a simple omen
  Shorts,        \* names of weaves that are no C symbols
  Keywords,      \* words of C that are names of constants
  Programs,      \* the programs that are compiled, see Program
  Surprises,     \* what the passes do not see and programs may do all the same
  MaxCalls,      \* bound: generate_bundle() on one generator
  None

Texts == Weaves \cup Lambdas \cup Blocks \cup Consts

ASSUME SymbolsAssumption ==  \* a symbol is of one kind
  /\ Weaves \cap (Lambdas \cup Blocks \cup Consts \cup Types) = {}
  /\ Blocks \cap (Lambdas \cup Consts \cup Types) = {} /\ Lambdas \cap Consts = {}
  /\ Shorts \cap Weaves = {}
  /\ Keywords \cap (Weaves \cup Blocks \cup Consts \cup Types \cup Variants) = {}

Idents == Weaves \cup Blocks \cup Consts \cup Types \cup Variants \cup Shorts \cup Keywords

Modes == {"std", "user", "test", "off"}
Exact == {"std", "user"}

Program ==
  [home    : [Weaves -> {"main", "export", "user", "std", "instance", "late"}],
   short   : [Weaves -> Shorts],
   called  : SUBSET Shorts,                         \* those that a parenthesis follows
   name    : [Consts -> Consts \cup Keywords],      \* what the program calls them
   text    : [Texts -> SUBSET Idents],
   words   : [Weaves -> SUBSET Idents],
   owner   : [Lambdas -> Weaves],                   \* whose body has the lambda
   sig     : [Weaves \cup Consts -> SUBSET Types],  \* prototypes, types of constants
   needs   : [Types -> SUBSET Types],               \* what a definition refers to
   of      : [Blocks -> Types],                     \* the type a block is derived for
   brings  : [Weaves -> SUBSET Types],              \* types only an instance has
   variant : [Variants -> Types],                   \* the omen of a variant, and the
   guess   : [Variants -> Types],                   \* first whose name begins its name
   glue    : SUBSET Idents,                         \* the project's C sources
   tests   : SUBSET Idents,                         \* the bodies of test blocks
   modes   : SUBSET Modes]                          \* the commands it is compiled with

LateOf(p) == {w \in Weaves : p.home[w] = "late"}
LateTypesOf(p) == UNION {p.brings[w] : w \in LateOf(p)}

(* What every program is like but for the surprises.  "derive": a type that *)
(* comes with an instance collected late has derived helpers.  "hidden": a  *)
(* word of a text looks like an instance that is collected later on.        *)
(* "variant": the name of an omen begins that of another.  "unseen": bodies *)
(* that only bring up instances when they are translated are compiled       *)
(* without the exact pass, and "byname": lambdas of prunable weaves and     *)
(* constants use prunable weaves and are compiled for tests.                *)
Unsurprising(p) ==
  LET lates == LateOf(p)
      std == {w \in Weaves : p.home[w] = "std"}
  IN  /\ "derive" \in Surprises \/ \A b \in Blocks : p.of[b] \notin LateTypesOf(p)
      /\ "hidden" \in Surprises
           \/ \A N \in {p.words[w] : w \in Weaves} \cup {p.glue} : N \cap lates = {}
      /\ "variant" \in Surprises \/ p.guess = p.variant
      /\ "unseen" \in Surprises \/ lates = {} \/ p.modes \subseteq Exact
      /\ "byname" \in Surprises \/ "test" \notin p.modes
           \/ /\ \A c \in Consts : p.text[c] \cap std = {}
              /\ \A l \in Lambdas : p.owner[l] \in std => p.text[l] \cap std = {}

\* What the checker and the generator see to: helpers call helpers only, and a
\* type that comes with a late instance is not named without it; the name of an
\* instance is its symbol, and that of a constant unless it is a word of C.
WellFormed(p) ==
  LET lates == LateTypesOf(p)
      Bring(i, t) == i \in LateOf(p) /\ t \in p.brings[i]
  IN  /\ \A c \in Consts : p.name[c] \in {c} \cup Keywords
      /\ \A b \in Blocks : p.text[b] \subseteq Blocks \cup (Types \ lates)
      /\ \A x \in Texts \ Blocks :
           \A t \in lates \cap (p.text[x] \cup (IF x \in Lambdas THEN {} ELSE p.sig[x])) :
             \E i \in p.text[x] \cup {x} : Bring(i, t)
      /\ \A t \in Types : \A u \in lates \cap p.needs[t] :
           t \in lates /\ \A i \in Weaves : Bring(i, t) => Bring(i, u)
      /\ \A w \in Weaves : p.home[w] \in {"instance", "late"} =>
           p.short[w] \notin UNION ({p.text[x] : x \in Texts} \cup {p.words[x] : x \in Weaves}
                                      \cup {p.glue, p.tests})
      /\ \A v \in Variants : {p.variant[v], p.guess[v]} \cap lates = {}

ASSUME DceAssumption ==
  \A p \in Programs : p \in Program /\ WellFormed(p) /\ Unsurprising(p)

VARIABLES
  program,      \* what is compiled
  cmd,          \* the running call, [mode, prune]; None before the first
  calls,        \* how many there were
  phase,        \* "idle", "seed", "discover", "emit" or "done"
  all,          \* _dce_all_weaves
  weaves,       \* self.weaves, and the catalog while they are discovered
  queued, live, \* the worklist: queued \ live is the queue
  registered,   \* late instances in the tables of the checker
  tried,        \* _dce_materialized
  types,        \* the types registered so far
  units,        \* the derived blocks of the types known when the call began
  bundle        \* what was emitted

vars == <<program, cmd, calls, phase, all, weaves, queued, live, registered,
          tried, types, units, bundle>>

Home(w) == program.home[w]
Late == LateOf(program)
LateTypes == LateTypesOf(program)
Text(S) == UNION {program.text[x] : x \in S}
Seen(S) == Text(S) \cup UNION {program.words[w] : w \in S \cap Weaves}
Signatures(S) == UNION {program.sig[x] : x \in S}

\* The least set that contains `roots` and, with an element, what it leads to.
Least(roots, universe, leads) ==
  {x \in universe : \A S \in SUBSET universe :
     roots \cap universe \subseteq S
       /\ (\A y \in S : leads[y] \cap universe \subseteq S) => x \in S}

Init ==
  /\ program \in Programs
  /\ cmd = None /\ calls = 0 /\ phase = "idle"
  /\ all = {} /\ weaves = Weaves \ Late
  /\ queued = {} /\ live = {} /\ tried = {} /\ units = {} /\ bundle = None
  /\ registered = Text(Lambdas) \cap Late
  /\ types = Types \ LateTypes

-----------------------------------------------------------------------------
(* A call begins: the catalog is completed, the pass by name runs.          *)

Exported(w) == Home(w) \in {"main", "export"}

\* What the pass by name keeps: what is not prunable and instances, the weaves
\* that tests mention, and what those mention; a short name keeps every weave
\* that has it.
KeptByName(catalog) ==
  LET mentioned(N) == {w \in catalog : w \in N \/ program.short[w] \in N}
      refs == [w \in catalog |-> mentioned(
                 Text({w} \cup {l \in Lambdas : program.owner[l] = w}))]
  IN  Least({w \in catalog : Home(w) # "std"} \cup mentioned(program.tests),
            catalog, refs)

\* (A mistake: what the previous call left.)
ForgetsPruned == weaves

Snapshot == all \cup weaves

Generate(mode, prune) ==
  /\ phase \in {"idle", "done"} /\ calls < MaxCalls /\ mode \in program.modes
  /\ cmd' = [mode |-> mode, prune |-> prune] /\ calls' = calls + 1
  /\ all' = Snapshot
  /\ weaves' = IF mode = "test" THEN KeptByName(Snapshot) ELSE Snapshot
  /\ queued' = {} /\ live' = {} /\ tried' = {}
  /\ units' = {b \in Blocks : program.of[b] \in types}
  /\ registered' = registered \cup (Text(Consts) \cap Late)
  /\ phase' = IF mode \in Exact THEN "seed" ELSE "emit"
  /\ UNCHANGED <<program, types, bundle>>

-----------------------------------------------------------------------------
(* The exact pass.                                                          *)

\* (A mistake: instances survive whoever calls them.)
InstancesAreRoots(w) ==
  Exported(w) \/ Home(w) \in {"instance", "late"}
    \/ (cmd.mode = "std" /\ Home(w) = "user")

IsRoot(w) == Exported(w) \/ (cmd.mode = "std" /\ Home(w) = "user")

\* (A mistake: the tables as they were before the body was translated.)
StaleTables(names, tables) == (names \cap registered) \ (weaves \cup tried)

\* The instances collected because a text names them: those in the tables,
\* unless the name was looked up before.
Materialized(names, tables) == (names \cap tables) \ (weaves \cup tried)

\* _scan_c_text: the weaves named, the instances collected for it, and those
\* of a short name that is called and no symbol.
Scan(names, tables) ==
  LET new == Materialized(names, tables)
  IN  /\ queued' = queued \cup (names \cap (weaves \cup new))
                     \cup {w \in all : program.short[w] \in names \cap program.called}
                     \cup (IF phase = "seed" THEN {w \in all : IsRoot(w)} ELSE {})
      /\ tried' = tried \cup ((names \cap Idents) \ weaves)
      /\ weaves' = weaves \cup new
      /\ types' = types \cup UNION {program.brings[w] : w \in new}
      /\ registered' = tables

ExtraTexts ==
  Text(Lambdas \cup units \cup Consts)
    \cup (IF cmd.mode = "user" THEN program.glue ELSE {})

Seed ==
  /\ phase = "seed"
  /\ Scan(ExtraTexts, registered)
  /\ phase' = "discover"
  /\ UNCHANGED <<program, cmd, calls, all, live, units, bundle>>

Translate(w) ==
  /\ phase = "discover" /\ w \in queued \ live
  /\ live' = live \cup {w}
  /\ Scan(Seen({w}), registered \cup (Text({w}) \cap Late))
  /\ UNCHANGED <<program, cmd, calls, phase, all, units, bundle>>

Discovered ==
  /\ phase = "discover" /\ queued \subseteq live
  /\ weaves' = live
  /\ phase' = "emit"
  /\ UNCHANGED <<program, cmd, calls, all, queued, live, registered, tried,
                 types, units, bundle>>

-----------------------------------------------------------------------------
(* The other sections, once it is known that the weaves W are kept.         *)

\* prune_derived_implementations: helpers are static, only the bundle calls them.
KeptBlocks(W) ==
  IF cmd.mode \in Exact
  THEN Least(Seen(W \cup Lambdas \cup Consts), units, program.text)
  ELSE units

LiveText(W) == Seen(W \cup Lambdas \cup KeptBlocks(W))

Pruning == cmd.prune /\ cmd.mode \in Exact

\* compute_live_consts, prune_constants: the names of the constants are looked up
\* in texts that have their C identifiers.
KeptConsts(W) ==
  LET mentioned(N) == {c \in Consts : program.name[c] \in N}
      refs == [c \in Consts |-> mentioned(program.text[c])]
  IN  IF Pruning THEN Least(mentioned(LiveText(W)), Consts, refs) ELSE Consts

\* A variant keeps the omen whose name is found first in its own.
KeptTypes(W) ==
  LET names == LiveText(W) \cup Text(KeptConsts(W)) \cup Signatures(W \cup KeptConsts(W))
      roots == names \cup {program.guess[v] : v \in names \cap Variants}
  IN  IF Pruning THEN Least(roots, types, program.needs) ELSE types

Sections(W) ==
  [cmd |-> cmd, weaves |-> W, blocks |-> KeptBlocks(W),
   consts |-> KeptConsts(W), types |-> KeptTypes(W)]

Emit ==
  /\ phase = "emit"
  /\ bundle' = Sections(weaves)
  /\ registered' = registered \cup (Text(weaves) \cap Late)
  /\ phase' = "done"
  /\ UNCHANGED <<program, cmd, calls, all, weaves, queued, live, tried, types,
                 units>>

Next ==
  \/ \E mode \in Modes, prune \in BOOLEAN : Generate(mode, prune)
  \/ Seed
  \/ \E w \in Weaves : Translate(w)
  \/ Discovered
  \/ Emit

Spec == Init /\ [][Next]_vars

-----------------------------------------------------------------------------
Named(b) ==
  Text(b.weaves \cup Lambdas \cup b.blocks \cup b.consts)
    \cup Signatures(b.weaves \cup b.consts)
    \cup (UNION {program.needs[t] : t \in b.types})
    \cup (IF cmd.mode = "test" THEN program.tests ELSE {})

Defined(b) ==
  b.weaves \cup b.blocks \cup b.consts \cup b.types
    \cup {v \in Variants : program.variant[v] \in b.types}

\* The constants that are not called what they are in C.
Renamed == {c \in Consts : program.name[c] # c}

\* A bundle defines every symbol it refers to, whatever was pruned and by which
\* of the passes, in every call (test_dce.py:370,
\* test_generated_c_has_no_implicit_declarations).  The one exception is a constant
\* that has the name of a word of C: --prune-types looks for that name where the
\* texts have `_name`, and may drop the constant though it is used
\* (constants.py:178); nothing that such a constant refers to is missing.
BundleIsClosed ==
  phase = "done" =>
    Named(bundle) \ (Shorts \cup Keywords)
      \subseteq Defined(bundle) \cup (IF Pruning THEN Renamed ELSE {})

\* The same command again gives the same bundle, instances that the first call
\* collected included (bundle.py:96, "safe to call twice").
SameBundleAgain ==
  [][Emit /\ bundle # None /\ bundle.cmd = cmd => bundle' = bundle]_vars

\* What a set of identifiers can bring into a bundle.
Reached(N) == {w \in Weaves : w \in N \/ program.short[w] \in N \cap program.called}

\* The entry point, what is exported and, in a plain build, the project's own.
Roots ==
  {w \in Weaves : Home(w) \in {"main", "export"}
                    \/ (Home(w) = "user" /\ cmd.mode = "std")}

\* The exact pass keeps nothing that is not reached from its roots and from the
\* sections that are no bodies: instances and std weaves that only dead code
\* names are gone (bundle.py, _discover_reachable_weaves).
KeepsOnlyReachable ==
  phase = "done" /\ cmd.mode \in Exact =>
    \A S \in SUBSET Weaves :
      /\ Roots \cup Reached(ExtraTexts) \subseteq S
      /\ \A w \in S : Reached(Seen({w})) \subseteq S
      => bundle.weaves \subseteq S
=============================================================================
