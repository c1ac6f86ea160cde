-------------------------------- MODULE MCDce --------------------------------
(* Instances of Dce and ImportOrder for TLC: the modules of a program, in  *)
(* the order of the bundle, and what the bundle keeps of them.  They share *)
(* nothing, so a behaviour is one of one of them, drawn in the initial     *)
(* state; the other stays as it was.                                       *)
EXTENDS Dce, ImportOrder, TLC

CONSTANTS main, user, s1, s2, inst, late,     \* weaves
          lamU, lamS, b1, b2, bl, c1, c2,     \* lambdas, derived blocks, constants
          t1, t2, tl, v, n, m, kw,            \* types, a variant, short names, a word of C
          test, glue, look, sig, type,        \* marks of the other references
          bare, named,
          MaxEdges,
          app, util, near, wrap, decl,        \* files
          Util, Wrap,                         \* modules
          none, utilOnly, wrapOnly, utilWrap, wrapUtil   \* texts by their imports

VARIABLE subject   \* what is computed

(* The entry imports a module that is found in two places and a wrapper    *)
(* with declarations beside it; they may import each other, or be missing. *)
MCImports ==
  (none :> <<>>) @@ (utilOnly :> <<Util>>) @@ (wrapOnly :> <<Wrap>>)
    @@ (utilWrap :> <<Util, Wrap>>) @@ (wrapUtil :> <<Wrap, Util>>)
MCFiles == {app, util, near, wrap, decl}
MCSearch ==
  [f \in MCFiles |->
     (Util :> IF f = app THEN <<near, util>> ELSE <<util>>) @@ (Wrap :> <<wrap>>)]
MCCompanion == [f \in MCFiles |-> IF f = wrap THEN decl ELSE Nil]
MCVersions ==
  (app :> {utilWrap, wrapUtil}) @@ (util :> {none, wrapOnly, Absent})
    @@ (near :> {wrapOnly, Absent}) @@ (wrap :> {none, utilOnly, Absent})
    @@ (decl :> {none, Absent})

MCEntries == {app, wrap}
MCModules == {Util, Wrap}
MCModuleTexts == {none, utilOnly, wrapOnly, utilWrap, wrapUtil}
MCBuffers == {util}

bundleVars == <<subject, vars, orderVars>>

SomeProgram == CHOOSE p \in Programs : TRUE
SomeDisk == [f \in MCFiles |-> CHOOSE t \in MCVersions[f] : TRUE]

BundleInit ==
  /\ \/ subject = "order" /\ program = SomeProgram
     \/ subject = "contents" /\ disk = SomeDisk
  /\ Init /\ OrderInit

OrderStep == subject = "order" /\ OrderNext /\ UNCHANGED <<subject, vars>>
ContentsStep == subject = "contents" /\ Next /\ UNCHANGED <<subject, orderVars>>

BundleNext == OrderStep \/ ContentsStep

BundleSpec == BundleInit /\ [][BundleNext]_bundleVars

-----------------------------------------------------------------------------
MCWeaves == {main, user, s1, s2, inst, late}
MCLambdas == {lamU, lamS}
MCBlocks == {b1, b2, bl}
MCConsts == {c1, c2}
MCTypes == {t1, t2, tl}
MCVariants == {v}
MCShorts == {n, m}
MCKeywords == {kw}

\* The references a program may have, as pairs <<from, to>>.
Edges ==
  ({main} \X {s1, inst, late, b1, c1, n, v, user})
    \cup ({user} \X {s2, late, c1}) \cup ({s1} \X {s2, late, b1, c1})
    \cup ({inst, late} \X {s1, s2}) \cup {<<s2, s1>>, <<inst, late>>, <<late, bl>>}
    \cup ({lamU} \X {s2, b2, c1, late}) \cup ({lamS} \X {s2, b1})
    \cup {<<b1, b2>>} \cup ({c1} \X {c2, s1})
    \cup {<<test, s1>>, <<test, n>>, <<glue, user>>, <<glue, late>>,
         <<type, t2>>, <<sig, t1>>, <<bare, n>>, <<named, c1>>, <<lamU, kw>>,
         <<look, late>>}

\* The program with the references E.  The instance is collected late only if
\* the program has it at all.
Given(E, begins) ==
  LET to(x) == {e[2] : e \in {f \in E : f[1] = x}}
      there == {e[2] : e \in E}
      isLate == late \in there
      byName == \E e \in E : e[1] \in {c1, lamS} /\ e[2] \in {s1, s2}
      with(x) == IF isLate /\ late \in to(x) \cup {x} THEN {tl} ELSE {}
  IN [home |-> [w \in MCWeaves |->
                  CASE w = main -> "main" [] w = user -> "user"
                    [] w = inst -> "instance"
                    [] w = late /\ isLate -> "late" [] OTHER -> "std"],
      short |-> [w \in MCWeaves |-> IF w \in {s1, user} THEN n ELSE m],
      called |-> MCShorts \ to(bare),
      name |-> [c \in MCConsts |-> IF c \in to(named) THEN kw ELSE c],
      text |-> [x \in MCWeaves \cup MCLambdas \cup MCBlocks \cup MCConsts |->
                  to(x) \cup with(x) \cup (IF x = b2 THEN {t2} ELSE {})],
      words |-> [w \in MCWeaves |-> IF w = user THEN to(look) ELSE {}],
      owner |-> [l \in MCLambdas |-> IF l = lamU THEN user ELSE s1],
      sig |-> [x \in MCWeaves \cup MCConsts |-> IF x = s1 THEN to(sig) ELSE {}],
      needs |-> [t \in MCTypes |-> IF t = t1 THEN to(type) ELSE {}],
      of |-> [b \in MCBlocks |->
                CASE b = bl /\ {late, bl} \subseteq there -> tl [] b = b2 -> t2 [] OTHER -> t1],
      brings |-> [w \in MCWeaves |-> IF w = late THEN with(late) ELSE {}],
      variant |-> [x \in {v} |-> t2],
      guess |-> [x \in {v} |-> IF begins THEN t1 ELSE t2],
      glue |-> to(glue),
      tests |-> to(test),
      modes |-> {"std", "user"}
        \cup (IF isLate /\ "unseen" \notin Surprises THEN {} ELSE {"off"})
        \cup (IF \/ isLate /\ "unseen" \notin Surprises
                 \/ byName /\ "byname" \notin Surprises THEN {} ELSE {"test"})]

\* References that only surprising programs have.
Hidden == {<<look, late>>, <<glue, late>>}
Derived == {<<late, bl>>}

MCPrograms ==
  LET usual == Edges \ ((IF "hidden" \in Surprises THEN {} ELSE Hidden)
                          \cup (IF "derive" \in Surprises THEN {} ELSE Derived))
      begins == IF "variant" \in Surprises THEN BOOLEAN ELSE {FALSE}
      pairs == {{e, f} : e \in usual, f \in usual}
      sets == IF MaxEdges = 2 THEN pairs
              ELSE {E \cup {e} : E \in pairs, e \in usual}
  IN  {Given(E, b) : E \in sets, b \in begins}
=============================================================================
