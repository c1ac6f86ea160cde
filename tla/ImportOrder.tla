---------------------------- MODULE ImportOrder ----------------------------
(***************************************************************************)
(* resolve_imports (pengu_symbols.py): the modules a file reaches, each    *)
(* after those it imports, by a three-colour depth-first search, and the   *)
(* cache of earlier answers that a process which lives on (the language    *)
(* server, watch) keeps.  The search reads one file per step; an editor    *)
(* changes files and buffers between the calls.                            *)
(*                                                                         *)
(* A text stands for what it imports, in order.  The signature of a buffer *)
(* is its text, that of a file its time: "now" until the next write makes  *)
(* it one from "before".                                                   *)
(***************************************************************************)
EXTENDS Naturals, Sequences, FiniteSets

CONSTANTS
  Files, Entries,   \* paths, and those that are resolved
  ModuleTexts, Modules,
  ImportsOf,        \* the modules a text imports, in order
  Search,           \* where a file looks for a module: the candidates in order
  Companion,        \* the sibling .d.pengu of a wrapper, Nil without one
  Versions,         \* the texts a file may have on disk, Absent for no file
  Buffers,          \* the files an editor may have open, with unsaved text
  Changes,        \* changes that the cache does not see, see Foreseen
  CacheMax,         \* _IMPORT_ORDER_CACHE_MAX
  Nil, Absent

ASSUME ImportAssumption ==
  /\ Entries \cup Buffers \subseteq Files
  /\ ImportsOf \in [ModuleTexts -> Seq(Modules)]
  /\ Search \in [Files -> [Modules -> Seq(Files)]]
  /\ Companion \in [Files -> Files \cup {Nil}] /\ Nil \notin Files
  /\ Versions \in [Files -> SUBSET (ModuleTexts \cup {Absent})]
  /\ Changes \subseteq {"shadow", "companion", "vanish", "during"}
  /\ CacheMax \in Nat \ {0}
  /\ {Nil, Absent, "now", "before"} \cap ModuleTexts = {}
  /\ Nil \notin {"now", "before"}

VARIABLES
  disk,      \* the text of each file
  buffers,   \* module_sources: unsaved text, Nil for none
  cache,     \* _IMPORT_ORDER_CACHE
  entry,     \* what is being resolved, Nil between calls
  path,      \* the calls of dfs that are open: a file and what it has still to visit
  order,
  answer     \* the last call's, until something changes

orderVars == <<disk, buffers, cache, entry, path, order, answer>>

\* _resolve_module_text: the buffer, else the file
ModuleText(f) == IF buffers[f] # Nil THEN buffers[f] ELSE disk[f]

Exists(f) == disk[f] # Absent

\* _signature_of
Signature(f) ==
  IF buffers[f] # Nil THEN buffers[f] ELSE IF Exists(f) THEN "now" ELSE Nil

\* find_module_path: the first candidate that exists, on disk
Found(f, m) ==
  LET there == {i \in DOMAIN Search[f][m] : Exists(Search[f][m][i])}
  IN  IF there = {} THEN Nil
      ELSE Search[f][m][CHOOSE i \in there : \A j \in there : i <= j]

\* extract_imports: the wrapper's own declarations first
Deps(f) ==
  LET imports == ImportsOf[ModuleText(f)]
      own == IF Companion[f] # Nil /\ Exists(Companion[f]) THEN <<Companion[f]>> ELSE <<>>
  IN  own \o [i \in 1 .. Len(imports) |-> Found(f, imports[i])]

Readable(f) == ModuleText(f) # Absent
Complete(f) == Readable(f) /\ \A i \in DOMAIN Deps(f) : Deps(f)[i] # Nil

OrderInit ==
  /\ disk \in {d \in [Files -> ModuleTexts \cup {Absent}] :
                 \A f \in Files : d[f] \in Versions[f]}
  /\ buffers = [f \in Files |-> Nil]
  /\ cache = [e \in Entries |-> Nil]
  /\ entry = Nil /\ path = <<>> /\ order = <<>> /\ answer = Nil

-----------------------------------------------------------------------------
(* The search.                                                              *)
Return(e, kind, files) ==
  /\ answer' = [of |-> e, kind |-> kind, files |-> files]
  /\ entry' = Nil /\ path' = <<>> /\ order' = <<>>
  /\ UNCHANGED <<disk, buffers>>

Visiting == {path[i].file : i \in DOMAIN path}
Visited == {order[i] : i \in DOMAIN order}

\* dfs(f) for a file not seen before: its imports are read, and all found.
Open(f, callers) ==
  /\ Complete(f)
  /\ path' = Append(callers, [file |-> f, rest |-> Deps(f)])
  /\ UNCHANGED <<disk, buffers, cache, order, answer>>

Missing(f, e) == ~Complete(f) /\ Return(e, "missing", <<>>) /\ UNCHANGED cache

\* (A mistake: only the entry's own text is compared.)
EntryUnchanged(e) ==
  cache[e] # Nil /\ cache[e].signatures[Len(cache[e].order)] = Signature(e)

\* The recorded signatures are those of the files now.
Unchanged(e) ==
  /\ cache[e] # Nil
  /\ cache[e].signatures = [i \in DOMAIN cache[e].order |-> Signature(cache[e].order[i])]

Hit(e) ==
  /\ entry = Nil /\ Unchanged(e)
  /\ Return(e, "order", cache[e].order) /\ UNCHANGED cache

Miss(e) ==
  /\ entry = Nil /\ ~Unchanged(e)
  /\ (Open(e, <<>>) /\ entry' = e) \/ Missing(e, e)

Top == path[Len(path)]
Callers == SubSeq(path, 1, Len(path) - 1)
Searching == entry # Nil /\ path # <<>>

Dep == Head(Top.rest)
Passed == Append(Callers, [Top EXCEPT !.rest = Tail(@)])

Cycle ==
  /\ Searching /\ Top.rest # <<>> /\ Dep \in Visiting
  /\ Return(entry, "cycle", <<>>) /\ UNCHANGED cache

Skip ==
  /\ Searching /\ Top.rest # <<>> /\ Dep \in Visited
  /\ path' = Passed
  /\ UNCHANGED <<disk, buffers, cache, entry, order, answer>>

Descend ==
  /\ Searching /\ Top.rest # <<>> /\ Dep \notin Visiting \cup Visited
  /\ (Open(Dep, Passed) /\ UNCHANGED entry) \/ Missing(Dep, entry)

Leave ==
  /\ Searching /\ Top.rest = <<>>
  /\ order' = Append(order, Top.file)
  /\ path' = Callers
  /\ UNCHANGED <<disk, buffers, cache, entry, answer>>

Entered(c) == {e \in Entries : c[e] # Nil}

\* The whole cache is dropped when it is full.  A file that is gone by now has
\* no signature (Nil); the answer stands all the same.
Store ==
  LET kept == IF Cardinality(Entered(cache)) >= CacheMax
              THEN [e \in Entries |-> Nil] ELSE cache
  IN  /\ entry # Nil /\ path = <<>>
      /\ cache' = [kept EXCEPT ![entry] =
                     [order |-> order,
                      signatures |-> [i \in DOMAIN order |-> Signature(order[i])]]]
      /\ Return(entry, "order", order)

-----------------------------------------------------------------------------
(* The world.                                                               *)

\* Changes whose effect on a resolved program shows in a file of its order.
\* "shadow": a file appears where a search looks and finds another;
\* "companion": declarations appear beside a wrapper that is there, or that can
\* come back with the same unsaved text; "vanish": a file goes that is open in
\* the editor; "during": a change in the middle of a search.
Foreseen(f, t) ==
  /\ "during" \in Changes \/ entry = Nil
  /\ "vanish" \in Changes \/ ~(t = Absent /\ buffers[f] # Nil)
  /\ ~Exists(f) /\ t # Absent =>
       /\ "companion" \in Changes
            \/ \A w \in Files : Companion[w] = f => ~Exists(w) /\ w \notin Buffers
       /\ "shadow" \in Changes
            \/ \A g \in Files, m \in Modules :
                 f \in {Search[g][m][i] : i \in DOMAIN Search[g][m]} => Found(g, m) = Nil

\* No write brings an earlier time back.
Outdated(c, f) ==
  [c EXCEPT !.signatures = [i \in DOMAIN @ |->
     IF c.order[i] = f /\ @[i] = "now" THEN "before" ELSE @[i]]]

Write(f, t) ==
  /\ t \in Versions[f] \ {disk[f]} /\ Foreseen(f, t)
  /\ disk' = [disk EXCEPT ![f] = t]
  /\ cache' = [e \in Entries |-> IF cache[e] = Nil THEN Nil ELSE Outdated(cache[e], f)]
  /\ answer' = Nil
  /\ UNCHANGED <<buffers, entry, path, order>>

Type(f, t) ==
  /\ f \in Buffers /\ t \in Versions[f] \cup {Nil} /\ t \notin {Absent, buffers[f]}
  /\ Exists(f) /\ ("during" \in Changes \/ entry = Nil)
  /\ buffers' = [buffers EXCEPT ![f] = t]
  /\ answer' = Nil
  /\ UNCHANGED <<disk, cache, entry, path, order>>

OrderNext ==
  \/ \E e \in Entries : Hit(e) \/ Miss(e)
  \/ Cycle \/ Skip \/ Descend \/ Leave \/ Store
  \/ \E f \in Files, t \in ModuleTexts \cup {Absent} : Write(f, t)
  \/ \E f \in Files, t \in ModuleTexts \cup {Nil} : Type(f, t)

OrderSpec == OrderInit /\ [][OrderNext]_orderVars

-----------------------------------------------------------------------------
\* The files that f needs: its declarations and what it imports.
Needed(f) ==
  {g \in Files : \/ g = Companion[f] /\ Exists(g)
                 \/ Readable(f) /\ \E i \in DOMAIN ImportsOf[ModuleText(f)] :
                                      g = Found(f, ImportsOf[ModuleText(f)][i])}

Closed(S) == \A f \in S : Needed(f) \subseteq S

ReachedFrom(e) ==
  {f \in Files : \A S \in SUBSET Files : e \in S /\ Closed(S) => f \in S}

Cyclic(S) == \E C \in SUBSET S : C # {} /\ \A f \in C : Needed(f) \cap C # {}

RightAnswer(a) ==
  LET R == ReachedFrom(a.of)
      seq == a.files
  IN  \/ a.kind = "missing" /\ \E f \in R : ~Complete(f)
      \/ a.kind = "cycle" /\ Cyclic(R)
      \/ /\ a.kind = "order"
         /\ ~Cyclic(R) /\ \A f \in R : Complete(f)
         /\ {seq[i] : i \in DOMAIN seq} = R /\ Len(seq) = Cardinality(R)
         /\ \A i \in DOMAIN seq : Needed(seq[i]) \subseteq {seq[j] : j \in 1 .. i - 1}

\* What a call answers, searched or remembered, is right for the texts as they
\* are: an order has every file that is reached once and behind all it needs,
\* there is one unless a file is missing or the imports have a cycle, and the
\* error is one of those there are ("Absolute module paths in dependency-first
\* order, ending with the entry", resolve_imports).
AnswerIsRight == answer # Nil => RightAnswer(answer)
=============================================================================
