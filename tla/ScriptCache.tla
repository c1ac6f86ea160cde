---------------------------- MODULE ScriptCache ----------------------------
(***************************************************************************)
(* pengu run script.pengu and its two caches (run_script in                *)
(* pengu_project.py, pengu_cache.py): the module list of the entry file    *)
(* and the compiled binary, both shared by every process of the user and   *)
(* both identified by the content of the files.  A run reads the files     *)
(* four times: to validate or resolve the list, to record its digests, to  *)
(* compute the key and to compile.  Runs, the garbage collector and an     *)
(* editor interleave; a process may be killed anywhere.                    *)
(*                                                                         *)
(* A digest stands for the content it is the digest of.  A binary is the   *)
(* contents it was compiled from, and so is a key, so a cache entry is     *)
(* right when the two are the same.  Reading a set of files is one step.   *)
(* A module is looked for in several places, and the first file that       *)
(* exists is it (find_module_path).                                        *)
(***************************************************************************)
EXTENDS Integers, Sequences, FiniteSets

CONSTANTS Runs,
          Files, Main,        \* the paths of source files, and the entry's
          Texts,              \* the contents of files
          Modules,            \* the names of modules
          Versions(_),        \* the texts that a file may have
          ImportsOf(_),       \* the modules that a text imports
          Search(_),          \* the paths where a module is looked for, in order
          EditsDuringRuns,    \* TRUE: files may change while a run is going on
          Nothing, Partial,   \* no entry; a file that is being written
          Absent              \* the content of a file that does not exist

ASSUME ScriptAssumption ==
    /\ Main \in Files
    /\ EditsDuringRuns \in BOOLEAN
    /\ Absent \notin Texts
    /\ \A f \in Files : Versions(f) \subseteq Texts
    /\ \A t \in Texts : ImportsOf(t) \subseteq Modules
    /\ \A m \in Modules : Search(m) \in Seq(Files)

VARIABLES disk,    \* the contents on disk
          lists,   \* imports/: content of the entry -> list with digests
          bins,    \* scripts/: key -> binary
          at,      \* where each process is
          mods,    \* its module_order
          key,     \* its cache_key; Nothing when it does without the cache
          built,   \* the binary in its build directory
          target   \* run_target: "cache" or "artifact"

scriptVars == <<disk, lists, bins, at, mods, key, built, target>>
run == <<mods, key, built, target>>

Contents(names) == [f \in names |-> disk[f]]
Snapshots == {c \in UNION {[S -> Texts \union {Absent}] : S \in SUBSET Files} :
                 \A f \in DOMAIN c : c[f] \in Versions(f) \union {Absent}}

ASSUME NothingAssumption == {Nothing, Partial} \intersect Snapshots = {}

Exists(f) == disk[f] # Absent
\* find_module_path: the first that exists; nothing if none does
Found(m) == {Search(m)[i] : i \in {j \in DOMAIN Search(m) :
    Exists(Search(m)[j]) /\ \A h \in 1 .. j - 1 : ~Exists(Search(m)[h])}}
Imported(S) == UNION {ImportsOf(disk[f]) : f \in S}

\* resolve_imports: the entry, what it imports, what that imports, and so on
Needs(S) == UNION {Found(m) : m \in Imported(S)}
Closed(S) == Main \in S /\ Needs(S) \subseteq S
Closure == CHOOSE S \in SUBSET {f \in Files : Exists(f)} :
    Closed(S) /\ \A T \in SUBSET {f \in Files : Exists(f)} : Closed(T) => S \subseteq T
Resolves == \A m \in Imported(Closure) : Found(m) # {}

MoveTo(p, label) == at' = [at EXCEPT ![p] = label]

ScriptInit ==
    /\ disk \in {c \in [Files -> Texts \union {Absent}] :
                     c[Main] # Absent /\ \A f \in Files : c[f] \in Versions(f) \union {Absent}}
    /\ lists = [t \in Texts |-> Nothing]
    /\ bins = [k \in Snapshots |-> Nothing]
    /\ at = [p \in Runs |-> "idle"]
    /\ mods = [p \in Runs |-> {}]
    /\ key = [p \in Runs |-> Nothing]
    /\ built = [p \in Runs |-> Nothing]
    /\ target = [p \in Runs |-> "artifact"]

-----------------------------------------------------------------------------
StartRun(p) ==
    /\ at[p] = "idle"
    /\ key' = [key EXCEPT ![p] = Nothing]
    /\ MoveTo(p, "list")
    /\ UNCHANGED <<disk, lists, bins, mods, built, target>>

\* load_module_list: the list of this entry, every file still as recorded
Fresh(list) == list # Nothing /\ list = Contents(DOMAIN list)

UseList(p) ==
    /\ mods' = [mods EXCEPT ![p] = DOMAIN lists[disk[Main]]]
    /\ MoveTo(p, "key")
    /\ UNCHANGED <<disk, lists, bins, key, built, target>>

ListHit(p) ==
    /\ at[p] = "list"
    /\ Fresh(lists[disk[Main]])
    /\ UseList(p)

ListMiss(p) ==
    /\ at[p] = "list"
    /\ ~Fresh(lists[disk[Main]])
    /\ Resolves
    /\ mods' = [mods EXCEPT ![p] = Closure]
    /\ MoveTo(p, "record")
    /\ UNCHANGED <<disk, lists, bins, key, built, target>>

\* the resolver raises: the builder is left to report it, without the cache
ListFails(p) ==
    /\ at[p] = "list"
    /\ ~Fresh(lists[disk[Main]])
    /\ ~Resolves
    /\ MoveTo(p, "unlisted")
    /\ UNCHANGED <<disk, lists, bins, run>>

\* BUG: the list holds the entry alone
RecordEntry(p) ==
    /\ at[p] = "record"
    /\ lists' = [lists EXCEPT ![disk[Main]] = Contents({Main})]
    /\ MoveTo(p, "key")
    /\ UNCHANGED <<disk, bins, run>>

(* store_module_list: the digests of the files as they are now, under that *)
(* of the entry as it is now; or a file is gone, or an OSError.            *)
Record(p) ==
    /\ at[p] = "record"
    /\ \/ /\ \A f \in mods[p] : Exists(f)
          /\ lists' = [lists EXCEPT ![disk[Main]] = Contents(mods[p])]
       \/ UNCHANGED lists
    /\ MoveTo(p, "key")
    /\ UNCHANGED <<disk, bins, run>>

\* BUG: the key is the content of the entry
ComputeKeyOfEntry(p) ==
    /\ at[p] = "key"
    /\ key' = [key EXCEPT ![p] = Contents({Main})]
    /\ MoveTo(p, "lookup")
    /\ UNCHANGED <<disk, lists, bins, mods, built, target>>

\* script_cache_key; a file that is gone counts as such
ComputeKey(p) ==
    /\ at[p] = "key"
    /\ key' = [key EXCEPT ![p] = Contents(mods[p])]
    /\ MoveTo(p, "lookup")
    /\ UNCHANGED <<disk, lists, bins, mods, built, target>>

\* --no-cache, --ephemeral, PENGU_CACHE=0: no key
NoKey(p) ==
    /\ at[p] = "key"
    /\ MoveTo(p, "compile")
    /\ UNCHANGED <<disk, lists, bins, run>>

Hit(p) ==
    /\ at[p] = "lookup"
    /\ bins[key[p]] # Nothing
    /\ target' = [target EXCEPT ![p] = "cache"]
    /\ MoveTo(p, "exec")
    /\ UNCHANGED <<disk, lists, bins, mods, key, built>>

\* nothing there; or --keep, which builds in any case
Miss(p) ==
    /\ at[p] = "lookup"
    /\ MoveTo(p, "compile")
    /\ UNCHANGED <<disk, lists, bins, run>>

(* The builder compiles the files of module_order as it finds them, or     *)
(* resolves the imports itself.  An import that it cannot resolve, or that *)
(* resolves to a module that is not in the list, or a file that is gone,   *)
(* is an error that ends the run; so is any other error in the program.    *)
Builds(p, order) ==
    /\ \A f \in order : Exists(f)
    /\ Needs(order) \subseteq order
    /\ \A m \in Imported(order) : Found(m) # {}
    /\ built' = [built EXCEPT ![p] = Contents(order)]
    /\ target' = [target EXCEPT ![p] = "artifact"]
    /\ UNCHANGED <<disk, lists, bins, mods, key>>

Compile(p) ==
    /\ at[p] \in {"compile", "unlisted"}
    /\ Builds(p, IF at[p] = "compile" THEN mods[p] ELSE Closure)
    /\ MoveTo(p, IF key[p] = Nothing THEN "exec" ELSE "copy")

CompileFails(p) ==
    /\ at[p] \in {"compile", "unlisted"}
    /\ MoveTo(p, "idle")
    /\ UNCHANGED <<disk, lists, bins, run>>

\* BUG: the binary is copied straight to its place
StoreCopyInPlace(p) ==
    /\ at[p] = "copy"
    /\ bins' = [bins EXCEPT ![key[p]] = Partial]
    /\ MoveTo(p, "replace")
    /\ UNCHANGED <<disk, lists, run>>

\* store_cached_binary: copy2 to a name of its own
StoreCopy(p) ==
    /\ at[p] = "copy"
    /\ MoveTo(p, "replace")
    /\ UNCHANGED <<disk, lists, bins, run>>

\* os.replace; or an OSError on the way, and nothing is stored
StoreReplace(p) ==
    /\ at[p] = "replace"
    /\ \/ bins' = [bins EXCEPT ![key[p]] = built[p]]
       \/ UNCHANGED bins
    /\ MoveTo(p, "choose")
    /\ UNCHANGED <<disk, lists, run>>

\* run_target = lookup_cached_binary(cache_key) or artifact
Choose(p) ==
    /\ at[p] = "choose"
    /\ target' = [target EXCEPT ![p] = IF bins[key[p]] # Nothing THEN "cache" ELSE "artifact"]
    /\ MoveTo(p, "exec")
    /\ UNCHANGED <<disk, lists, bins, mods, key, built>>

\* what the operating system finds at run_target
Image(p) == IF target[p] = "cache" THEN bins[key[p]] ELSE built[p]

Exec(p) ==
    /\ at[p] = "exec"
    /\ MoveTo(p, "idle")
    /\ UNCHANGED <<disk, lists, bins, run>>

RunKilled(p) ==
    /\ at[p] # "idle"
    /\ MoveTo(p, "idle")
    /\ UNCHANGED <<disk, lists, bins, run>>

-----------------------------------------------------------------------------
\* gc_script_cache, clear_script_cache, one entry at a time
Collect(k) ==
    /\ bins[k] # Nothing
    /\ bins' = [bins EXCEPT ![k] = Nothing]
    /\ UNCHANGED <<disk, lists, at, run>>

\* a file is written, created or deleted
Edit(f, t) ==
    /\ EditsDuringRuns \/ \A p \in Runs : at[p] = "idle"
    /\ t \in Versions(f) \/ (t = Absent /\ f # Main)
    /\ disk' = [disk EXCEPT ![f] = t]
    /\ UNCHANGED <<lists, bins, at, run>>

ScriptNext ==
    \/ \E p \in Runs :
        \/ StartRun(p) \/ ListHit(p) \/ ListMiss(p) \/ ListFails(p) \/ Record(p)
        \/ ComputeKey(p) \/ NoKey(p) \/ Hit(p) \/ Miss(p) \/ Compile(p) \/ CompileFails(p) \/ StoreCopy(p)
        \/ StoreReplace(p) \/ Choose(p) \/ Exec(p) \/ RunKilled(p)
    \/ \E k \in Snapshots : Collect(k)
    \/ \E f \in Files, t \in Texts \union {Absent} : Edit(f, t)

ScriptSpec == ScriptInit /\ [][ScriptNext]_scriptVars

-----------------------------------------------------------------------------
RunLabels == {"idle", "list", "record", "key", "lookup", "unlisted", "compile",
           "copy", "replace", "choose", "exec"}

ScriptTypeOK ==
    /\ disk \in [Files -> Texts \union {Absent}]
    /\ lists \in [Texts -> Snapshots \union {Nothing}]
    /\ bins \in [Snapshots -> Snapshots \union {Nothing, Partial}]
    /\ at \in [Runs -> RunLabels]
    /\ mods \in [Runs -> SUBSET Files]
    /\ {key, built} \subseteq [Runs -> Snapshots \union {Nothing}]
    /\ target \in [Runs -> {"cache", "artifact"}]
    /\ \A p \in Runs : at[p] \in {"lookup", "copy", "replace", "choose"} => key[p] # Nothing

(* "a cache hit is always the right binary" (pengu_cache.py:24): what is   *)
(* stored under a key was compiled from the contents the key stands for.   *)
CacheIsRight == \A k \in Snapshots : bins[k] \in {Nothing, k}

(* A list that is found fresh is the one that resolving would give now:    *)
(* "Any edit -- including a new `import` line -- still invalidates the     *)
(* entry through its digest" (pengu_cache.py:446).                         *)
ListIsRight ==
    LET list == lists[disk[Main]] IN Fresh(list) => DOMAIN list = Closure

(* A run executes the program as it is on disk: neither a binary of other  *)
(* contents nor one that another process is still writing, whatever other  *)
(* runs and the collector do (an entry may vanish before the exec).        *)
RunsTheProgram ==
    [][\A p \in Runs : Exec(p) => Image(p) \in {Nothing, Contents(Closure)}]_scriptVars
=============================================================================
