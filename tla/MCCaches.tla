------------------------------ MODULE MCCaches ------------------------------
(* Instances of the two caches of a build for TLC: BundleCache (pengu      *)
(* build) and ScriptCache (pengu run of a script).  They share nothing, so *)
(* a behaviour is one of one cache, drawn in the initial state; the other  *)
(* stays as it was.                                                        *)
EXTENDS BundleCache, ScriptCache, TLC

CONSTANTS Subjects,                                 \* the caches that are used
          main, near, far, util, plain, importing, other         \* ScriptCache

VARIABLE subject

(* The entry imports a module or not; the module has two versions, may be  *)
(* missing, and is looked for in one place, or in two when far is a file.  *)
MCVersions(f) == IF f = main THEN {plain, importing} ELSE {plain, other}
MCImports(t) == IF t = importing THEN {util} ELSE {}
MCSearch(m) == IF far \in Files THEN <<near, far>> ELSE <<near>>

cachesVars == <<subject, vars, scriptVars>>

CachesInit ==
    /\ subject \in Subjects /\ Init /\ ScriptInit
    /\ subject # "bundle" => src = CHOOSE s \in Sources : TRUE
    /\ subject # "bundle" => \A p, q \in Processes : mine[p] = mine[q]
    /\ subject # "script" => disk = [f \in Files |-> plain]

BundleStep == subject = "bundle" /\ Next /\ UNCHANGED <<subject, scriptVars>>
ScriptStep == subject = "script" /\ ScriptNext /\ UNCHANGED <<subject, vars>>

CachesNext == BundleStep \/ ScriptStep

CachesSpec == CachesInit /\ [][CachesNext]_cachesVars

Symmetry == Permutations(Processes) \union Permutations(Runs)
                \union Permutations(Headers) \union Permutations(Configs)
=============================================================================
