----------------------------- MODULE CacheProofs -----------------------------
(***************************************************************************)
(* Proofs about the two caches of a build, for any number of processes and *)
(* any files, texts and configurations.                                    *)
(*                                                                         *)
(* BundleCache: the types always hold; that the cache is right, and builds *)
(* nothing twice, is proved under the assumption Careful: one build at a   *)
(* time, no edit while it goes on, and no death just before .bundle_hash   *)
(* is opened.                                                              *)
(*                                                                         *)
(* ScriptCache: the types always hold; while no file changes during a run  *)
(* a cached binary is right, and where a module is looked for in one place *)
(* so are the module lists, and what is executed is the program on disk.   *)
(***************************************************************************)
EXTENDS BundleCache, ScriptCache, SequenceTheorems, TLAPS

(* Every step keeps the variables in their sets: types never depend on how *)
(* builds interleave, die or race with edits.                              *)
THEOREM BundleTypeCorrect == Spec => []TypeOK
<1>1. Init => TypeOK
  BY DEF Init, TypeOK, Labels
<1>2. TypeOK /\ [Next]_vars => TypeOK'
  <2> SUFFICES ASSUME TypeOK, [Next]_vars PROVE TypeOK'
    OBVIOUS
  <2> USE DEF TypeOK, Labels, Goto, files, build
  <2>1. ASSUME NEW p \in Processes, NEW c \in Configs, Start(p, c) PROVE TypeOK'
    BY <2>1 DEF Start
  <2>2. ASSUME NEW p \in Processes, UseBundle(p) PROVE TypeOK'
    BY <2>2 DEF UseBundle
  <2>3. ASSUME NEW p \in Processes, Check(p) PROVE TypeOK'
    BY <2>3 DEF Check, Current, Generated
  <2>4. ASSUME NEW p \in Processes, Generate(p) PROVE TypeOK'
    BY <2>4 DEF Generate
  <2>5. ASSUME NEW p \in Processes, OpenHash(p) PROVE TypeOK'
    BY <2>5 DEF OpenHash
  <2>6. ASSUME NEW p \in Processes, WriteHash(p) PROVE TypeOK'
    BY <2>6 DEF WriteHash, Current, Generated
  <2>7. ASSUME NEW p \in Processes, UseArtifact(p) PROVE TypeOK'
    BY <2>7 DEF UseArtifact
  <2>8. ASSUME NEW p \in Processes, CcStart(p) PROVE TypeOK'
    BY <2>8 DEF CcStart, Artifacts
  <2>9. ASSUME NEW p \in Processes, CcEnd(p) PROVE TypeOK'
    BY <2>9 DEF CcEnd
  <2>10. ASSUME NEW p \in Processes, CcFails(p) PROVE TypeOK'
    BY <2>10 DEF CcFails
  <2>11. ASSUME NEW p \in Processes, Return(p) \/ Killed(p) PROVE TypeOK'
    BY <2>11 DEF Return, Killed
  <2>12. ASSUME NEW s \in Sources, EditSource(s) PROVE TypeOK'
    BY <2>12 DEF EditSource
  <2>13. ASSUME NEW h \in Headers, EditHeader(h) PROVE TypeOK'
    BY <2>13 DEF EditHeader
  <2>14. CASE Clean
    BY <2>14 DEF Clean
  <2>15. CASE UNCHANGED vars
    BY <2>15 DEF vars
  <2> QED
    BY <2>1, <2>2, <2>3, <2>4, <2>5, <2>6, <2>7, <2>8, <2>9, <2>10, <2>11,
       <2>12, <2>13, <2>14, <2>15 DEF Next
<1> QED
  BY <1>1, <1>2, PTL DEF Spec

-----------------------------------------------------------------------------
\* builds one at a time, none of which dies just before .bundle_hash is opened
Careful == ~EditsDuringBuilds /\ ~Faults /\ ~Concurrent

(* The inductive invariant: there is one build; the hash is that of the    *)
(* bundle except while the new bundle waits for its hash; a fresh artifact *)
(* is that of the bundle, and of the header unless a newer header is there *)
(* to tell; and what a build has read is still what is on disk.            *)
OneBuild ==
    \A p, q \in Processes : pc[p] # "idle" /\ pc[q] # "idle" => p = q

HashOfBundle ==
    (\A p \in Processes : pc[p] # "open") => hash = None \/ hash = bundle

ArtifactOfBundle ==
    outFresh /\ out # None => /\ out.bundle = bundle
                              /\ out.header = header \/ headerNewer

(* an artifact is fresh only as long as its bundle has its hash *)
HashOfArtifact == outFresh /\ out # None => hash = bundle

Reached(p) ==
    /\ pc[p] = "generate" => read[p] = Current(p) /\ ~IsBundleUpToDate(p)
    /\ pc[p] \in {"artifact", "cc", "link"} => hash = bundle
    /\ pc[p] \in {"open", "hash", "cc", "link"} => ~(outFresh /\ out # None)
    /\ pc[p] \in {"artifact", "open", "hash", "cc", "link", "done"} =>
           bundle = Current(p) /\ ~headerNewer
    /\ pc[p] = "link" => read[p] = [bundle |-> bundle, header |-> header]
    /\ pc[p] = "done" => outFresh /\ out # None

BundleInv ==
    /\ TypeOK
    /\ OneBuild
    /\ HashOfBundle
    /\ ArtifactOfBundle
    /\ HashOfArtifact
    /\ \A p \in Processes : Reached(p)

LEMMA NoneIsNoRecord ==
    ASSUME NEW p \in Processes, TypeOK
    PROVE Current(p) \in Generated /\ Current(p) # None
  BY BundleAssumption DEF TypeOK, Current, Generated

LEMMA BundleInitially == Init => BundleInv
  BY DEF Init, BundleInv, TypeOK, Labels, OneBuild, HashOfBundle, ArtifactOfBundle,
     HashOfArtifact, IsBundleUpToDate, Reached

\* The actions of a process leave the others idle.
LEMMA AloneStaysAlone ==
    ASSUME OneBuild, TypeOK, NEW p \in Processes, NEW label, pc[p] # "idle", Goto(p, label)
    PROVE OneBuild' /\ \A q \in Processes : q # p => pc'[q] = "idle"
  BY DEF OneBuild, TypeOK, Goto

LEMMA BundleInductive ==
    ASSUME Careful, BundleInv, TypeOK', [Next]_vars
    PROVE BundleInv'
<1> USE DEF BundleInv
<1>1. ASSUME NEW p \in Processes, NEW c \in Configs, Start(p, c) PROVE BundleInv'
  <2>1. Quiet
    BY <1>1 DEF Start, Careful
  <2> QED
    BY <1>1, <2>1 DEF Start, Quiet, Goto, TypeOK, OneBuild, HashOfBundle,
       ArtifactOfBundle, HashOfArtifact, IsBundleUpToDate, Reached, Current, files, build
<1>2. ASSUME NEW p \in Processes, UseBundle(p) PROVE BundleInv'
  <2>1. bundle = Current(p) /\ ~headerNewer
    BY <1>2, NoneIsNoRecord
       DEF UseBundle, IsBundleUpToDate, HashOfBundle, OneBuild
  <2>2. OneBuild' /\ \A q \in Processes : q # p => pc'[q] = "idle"
    BY <1>2, AloneStaysAlone DEF UseBundle
  <2> QED
    BY <1>2, <2>1, <2>2 DEF UseBundle, Goto, TypeOK, HashOfBundle,
       ArtifactOfBundle, HashOfArtifact, IsBundleUpToDate, Reached, Current, files, build
<1>3. ASSUME NEW p \in Processes, Check(p) PROVE BundleInv'
  <2>1. \E label : Goto(p, label)
    BY <1>3 DEF Check
  <2>2. OneBuild' /\ \A q \in Processes : q # p => pc'[q] = "idle"
    BY <1>3, <2>1, AloneStaysAlone DEF Check
  <2> QED
    BY <1>3, <2>2 DEF Check, Goto, TypeOK, HashOfBundle, ArtifactOfBundle,
       HashOfArtifact, IsBundleUpToDate, Reached, Current,
       files, build, OneBuild
<1>4. ASSUME NEW p \in Processes, Generate(p) PROVE BundleInv'
  <2>1. OneBuild' /\ \A q \in Processes : q # p => pc'[q] = "idle"
    BY <1>4, AloneStaysAlone DEF Generate
  <2> QED
    BY <1>4, <2>1 DEF Generate, Goto, TypeOK, HashOfBundle, ArtifactOfBundle,
       HashOfArtifact, IsBundleUpToDate, Reached, Current, files
<1>5. ASSUME NEW p \in Processes, OpenHash(p) PROVE BundleInv'
  <2>1. hash' = None /\ Goto(p, "hash")
    BY <1>5 DEF OpenHash, Careful
  <2>2. OneBuild' /\ \A q \in Processes : q # p => pc'[q] = "idle"
    BY <1>5, <2>1, AloneStaysAlone DEF OpenHash
  <2> QED
    BY <1>5, <2>1, <2>2 DEF OpenHash, Goto, TypeOK, HashOfBundle,
       ArtifactOfBundle, HashOfArtifact, IsBundleUpToDate, Reached, Current, files
<1>6. ASSUME NEW p \in Processes, WriteHash(p) PROVE BundleInv'
  <2>1. OneBuild' /\ \A q \in Processes : q # p => pc'[q] = "idle"
    BY <1>6, AloneStaysAlone DEF WriteHash
  <2> QED
    BY <1>6, <2>1 DEF WriteHash, Goto, TypeOK, HashOfBundle, ArtifactOfBundle,
       HashOfArtifact, IsBundleUpToDate, Reached, Current, files
<1>7. ASSUME NEW p \in Processes, UseArtifact(p) PROVE BundleInv'
  <2>1. OneBuild' /\ \A q \in Processes : q # p => pc'[q] = "idle"
    BY <1>7, AloneStaysAlone DEF UseArtifact
  <2> QED
    BY <1>7, <2>1 DEF UseArtifact, Goto, TypeOK, HashOfBundle,
       ArtifactOfBundle, HashOfArtifact, IsBundleUpToDate, Reached, Current,
       files, build, OneBuild
<1>8. ASSUME NEW p \in Processes, CcStart(p) PROVE BundleInv'
  <2>1. OneBuild' /\ \A q \in Processes : q # p => pc'[q] = "idle"
    BY <1>8, AloneStaysAlone DEF CcStart
  <2> QED
    BY <1>8, <2>1 DEF CcStart, Goto, TypeOK, HashOfBundle, ArtifactOfBundle,
       HashOfArtifact, IsBundleUpToDate, Reached, Current,
       files, build, OneBuild
<1>9. ASSUME NEW p \in Processes, CcEnd(p) PROVE BundleInv'
  <2>1. OneBuild' /\ \A q \in Processes : q # p => pc'[q] = "idle"
    BY <1>9, AloneStaysAlone DEF CcEnd
  <2>2. out' = [bundle |-> bundle, header |-> header] /\ out' # None
    BY <1>9, BundleAssumption DEF CcEnd, Reached, TypeOK
  <2> QED
    BY <1>9, <2>1, <2>2 DEF CcEnd, Goto, TypeOK, HashOfBundle,
       ArtifactOfBundle, HashOfArtifact, IsBundleUpToDate, Reached, Current,
       files, OneBuild
<1>10. ASSUME NEW p \in Processes, CcFails(p) PROVE BundleInv'
  <2>1. PICK label \in {"cc", "idle"} : Goto(p, label)
    BY <1>10 DEF CcFails
  <2>2. OneBuild' /\ \A q \in Processes : q # p => pc'[q] = "idle"
    BY <1>10, <2>1, AloneStaysAlone DEF CcFails
  <2> QED
    BY <1>10, <2>1, <2>2 DEF CcFails, Goto, TypeOK, HashOfBundle,
       ArtifactOfBundle, HashOfArtifact, IsBundleUpToDate, Reached, Current,
       files, OneBuild
<1>11. ASSUME NEW p \in Processes, Return(p) PROVE BundleInv'
  <2>1. OneBuild' /\ \A q \in Processes : q # p => pc'[q] = "idle"
    BY <1>11, AloneStaysAlone DEF Return
  <2> QED
    BY <1>11, <2>1 DEF Return, Goto, TypeOK, HashOfBundle, ArtifactOfBundle,
       HashOfArtifact, IsBundleUpToDate, Reached, Current,
       files, build, OneBuild
<1>12. ASSUME NEW p \in Processes, Killed(p) PROVE BundleInv'
  <2>1. OneBuild' /\ \A q \in Processes : q # p => pc'[q] = "idle"
    BY <1>12, AloneStaysAlone DEF Killed
  <2> QED
    BY <1>12, <2>1 DEF Killed, Careful, Goto, TypeOK, HashOfBundle,
       ArtifactOfBundle, HashOfArtifact, IsBundleUpToDate, Reached, Current,
       files, build, OneBuild
<1>13. ASSUME NEW s \in Sources, EditSource(s) PROVE BundleInv'
  BY <1>13 DEF EditSource, Careful, Quiet, OneBuild, HashOfBundle,
     ArtifactOfBundle, HashOfArtifact, IsBundleUpToDate, Reached, build
<1>14. ASSUME NEW h \in Headers, EditHeader(h) PROVE BundleInv'
  BY <1>14 DEF EditHeader, Careful, Quiet, OneBuild, HashOfBundle,
     ArtifactOfBundle, HashOfArtifact, IsBundleUpToDate, Reached
<1>15. CASE Clean
  BY <1>15 DEF Clean, Quiet, OneBuild, HashOfBundle, ArtifactOfBundle, HashOfArtifact,
     IsBundleUpToDate, Reached, files
<1>16. CASE UNCHANGED vars
  BY <1>16 DEF vars, files, build, OneBuild, HashOfBundle, ArtifactOfBundle,
     HashOfArtifact, IsBundleUpToDate, Reached, Current
<1> QED
  BY <1>1, <1>2, <1>3, <1>4, <1>5, <1>6, <1>7, <1>8, <1>9, <1>10, <1>11, <1>12,
     <1>13, <1>14, <1>15, <1>16 DEF Next

LEMMA BundleInvHolds == ASSUME Careful PROVE Spec => []BundleInv
<1>1. BundleInv /\ TypeOK' /\ [Next]_vars => BundleInv'
  BY BundleInductive
<1> QED
  BY <1>1, BundleInitially, BundleTypeCorrect, PTL DEF Spec

-----------------------------------------------------------------------------
(* A bundle that is found up to date is the one this build would generate: *)
(* the fingerprint of sources and configuration is enough as long as the   *)
(* hash file is written for every bundle and the sources stay put.         *)
THEOREM HitsAreRight == ASSUME Careful PROVE Spec => []HitIsRight
<1>1. BundleInv => HitIsRight
  BY NoneIsNoRecord DEF BundleInv, HitIsRight, IsBundleUpToDate, HashOfBundle, OneBuild
<1> QED
  BY <1>1, BundleInvHolds, PTL

(* compile() returns the artifact of the current sources, headers and      *)
(* configuration, after any history of builds, failed builds and edits.    *)
THEOREM ArtifactsAreRight == ASSUME Careful PROVE Spec => ArtifactIsRight
<1>1. ASSUME BundleInv, [Next]_vars
      PROVE [\A p \in Processes :
                Return(p) => out = [bundle |-> Current(p), header |-> header]]_vars
  <2> SUFFICES ASSUME NEW p \in Processes, Return(p)
               PROVE out = [bundle |-> Current(p), header |-> header]
    OBVIOUS
  <2>1. bundle = Current(p) /\ ~headerNewer /\ outFresh /\ out # None
    BY <1>1 DEF BundleInv, Return, Reached
  <2>2. out \in Artifacts
    BY <1>1, <2>1 DEF BundleInv, TypeOK
  <2> QED
    BY <1>1, <2>1, <2>2 DEF BundleInv, ArtifactOfBundle, Artifacts
<1> QED
  BY <1>1, BundleInvHolds, PTL DEF Spec, ArtifactIsRight

(* A build generates or compiles nothing when the artifact is already that *)
(* of the sources, the headers and the configuration it is called with,    *)
(* and is newer than its bundle.                                           *)
THEOREM NothingIsMadeTwice == ASSUME Careful PROVE Spec => UnchangedIsCached
<1>1. ASSUME BundleInv, [Next]_vars
      PROVE [\A p \in Processes :
                Generate(p) \/ CcStart(p) =>
                  ~(/\ out = [bundle |-> Current(p), header |-> header]
                    /\ outFresh /\ ~headerNewer)]_vars
  <2> SUFFICES ASSUME NEW p \in Processes, Generate(p) \/ CcStart(p),
                      out = [bundle |-> Current(p), header |-> header],
                      outFresh, ~headerNewer
               PROVE  FALSE
    OBVIOUS
  <2>1. out # None /\ Current(p) # None
    BY <1>1, BundleAssumption, NoneIsNoRecord DEF BundleInv, TypeOK, Artifacts
  <2>2. bundle = Current(p) /\ hash = bundle
    BY <1>1, <2>1 DEF BundleInv, ArtifactOfBundle, HashOfArtifact
  <2>3. IsBundleUpToDate(p)
    BY <2>1, <2>2 DEF IsBundleUpToDate
  <2> QED
    BY <1>1, <2>1, <2>3 DEF BundleInv, Reached, Generate, CcStart
<1> QED
  BY <1>1, BundleInvHolds, PTL DEF Spec, UnchangedIsCached
-----------------------------------------------------------------------------
\* the variables that a step of a run changes at its process are functions
Shapes ==
    /\ at \in [Runs -> RunLabels]
    /\ bins = [k \in Snapshots |-> bins[k]]
    /\ key = [p \in Runs |-> key[p]]
    /\ built = [p \in Runs |-> built[p]]

(* Why the cache is right: between the computation of the key and the end  *)
(* of the compilation the disk are those the key was computed from.       *)
KeyIsCurrent(p) ==
    /\ at[p] \in {"list", "record", "key", "unlisted"} => key[p] = Nothing
    /\ at[p] = "lookup" => key[p] = Contents(mods[p])
    /\ at[p] = "compile" => key[p] \in {Nothing, Contents(mods[p])}
    /\ at[p] \in {"copy", "replace"} => built[p] = key[p]

BinariesInv == Shapes /\ CacheIsRight /\ \A p \in Runs : KeyIsCurrent(p)

LEMMA BinariesInitially == ScriptInit => BinariesInv
  BY DEF ScriptInit, BinariesInv, Shapes, CacheIsRight, KeyIsCurrent, RunLabels

LEMMA BinariesInductive ==
    ASSUME ~EditsDuringRuns, BinariesInv, [ScriptNext]_scriptVars
    PROVE BinariesInv'
<1> USE DEF BinariesInv
<1> USE DEF Shapes, KeyIsCurrent, CacheIsRight, MoveTo, run, RunLabels, Contents
<1>1. ASSUME NEW p \in Runs, StartRun(p) PROVE BinariesInv'
  <2>1. /\ at' = [at EXCEPT ![p] = "list"] /\ key' = [key EXCEPT ![p] = Nothing]
        /\ UNCHANGED <<disk, bins, mods, built>>
    BY <1>1 DEF StartRun
  <2>2. Shapes' /\ CacheIsRight'
    BY <2>1
  <2>3. ASSUME NEW q \in Runs PROVE KeyIsCurrent(q)'
    BY <2>1
  <2> QED BY <2>2, <2>3
<1>2. ASSUME NEW p \in Runs, ListHit(p) PROVE BinariesInv'
  BY <1>2 DEF ListHit, UseList
<1>3. ASSUME NEW p \in Runs, ListMiss(p) PROVE BinariesInv'
  BY <1>3 DEF ListMiss
<1>4. ASSUME NEW p \in Runs, ListFails(p) PROVE BinariesInv'
  BY <1>4 DEF ListFails
<1>5. ASSUME NEW p \in Runs, Record(p) PROVE BinariesInv'
  BY <1>5 DEF Record
<1>6. ASSUME NEW p \in Runs, ComputeKey(p) PROVE BinariesInv'
  BY <1>6 DEF ComputeKey
<1>7. ASSUME NEW p \in Runs, NoKey(p) PROVE BinariesInv'
  BY <1>7 DEF NoKey
<1>8. ASSUME NEW p \in Runs, Hit(p) PROVE BinariesInv'
  BY <1>8 DEF Hit
<1>9. ASSUME NEW p \in Runs, Miss(p) PROVE BinariesInv'
  BY <1>9 DEF Miss
<1>10. ASSUME NEW p \in Runs, Compile(p) PROVE BinariesInv'
  <2> DEFINE text == Contents(IF at[p] = "compile" THEN mods[p] ELSE Closure)
             label == IF key[p] = Nothing THEN "exec" ELSE "copy"
  <2>1. /\ at[p] \in {"compile", "unlisted"}
        /\ at' = [at EXCEPT ![p] = label]
        /\ built' = [built EXCEPT ![p] = text]
        /\ UNCHANGED <<disk, bins, mods, key>>
    BY <1>10 DEF Compile, Builds
  <2>2. key[p] # Nothing => key[p] = text
    BY <2>1
  <2> HIDE DEF text
  <2>3. Shapes'
    BY <2>1
  <2>4. CacheIsRight'
    BY <2>1
  <2>5. ASSUME NEW q \in Runs PROVE KeyIsCurrent(q)'
    <3>1. CASE q = p
      BY <2>1, <2>2, <3>1
    <3>2. CASE q # p
      <4>1. at'[q] = at[q] /\ built'[q] = built[q] /\ KeyIsCurrent(q)
        BY <2>1, <3>2
      <4> QED
        BY <2>1, <4>1
    <3> QED
      BY <3>1, <3>2
  <2> QED
    BY <2>3, <2>4, <2>5
<1>11. ASSUME NEW p \in Runs, CompileFails(p) PROVE BinariesInv'
  BY <1>11 DEF CompileFails
<1>12. ASSUME NEW p \in Runs, StoreCopy(p) PROVE BinariesInv'
  BY <1>12 DEF StoreCopy
<1>13. ASSUME NEW p \in Runs, StoreReplace(p) PROVE BinariesInv'
  BY <1>13 DEF StoreReplace
<1>14. ASSUME NEW p \in Runs, Choose(p) PROVE BinariesInv'
  BY <1>14 DEF Choose
<1>15. ASSUME NEW p \in Runs, Exec(p) \/ RunKilled(p) PROVE BinariesInv'
  BY <1>15 DEF Exec, RunKilled
<1>16. ASSUME NEW k \in Snapshots, Collect(k) PROVE BinariesInv'
  BY <1>16 DEF Collect
<1>17. ASSUME NEW f \in Files, NEW t \in Texts \union {Absent}, Edit(f, t) PROVE BinariesInv'
  <2>1. \A p \in Runs : at[p] = "idle"
    BY <1>17 DEF Edit
  <2> QED
    BY <1>17, <2>1 DEF Edit
<1>18. CASE UNCHANGED scriptVars
  BY <1>18 DEF scriptVars
<1> QED
  BY <1>1, <1>2, <1>3, <1>4, <1>5, <1>6, <1>7, <1>8, <1>9, <1>10, <1>11, <1>12,
     <1>13, <1>14, <1>15, <1>16, <1>17, <1>18 DEF ScriptNext

(* A cached binary was compiled from the contents that its key stands for, *)
(* for any number of concurrent runs, kills, failed stores and collected   *)
(* entries (pengu_cache.py:24), provided that no file changes while a run  *)
(* is between its key and its compilation.                                 *)
THEOREM CachedBinariesAreRight ==
    ASSUME ~EditsDuringRuns PROVE ScriptSpec => []CacheIsRight
<1>1. BinariesInv /\ [ScriptNext]_scriptVars => BinariesInv'
  BY BinariesInductive
<1>2. BinariesInv => CacheIsRight
  BY DEF BinariesInv
<1> QED
  BY <1>1, <1>2, BinariesInitially, PTL DEF ScriptSpec
-----------------------------------------------------------------------------
(* The types.                                                               *)

(* ScriptTypeOK, and no file ever has a text that it may not have.          *)
ScriptTyped ==
    /\ ScriptTypeOK
    /\ \A f \in Files : disk[f] \in Versions(f) \union {Absent}
    /\ disk[Main] # Absent

Existing == {f \in Files : Exists(f)}

LEMMA ContentsTyped ==
    ASSUME ScriptTyped, NEW S \in SUBSET Files
    PROVE  Contents(S) \in Snapshots /\ Contents(S) # Nothing /\ DOMAIN Contents(S) = S
<1> DEFINE c == Contents(S)
<1>1. DOMAIN c = S /\ \A f \in S : c[f] = disk[f]
  BY DEF Contents
<1>2. c \in [S -> Texts \union {Absent}]
  BY DEF Contents, ScriptTyped, ScriptTypeOK
<1>3. \A f \in S : c[f] \in Versions(f) \union {Absent}
  BY <1>1 DEF ScriptTyped
<1> HIDE DEF c
<1>4. c \in UNION {[T -> Texts \union {Absent}] : T \in SUBSET Files}
  BY <1>2
<1>5. c \in Snapshots
  BY <1>1, <1>3, <1>4 DEF Snapshots
<1> QED
  BY <1>1, <1>5, NothingAssumption DEF c

LEMMA SnapshotOf ==
    ASSUME NEW c \in Snapshots
    PROVE  /\ DOMAIN c \in SUBSET Files /\ c \in [DOMAIN c -> Texts \union {Absent}]
           /\ c # Nothing
<1>1. PICK S \in SUBSET Files : c \in [S -> Texts \union {Absent}]
  BY DEF Snapshots
<1> QED
  BY <1>1, NothingAssumption

(* What is there imports modules, and they are found in files that are there. *)
LEMMA FindsFiles ==
    ASSUME ScriptTyped, NEW f \in Existing, NEW m \in ImportsOf(disk[f])
    PROVE  m \in Modules /\ Found(m) \subseteq Existing
<1>1. disk[f] \in Texts
  BY DEF Existing, Exists, ScriptTyped, ScriptTypeOK
<1>2. m \in Modules
  BY <1>1, ScriptAssumption
<1>3. Search(m) \in Seq(Files)
  BY <1>2, ScriptAssumption
<1>4. \A i \in DOMAIN Search(m) : Search(m)[i] \in Files
  BY <1>3
<1> QED
  BY <1>2, <1>4 DEF Found, Existing

LEMMA NeedsIs ==
    ASSUME NEW S, NEW g
    PROVE  g \in Needs(S) <=> \E f \in S : \E m \in ImportsOf(disk[f]) : g \in Found(m)
  BY DEF Needs, Imported

(* The closure exists, and is the least set that is closed. *)
LEMMA ClosureIs ==
    ASSUME ScriptTyped
    PROVE  /\ Closure \in SUBSET Existing /\ Closed(Closure)
           /\ \A T \in SUBSET Existing : Closed(T) => Closure \subseteq T
<1> DEFINE Least == {f \in Existing : \A T \in SUBSET Existing : Closed(T) => f \in T}
<1>1. Main \in Existing
  BY ScriptAssumption DEF Existing, Exists, ScriptTyped
<1>2. Least \in SUBSET Existing /\ \A T \in SUBSET Existing : Closed(T) => Least \subseteq T
  OBVIOUS
<1>3. Main \in Least
  BY <1>1 DEF Closed
<1>4. ASSUME NEW g \in Needs(Least) PROVE g \in Least
  <2>1. PICK f \in Least : \E m \in ImportsOf(disk[f]) : g \in Found(m)
    BY NeedsIs
  <2>2. PICK m \in ImportsOf(disk[f]) : g \in Found(m)
    BY <2>1
  <2>3. g \in Existing
    BY <2>2, FindsFiles
  <2>4. ASSUME NEW T \in SUBSET Existing, Closed(T) PROVE g \in T
    <3>1. f \in T
      BY <2>4
    <3>2. g \in Needs(T)
      BY <2>2, <3>1, NeedsIs
    <3> QED
      BY <2>4, <3>2 DEF Closed
  <2> QED
    BY <2>3, <2>4
<1>5. Closed(Least)
  BY <1>3, <1>4 DEF Closed
<1> HIDE DEF Least
<1>6. \E S \in SUBSET Existing :
        Closed(S) /\ \A T \in SUBSET Existing : Closed(T) => S \subseteq T
  BY <1>2, <1>5
<1>7. Closure = CHOOSE S \in SUBSET Existing :
        Closed(S) /\ \A T \in SUBSET Existing : Closed(T) => S \subseteq T
  BY DEF Closure, Existing
<1> QED
  BY <1>6, <1>7

LEMMA ClosureIsOnly ==
    ASSUME ScriptTyped, NEW S \in SUBSET Existing, Closed(S),
           \A T \in SUBSET Existing : Closed(T) => S \subseteq T
    PROVE  S = Closure
  BY ClosureIs

LEMMA TypedInitially == ScriptInit => ScriptTyped
<1> SUFFICES ASSUME ScriptInit PROVE ScriptTyped
  OBVIOUS
<1>1. /\ disk \in [Files -> Texts \union {Absent}] /\ disk[Main] # Absent
      /\ \A f \in Files : disk[f] \in Versions(f) \union {Absent}
  BY DEF ScriptInit
<1> QED
  BY <1>1 DEF ScriptInit, ScriptTyped, ScriptTypeOK, RunLabels

LEMMA TypedNext == ScriptTyped /\ [ScriptNext]_scriptVars => ScriptTyped'
<1> SUFFICES ASSUME ScriptTyped, [ScriptNext]_scriptVars PROVE ScriptTyped'
  OBVIOUS
<1> USE DEF ScriptTyped, ScriptTypeOK, RunLabels, MoveTo, run
<1>1. ASSUME NEW p \in Runs, StartRun(p) PROVE ScriptTyped'
  BY <1>1 DEF StartRun
<1>2. ASSUME NEW p \in Runs, ListHit(p) PROVE ScriptTyped'
  <2>1. lists[disk[Main]] \in Snapshots
    BY <1>2, ScriptAssumption DEF ListHit, Fresh
  <2>2. DOMAIN lists[disk[Main]] \in SUBSET Files
    BY <2>1, SnapshotOf
  <2> QED
    BY <1>2, <2>2 DEF ListHit, UseList
<1>3. ASSUME NEW p \in Runs, ListMiss(p) PROVE ScriptTyped'
  <2>1. Closure \in SUBSET Files
    BY ClosureIs DEF Existing
  <2> QED
    BY <1>3, <2>1 DEF ListMiss
<1>4. ASSUME NEW p \in Runs, ListFails(p) PROVE ScriptTyped'
  BY <1>4 DEF ListFails
<1>5. ASSUME NEW p \in Runs, Record(p) PROVE ScriptTyped'
  <2>1. Contents(mods[p]) \in Snapshots
    BY ContentsTyped
  <2> QED
    BY <1>5, <2>1 DEF Record
<1>6. ASSUME NEW p \in Runs, ComputeKey(p) PROVE ScriptTyped'
  <2>1. Contents(mods[p]) \in Snapshots /\ Contents(mods[p]) # Nothing
    BY ContentsTyped
  <2>2. PICK k \in Snapshots : k = Contents(mods[p]) /\ k # Nothing
    BY <2>1
  <2>3. /\ key' = [key EXCEPT ![p] = k] /\ at' = [at EXCEPT ![p] = "lookup"]
        /\ UNCHANGED <<disk, lists, bins, mods, built, target>>
    BY <1>6, <2>2 DEF ComputeKey
  <2> QED
    BY <2>2, <2>3
<1>7. ASSUME NEW p \in Runs, NoKey(p) PROVE ScriptTyped'
  BY <1>7 DEF NoKey
<1>8. ASSUME NEW p \in Runs, Hit(p) PROVE ScriptTyped'
  BY <1>8 DEF Hit
<1>9. ASSUME NEW p \in Runs, Miss(p) PROVE ScriptTyped'
  BY <1>9 DEF Miss
<1>10. ASSUME NEW p \in Runs, Compile(p) PROVE ScriptTyped'
  <2>1. PICK order \in SUBSET Files : Builds(p, order)
    BY <1>10, ClosureIs DEF Compile, Existing
  <2>2. Contents(order) \in Snapshots
    BY ContentsTyped
  <2> QED
    BY <1>10, <2>1, <2>2 DEF Compile, Builds
<1>11. ASSUME NEW p \in Runs, CompileFails(p) PROVE ScriptTyped'
  BY <1>11 DEF CompileFails
<1>12. ASSUME NEW p \in Runs, StoreCopy(p) PROVE ScriptTyped'
  BY <1>12 DEF StoreCopy
<1>13. ASSUME NEW p \in Runs, StoreReplace(p) PROVE ScriptTyped'
  BY <1>13 DEF StoreReplace
<1>14. ASSUME NEW p \in Runs, Choose(p) PROVE ScriptTyped'
  BY <1>14 DEF Choose
<1>15. ASSUME NEW p \in Runs, Exec(p) \/ RunKilled(p) PROVE ScriptTyped'
  BY <1>15 DEF Exec, RunKilled
<1>16. ASSUME NEW k \in Snapshots, Collect(k) PROVE ScriptTyped'
  BY <1>16 DEF Collect
<1>17. ASSUME NEW f \in Files, NEW t \in Texts \union {Absent}, Edit(f, t) PROVE ScriptTyped'
  <2>1. t \in Versions(f) \/ (t = Absent /\ f # Main)
    BY <1>17 DEF Edit
  <2>2. f = Main => t # Absent
    BY <2>1, ScriptAssumption
  <2>3. /\ disk' \in [Files -> Texts \union {Absent}] /\ disk'[Main] # Absent
        /\ \A g \in Files : disk'[g] \in Versions(g) \union {Absent}
    <3>1. disk' = [disk EXCEPT ![f] = t]
      BY <1>17 DEF Edit
    <3> QED
      BY <2>1, <2>2, <3>1
  <2>4. UNCHANGED <<lists, bins, at, mods, key, built, target>>
    BY <1>17 DEF Edit
  <2> QED
    BY <2>3, <2>4
<1>18. CASE UNCHANGED scriptVars
  BY <1>18 DEF scriptVars
<1> QED
  BY <1>1, <1>2, <1>3, <1>4, <1>5, <1>6, <1>7, <1>8, <1>9, <1>10, <1>11, <1>12,
     <1>13, <1>14, <1>15, <1>16, <1>17, <1>18 DEF ScriptNext

(* The caches hold snapshots of files, and a run that looks its binary up,  *)
(* or stores it, has a key, however runs, kills and edits interleave.       *)
THEOREM ScriptTypeCorrect == ScriptSpec => []ScriptTypeOK
<1>1. ScriptTyped => ScriptTypeOK
  BY DEF ScriptTyped
<1> QED
  BY <1>1, TypedInitially, TypedNext, PTL DEF ScriptSpec

-----------------------------------------------------------------------------
(* The module lists, and what is executed.                                  *)

\* every module is looked for in one place at most
OnePlace == \A m \in Modules : Len(Search(m)) <= 1

(* A list that was recorded: what its files imported then are files of it, *)
(* and nothing less than all of it has the entry and is closed.            *)
ImportsWithin(list, T) ==
    \A f \in T : \A m \in ImportsOf(list[f]) : \A g \in Files : Search(m) = <<g>> => g \in T

ListOK(list) ==
    /\ Main \in DOMAIN list
    /\ \A f \in DOMAIN list :
        /\ list[f] \in Texts
        /\ \A m \in ImportsOf(list[f]) : \E g \in DOMAIN list : Search(m) = <<g>>
    /\ \A T \in SUBSET DOMAIN list :
        Main \in T /\ ImportsWithin(list, T) => T = DOMAIN list

(* A run whose list is made or taken: what it has is that of the disk.      *)
RunOK(p) ==
    /\ at[p] \in {"record", "key", "lookup", "compile"} => mods[p] = Closure
    /\ at[p] = "record" => Resolves
    /\ at[p] \in {"list", "record", "key", "unlisted"} => key[p] = Nothing
    /\ at[p] = "compile" => key[p] \in {Nothing, Contents(Closure)}
    /\ at[p] \in {"lookup", "copy", "replace", "choose"} => key[p] = Contents(Closure)
    /\ at[p] \in {"copy", "replace", "choose"} => built[p] = Contents(Closure)
    /\ at[p] = "exec" => Contents(Closure) = IF target[p] = "cache" THEN key[p] ELSE built[p]

RunInv ==
    /\ ScriptTyped
    /\ \A t \in Texts : lists[t] # Nothing => ListOK(lists[t])
    /\ \A p \in Runs : RunOK(p)

(* Where a module is looked for in one place, it is found there or not at all. *)
LEMMA FoundInOnePlace ==
    ASSUME OnePlace, NEW m \in Modules
    PROVE  Found(m) = {g \in Files : Search(m) = <<g>> /\ Exists(g)}
<1>1. Search(m) \in Seq(Files) /\ Len(Search(m)) <= 1
  BY ScriptAssumption DEF OnePlace
<1>2. CASE Search(m) = <<>>
  <2>1. DOMAIN Search(m) = {} /\ \A g : <<g>> # <<>>
    BY <1>2
  <2> QED
    BY <1>2, <2>1 DEF Found
<1>3. CASE Search(m) # <<>>
  <2>1. PICK h \in Files : Search(m) = <<h>>
    <3>1. PICK seq : seq = Search(m)
      OBVIOUS
    <3>2. seq \in Seq(Files) /\ Len(seq) <= 1 /\ seq # <<>>
      BY <1>1, <1>3, <3>1
    <3>3. Len(seq) = 1 /\ seq[1] \in Files
      <4>1. Len(seq) \in Nat /\ Len(seq) # 0
        BY <3>2, EmptySeq
      <4>2. \A n \in Nat : n # 0 /\ n <= 1 => n = 1
        OBVIOUS
      <4>3. Len(seq) = 1
        BY <3>2, <4>1, <4>2, Zenon
      <4> QED
        BY <3>2, <4>3, ElementOfSeq
    <3>4. seq = <<seq[1]>>
      BY <3>2, <3>3
    <3> QED
      BY <3>1, <3>3, <3>4
  <2>2. DOMAIN Search(m) = {1} /\ Search(m)[1] = h
    BY <2>1
  <2>3. \A g : <<g>> = <<h>> <=> g = h
    OBVIOUS
  <2>4. Found(m) = {g \in {h} : Exists(g)}
    <3>1. {j \in DOMAIN Search(m) :
             Exists(Search(m)[j]) /\ \A i \in 1 .. j - 1 : ~Exists(Search(m)[i])}
            = {j \in {1} : Exists(h)}
      BY <2>2
    <3> QED
      BY <2>2, <3>1 DEF Found
  <2> QED
    BY <2>1, <2>3, <2>4
<1> QED
  BY <1>2, <1>3

(* A list that is fresh has what resolving would give now. *)
LEMMA FreshIsClosure ==
    ASSUME OnePlace, ScriptTyped, NEW list \in Snapshots, ListOK(list), Fresh(list)
    PROVE  DOMAIN list = Closure
<1> DEFINE S == DOMAIN list
<1>1. S \in SUBSET Files
  BY SnapshotOf
<1>2. \A f \in S : list[f] = disk[f]
  BY DEF Fresh, Contents
<1>3. \A f \in S : disk[f] \in Texts
  BY <1>2 DEF ListOK
<1>4. S \in SUBSET Existing
  BY <1>1, <1>3, ScriptAssumption DEF Existing, Exists
<1>5. ASSUME NEW f \in S, NEW m \in ImportsOf(disk[f])
      PROVE  \E g \in S : Search(m) = <<g>> /\ Found(m) = {g}
  <2>1. m \in Modules
    BY <1>3, ScriptAssumption
  <2>2. PICK g \in S : Search(m) = <<g>>
    BY <1>2 DEF ListOK
  <2>3. \A h : <<h>> = <<g>> <=> h = g
    OBVIOUS
  <2>4. Found(m) = {g}
    BY <1>4, <2>1, <2>2, <2>3, FoundInOnePlace DEF Existing
  <2> QED
    BY <2>2, <2>4
<1>6. Closed(S)
  <2>1. ASSUME NEW g \in Needs(S) PROVE g \in S
    <3>1. PICK f \in S : \E m \in ImportsOf(disk[f]) : g \in Found(m)
      BY NeedsIs
    <3> QED
      BY <1>5, <3>1
  <2> QED
    BY <2>1 DEF Closed, ListOK
<1>7. ASSUME NEW T \in SUBSET Existing, Closed(T) PROVE S \subseteq T
  <2>1. Main \in T \intersect S
    BY <1>7 DEF Closed, ListOK
  <2>2. ASSUME NEW f \in T \intersect S, NEW m \in ImportsOf(list[f]),
               NEW g \in Files, Search(m) = <<g>>
        PROVE  g \in T \intersect S
    <3>1. m \in ImportsOf(disk[f])
      BY <1>2
    <3>2. PICK h \in S : Search(m) = <<h>> /\ Found(m) = {h}
      BY <1>5, <3>1
    <3>3. h = g
      BY <2>2, <3>2
    <3>4. g \in Needs(T)
      BY <3>1, <3>2, <3>3, NeedsIs
    <3> QED
      BY <1>7, <3>2, <3>3, <3>4 DEF Closed
  <2>3. T \intersect S = S
    BY <2>1, <2>2 DEF ListOK, ImportsWithin
  <2> QED
    BY <2>3
<1> QED
  BY <1>4, <1>6, <1>7, ClosureIsOnly

(* The list of a resolution is recorded as one. *)
LEMMA RecordedIsOK ==
    ASSUME OnePlace, ScriptTyped, Resolves
    PROVE  ListOK(Contents(Closure))
<1> DEFINE list == Contents(Closure)
<1>1. /\ Closure \in SUBSET Existing /\ Closed(Closure)
      /\ \A T \in SUBSET Existing : Closed(T) => Closure \subseteq T
  BY ClosureIs
<1>2. DOMAIN list = Closure /\ \A f \in Closure : list[f] = disk[f]
  BY DEF Contents
<1> HIDE DEF list
<1>3. \A f \in Closure : disk[f] \in Texts
  BY <1>1 DEF Existing, Exists, ScriptTyped, ScriptTypeOK
<1>4. ASSUME NEW f \in Closure, NEW m \in ImportsOf(disk[f])
      PROVE  \E g \in Closure : Search(m) = <<g>>
  <2>1. m \in Modules
    BY <1>3, ScriptAssumption
  <2>2. Found(m) # {}
    BY DEF Resolves, Imported
  <2>3. PICK g \in Found(m) : TRUE
    BY <2>2
  <2>4. g \in Closure
    BY <1>1, <2>3, NeedsIs DEF Closed
  <2> QED
    BY <2>1, <2>3, <2>4, FoundInOnePlace
<1>5. ASSUME NEW T \in SUBSET Closure, Main \in T, ImportsWithin(list, T) PROVE T = Closure
  <2>1. ASSUME NEW g \in Needs(T) PROVE g \in T
    <3>1. PICK f \in T : \E m \in ImportsOf(disk[f]) : g \in Found(m)
      BY NeedsIs
    <3>2. PICK m \in ImportsOf(disk[f]) : g \in Found(m)
      BY <3>1
    <3>3. m \in Modules
      BY <1>3, ScriptAssumption
    <3>4. g \in Files /\ Search(m) = <<g>>
      BY <3>2, <3>3, FoundInOnePlace
    <3> QED
      BY <1>2, <1>5, <3>2, <3>4 DEF ImportsWithin
  <2>2. Closed(T)
    BY <1>5, <2>1 DEF Closed
  <2> QED
    BY <1>1, <2>2
<1>6. Main \in Closure
  BY <1>1 DEF Closed
<1> QED
  BY <1>2, <1>3, <1>4, <1>5, <1>6 DEF ListOK, list

LEMMA SameDisk ==
    ASSUME UNCHANGED disk
    PROVE  /\ Closure' = Closure /\ (Resolves' <=> Resolves)
           /\ \A S : Contents(S)' = Contents(S)
<1>1. \A f : Exists(f)' <=> Exists(f)
  BY DEF Exists
<1>2. \A m : Found(m)' = Found(m)
  BY <1>1 DEF Found
<1>3. \A S : Imported(S)' = Imported(S)
  BY DEF Imported
<1>4. \A S : Needs(S)' = Needs(S)
  BY <1>2, <1>3 DEF Needs
<1>5. \A S : Closed(S)' <=> Closed(S)
  BY <1>4 DEF Closed
<1>6. Closure' = Closure
  BY <1>1, <1>5 DEF Closure
<1>7. Resolves' <=> Resolves
  BY <1>2, <1>3, <1>6 DEF Resolves
<1>8. \A S : Contents(S)' = Contents(S)
  BY DEF Contents
<1> QED
  BY <1>6, <1>7, <1>8

(* A step of one run leaves the others what they have. *)
LEMMA OthersStay ==
    ASSUME UNCHANGED disk, NEW p \in Runs, NEW q \in Runs, RunOK(q), q # p,
           at'[q] = at[q], mods'[q] = mods[q], key'[q] = key[q],
           built'[q] = built[q], target'[q] = target[q]
    PROVE  RunOK(q)'
<1>1. PICK here, have : here = Closure /\ have = Contents(Closure)
  OBVIOUS
<1>2. Closure' = here /\ Contents(Closure)' = have /\ (Resolves' <=> Resolves)
  BY <1>1, SameDisk DEF Contents
<1> QED
  BY <1>1, <1>2 DEF RunOK

LEMMA RunInitially == ScriptInit => RunInv
<1> SUFFICES ASSUME ScriptInit PROVE RunInv
  OBVIOUS
<1>1. ScriptTyped
  BY TypedInitially
<1> QED
  BY <1>1 DEF ScriptInit, RunInv, RunOK

(* The step of a run that only goes on: its own part is what is left to show. *)
LEMMA RunGoesOn ==
    ASSUME RunInv, ScriptTyped', NEW p \in Runs, UNCHANGED <<disk, lists>>, RunOK(p)',
           \A q \in Runs \ {p} : /\ at'[q] = at[q] /\ mods'[q] = mods[q] /\ key'[q] = key[q]
                                 /\ built'[q] = built[q] /\ target'[q] = target[q]
    PROVE  RunInv'
<1>1. \A t \in Texts : lists'[t] # Nothing => ListOK(lists'[t])
  BY DEF RunInv
<1>2. \A t \in Texts : (lists[t] # Nothing => ListOK(lists[t]))'
  BY <1>1 DEF ListOK, ImportsWithin
<1>3. ASSUME NEW q \in Runs PROVE RunOK(q)'
  BY OthersStay DEF RunInv
<1> QED
  BY <1>2, <1>3 DEF RunInv

LEMMA RunInductive ==
    ASSUME ~EditsDuringRuns, OnePlace, RunInv, ScriptTyped', [ScriptNext]_scriptVars
    PROVE  RunInv'
<1>1. /\ ScriptTyped /\ \A p \in Runs : RunOK(p)
      /\ \A t \in Texts : lists[t] # Nothing => ListOK(lists[t])
      /\ at \in [Runs -> RunLabels] /\ mods \in [Runs -> SUBSET Files]
      /\ key \in [Runs -> Snapshots \union {Nothing}]
      /\ built \in [Runs -> Snapshots \union {Nothing}]
      /\ target \in [Runs -> {"cache", "artifact"}]
      /\ lists \in [Texts -> Snapshots \union {Nothing}]
      /\ disk[Main] \in Texts
  BY ScriptAssumption DEF RunInv, ScriptTyped, ScriptTypeOK
<1>2. PICK here, have : here = Closure /\ have = Contents(here)
  OBVIOUS
<1>3. ASSUME UNCHANGED disk
      PROVE  Closure' = here /\ Contents(Closure)' = have /\ (Resolves' <=> Resolves)
  BY <1>2, <1>3, SameDisk DEF Contents
<1> USE DEF MoveTo, run
<1>4. ASSUME NEW p \in Runs, StartRun(p) PROVE RunInv'
  <2>1. RunOK(p)'
    BY <1>1, <1>4 DEF StartRun, RunOK
  <2> QED
    BY <1>1, <1>4, <2>1, RunGoesOn DEF StartRun
<1>5. ASSUME NEW p \in Runs, ListHit(p) PROVE RunInv'
  <2>1. PICK list : list = lists[disk[Main]]
    OBVIOUS
  <2>2. list \in Snapshots /\ ListOK(list) /\ Fresh(list)
    BY <1>1, <1>5, <2>1 DEF ListHit, Fresh
  <2>3. DOMAIN list = here
    BY <1>1, <1>2, <2>2, FreshIsClosure
  <2>4. /\ mods' = [mods EXCEPT ![p] = here] /\ at[p] = "list" /\ at' = [at EXCEPT ![p] = "key"]
        /\ UNCHANGED <<disk, lists, bins, key, built, target>>
    BY <1>5, <2>1, <2>3 DEF ListHit, UseList
  <2>5. RunOK(p)'
    BY <1>1, <1>3, <2>4 DEF RunOK
  <2> QED
    BY <1>1, <2>4, <2>5, RunGoesOn
<1>6. ASSUME NEW p \in Runs, ListMiss(p) PROVE RunInv'
  <2>1. /\ mods' = [mods EXCEPT ![p] = here] /\ at[p] = "list" /\ at' = [at EXCEPT ![p] = "record"]
        /\ UNCHANGED <<disk, lists, bins, key, built, target>> /\ Resolves
    BY <1>2, <1>6 DEF ListMiss
  <2>2. RunOK(p)'
    BY <1>1, <1>3, <2>1 DEF RunOK
  <2> QED
    BY <1>1, <2>1, <2>2, RunGoesOn
<1>7. ASSUME NEW p \in Runs, ListFails(p) PROVE RunInv'
  <2>1. RunOK(p)'
    BY <1>1, <1>7 DEF ListFails, RunOK
  <2> QED
    BY <1>1, <1>7, <2>1, RunGoesOn DEF ListFails
<1>8. ASSUME NEW p \in Runs, Record(p) PROVE RunInv'
  <2>1. /\ at[p] = "record" /\ at' = [at EXCEPT ![p] = "key"]
        /\ UNCHANGED <<disk, bins, mods, key, built, target>>
        /\ \/ lists' = [lists EXCEPT ![disk[Main]] = Contents(mods[p])]
           \/ UNCHANGED lists
    BY <1>8 DEF Record
  <2>2. mods[p] = here /\ Resolves /\ key[p] = Nothing
    BY <1>1, <1>2, <2>1 DEF RunOK
  <2>3. RunOK(p)'
    BY <1>1, <1>3, <2>1, <2>2 DEF RunOK
  <2>4. \A q \in Runs : RunOK(q)'
    BY <1>1, <2>1, <2>3, OthersStay
  <2>5. ListOK(have)
    BY <1>1, <1>2, <2>2, RecordedIsOK
  <2>6. \A t \in Texts : lists'[t] # Nothing => ListOK(lists'[t])
    BY <1>1, <1>2, <2>1, <2>2, <2>5
  <2>7. \A t \in Texts : (lists[t] # Nothing => ListOK(lists[t]))'
    BY <2>6 DEF ListOK, ImportsWithin
  <2> QED
    BY <2>4, <2>7 DEF RunInv
<1>9. ASSUME NEW p \in Runs, ComputeKey(p) PROVE RunInv'
  <2>1. /\ at[p] = "key" /\ at' = [at EXCEPT ![p] = "lookup"]
        /\ key' = [key EXCEPT ![p] = Contents(mods[p])]
        /\ UNCHANGED <<disk, lists, bins, mods, built, target>>
    BY <1>9 DEF ComputeKey
  <2>2. mods[p] = here /\ key' = [key EXCEPT ![p] = have]
    BY <1>1, <1>2, <2>1 DEF RunOK
  <2>3. RunOK(p)'
    BY <1>1, <1>3, <2>1, <2>2 DEF RunOK
  <2> QED
    BY <1>1, <2>1, <2>3, RunGoesOn
<1>10. ASSUME NEW p \in Runs, NoKey(p) \/ Miss(p) PROVE RunInv'
  <2>1. /\ at[p] \in {"key", "lookup"} /\ at' = [at EXCEPT ![p] = "compile"]
        /\ UNCHANGED <<disk, lists, bins, mods, key, built, target>>
    BY <1>10 DEF NoKey, Miss
  <2>2. mods[p] = here /\ key[p] \in {Nothing, have}
    BY <1>1, <1>2, <2>1 DEF RunOK
  <2>3. RunOK(p)'
    BY <1>1, <1>3, <2>1, <2>2 DEF RunOK
  <2> QED
    BY <1>1, <2>1, <2>3, RunGoesOn
<1>11. ASSUME NEW p \in Runs, Hit(p) PROVE RunInv'
  <2>1. /\ at[p] = "lookup" /\ at' = [at EXCEPT ![p] = "exec"]
        /\ target' = [target EXCEPT ![p] = "cache"]
        /\ UNCHANGED <<disk, lists, bins, mods, key, built>>
    BY <1>11 DEF Hit
  <2>2. key[p] = have
    BY <1>1, <1>2, <2>1 DEF RunOK
  <2>3. RunOK(p)'
    BY <1>1, <1>3, <2>1, <2>2 DEF RunOK
  <2> QED
    BY <1>1, <2>1, <2>3, RunGoesOn
<1>12. ASSUME NEW p \in Runs, Compile(p) PROVE RunInv'
  <2>1. PICK order :
          /\ order = IF at[p] = "compile" THEN mods[p] ELSE Closure
          /\ at[p] \in {"compile", "unlisted"} /\ Builds(p, order)
          /\ at' = [at EXCEPT ![p] = IF key[p] = Nothing THEN "exec" ELSE "copy"]
    BY <1>12 DEF Compile
  <2>2. order = here /\ key[p] \in {Nothing, have}
    BY <1>1, <1>2, <2>1 DEF RunOK
  <2>3. /\ built' = [built EXCEPT ![p] = have] /\ target' = [target EXCEPT ![p] = "artifact"]
        /\ UNCHANGED <<disk, lists, bins, mods, key>>
    BY <1>2, <2>1, <2>2 DEF Builds
  <2>4. RunOK(p)'
    BY <1>1, <1>3, <2>1, <2>2, <2>3 DEF RunOK
  <2> QED
    BY <1>1, <2>1, <2>3, <2>4, RunGoesOn
<1>13. ASSUME NEW p \in Runs, CompileFails(p) \/ Exec(p) \/ RunKilled(p) PROVE RunInv'
  <2>1. at' = [at EXCEPT ![p] = "idle"] /\ UNCHANGED <<disk, lists, bins, mods, key, built, target>>
    BY <1>13 DEF CompileFails, Exec, RunKilled
  <2>2. RunOK(p)'
    BY <1>1, <2>1 DEF RunOK
  <2> QED
    BY <1>1, <2>1, <2>2, RunGoesOn
<1>14. ASSUME NEW p \in Runs, StoreCopy(p) \/ StoreReplace(p) PROVE RunInv'
  <2>1. /\ \/ at[p] = "copy" /\ at' = [at EXCEPT ![p] = "replace"]
           \/ at[p] = "replace" /\ at' = [at EXCEPT ![p] = "choose"]
        /\ UNCHANGED <<disk, lists, mods, key, built, target>>
    BY <1>14 DEF StoreCopy, StoreReplace
  <2>2. key[p] = have /\ built[p] = have
    BY <1>1, <1>2, <2>1 DEF RunOK
  <2>3. RunOK(p)'
    BY <1>1, <1>3, <2>1, <2>2 DEF RunOK
  <2> QED
    BY <1>1, <2>1, <2>3, RunGoesOn
<1>15. ASSUME NEW p \in Runs, Choose(p) PROVE RunInv'
  <2>1. PICK which \in {"cache", "artifact"} : target' = [target EXCEPT ![p] = which]
    BY <1>15 DEF Choose
  <2>2. /\ at[p] = "choose" /\ at' = [at EXCEPT ![p] = "exec"]
        /\ UNCHANGED <<disk, lists, bins, mods, key, built>>
    BY <1>15 DEF Choose
  <2>3. key[p] = have /\ built[p] = have
    BY <1>1, <1>2, <2>2 DEF RunOK
  <2>4. RunOK(p)'
    BY <1>1, <1>3, <2>1, <2>2, <2>3 DEF RunOK
  <2> QED
    BY <1>1, <2>1, <2>2, <2>4, RunGoesOn
<1>16. ASSUME NEW f \in Files, NEW t \in Texts \union {Absent}, Edit(f, t) PROVE RunInv'
  <2>1. /\ \A p \in Runs : at[p] = "idle"
        /\ UNCHANGED <<lists, bins, at, mods, key, built, target>>
    BY <1>16 DEF Edit
  <2>2. \A p \in Runs : RunOK(p)'
    BY <2>1 DEF RunOK
  <2>3. \A u \in Texts : (lists[u] # Nothing => ListOK(lists[u]))'
    BY <1>1, <2>1 DEF ListOK, ImportsWithin
  <2> QED
    BY <2>2, <2>3 DEF RunInv
<1>17. ASSUME UNCHANGED <<disk, lists, at, mods, key, built, target>> PROVE RunInv'
  <2>1. \A p \in Runs : RunOK(p)'
    BY <1>1, <1>2, <1>3, <1>17 DEF RunOK
  <2>2. \A u \in Texts : (lists[u] # Nothing => ListOK(lists[u]))'
    BY <1>1, <1>17 DEF ListOK, ImportsWithin
  <2> QED
    BY <2>1, <2>2 DEF RunInv
<1>18. ASSUME NEW k \in Snapshots, Collect(k) PROVE RunInv'
  BY <1>17, <1>18 DEF Collect
<1>19. CASE UNCHANGED scriptVars
  BY <1>17, <1>19 DEF scriptVars
<1> QED
  BY <1>4, <1>5, <1>6, <1>7, <1>8, <1>9, <1>10, <1>11, <1>12, <1>13, <1>14, <1>15,
     <1>16, <1>18, <1>19 DEF ScriptNext

LEMMA RunInvHolds ==
    ASSUME ~EditsDuringRuns, OnePlace PROVE ScriptSpec => []RunInv
<1>1. RunInv /\ ScriptTyped' /\ [ScriptNext]_scriptVars => RunInv'
  BY RunInductive
<1> QED
  BY <1>1, RunInitially, TypedInitially, TypedNext, PTL DEF ScriptSpec

(* A list that is found fresh is what resolving the imports would give,    *)
(* whatever files were edited, created or deleted between the runs, where  *)
(* each module is looked for in one place.                                 *)
THEOREM ListsAreRight ==
    ASSUME ~EditsDuringRuns, OnePlace PROVE ScriptSpec => []ListIsRight
<1>1. RunInv => ListIsRight
  <2> SUFFICES ASSUME RunInv, Fresh(lists[disk[Main]])
               PROVE  DOMAIN lists[disk[Main]] = Closure
    BY DEF ListIsRight
  <2>1. /\ disk[Main] \in Texts /\ lists \in [Texts -> Snapshots \union {Nothing}]
        /\ ScriptTyped /\ \A t \in Texts : lists[t] # Nothing => ListOK(lists[t])
    BY ScriptAssumption DEF RunInv, ScriptTyped, ScriptTypeOK
  <2>2. lists[disk[Main]] # Nothing
    BY DEF Fresh
  <2>3. lists[disk[Main]] \in Snapshots /\ ListOK(lists[disk[Main]])
    BY <2>1, <2>2
  <2> QED
    BY <2>1, <2>3, FreshIsClosure
<1> QED
  BY <1>1, RunInvHolds, PTL

(* A run executes the program as it is on disk, out of the cache or just   *)
(* compiled, for any number of runs that store and collect at the same     *)
(* time, die or fail; or its entry was collected before the exec.          *)
THEOREM RunsTheProgramOnDisk ==
    ASSUME ~EditsDuringRuns, OnePlace PROVE ScriptSpec => RunsTheProgram
<1>1. ASSUME RunInv, BinariesInv
      PROVE  [\A p \in Runs : Exec(p) => Image(p) \in {Nothing, Contents(Closure)}]_scriptVars
  <2> SUFFICES ASSUME NEW p \in Runs, Exec(p)
               PROVE  Image(p) \in {Nothing, Contents(Closure)}
    OBVIOUS
  <2>1. at[p] = "exec" /\ RunOK(p) /\ ScriptTyped
    BY <1>1 DEF Exec, RunInv
  <2>2. Contents(Closure) = IF target[p] = "cache" THEN key[p] ELSE built[p]
    BY <2>1 DEF RunOK
  <2>3. Contents(Closure) \in Snapshots
    BY <2>1, ClosureIs, ContentsTyped DEF Existing
  <2>4. bins[Contents(Closure)] \in {Nothing, Contents(Closure)}
    BY <1>1, <2>3 DEF BinariesInv, CacheIsRight
  <2> QED
    BY <2>2, <2>4 DEF Image
<1>2. BinariesInv /\ [ScriptNext]_scriptVars => BinariesInv'
  BY BinariesInductive
<1> QED
  BY <1>1, <1>2, BinariesInitially, RunInvHolds, PTL DEF ScriptSpec, RunsTheProgram
=============================================================================
