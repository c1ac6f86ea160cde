---------------------------- MODULE BundleCache ----------------------------
(***************************************************************************)
(* The incremental build of a project (PenguBuilder.bundle and compile in  *)
(* pengu_project.py).  One build directory holds bundle.c, the file        *)
(* .bundle_hash, which says which configuration and sources the bundle was *)
(* generated from, and the artifact that the C compiler made of it.        *)
(* Sources are compared by content; headers, C glue and the configuration  *)
(* file, here one header, by modification time, and so is the artifact.    *)
(*                                                                         *)
(* A source text stands for the contents of all modules.  Only two         *)
(* comparisons of times are ever made, so these two are the state.         *)
(* Generating the bundle is one step, and so is reading the sources.       *)
(***************************************************************************)
CONSTANTS Processes,
          Configs,            \* the profiles, defines, ... of the commands
          Sources, Headers,   \* the contents that they may have
          Broken,             \* the sources that the checker refuses
          EditsDuringBuilds,  \* TRUE: files may change while a build is going on
          Faults,             \* TRUE: .bundle_hash may stay as it was when a bundle
                              \* is there: the process dies first, or cannot open it
          Concurrent,         \* TRUE: two builds may use the directory at once
          None

Generated == [cfg : Configs, src : Sources]
Artifacts == [bundle : Generated, header : Headers]

ASSUME BundleAssumption ==
    /\ {EditsDuringBuilds, Faults, Concurrent} \subseteq BOOLEAN
    /\ Broken \subseteq Sources
    /\ None \notin Generated \union Artifacts

VARIABLES src, header,   \* the contents on disk
          bundle,        \* what bundle.c was generated from
          hash,          \* what .bundle_hash says; None if empty or missing
          out,           \* what the artifact was compiled from
          headerNewer,   \* mtime of the header > mtime of the bundle
          outFresh,      \* mtime of the artifact >= mtime of the bundle
          pc, mine, read \* per process: where it is, its configuration and
                         \* what it has read

files == <<src, header>>
build == <<bundle, hash, out, headerNewer, outFresh>>
vars == <<files, build, pc, mine, read>>

Current(p) == [cfg |-> mine[p], src |-> src]
Goto(p, label) == pc' = [pc EXCEPT ![p] = label]
Quiet == \A p \in Processes : pc[p] = "idle"

Init ==
    /\ src \in Sources /\ header \in Headers
    /\ bundle = None /\ hash = None /\ out = None
    /\ headerNewer = FALSE /\ outFresh = FALSE
    /\ pc = [p \in Processes |-> "idle"]
    /\ mine \in [Processes -> Configs]
    /\ read = [p \in Processes |-> None]

-----------------------------------------------------------------------------
Start(p, c) ==
    /\ pc[p] = "idle"
    /\ Concurrent \/ Quiet
    /\ mine' = [mine EXCEPT ![p] = c]
    /\ Goto(p, "decide")
    /\ UNCHANGED <<files, build, read>>

\* BUG: the fingerprint is the configuration
IsBundleUpToDateByConfig(p) ==
    bundle # None /\ hash # None /\ hash.cfg = mine[p] /\ ~headerNewer

\* BUG: the headers are not looked at
IsBundleUpToDateByContent(p) == bundle # None /\ hash = Current(p)

IsBundleUpToDate(p) == bundle # None /\ hash = Current(p) /\ ~headerNewer

UseBundle(p) ==
    /\ pc[p] = "decide"
    /\ IsBundleUpToDate(p)
    /\ Goto(p, "artifact")
    /\ UNCHANGED <<files, build, mine, read>>

\* the checker reads every module; an error ends the build
Check(p) ==
    /\ pc[p] = "decide"
    /\ ~IsBundleUpToDate(p)
    /\ IF src \in Broken
       THEN Goto(p, "idle") /\ UNCHANGED read
       ELSE Goto(p, "generate") /\ read' = [read EXCEPT ![p] = Current(p)]
    /\ UNCHANGED <<files, build, mine>>

\* generate_bundle: bundle.c is now newer than everything else
Generate(p) ==
    /\ pc[p] = "generate"
    /\ bundle' = read[p]
    /\ headerNewer' = FALSE
    /\ outFresh' = FALSE
    /\ Goto(p, "open")
    /\ UNCHANGED <<files, hash, out, mine, read>>

\* open(hash_file, "w") empties the file; or it fails and is ignored
OpenHash(p) ==
    /\ pc[p] = "open"
    /\ \/ hash' = None /\ Goto(p, "hash")
       \/ Faults /\ UNCHANGED hash /\ Goto(p, "cc")
    /\ UNCHANGED <<files, bundle, out, headerNewer, outFresh, mine, read>>

\* BUG: the hash of the sources is left out when the file is written
WriteNoHash(p) ==
    /\ pc[p] = "hash"
    /\ Goto(p, "cc")
    /\ UNCHANGED <<files, build, mine, read>>

\* the fingerprint of the sources as they are by now
WriteHash(p) ==
    /\ pc[p] = "hash"
    /\ hash' = Current(p)
    /\ Goto(p, "cc")
    /\ UNCHANGED <<files, bundle, out, headerNewer, outFresh, mine, read>>

\* the bundle was up to date: so may be what was compiled from it
UseArtifact(p) ==
    /\ pc[p] = "artifact"
    /\ Goto(p, IF out # None /\ outFresh THEN "done" ELSE "cc")
    /\ UNCHANGED <<files, build, mine, read>>

\* the C compiler reads the bundle and the headers ...
CcStart(p) ==
    /\ pc[p] = "cc"
    /\ bundle # None
    /\ read' = [read EXCEPT ![p] = [bundle |-> bundle, header |-> header]]
    /\ Goto(p, "link")
    /\ UNCHANGED <<files, build, mine>>

\* ... and leaves an artifact,
CcEnd(p) ==
    /\ pc[p] = "link"
    /\ out' = read[p]
    /\ outFresh' = TRUE
    /\ Goto(p, "done")
    /\ UNCHANGED <<files, bundle, hash, headerNewer, mine, read>>

\* or fails, with the old artifact or none; once more with the fallback, or not
CcFails(p) ==
    /\ pc[p] \in {"cc", "link"}
    /\ \/ UNCHANGED <<out, outFresh>>
       \/ out' = None /\ outFresh' = FALSE
    /\ \E label \in {"cc", "idle"} : Goto(p, label)
    /\ UNCHANGED <<files, bundle, hash, headerNewer, mine, read>>

\* compile() returns the path of the artifact
Return(p) ==
    /\ pc[p] = "done"
    /\ Goto(p, "idle")
    /\ UNCHANGED <<files, build, mine, read>>

\* a process dies; between bundle.c and .bundle_hash only if Faults
Killed(p) ==
    /\ pc[p] # "idle"
    /\ Faults \/ pc[p] # "open"
    /\ Goto(p, "idle")
    /\ UNCHANGED <<files, build, mine, read>>

-----------------------------------------------------------------------------
EditSource(s) ==
    /\ EditsDuringBuilds \/ Quiet
    /\ src' = s
    /\ UNCHANGED <<header, build, pc, mine, read>>

EditHeader(h) ==
    /\ EditsDuringBuilds \/ Quiet
    /\ header' = h
    /\ headerNewer' = TRUE
    /\ UNCHANGED <<src, bundle, hash, out, outFresh, pc, mine, read>>

\* pengu clean
Clean ==
    /\ Quiet
    /\ bundle' = None /\ hash' = None /\ out' = None
    /\ headerNewer' = FALSE /\ outFresh' = FALSE
    /\ UNCHANGED <<files, pc, mine, read>>

Next ==
    \/ \E p \in Processes :
        \/ \E c \in Configs : Start(p, c)
        \/ UseBundle(p) \/ Check(p) \/ Generate(p) \/ OpenHash(p) \/ WriteHash(p)
        \/ UseArtifact(p) \/ CcStart(p) \/ CcEnd(p) \/ CcFails(p)
        \/ Return(p) \/ Killed(p)
    \/ \E s \in Sources : EditSource(s)
    \/ \E h \in Headers : EditHeader(h)
    \/ Clean

Spec == Init /\ [][Next]_vars

-----------------------------------------------------------------------------
Labels == {"idle", "decide", "artifact", "generate", "open", "hash", "cc", "link", "done"}

TypeOK ==
    /\ src \in Sources /\ header \in Headers
    /\ bundle \in Generated \union {None} /\ hash \in Generated \union {None}
    /\ out \in Artifacts \union {None}
    /\ headerNewer \in BOOLEAN /\ outFresh \in BOOLEAN
    /\ pc \in [Processes -> Labels]
    /\ mine \in [Processes -> Configs]
    /\ read \in [Processes -> Generated \union Artifacts \union {None}]
    /\ \A p \in Processes :
        /\ pc[p] = "generate" => read[p] \in Generated
        /\ pc[p] = "link" => read[p] \in Artifacts

(* "a cache hit is always the right program" (docs/ARCHITECTURE.md:379):   *)
(* a bundle that is found up to date was generated from the sources and    *)
(* for the configuration that the build is called with.                    *)
HitIsRight ==
    \A p \in Processes :
        pc[p] = "decide" /\ IsBundleUpToDate(p) => bundle = Current(p)

(* A build that reports success leaves the artifact of the sources, the    *)
(* headers and the configuration it was called with: no stale binary       *)
(* (compute_sources_fingerprint, pengu_project.py:894), whatever was built *)
(* in the directory before, and however it failed.                         *)
ArtifactIsRight ==
    [][\A p \in Processes :
        Return(p) => out = [bundle |-> Current(p), header |-> header]]_vars

(* When the artifact is that of the current inputs, and newer than its     *)
(* bundle, neither is made again (the test named at pengu_project.py:1447).  *)
UnchangedIsCached ==
    [][\A p \in Processes :
        Generate(p) \/ CcStart(p) =>
            ~(/\ out = [bundle |-> Current(p), header |-> header]
              /\ outFresh /\ ~headerNewer)]_vars
=============================================================================
