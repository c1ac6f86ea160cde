----------------------------- MODULE DepProject -----------------------------
(***************************************************************************)
(* The dependency manager of pengu_project.py: the manifest, the checkouts *)
(* under lib/ and pengu.lock, and the commands that change them (add,      *)
(* remove, upgrade, update, build, build --frozen).  Most of them end in   *)
(* resolve_transitive_dependencies, a breadth-first walk that installs and *)
(* checks out packages as it goes; one step of the model is one round of   *)
(* its loop.  Other people publish new tags at any time, and every access  *)
(* to the network may fail.                                                *)
(*                                                                         *)
(* A package is a git repository whose default branch is at its newest     *)
(* tag; versions are numbered in their order, and a constraint is the set  *)
(* of versions it allows (pengu_semver.py is not modelled here).           *)
(***************************************************************************)
EXTENDS Integers, Sequences, FiniteSets

CONSTANTS Names,
          MaxVersion,   \* bound: tags a repository may get
          MaxCommands,  \* bound: commands in a behaviour
          MaxDepth,     \* max_depth of the walk
          Commands,     \* the commands that are given
          Constraints,  \* what a user may write into the manifest
          Worlds,       \* possible manifests of the packages: world[n][v]
          Flat,         \* the repositories that keep their modules in the root
          Any, None, Root

Versions == 1 .. MaxVersion

Wants == {Any} \union ((SUBSET Versions) \ {{}})

Manifests == Seq([name : Names, want : Wants])

Checkouts == [at : Versions, known : Versions, module : Versions]

Orders == [op : {"add", "update", "build", "frozen"}, name : Names \union {None},
           before : Manifests]

ASSUME DepAssumption ==
    /\ MaxVersion \in Nat \ {0} /\ MaxCommands \in Nat /\ MaxDepth \in Nat
    /\ Flat \subseteq Names /\ Root \notin Names
    /\ Constraints \subseteq Wants
    /\ \A w \in Worlds : w \in [Names -> [Versions -> Manifests]]
    /\ None \notin Checkouts /\ None \notin Orders

VARIABLES
    world,      \* the manifests inside the packages (never changes)
    published,  \* how many tags each repository has
    manifest,   \* the project's dependencies, in file order
    lib,        \* the checkout of each package, or None
    lock,       \* pengu.lock: package -> version, or None
    cmd,        \* the command in progress, or None
    queue,      \* the walk: requirements still to visit
    resolved,   \* package -> version it was resolved to (0: none)
    unmet,      \* history: requirements the walk let through, and why
    open,       \* history: requirements for which there was no tag when pengu.lock
                \* was written
    drift,      \* history: the project may have been changed since then
    count       \* commands so far

walk == <<queue, resolved, unmet>>
vars == <<world, published, manifest, lib, lock, open, cmd, walk, drift, count>>

-----------------------------------------------------------------------------
Allows(c, v) == c = Any \/ v \in c

\* what select_version picks among the first k tags, or 0
Best(c, k) ==
    LET fit == {v \in c : v <= k}
    IN IF fit = {} THEN 0 ELSE CHOOSE v \in fit : \A w \in fit : w <= v

Entries(n) == {i \in DOMAIN manifest : manifest[i].name = n}
Listed(n) == Entries(n) # {}

\* writing a dependency keeps its place in the file; a new one goes last
WithEntry(n, c) ==
    IF Listed(n)
    THEN [i \in DOMAIN manifest |->
            IF i \in Entries(n) THEN [name |-> n, want |-> c] ELSE manifest[i]]
    ELSE Append(manifest, [name |-> n, want |-> c])

\* the entries that are not about one of these packages, in their order
Others(entries, names) ==
    LET others == {i \in DOMAIN entries : entries[i].name \notin names}
        Place(i) == Cardinality({j \in others : j <= i})
    IN [k \in 1 .. Cardinality(others) |-> entries[CHOOSE i \in others : Place(i) = k]]

Without(n) == Others(manifest, {n})

(* A checkout: the tag HEAD is at, the tags it knows, and the version of   *)
(* the modules under pengu/, which is what the project imports.            *)
Checkout(n, v, k, module) ==
    [at |-> v, known |-> k, module |-> IF n \in Flat THEN module ELSE v]

\* git clone of the default branch, and the move of root modules to pengu/
Cloned(n) == Checkout(n, published[n], published[n], published[n])

\* git pull (or fetch and reset), in a checkout that was already arranged
Pulled(n) == Checkout(n, published[n], published[n], lib[n].module)

\* BUG: the tags are fetched first
MatchedFetchFirst(n, d, c) ==
    LET k == published[n]
    IN IF c = Any THEN {d}
       ELSE {Checkout(n, IF Best(c, k) = 0 THEN d.at ELSE Best(c, k), k, d.module)}

(* _checkout_matching_tag on checkout d: the best tag it knows; else the   *)
(* best after a fetch, which may fail; else it stays where it is.          *)
Matched(n, d, c) ==
    LET To(k) == Checkout(n, IF Best(c, k) = 0 THEN d.at ELSE Best(c, k), k, d.module)
    IN IF c = Any THEN {d}
       ELSE IF Best(c, d.known) # 0 THEN {To(d.known)}
       ELSE {To(d.known), To(published[n])}

Init ==
    /\ world \in Worlds
    /\ published = [n \in Names |-> 1]
    /\ manifest = <<>>
    /\ lib = [n \in Names |-> None]
    /\ lock = None
    /\ cmd = None
    /\ queue = <<>>
    /\ resolved = <<>>
    /\ unmet = {}
    /\ open = {}
    /\ drift = FALSE
    /\ count = 0

-----------------------------------------------------------------------------
(* Commands up to the walk.  A command remembers the manifest it found     *)
(* (only the properties look at it).                                       *)
Requirements(entries, parent, depth) ==
    [i \in DOMAIN entries |-> [name |-> entries[i].name, want |-> entries[i].want,
                               by |-> parent, depth |-> depth]]

Given(op) == cmd = None /\ op \in Commands /\ count < MaxCommands

Walk(op, n, deps) ==
    /\ cmd' = [op |-> op, name |-> n, before |-> manifest]
    /\ queue' = Requirements(deps, Root, 0)
    /\ resolved' = <<>>
    /\ unmet' = {}
    /\ count' = count + 1

\* pengu add <url>: the entry it writes has no version
Add(n) ==
    /\ Given("add")
    /\ lib' \in {[lib EXCEPT ![n] = IF lib[n] = None THEN Cloned(n) ELSE Pulled(n)]}
                \union (IF lib[n] = None THEN {} ELSE {lib})
    /\ manifest' = WithEntry(n, Any)
    /\ Walk("add", n, manifest')
    /\ drift' = TRUE
    /\ UNCHANGED <<world, published, lock, open>>

Remove(n) ==
    /\ Given("remove")
    /\ Listed(n) \/ lib[n] # None
    /\ manifest' = Without(n)
    /\ \/ lib' = [lib EXCEPT ![n] = None]
       \/ UNCHANGED lib    \* --keep-files
    /\ drift' = TRUE
    /\ count' = count + 1
    /\ UNCHANGED <<world, published, lock, open, cmd, walk>>

\* pengu upgrade <name> <tag>: fetch, checkout, then the manifest
Upgrade(n, v) ==
    /\ Given("upgrade")
    /\ Listed(n) /\ lib[n] # None
    /\ v <= published[n]
    /\ lib' = [lib EXCEPT ![n] = Checkout(n, v, published[n], @.module)]
    /\ manifest' = WithEntry(n, {v})
    /\ drift' = TRUE
    /\ count' = count + 1
    /\ UNCHANGED <<world, published, lock, open, cmd, walk>>

\* pengu update: pulls what is listed and installed, then refreshes the lock
Update ==
    /\ Given("update")
    /\ manifest # <<>>
    /\ \E reached \in SUBSET {n \in Names : Listed(n) /\ lib[n] # None} :
        lib' = [n \in Names |-> IF n \in reached THEN Pulled(n) ELSE lib[n]]
    /\ Walk("update", None, manifest)
    /\ UNCHANGED <<world, published, manifest, lock, open, drift>>

Build ==
    /\ Given("build")
    /\ manifest # <<>> \/ lock # None
    /\ Walk("build", None, manifest)
    /\ UNCHANGED <<world, published, manifest, lib, lock, open, drift>>

\* build --frozen or --locked: needs a lock, installs nothing
BuildFrozen ==
    /\ Given("frozen")
    /\ lock # None
    /\ Walk("frozen", None, manifest)
    /\ UNCHANGED <<world, published, manifest, lib, lock, open, drift>>

\* the user edits a constraint of the manifest
Edit(n, c) ==
    /\ Given("edit")
    /\ Listed(n)
    /\ manifest' = WithEntry(n, c)
    /\ drift' = TRUE
    /\ count' = count + 1
    /\ UNCHANGED <<world, published, lib, lock, open, cmd, walk>>

Publish(n) ==
    /\ published[n] < MaxVersion
    /\ published' = [published EXCEPT ![n] = @ + 1]
    /\ UNCHANGED <<world, manifest, lib, lock, open, cmd, walk, drift, count>>

-----------------------------------------------------------------------------
(* The walk.                                                               *)
Req == Head(queue)
Walking == cmd # None /\ queue # <<>>
Seen == Req.name \in DOMAIN resolved

Conflict == Walking /\ Seen /\ resolved[Req.name] # 0
                    /\ ~Allows(Req.want, resolved[Req.name])

\* BUG: a requirement that is met goes back into the queue
RevisitRequeues ==
    /\ Walking /\ Seen /\ ~Conflict
    /\ queue' = Append(Tail(queue), Req)
    /\ UNCHANGED <<world, published, manifest, lib, lock, open, cmd, resolved, unmet, drift, count>>

\* the package was resolved before, and its version will do
Revisit ==
    /\ Walking /\ Seen /\ ~Conflict
    /\ queue' = Tail(queue)
    /\ UNCHANGED <<world, published, manifest, lib, lock, open, cmd, resolved, unmet, drift, count>>

\* BUG: the dependencies are those of the version before the checkout
ResolveToStale(v) ==
    LET n == Req.name
        done == DOMAIN resolved \union {n}
        goes == v # 0 /\ Req.depth < MaxDepth
        own == IF goes THEN Requirements(world[n][IF lib[n] = None THEN v ELSE lib[n].at], n, Req.depth + 1) ELSE <<>>
        passed == {own[i] : i \in {j \in DOMAIN own : own[j].name \in DOMAIN resolved}}
    IN /\ resolved' = [m \in done |-> IF m = n THEN v ELSE resolved[m]]
       /\ queue' = Tail(queue) \o Others(own, done)
       /\ unmet' = unmet
            \union {[why |-> "passedOver", name |-> r.name, want |-> r.want] :
                        r \in {q \in passed : resolved[q.name] # 0 /\ ~Allows(q.want, resolved[q.name])}}
            \union (IF v = 0 \/ Allows(Req.want, v) THEN {}
                    ELSE {[why |-> "noTag", name |-> n, want |-> Req.want]})

(* Record the version of the checkout (0 when there is none) and queue its *)
(* dependencies; the ones that were resolved before are passed over.       *)
ResolveTo(v) ==
    LET n == Req.name
        done == DOMAIN resolved \union {n}
        goes == v # 0 /\ Req.depth < MaxDepth
        own == IF goes THEN Requirements(world[n][v], n, Req.depth + 1) ELSE <<>>
        passed == {own[i] : i \in {j \in DOMAIN own : own[j].name \in DOMAIN resolved}}
    IN /\ resolved' = [m \in done |-> IF m = n THEN v ELSE resolved[m]]
       /\ queue' = Tail(queue) \o Others(own, done)
       /\ unmet' = unmet
            \union {[why |-> "passedOver", name |-> r.name, want |-> r.want] :
                        r \in {q \in passed : resolved[q.name] # 0 /\ ~Allows(q.want, resolved[q.name])}}
            \union (IF v = 0 \/ Allows(Req.want, v) THEN {}
                    ELSE {[why |-> "noTag", name |-> n, want |-> Req.want]})

\* an installed package, or one that is installed now: match the constraint
Settle ==
    /\ Walking /\ ~Seen
    /\ lib[Req.name] # None \/ cmd.op # "frozen"
    /\ LET n == Req.name
           d == IF lib[n] = None THEN Cloned(n) ELSE lib[n]
       IN \E m \in Matched(n, d, Req.want) :
            /\ lib' = [lib EXCEPT ![n] = m]
            /\ ResolveTo(m.at)
    /\ UNCHANGED <<world, published, manifest, lock, open, cmd, drift, count>>

\* it cannot be installed (a warning), or a frozen build finds it missing
Missing ==
    /\ Walking /\ ~Seen
    /\ lib[Req.name] = None
    /\ ResolveTo(0)
    /\ UNCHANGED <<world, published, manifest, lib, lock, open, cmd, drift, count>>

-----------------------------------------------------------------------------
(* The end of a command.                                                   *)
Walked == cmd # None /\ queue = <<>>

\* the requirements for which this walk has found no tag
Awaited == {[name |-> u.name, want |-> u.want] : u \in {w \in unmet : w.why = "noTag"}}

Quiet == queue' = <<>> /\ resolved' = <<>> /\ unmet' = {}

EndAdd ==
    /\ Walked /\ cmd.op = "add"
    /\ cmd' = None /\ Quiet
    /\ UNCHANGED <<world, published, manifest, lib, lock, open, drift, count>>

\* build, update: write pengu.lock
WriteLock ==
    /\ Walked /\ cmd.op \in {"build", "update"}
    /\ lock' = resolved
    /\ open' = Awaited
    /\ drift' = FALSE
    /\ cmd' = None /\ Quiet
    /\ UNCHANGED <<world, published, manifest, lib, count>>

\* --frozen: compare with pengu.lock; either answer changes nothing
Verdict ==
    /\ Walked /\ cmd.op = "frozen"
    /\ cmd' = None /\ Quiet
    /\ UNCHANGED <<world, published, manifest, lib, lock, open, drift, count>>

\* BUG: add only removes the checkout
ConflictKeepsEntry ==
    /\ Conflict
    /\ lib' = IF cmd.op = "add" THEN [lib EXCEPT ![cmd.name] = None] ELSE lib
    /\ drift' = TRUE
    /\ cmd' = None /\ Quiet
    /\ UNCHANGED <<world, published, manifest, lock, open, count>>

(* A conflict ends the walk with an error; add takes itself back, build    *)
(* stops, update only warns that the lock was not refreshed.               *)
ConflictEnds ==
    /\ Conflict
    /\ \/ /\ cmd.op = "add"
          /\ manifest' = Without(cmd.name)
          /\ lib' = [lib EXCEPT ![cmd.name] = None]
       \/ /\ cmd.op # "add"
          /\ UNCHANGED <<manifest, lib>>
    /\ drift' = TRUE
    /\ cmd' = None /\ Quiet
    /\ UNCHANGED <<world, published, lock, open, count>>

Resolve == Revisit \/ Settle \/ Missing \/ ConflictEnds \/ EndAdd \/ WriteLock \/ Verdict

Next ==
    \/ \E n \in Names :
        \/ Add(n) \/ Remove(n) \/ Publish(n)
        \/ \E v \in Versions : Upgrade(n, v)
        \/ \E c \in Constraints : Edit(n, c)
    \/ Update \/ Build \/ BuildFrozen
    \/ Resolve

Spec == Init /\ [][Next]_vars

(* A command that has started goes on. *)
FairSpec == Spec /\ WF_vars(Resolve)

-----------------------------------------------------------------------------
Resolutions == UNION {[S -> Versions \union {0}] : S \in SUBSET Names}

TypeOK ==
    /\ world \in Worlds
    /\ published \in [Names -> Versions]
    /\ manifest \in Manifests
    /\ lib \in [Names -> Checkouts \union {None}]
    /\ \A n \in Names : lib[n] # None => lib[n].at <= lib[n].known /\ lib[n].known <= published[n]
    /\ lock \in Resolutions \union {None}
    /\ cmd \in Orders \union {None}
    /\ queue \in Seq([name : Names, want : Wants, by : Names \union {Root}, depth : 0 .. MaxDepth])
    /\ resolved \in Resolutions
    /\ open \union Awaited \subseteq [name : Names, want : SUBSET Versions]
    /\ drift \in BOOLEAN
    /\ count \in 0 .. MaxCommands

(* The walk misses nothing and reports what is there: when it ends, every  *)
(* package of the graph is recorded at the version that is checked out,    *)
(* and everything that version asks for is in the graph too, whatever      *)
(* diamonds and cycles there are.                                          *)
GraphIsClosed ==
    Walked =>
        /\ \A i \in DOMAIN manifest : manifest[i].name \in DOMAIN resolved
        /\ \A n \in DOMAIN resolved : resolved[n] # 0 =>
            /\ resolved[n] = lib[n].at
            /\ \A i \in DOMAIN world[n][lib[n].at] :
                world[n][lib[n].at][i].name \in DOMAIN resolved

(* A tag now meets a requirement that none met when pengu.lock was written *)
(* (or that the build could not fetch).                                    *)
Overtaken == \E o \in open : Best(o.want, published[o.name]) # 0

(* What a build has locked, a frozen build accepts, as long as the project *)
(* has not been changed in between, whatever has been published meanwhile, *)
(* except for a tag that a requirement was waiting for: where none was     *)
(* found the frozen build fetches as well (pengu_project.py:4835), takes   *)
(* the new tag and rejects the lock.  A lock that records such             *)
(* requirements is accepted as long as they stay unmet, and whatever else  *)
(* the walk has let through.                                               *)
FrozenAcceptsBuild ==
    [][cmd # None /\ cmd' = None /\ cmd.op = "frozen"
         => drift \/ Overtaken \/ (resolved = lock /\ ~Conflict)]_vars

(* A package that was in nobody's way before is gone again after an add    *)
(* that failed.                                                            *)
FailedAdd == Conflict /\ cmd.op = "add"

NamesOf(entries) == {entries[i].name : i \in DOMAIN entries}

FreshAddRollsBack ==
    [][FailedAdd /\ cmd' = None /\ cmd.name \notin NamesOf(cmd.before)
         => manifest' = cmd.before /\ lib'[cmd.name] = None]_vars

(* Every command comes to its end: the walk terminates on every graph. *)
CommandsEnd == (cmd # None) ~> (cmd = None)

-----------------------------------------------------------------------------
(* "incompatible requirements raise DependencyConflictError": no           *)
(* requirement on a package that was resolved is passed over unread.       *)
ConflictsReported == Walked => \A u \in unmet : u.why # "passedOver"

(* "On a version conflict the whole add is rolled back": the manifest is   *)
(* the one from before the command.                                        *)
FailedAddRestoresManifest == [][FailedAdd /\ cmd' = None => manifest' = cmd.before]_vars

(* "nothing new can be resolved": a frozen build leaves lib/ alone. *)
FrozenLeavesLib == [][cmd # None /\ cmd.op = "frozen" => lib' = lib]_vars

(* "operates on a fresh copy": what a package offers for import is the     *)
(* version that is checked out.                                            *)
ImportsCheckedOut == \A n \in Names : lib[n] # None => lib[n].module = lib[n].at
=============================================================================
