--------------------------- MODULE LspValidation ---------------------------
(***************************************************************************)
(* Validation scheduling in the PenguScript language server                *)
(* (pengu_lsp/server.py): an asyncio event loop and one validation worker  *)
(* thread share the document buffers, the symbol tables, the cache of      *)
(* published diagnostics and the per-document generation counters.         *)
(*                                                                         *)
(* On the loop, the code between two awaits is one action.  The worker     *)
(* runs beside it: each access of _compute_diagnostics to a shared map,    *)
(* and each of its superseded() tests, is an action of its own.            *)
(*                                                                         *)
(* A document's text is a model value.  Parsing and checking it is         *)
(* abstracted to what the result depends on: the text itself and the text  *)
(* of every module its import graph reaches (Check).  Delays (debouncing)  *)
(* are finite and otherwise arbitrary.                                     *)
(***************************************************************************)
EXTENDS Integers, Sequences, FiniteSets

CONSTANTS
    Docs,        \* document URIs, which are also the module files behind them
    TextsOf,     \* for each document the texts it may have
    ImportsOf,   \* for each text the documents it imports
    Crashing,    \* texts on which the checker raises something else than a
                 \* PenguError: diagnostics, but no symbol table
    Empty,       \* the empty text, which every handler ignores
    None,        \* no text, no table, no diagnostics
    Ops,         \* what the client does in a run (see the client actions)
    Paced,       \* TRUE: the client acts only when the server is at rest
    Batched,     \* TRUE: a notification may be handled before the calls
                 \* that an earlier one queued on the loop have run (the
                 \* transport hands several messages over at once)
    MaxActs,     \* bound: client actions
    MaxTasks     \* bound: validation tasks that exist at the same time

Texts == UNION {TextsOf[d] : d \in Docs}

(* What checking a text may come to, see Check. *)
Checks == [text : Texts, deps : UNION {[D -> Texts] : D \in SUBSET Docs}]

Operations == {"open", "openDirty", "change", "save", "close", "closeDirty",
               "external", "config"}

ASSUME LspAssumption ==
    /\ IsFiniteSet(Docs)
    /\ None \notin Texts /\ None \notin Checks
    /\ ImportsOf \in [Texts -> SUBSET Docs]
    /\ Ops \subseteq Operations
    /\ Paced \in BOOLEAN /\ Batched \in BOOLEAN
    /\ MaxActs \in Nat /\ MaxTasks \in Nat

VARIABLES
    editor,     \* the text the client shows, None when the document is closed
    disk,       \* the text of the file
    fileEvents, \* files changed on disk and not yet reported by the watcher
    shown,      \* the diagnostics last published for each document
    acts,       \* client actions so far
    docs,       \* server._docs
    symbols,    \* server._symbols: the table, by what it was computed from
    cache,      \* server._validation_cache
    generation, \* server._validation_generation, 0 for a missing key
    current,    \* server._validate_tasks: the id of the task, 0 for none
    ready,      \* _schedule_validation calls that gather() queued on the loop
    task,       \* the _run_validation tasks and their executor jobs
    result,     \* what the job of a "computed" task returned
    jobs,       \* the executor's queue
    worker,     \* the job the worker runs, 0 for none
    step,       \* where the worker is in _compute_diagnostics
    view        \* its copy of _docs (completed by the files on disk)

client == <<editor, disk, fileEvents, acts>>
work == <<worker, step, view, result>>
vars == <<editor, disk, fileEvents, shown, acts, docs, symbols, cache,
          generation, current, ready, task, result, jobs, worker, step, view>>

Ids == 1 .. MaxTasks

(* A task is "starting" until its delay is over, "submitted" once its job  *)
(* is in the executor's queue, "running" with the worker, "computed" when  *)
(* the result waits for the loop.  "orphan" is a running job whose task    *)
(* was cancelled: its result is dropped.                                   *)
Places == {"free", "starting", "submitted", "running", "orphan", "computed"}

Free == [uri |-> None, source |-> None, gen |-> 0, at |-> "free"]

-----------------------------------------------------------------------------
(* Modules reached from text s of document d when the others read v: they  *)
(* are in every set that holds the imports of s and those of its members.  *)
Reached(d, s, v) ==
    LET text == [v EXCEPT ![d] = s]
        Closed(R) == ImportsOf[s] \subseteq R /\ \A y \in R : ImportsOf[text[y]] \subseteq R
    IN  {x \in Docs \ {d} : \A R \in SUBSET Docs : Closed(R) => x \in R}

(* What parse + check of text s is determined by; its diagnostics and its  *)
(* symbol table are identified with it.                                    *)
Check(d, s, v) ==
    [text |-> s,
     deps |-> [x \in (IF s \in Crashing THEN {} ELSE Reached(d, s, v)) |-> v[x]]]

(* The buffers, completed by the files on disk. *)
Overlay(buffers) == [d \in Docs |-> IF buffers[d] = None THEN disk[d] ELSE buffers[d]]

Superseded(i) == generation[task[i].uri] # task[i].gen

(* _document_dependency_paths: from the last symbol table of the document. *)
DependencyPaths(d) == IF symbols[d] = None THEN {} ELSE DOMAIN symbols[d].deps

(* _dependent_open_uris *)
DependentOpenUris(d) ==
    {x \in Docs \ {d} : docs[x] # None /\ d \in DependencyPaths(x)}

Init ==
    /\ editor = [d \in Docs |-> None]
    /\ disk \in {f \in [Docs -> Texts] : \A d \in Docs : f[d] \in TextsOf[d] \ {Empty}}
    /\ fileEvents = {}
    /\ shown = [d \in Docs |-> None]
    /\ acts = 0
    /\ docs = [d \in Docs |-> None]
    /\ symbols = [d \in Docs |-> None]
    /\ cache = [d \in Docs |-> None]
    /\ generation = [d \in Docs |-> 0]
    /\ current = [d \in Docs |-> 0]
    /\ ready = <<>>
    /\ task = [i \in Ids |-> Free]
    /\ result = [i \in Ids |-> None]
    /\ jobs = <<>>
    /\ worker = 0 /\ step = "idle" /\ view = None

-----------------------------------------------------------------------------
(* Task.cancel() on task i: nothing for a finished task, a job the worker  *)
(* has taken runs on, a job still in the queue is withdrawn.               *)
Cancelled(i) ==
    IF i = 0 THEN task
    ELSE [task EXCEPT ![i] = IF @.at = "running" THEN [@ EXCEPT !.at = "orphan"] ELSE Free]

Withdrawn(i) ==
    IF \E n \in DOMAIN jobs : jobs[n] = i
    THEN LET n == CHOOSE n \in DOMAIN jobs : jobs[n] = i
         IN  [k \in 1 .. Len(jobs) - 1 |-> jobs[IF k < n THEN k ELSE k + 1]]
    ELSE jobs

\* BUG: the previous run is not cancelled
ScheduleUncancelled(d, s, buffers) ==
    LET new == CHOOSE i \in Ids : task[i].at = "free"
    IN  /\ \E i \in Ids : task[i].at = "free"
        /\ docs' = [buffers EXCEPT ![d] = s]
        /\ generation' = [generation EXCEPT ![d] = @ + 1]
        /\ task' = [task EXCEPT ![new] =
                       [uri |-> d, source |-> s, gen |-> generation[d] + 1,
                        at |-> "starting"]]
        /\ current' = [current EXCEPT ![d] = new]
        /\ UNCHANGED jobs

(* The synchronous part of _schedule_validation: the buffer is stored, the *)
(* previous run cancelled, and a run with the next generation registered.  *)
Schedule(d, s, buffers) ==
    LET old == current[d]
        left == Cancelled(old)
        new == CHOOSE i \in Ids : left[i].at = "free"
    IN  /\ \E i \in Ids : left[i].at = "free"
        /\ docs' = [buffers EXCEPT ![d] = s]
        /\ generation' = [generation EXCEPT ![d] = @ + 1]
        /\ task' = [left EXCEPT ![new] =
                       [uri |-> d, source |-> s, gen |-> generation[d] + 1,
                        at |-> "starting"]]
        /\ current' = [current EXCEPT ![d] = new]
        /\ jobs' = Withdrawn(old)

(* gather(): one _schedule_validation per document of ds, queued on the    *)
(* loop with the text the buffer has now.                                  *)
Gathered(ds, buffers) ==
    {q \in [1 .. Cardinality(ds) -> [uri : ds, source : Texts]] :
        /\ {q[i].uri : i \in DOMAIN q} = ds
        /\ \A i \in DOMAIN q : q[i].source = buffers[q[i].uri]}

RunSchedule ==
    /\ ready # <<>>
    /\ Schedule(Head(ready).uri, Head(ready).source, docs)
    /\ ready' = Tail(ready)
    /\ UNCHANGED <<client, shown, symbols, cache, work>>

-----------------------------------------------------------------------------
AtRest == ready = <<>> /\ \A i \in Ids : task[i].at = "free"

Received == Batched \/ ready = <<>>

Act(op) ==
    /\ op \in Ops
    /\ acts < MaxActs
    /\ Received
    /\ Paced => AtRest /\ fileEvents = {}
    /\ acts' = acts + 1

(* textDocument/didOpen.  The buffer usually has the text of the file;     *)
(* "openDirty" is an editor that restores an unsaved one.                  *)
DidOpen(d, s) ==
    /\ Act(IF s = disk[d] THEN "open" ELSE "openDirty")
    /\ editor[d] = None
    /\ editor' = [editor EXCEPT ![d] = s]
    /\ IF s = Empty
       THEN UNCHANGED <<docs, generation, task, current, jobs>>
       ELSE Schedule(d, s, docs)
    /\ UNCHANGED <<disk, fileEvents, shown, symbols, cache, ready, work>>

\* BUG: the importers keep their cached diagnostics
DidChangeKeepsCache(d, s) ==
    LET buffers == [docs EXCEPT ![d] = s]
    IN  /\ Act("change")
        /\ editor[d] \notin {None, s}
        /\ editor' = [editor EXCEPT ![d] = s]
        /\ IF s = Empty
           THEN UNCHANGED <<docs, ready>>
           ELSE /\ docs' = buffers
                /\ \E q \in Gathered(DependentOpenUris(d), buffers) :
                      ready' = ready \o <<[uri |-> d, source |-> s]>> \o q
        /\ UNCHANGED <<disk, fileEvents, shown, symbols, cache, generation, current, task,
                       jobs, work>>

(* textDocument/didChange: the caches of the importers are dropped and the *)
(* document, then its importers, queued for validation.                    *)
DidChange(d, s) ==
    LET buffers == [docs EXCEPT ![d] = s]
        dependents == DependentOpenUris(d)
    IN  /\ Act("change")
        /\ editor[d] \notin {None, s}
        /\ editor' = [editor EXCEPT ![d] = s]
        /\ IF s = Empty
           THEN UNCHANGED <<docs, cache, ready>>
           ELSE /\ docs' = buffers
                /\ cache' = [x \in Docs |-> IF x \in dependents THEN None ELSE cache[x]]
                /\ \E q \in Gathered(dependents, buffers) :
                      ready' = ready \o <<[uri |-> d, source |-> s]>> \o q
        /\ UNCHANGED <<disk, fileEvents, shown, symbols, generation, current, task, jobs, work>>

(* textDocument/didSave, sent once the editor has written the file. *)
DidSave(d) ==
    /\ Act("save")
    /\ editor[d] # None
    /\ disk' = [disk EXCEPT ![d] = editor[d]]
    /\ fileEvents' = IF disk[d] # editor[d] THEN fileEvents \union {d} ELSE fileEvents
    /\ IF editor[d] = Empty
       THEN UNCHANGED <<docs, generation, task, current, jobs>>
       ELSE Schedule(d, editor[d], docs)
    /\ UNCHANGED <<editor, shown, symbols, cache, ready, work>>

\* BUG: the run of the closed document goes on
DidCloseKeepsTask(d) ==
    /\ Act(IF editor[d] = disk[d] THEN "close" ELSE "closeDirty")
    /\ editor[d] # None
    /\ editor' = [editor EXCEPT ![d] = None]
    /\ generation' = [generation EXCEPT ![d] = 0]
    /\ docs' = [docs EXCEPT ![d] = None]
    /\ symbols' = [symbols EXCEPT ![d] = None]
    /\ cache' = [cache EXCEPT ![d] = None]
    /\ UNCHANGED <<disk, fileEvents, shown, ready, current, task, jobs, work>>

(* textDocument/didClose: every per-buffer structure is released. *)
DidClose(d) ==
    /\ Act(IF editor[d] = disk[d] THEN "close" ELSE "closeDirty")
    /\ editor[d] # None
    /\ editor' = [editor EXCEPT ![d] = None]
    /\ task' = Cancelled(current[d])
    /\ jobs' = Withdrawn(current[d])
    /\ current' = [current EXCEPT ![d] = 0]
    /\ generation' = [generation EXCEPT ![d] = 0]
    /\ docs' = [docs EXCEPT ![d] = None]
    /\ symbols' = [symbols EXCEPT ![d] = None]
    /\ cache' = [cache EXCEPT ![d] = None]
    /\ UNCHANGED <<disk, fileEvents, shown, ready, work>>

(* workspace/didChangeConfiguration: every cache is dropped and every      *)
(* buffer queued for validation.                                           *)
DidChangeConfiguration ==
    /\ Act("config")
    /\ cache' = [d \in Docs |-> None]
    /\ \E q \in Gathered({d \in Docs : docs[d] # None}, docs) : ready' = ready \o q
    /\ UNCHANGED <<editor, disk, fileEvents, shown, docs, symbols, generation, current,
                   task, jobs, work>>

(* Another program writes a file. *)
ExternalWrite(d, s) ==
    /\ Act("external")
    /\ s # disk[d]
    /\ disk' = [disk EXCEPT ![d] = s]
    /\ fileEvents' = fileEvents \union {d}
    /\ UNCHANGED <<editor, shown, docs, symbols, cache, generation, current, ready, task,
                   jobs, work>>

(* workspace/didChangeWatchedFiles for modified files: the documents whose *)
(* file differs from the buffer or that depend on a changed file are       *)
(* queued; a batch that also creates or deletes a file flushes everything. *)
DidChangeWatchedFiles(structural) ==
    LET affected ==
          {d \in Docs : docs[d] # None /\
              \/ structural
              \/ d \in fileEvents /\ disk[d] # docs[d]
              \/ d \notin fileEvents /\ DependencyPaths(d) \intersect fileEvents # {}}
    IN  /\ fileEvents # {} /\ Received
        /\ fileEvents' = {}
        /\ cache' = [d \in Docs |-> IF structural \/ d \in affected THEN None ELSE cache[d]]
        /\ \E q \in Gathered(affected, docs) : ready' = ready \o q
        /\ UNCHANGED <<editor, disk, acts, shown, docs, symbols, generation, current, task,
                       jobs, work>>

-----------------------------------------------------------------------------
(* _run_validation on the loop. *)

(* The `_finished` callback: the task is forgotten if it is the last one.  *)
Finish(i) ==
    /\ task' = [task EXCEPT ![i] = Free]
    /\ current' = [current EXCEPT ![task[i].uri] = IF @ = i THEN 0 ELSE @]

\* BUG: the text of the cached diagnostics is not compared
CacheHitAnyText(i) == cache[task[i].uri] # None

CacheHit(i) == LET hit == cache[task[i].uri]
               IN  hit # None /\ hit.text = task[i].source

(* The delay is over.  _cached_diagnostics answers for a text that has not *)
(* changed since the last run; otherwise the job is handed to the worker.  *)
Start(i) ==
    /\ task[i].at = "starting"
    /\ IF Superseded(i) \/ CacheHit(i)
       THEN /\ shown' = IF Superseded(i) THEN shown
                        ELSE [shown EXCEPT ![task[i].uri] = cache[task[i].uri]]
            /\ Finish(i)
            /\ UNCHANGED jobs
       ELSE /\ task' = [task EXCEPT ![i].at = "submitted"]
            /\ jobs' = Append(jobs, i)
            /\ UNCHANGED <<shown, current>>
    /\ UNCHANGED <<client, docs, symbols, cache, generation, ready, work>>

(* Back from run_in_executor. *)
Resume(i) ==
    /\ task[i].at = "computed"
    /\ IF result[i] = None \/ Superseded(i)
       THEN UNCHANGED <<cache, shown>>
       ELSE /\ cache' = [cache EXCEPT ![task[i].uri] = result[i]]
            /\ shown' = [shown EXCEPT ![task[i].uri] = result[i]]
    /\ result' = [result EXCEPT ![i] = None]
    /\ Finish(i)
    /\ UNCHANGED <<client, docs, symbols, generation, ready, jobs, worker, step, view>>

-----------------------------------------------------------------------------
(* _compute_diagnostics on the worker thread. *)

(* The job leaves the queue: from here cancel() does not stop it. *)
WorkerTake ==
    /\ worker = 0 /\ jobs # <<>>
    /\ worker' = Head(jobs)
    /\ jobs' = Tail(jobs)
    /\ step' = "taken"
    /\ task' = [task EXCEPT ![Head(jobs)].at = "running"]
    /\ UNCHANGED <<client, shown, docs, symbols, cache, generation, current, ready, view, result>>

\* server._docs[uri] = source
WorkerBuffer ==
    /\ step = "taken"
    /\ docs' = [docs EXCEPT ![task[worker].uri] = task[worker].source]
    /\ step' = "buffered"
    /\ UNCHANGED <<client, shown, symbols, cache, generation, current, ready, task, jobs,
                   worker, view, result>>

(* The result goes back to the loop, or nowhere if nobody awaits it. *)
WorkerReturns(r) ==
    /\ task' = [task EXCEPT ![worker] =
                   IF @.at = "orphan" THEN Free ELSE [@ EXCEPT !.at = "computed"]]
    /\ result' = IF task[worker].at = "orphan" THEN result ELSE [result EXCEPT ![worker] = r]
    /\ worker' = 0 /\ step' = "idle" /\ view' = None
    /\ UNCHANGED <<client, shown, cache, generation, current, ready, jobs>>

\* if should_abort(): return None   (before the snapshot, and before the store)
WorkerAbort ==
    /\ step \in {"buffered", "checking"}
    /\ Superseded(worker)
    /\ WorkerReturns(None)
    /\ UNCHANGED <<docs, symbols>>

WorkerGoesOn ==
    /\ step = "buffered"
    /\ ~Superseded(worker)
    /\ step' = "snapshot"
    /\ UNCHANGED <<client, shown, docs, symbols, cache, generation, current, ready, task,
                   jobs, worker, view, result>>

\* open_docs = dict(server._docs)
WorkerSnapshot ==
    /\ step = "snapshot"
    /\ view' = Overlay(docs)
    /\ step' = "checking"
    /\ UNCHANGED <<client, shown, docs, symbols, cache, generation, current, ready, task,
                   jobs, worker, result>>

(* The check is over and the last should_abort() said no. *)
WorkerChecked ==
    /\ step = "checking"
    /\ ~Superseded(worker) /\ task[worker].source \notin Crashing
    /\ step' = "store"
    /\ UNCHANGED <<client, shown, docs, symbols, cache, generation, current, ready, task,
                   jobs, worker, view, result>>

Outcome == Check(task[worker].uri, task[worker].source, view)

\* server._symbols[uri] = symbols
WorkerStore ==
    /\ step = "store"
    /\ symbols' = [symbols EXCEPT ![task[worker].uri] = Outcome]
    /\ WorkerReturns(Outcome)
    /\ UNCHANGED docs

\* BUG: the crash returns no diagnostics
WorkerCrashSilent ==
    /\ step = "checking"
    /\ task[worker].source \in Crashing
    /\ WorkerReturns(None)
    /\ UNCHANGED <<docs, symbols>>

\* except Exception: one diagnostic, and no test of should_abort()
WorkerCrash ==
    /\ step = "checking"
    /\ task[worker].source \in Crashing
    /\ WorkerReturns(Outcome)
    /\ UNCHANGED <<docs, symbols>>

-----------------------------------------------------------------------------
Client ==
    \/ \E d \in Docs : \E s \in TextsOf[d] :
          DidOpen(d, s) \/ DidChange(d, s) \/ ExternalWrite(d, s)
    \/ \E d \in Docs : DidSave(d) \/ DidClose(d)
    \/ DidChangeConfiguration

Loop ==
    \/ RunSchedule
    \/ \E i \in Ids : Start(i) \/ Resume(i)

Worker ==
    \/ WorkerTake \/ WorkerBuffer \/ WorkerAbort \/ WorkerGoesOn \/ WorkerSnapshot
    \/ WorkerChecked \/ WorkerStore \/ WorkerCrash

Watcher == \E structural \in BOOLEAN : DidChangeWatchedFiles(structural)

Next == Client \/ Watcher \/ Loop \/ Worker

Spec == Init /\ [][Next]_vars

(* The loop runs what is ready, timers fire, the worker thread runs and    *)
(* the file watcher reports; the client owes nothing.                      *)
FairSpec == Spec /\ WF_vars(Loop) /\ WF_vars(Worker) /\ WF_vars(Watcher)

-----------------------------------------------------------------------------
Results == {None} \union Checks

Tasks == [uri : Docs \union {None}, source : Texts \union {None}, gen : Nat,
          at : Places]

TypeOK ==
    /\ editor \in [Docs -> Texts \union {None}] /\ disk \in [Docs -> Texts]
    /\ fileEvents \subseteq Docs /\ acts \in 0 .. MaxActs
    /\ shown \in [Docs -> Results]
    /\ docs \in [Docs -> Texts \union {None}]
    /\ symbols \in [Docs -> Results] /\ cache \in [Docs -> Results]
    /\ generation \in [Docs -> Nat]
    /\ current \in [Docs -> Ids \union {0}]
    /\ ready \in Seq([uri : Docs, source : Texts])
    /\ task \in [Ids -> Tasks] /\ result \in [Ids -> Results]
    /\ jobs \in Seq(Ids)
    /\ worker \in Ids \union {0}
    /\ step \in {"idle", "taken", "buffered", "snapshot", "checking", "store"}
    /\ view \in {None} \union [Docs -> Texts]

Live(i) == task[i].at \in {"starting", "submitted", "running", "computed"}

(* A task that was not cancelled is the one registered for its document    *)
(* and carries the document's generation: cancelling, numbering and        *)
(* closing never leave two runs that may both publish, even though closing *)
(* a document restarts its numbering.                                      *)
LiveIsRegistered ==
    /\ \A i \in Ids : Live(i) =>
          /\ task[i].uri \in Docs
          /\ current[task[i].uri] = i
          /\ generation[task[i].uri] = task[i].gen
    /\ \A d \in Docs : current[d] # 0 => Live(current[d]) /\ task[current[d]].uri = d

(* The executor's queue, the worker and the tasks agree: every queued job  *)
(* has its waiting task, once, and the only job without a task is the one  *)
(* the worker is running.                                                  *)
JobsMatchTasks ==
    /\ \A i \in Ids : task[i].at = "submitted" <=> \E n \in DOMAIN jobs : jobs[n] = i
    /\ \A n, k \in DOMAIN jobs : jobs[n] = jobs[k] => n = k
    /\ \A i \in Ids : task[i].at \in {"running", "orphan"} <=> worker = i

(* A burst of notifications does not pile up runs: there is one per        *)
(* document and at most one cancelled job that the worker is finishing.    *)
TasksBounded ==
    Cardinality({i \in Ids : task[i].at # "free"}) <= Cardinality(Docs) + 1

(* What the diagnostics of an open document should be now: its text checked *)
(* against the buffers of the open documents and the files of the others.  *)
Fresh(d) == Check(d, editor[d], Overlay(editor))

Settled == AtRest /\ fileEvents = {}

Validated(d) == editor[d] \notin {None, Empty}

(* "A single worker also guarantees that results are published in edit     *)
(* order" (pengu_lsp/server.py:843): when nothing is left to run, each     *)
(* open document shows the diagnostics of its own, last, text.  It holds   *)
(* while the client only types; it does not once another event sends a     *)
(* buffer back to validation (instance MCLspEditOrder).                    *)
SettledShowsText == Settled => \A d \in Docs : Validated(d) => shown[d] # None /\ shown[d].text = editor[d]

(* A client that waits for the server between two actions always sees the  *)
(* diagnostics of the current texts, also of the modules a document        *)
(* imports, whichever of them is open, saved or changed on disk.           *)
SettledShowsFresh == Settled => \A d \in Docs : Validated(d) => shown[d] = Fresh(d)

(* The diagnostics of a text appear, unless the text is replaced first. *)
EditIsShown ==
    \A d \in Docs : \A s \in TextsOf[d] \ {Empty} :
        (editor[d] = s) ~> (editor[d] # s \/ (shown[d] # None /\ shown[d].text = s))

(* "a validation that finishes after a newer edit must not publish its     *)
(* diagnostics or overwrite the symbol table" (pengu_lsp/server.py:280).   *)
NewerEditKeepsSymbols ==
    [][symbols' # symbols /\ worker # 0 /\ worker' = 0 => ~Superseded(worker)]_vars

(* "release every per-buffer structure" (pengu_lsp/server.py:1036): a      *)
(* closed document leaves nothing behind once the server is at rest.       *)
ClosedIsReleased ==
    Settled => \A d \in Docs :
        editor[d] = None => docs[d] = None /\ symbols[d] = None /\ cache[d] = None

(* "Editing a module in the editor must update the diagnostics of every    *)
(* open importer even before the file is saved" (pengu_lsp/server.py:971). *)
ImportersUpdated ==
    Settled => \A d \in Docs : Validated(d) => shown[d] # None /\ shown[d].deps = Fresh(d).deps
=============================================================================
