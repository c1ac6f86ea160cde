# Verification of PenguScript

TLA+ models of the parts of PenguScript whose correctness depends on the order
in which things happen, model-checked with TLC, with the safety properties proved
with TLAPS. The reference is the code of this repository; `PROJECT.json` names, for
every definition, the lines it stands for ("map").

## 1. The system

PenguScript is a language that compiles to C. The repository holds the Python
compiler and project tool (`pengu_project.py`, `pengu_parser/`), the C runtime
(`pengu_runtime.h`, `pengu_parser/pengu_runtime.c`), the standard library
(`std/`, `std_c/`), a language server (`pengu_lsp/`), and a port of the
compiler to PenguScript (`psc/`).

| Component | State it keeps | Operations | Who it interacts with | What is hard |
|---|---|---|---|---|
| Channels (`pengu_runtime.c` 447-711, `std/filum.pengu`) | ring buffer, head, tail, size, closed; one mutex, two condition variables | new, send, recv, close, len, cap, free | any number of threads | interleavings, lost wake-ups, close racing send and recv, teardown |
| Wait groups, once, mutex, cond, atomics (`pengu_runtime.c` 120-445, 609-681) | a counter, a flag, a native lock | add, done, wait; do_once; lock; wait, signal; load, add, swap | the same threads | wake-ups, clamping, teardown with waiters, re-entrance |
| LSP validation (`pengu_lsp/server.py` 240-1260) | buffers, symbol tables, cached diagnostics, generations, pending tasks | didOpen, didChange, didSave, didClose, configuration, watched files; the worker | asyncio loop, one worker thread, the editor, the disk | stale results, cancellation, shared maps, out-of-order events |
| LSP features (completion, hover, rename, ...) | memo caches | one request each | symbol table of the last validation | read-only |
| Dependency manager (`pengu_project.py` 2579-5050) | manifest, `lib/`, `pengu.lock`, cache, vendor directory | add, remove, update, upgrade, vendor, verify, resolve | git, file system | several files that must agree, half-done commands, transitive constraints |
| Semantic versions, lock file (`pengu_semver.py`, `pengu_lock.py`) | none; one file | parse, compare, satisfies, select; read, write, diff | dependency manager | boundaries of ranges |
| Caches (`pengu_cache.py`) | script binaries, module lists, parser tables | lookup, store, gc, clear | several processes at once | non-atomic files, stale entries |
| Import resolution (`pengu_parser/pengu_symbols.py` 689-1097) | visiting and visited sets, a cache of orders | depth-first order of modules | checker, builder, language server | cycles, diamonds, remembered orders that are stale |
| Dead-code elimination (`pengu_parser/pengu_dce.py`, `pengu_codegen/bundle.py`) | alive identifiers, kept weaves, instances collected late | fixpoint over references, pruning of helpers, constants and types | code generator, checker's tables | order independence, what may be dropped, a second bundle from the same tables |
| Parser, checker, inference, types, comptime | symbol tables | one pass over a tree | each other | size; deterministic and sequential |
| Code generator (`pengu_parser/pengu_codegen/`) | scopes, defer, errdefer and loop stacks | one method per construct | checker's tables | which cleanups run on which exit of which block |
| Build driver and CLI (`pengu_project.py`) | build directory, fingerprints | build, run, test, watch, fmt, doctor | compiler, caches | up-to-date tests |
| Runtime header (`pengu_runtime.h`) | strings, lists, hash maps, arenas | one function each | generated code | tombstones, growth in the middle of a put, memory that is not there |
| Standard library (`std/*.pengu`), C sources (`std_c/`) | per-object | library calls | runtime | mostly sequential |
| Self-hosted compiler (`psc/`) | as the Python compiler | as the Python compiler | - | a port that tests compare with the original |
| Release, bindings, assets, docs tools | files | one-shot scripts | compilers | I/O |

### What makes each component correct

* Channels: elements arrive once and in order, whatever the interleaving; a
  thread that can proceed is woken; close wakes everybody and loses nothing.
* Validation: the diagnostics shown, the symbol table kept and the buffers are
  those of the last text once the server is at rest; an old result never
  replaces a newer one; a closed document leaves nothing behind.
* Dependencies: what is installed satisfies every requirement, the lock file
  describes what is installed, a failing command leaves both consistent.
* Caches and incremental builds: what a lookup returns is what the current
  inputs would produce; a build that succeeds leaves the artifact of the
  current inputs, whatever failed before; nothing unchanged is built again.
* Wait groups, once, atomics: a wait covers the work it was called for; a
  callback runs once and nobody returns before it; an atomic integer is one
  integer of its width for every operation.
* Import resolution: an order, searched or remembered, has every module that is
  reached once, behind all it needs; otherwise the error is one there is.
* Dead-code elimination: a bundle defines what it refers to, whichever passes
  pruned it; the exact pass keeps nothing unreached; the same command gives the
  same bundle.
* Lowering: on every path of the generated C the cleanups run where, when and
  as often as the language says, and what a loop owns is released once.
* Hash map: it behaves as a partial function from keys to values, a call that is
  refused changes nothing, and a loop over it visits each key once.

## 2. The plan

The order is by what a wrong step costs and by how badly tests reach it.

| Step | Modules | Composes with | Abstract specification | State |
|---|---|---|---|---|
| 1 | `FilumChan`, `FilumChanProofs` | - | `ChanSpec`, a bounded FIFO that closes once | modelled, checked, proved |
| 2 | `LspValidation`, `LspValidationProofs` | - | at rest, the diagnostics are those of the buffers (`Fresh`) | modelled, checked, proved |
| 3 | `FilumWaitGroup`, `FilumOnce`, `FilumAtomicInt`, `FilumSyncProofs` | `MCFilumSync` | `IntRegister`, one wrapping integer | modelled, checked, proved |
| 4 | `DepProject`, `DepProjectProofs` | versions and lock file as sets | the closed graph of requirements (`GraphIsClosed`) | modelled, checked, proved |
| 5 | `ScriptCache`, `BundleCache`, `CacheProofs` | `MCCaches` | an entry is what its key stands for | modelled, checked, proved |
| 6 | `ImportOrder`, `BundleProofs` | `Dce` in `MCDce` | the reached modules in a topological order (`AnswerIsRight`) | modelled, checked, proved |
| 7 | `Dce`, `BundleProofs` | `ImportOrder` in `MCDce` | the least closed set | modelled, checked, proved |
| 8 | `Lower`, `LowerProofs` | - | what the statements mean (`means`), against what the C does (`does`) | modelled, checked, proved |
| 9 | `PenguMap`, `PenguMapProofs` | the loop that the compiler emits | `MapSpec`, a partial function | modelled, checked, proved |
| 10 | `LspRequests`: requests that wait for a first validation (proofs in `LspValidationProofs`) | extends `LspValidation` | - | modelled, checked, proved |
| 11 | `DepProject` with a manifest cut short by a crash, the download cache and `vendor/` | - | - | planned |
| 12 | `Dce` with native includes and library builds | - | - | planned |

"Proved" means the safety properties of the runs; which hypotheses a theorem
adds is said in section 6, and liveness is left to TLC.

Theorems wanted next: that `Schedule` and the client never exceed the bound on
tasks without the guard that states it; that a client which neither waits nor
batches sees fresh diagnostics once it has paused (`SettledShowsFresh` between
`lsp_typing` and `lsp_paced`).

## 3. The modules and the code

One action is one piece of code that nothing else can interleave with: a
critical section in the runtime, the code between two awaits in the language
server's loop, one access to a shared map in its worker, one file operation or
one read of a set of files in the tools. Definitions keep the names of the
source where they have one. Operators whose comment begins with
`BUG` or `(A mistake: ...)` are wrong versions of a definition below them; no
specification uses them. They record which mistakes the properties notice
(`mutants` in `PROJECT.json`).

Three modules put together components that share nothing, `MCFilumSync`,
`MCCaches` and `MCDce`: a variable `subject`, drawn in the initial state, says
whose behaviour it is, and the others stay as they were. They extend the
components, so TLC evaluates the assumptions under which the theorems are
proved, and names of different components differ.

### FilumChan and ChanSpec (`pengu_parser/pengu_runtime.c` 447-585, 683-711)

`buffer`, `head`, `tail`, `size`, `closed` are the fields of `PenguNativeChan`.
`at[t]` says where a thread is: entering (`send`, `recv`), asleep on a condition
variable (`...Parked`) or on its way back from `pthread_cond_wait` (`...Woken`).
A call is `CallSend` and then `SendPark`, `SendClosed` or `SendPut` (and the
like for recv): the conditions of the loop and of the test after it. `Signal`
wakes any one sleeper, `WokenAll` all of them, and `SpuriousWake` is what POSIX
allows. `chan_free` is two actions, because it unlocks before it destroys.
`sent`, `rcvd` and `drained` are history. `ChanSpec` has no threads: `Ring` maps
the cells from `head` on to its queue.

### FilumWaitGroup (219-274, 625-650), FilumOnce (278-317, 652-661), FilumAtomicInt and IntRegister (380-445)

The wait group is used as `std/filum.pengu` says: `add` before a unit starts and
one `done` at its end; units may start units, and `GoFails` is the thread that
could not be created (`pengu_c_filum_go` returns nothing). `owed` is history.
A thread in `do_once` is a stack of frames, since the callback may call
`do_once` again; `Recursive` separates the Windows build (a recursive critical
section) from the others. The atomic keeps a `long` of `-LongHalf .. LongHalf - 1`,
speaks `int`s of `-IntHalf .. IntHalf - 1`, and `ToInt` maps it to the register that the
API describes; `wrapped` is history and says whether an addition has passed the width of
an `int` since the value was last written. `RegisterButForRefusals` compares the two
call by call, on a `long` that is wider: nothing may differ but the answer of a
`compare_swap`, and that one only while `wrapped` holds. The arithmetic of `inc`, `dec` and `sub` is that of the release profile (`-fwrapv`);
the debug profile traps on overflow.

### LspValidation (`pengu_lsp/server.py`)

`docs`, `symbols`, `cache`, `generation`, `current` are the server's maps; `task`,
`result`, `jobs`, `worker`, `step` and `view` are the asyncio tasks, the queue of the
one-thread executor and the position of the worker in `_compute_diagnostics`;
`ready` holds the calls that `gather()` has put on the loop. `editor`, `disk` and
`fileEvents` are the outside world. A text is a model value and a result is what
it depends on (`Check`): the text and the texts of the modules it reaches
(`Reached`, the least set that has its imports and theirs).
Handlers are `DidOpen`, `DidChange`, `DidSave`, `DidClose`,
`DidChangeConfiguration`, `DidChangeWatchedFiles`; `Start` and `Resume` are the
two halves of `_run_validation`. `superseded()` is asked where the code asks.

### LspRequests (`pengu_lsp/server.py` 932-954)

It extends `LspValidation` by one waiting request: `Turn` is what
`_await_pending_validation` does between two awaits, `Noticed` marks the request in
the same step in which the task it awaits ends or is cancelled (`Ends`), `Expire`
is the deadline, at any time, and `CancelRequest` a cancellation by the client,
which the handler swallows. Requests only read, so one stands for many.

### DepProject (`pengu_project.py` 2600-2653, 3741-3841, 4025-4132, 4363-4757, 4828-4983)

`manifest` is the list in the project's file, `lib` the checkouts, `lock` what
`pengu.lock` records, `published` the tags of the remote repositories. A command
(`Add`, `Remove`, `Upgrade`, `Update`, `Build`, `BuildFrozen`) does what it does
before the walk; `Revisit`, `Settle`, `Missing` and `ConflictEnds` are one round
of the loop of `resolve_transitive_dependencies`; `EndAdd`, `WriteLock` and
`Verdict` end the command. A refresh in `Add` and a fetch in `Matched` may fail
and leave what was there; a clone that fails ends the command and changes
nothing, which is a stuttering step. `unmet`, `open` and `drift` are history: what
the walk let through, the requirements that had no tag when `pengu.lock` was
written, and whether the project may have changed since. `Overtaken` says that a tag
now meets one of the `open` requirements. A frozen build fetches at 4835 for these
only; it takes such a tag and rejects the lock, which is why `FrozenAcceptsBuild`
names the exception. As long as they stay unmet, locks that record them are
accepted.

### ScriptCache (`pengu_project.py` 6571-6913, `pengu_cache.py`, `pengu_symbols.py` 689-796, 923-1086)

`lists` and `bins` are the two shared caches; a digest stands for the content
and a binary for what it was compiled from, so an entry is right when it equals
its key. `Found` is the search path of `find_module_path`, `Closure` what
`resolve_imports` reaches. The order of reads is that of `run_script`: list,
digests, key, compilation. `Killed` may come anywhere.

### BundleCache (`pengu_project.py` 891-948, 1366-1655, 2438-2519, 3684-3698)

`bundle`, `hash` and `out` are `bundle.c`, `.bundle_hash` and the artifact, each as
the inputs it was made of. Sources are compared by content, the header (it
stands for everything that is compared by time) by `headerNewer`, the artifact
by `outFresh`. `Start`, `UseBundle`/`Check`, `Generate`, `OpenHash`, `WriteHash`,
`UseArtifact`, `CcStart`, `CcEnd`/`CcFails` and `Return` follow `bundle()` and
`compile()`. A C compiler that fails leaves the old artifact or none.

### ImportOrder (`pengu_parser/pengu_symbols.py` 689-1077)

`path` holds the open calls of `dfs` with the imports each has still to visit,
`order` the files already left; `Open`, `Cycle`, `Skip`, `Descend`, `Leave` and
`Missing` are the cases of one turn of its loop, `Hit` and `Store` the cache of
earlier answers. A text is what it imports, in order. A file's signature is its
modification time, of which only equality matters: it is "now", and the next
write turns what was recorded into "before". `Changes` names the changes that
the cache does not see, see section 7; without them the world makes those that
are `Foreseen`.

### Dce (`pengu_codegen/bundle.py` 95-551, `pengu_dce.py`, `derived_gen.py`, `constants.py`, `types_gen.py`, `declarations.py`)

`Generate` is the begin of `generate_bundle` with the pass by name, `Seed`,
`Translate` and `Discovered` the worklist of `_discover_reachable_weaves`, in any
order, and `Emit` the pruning of helpers, constants and types and the text. A C
text is the set of symbols in it. `registered`, `tried` and `types` are what
instances collected late leave in the tables, between bodies and between calls;
`guess` is the omen `types_gen.py` finds for the name of a variant. `name` is what
the program calls a constant: one with the name of a word of C (`register`, `auto`) has
an underscore in C, and `KeptConsts` looks for the name without. `called` are the short
names that a parenthesis follows, the only ones `_scan_c_text` falls back on. `Surprises`
names programs that refer to things in a way a pass does not see.

### Lower (`pengu_codegen/stmts.py`, `bundle.py` 639-800, `value_if.py`, `loops.py`, `or_block.py`, `exprs.py` 3192-3305, `prototypes.py` 374-450)

`defers`, `errdefers`, `loops` and `baselines` are `defer_stack`, `errdefer_stack`,
`_loop_release_stack` and `_loop_defer_baseline`. One action reads one statement or
opens or closes one block; `Finish` ends the weave. Neither the program nor its C
is kept as a tree: a piece of either is a function from the outcomes of the tests
still to come to a run (what is computed, cleaned up and released, the outcomes
that are left, and whether it goes through or ends in a jump, a return or a goto),
and `Chain`, `Choice` and `Loop` put runs together. An open block has two such
functions: `means`, by the rules of the language (a block runs its own cleanups
however it is left, `Unwinding`), and `does`, by what the generator writes (the
cleanups that its stacks say at each jump, anchors only where a `goto` names them).
The two know nothing of each other; of a finished weave they are compared for every
sequence of outcomes. `CloseReturnOr` is the return of `x or:` with a block. By the
comment at `stmts.py:1012` it returns the failure of `x` if the block does not
jump, and the value otherwise; the C leaves by one and the same error return, whatever
`x` gave. `Mixed` names combinations that the lowering gets wrong, see section 7; this
return under an open errdefer is one of them (`"returnOr"`).

### PenguMap and MapSpec (`pengu_runtime.h` 2150-2511, `loops.py` 446-475)

`slots`, `cap`, `len` are the table; `old`, `pos` and `call` the put that is growing
it, which puts the old entries again one per step; `loop` is the `for` loop over
the map. `Hash` is any function, so collisions are as one chooses them. `Fails`
names the allocations that may fail and `Disturbing` the changes after which a
loop is no longer followed. `View`, what the new table has and the old one has
still to give, is the map of `MapSpec`.

## 4. The runs

`PROJECT.json` lists the runs with their properties. Every run is exhaustive
within its bounds.

| Run | Bounds | What it shows |
|---|---|---|
| `chan` | 3 threads, 2 values, capacity 2, 3 sends | FIFO, no lost wake-up, close wakes all, the end is final, refinement of `ChanSpec`; fair threads get out of a closed channel and never leave it stuck |
| `sync` | wait group: 3 units, 2 waiters; once: 4 threads, callbacks nested 2 deep; atomic: an int of 8 values in a long of 32 | the counter is right, a wait covers its work and returns; one entry of the callback, nobody returns before it, every call returns unless a thread waits for itself; every operation with every argument is that of `IntRegister`, save a `compare_swap` after an overflow |
| `lsp_typing` | 1 document, 3 texts (one crashes the checker), buffers that differ from the disk, 4 actions, 3 tasks | the last text's diagnostics stay, and they appear; live tasks are registered and do not pile up; a request that is not late is answered with a table, however often its run was replaced |
| `lsp_paced` | a module, its importer, 6 actions of every kind, the client waits between them | the diagnostics are always those of the current texts, imports included |
| `deps` | 3 packages, 2 tags each, 4 commands, 3 graphs (a diamond, a cycle, one that grows) | the walk is closed and ends; frozen builds accept what builds lock, unless a tag arrives that was waited for; a failed add of a new package leaves nothing |
| `caches` | 2 processes; scripts: 2 files, 3 texts, kills, failed stores and the collector; projects: 2 configurations, 3 sources (one broken), 2 headers, one build at a time | hits are right, what is executed or delivered is the program on disk, nothing unchanged is rebuilt |
| `lower` | weaves of up to 6 statements from 5 lists of kinds, blocks 4 deep, 4 outcomes of conditions | the defers of every path, the errdefers of every failure, one release for each loop that ends |
| `map` | 3 keys of which some collide, 2 values, tables of 4 and 8 slots, failing allocations | every key is reachable, len counts, an undisturbed loop visits each key once, refinement of `MapSpec` |
| `bundle` | order: 5 files, 2 entries, 2 modules, a cache of one answer; contents: every program of up to 3 references out of 38, 2 calls by any command | every order is right; bundles are closed, minimal in the exact pass and the same again |
| `bundle_cache_kill`, `lower_switch`, `map_oom` | one of the above with one constant changed | expected violations, see section 7 |

### Why the bounds are enough

* Channel: the third thread is what makes a woken thread be overtaken by one
  that enters; three sends wrap a ring of two cells. Capacity 1 was run as
  well, with the same result. `MaxSends` bounds the history only.
* Wait group: three units give nested work while another unit ends; two waiters
  tell a signal from a broadcast.
* Once: of four threads one runs the callback, one is at the lock, one at the
  unlocked test and one calls later.
* Atomics: at 8 values every pair of operands is tried, overflow in both
  directions included; the long has room for four times as many, so that sums pass
  the width of an int several times and then that of the long.
* Validation: one running, one queued and one starting run of a document, with
  one more text to come, need four actions; a module and an importer give every
  dependency situation of two buffers; the pace of `lsp_paced` makes
  six actions affordable, which is open, change, save, close and open again.
* Dependencies: conflicts, cycles and growth each need three packages at
  most; four commands are add, build, a change, and the command that reacts.
* Caches: two processes share one entry; three texts are an entry without the
  import, one with it and a module. Two configurations and two good sources
  return to an earlier state, which is where a stale hash would be believed.
* Lowering: a jump, two loops, two cleanups and the branch that guards the jump
  are six statements, and no exit concerns more than two loops and two scopes of
  a kind. A list of kinds per run of programs keeps their number down.
* Map: three keys are one in place, one behind a tombstone and one that comes
  in again; the second size is reached by growing from the first, and a table
  of eight never grows with three keys. The proofs have no such bounds.
* Bundle: what a pass keeps is decided along a chain of references; three are a
  root, what it names and what that needs, and two calls are any two commands on
  one generator. The five files are an entry, a module found in two places, a
  wrapper and its declarations, which import each other in either direction. Two
  remembered answers were run as well, with the same result.

Deadlock is checked in `map`, `map_oom` and `bundle_cache_kill`. The other
configurations switch it off, since the modelled program really stops: a freed
channel, a client without further actions, no further command, a weave that is
finished, a script that has run.

## 5. Fairness

* `FilumChan`, `FilumOnce`: a thread inside a call goes on when the mutex is
  free (weak fairness per thread). A platform mutex is not held for ever, and
  the calls that can overtake are finitely many in every behaviour that
  violates the property: sends are bounded by the ring, and after a close or
  after `done` is set nobody takes the slow path again. Calls, `close`, `free` and
  spurious wake-ups have no fairness.
* `FilumWaitGroup`: also a unit that was started runs and ends; nobody is
  obliged to start one. A unit whose thread could not be created never ends, and
  `WaitReturns` then promises nothing.
* `LspValidation`, `LspRequests`: the event loop, the worker thread and the file watcher run.
  The client owes nothing, and the clock is not obliged to pass a deadline.
* `MCFilumSync` asks for the same of the units, waiters and threads of the
  primitive it follows; the atomic integer owes nothing.
* `DepProject`: a command goes on (one sequential process). Git commands that
  hang are outside the model.
* `ScriptCache`, `BundleCache`, `ImportOrder`, `Dce`, `Lower` and `PenguMap` state
  safety only and have no fairness.

## 6. What is proved

TLAPS checks the following for all values of the constants that satisfy the
`ASSUME` of the module; TLC evaluates those assumptions in the runs.

* `FilumChanProofs`: `ChanTypeCorrect`, `ChanFifo`, `ChanCloseWakesAll`,
  `ChanEndIsFinal`, `ChanNoLostWakeup`, `ChanImplementsFifo`. FIFO is not inductive as a statement on
  sequences; the invariant says, cell by cell, that the i-th cell from the head
  holds the i-th element not yet received and that the tail is the first cell
  behind them (`Positions`), for which the lemmas `Wrap` and `HeadCell` do the
  arithmetic of the ring. The wake-up theorem counts parked and woken threads
  as finite sets. The refinement maps the ring, read from its head, to the queue
  of `ChanSpec` (`RingHolds`): a send that puts accepts, a receive that takes
  delivers, the two closes close, and waiting, waking and freeing are stutters.
* `FilumSyncProofs`, the three small primitives, for any number of threads and
  any width.
  * Wait group: `WaitGroupTypeCorrect`, `WaitGroupCounts`, `WaitGroupNobodySleeps`,
    `WaitGroupCovers`. Besides the counter the invariant needs that what a waiter is
    owed was added before its call (`OwedWasAdded`).
  * Once: `OnceTypeCorrect`, `TheCallbackRunsOnce`, `ReturnsFollowTheCallback`, except for
    callbacks that reach their own guard on a recursive mutex (`Sane`); the last one
    also without `WeakMemory`. The invariant has mutual exclusion (`Excluded`), the
    agreement of flag, callback and count (`Agree`), what a thread inside sees and
    the shapes that a stack of calls can have.
  * Atomic: `AtomicIntTypeCorrect`; `AtomicIsARegister`, for all widths: every operation
    is that of the register, overflow included, but for a `compare_swap` that refuses a
    value which `load` would return, and that only after an addition overflowed. The
    invariant is that the long is an int as long as none has (`IntUnlessWrapped`); the
    arithmetic is that `ToInt` may be applied before or after an
    addition, since the width of a long is a multiple of that of an int.
* `LspValidationProofs`: `LspTypeCorrect`, `LspRegistration`, `LspJobs`,
  `LspTasksBounded`. Registration is inductive only together with the agreement
  of queue, worker and tasks (`JobsMatchTasks`) and the shape of a task. On top of it:
  * `TypedTextIsShown` (`SettledShowsText`) for a client that opens, types and closes, whose
    notifications are handled one by one and whose texts import nothing
    (the theorem's two conditions; without either the property fails, see `MCLspReopen`
    and the variation of `MCLspPaced` in section 7). The invariant follows the
    last text: it is in the one call on the loop, in the registered run, or shown
    (`OnItsWay`). It holds since a live run is never superseded, so it never ends with
    nothing to show.
  * `PatientClientSeesFresh` (`SettledShowsFresh`) for a client that waits for the server
    between two actions, leaves no unsaved text behind when it opens or closes,
    and never empties a document that others import (`Waits`); imports may be cyclic
    and notifications batched. The invariant says that every call, run, computed
    result and position of the worker is about the buffers as they are (`Current`), that
    what is shown, cached and kept in the symbol table is what a check would give now
    unless a run is pending (`UpToDate`), or else that a file has just changed on disk
    and whoever depends on it will find it among its paths (`WillBeFound`). For the
    last part the diagnostics must depend on nothing but what is reached (`SameCheck`),
    which is where `Reached` as a least closed set is used.
  * `AnswersHaveATable` (`FirstAnswerHasTable`) if no text is empty, and no text crashes the
    checker or nothing but an edit drops the cache (`CrashesRemembered`): an open
    document has a run, a table, or a cached crash. A step of `RequestSpec` is a step
    of `Spec`, so the earlier invariants are at hand.
* `BundleProofs`, imports: `TheAnswerIsRight` if files change as the cache expects
  (`Changes = {}`), for any files, imports, search paths and entries. Of the search the
  invariant says that what is visited is sorted, and that the open calls are a
  chain of files each of which needs the next (`SearchInv`); so an import of an open
  call is a cycle. Of the cache it says what stays true of a file whose signature
  can still come back (`Holds`, `CacheInv`): it is this that needs the conditions of
  `Foreseen`, among them that declarations do not appear beside a wrapper which is only
  in the editor, a case that the proof brought up.
* `CacheProofs`, bundles: `BundleTypeCorrect` without conditions; `HitsAreRight`,
  `ArtifactsAreRight` and `NothingIsMadeTwice` for builds one at a time, no edit during a
  build and no death just before `.bundle_hash` is opened (`Careful`). The invariant says
  which files agree at each point of a build, that the hash is that of the bundle
  unless a new bundle waits for its hash, and that a fresh artifact is that of the
  bundle. Without a part of `Careful` it is not so: section 7 has the runs that allow
  edits and deaths, and section 8 has what is said of two builds at once.
* `CacheProofs`, scripts: `ScriptTypeCorrect` without conditions; `CachedBinariesAreRight`, if
  files do not change during a run: from the key to the compilation the files are
  those of the key (`KeyIsCurrent`), and what is stored was compiled from them;
  `ListsAreRight` and `RunsTheProgramOnDisk`, if moreover a module is looked for in one
  place (`OnePlace`). A recorded list is closed under the imports of what it
  recorded and nothing less of it is (`ListOK`); when its digests match, that makes
  it the closure of the files on disk, whatever happened in between.
* `DepProjectProofs`: `DepTypeCorrect` without conditions; `TheWalkIsComplete` (`GraphIsClosed`), if
  there are finitely many packages and no more than the walk has levels. Whatever is
  asked for is resolved or waits in the queue, and it waits no deeper than the
  number of packages resolved before it (`Closing`). `AFreshAddRollsBack`: while an add
  walks, the manifest is the one it found with its entry at the end (`AddInv`).
  `AFrozenBuildRepeats`: the walk depends only on the manifest, the versions that are
  checked out and the manifests inside them, so that a frozen build passes where the
  walk behind `pengu.lock` passed (`Passes`, `LockInv`). It moves no checkout, since the
  requirement that each package was resolved for selects the tag it is at, or is an
  open one that no tag meets yet (`Stays`, `Firm`): hence `~Overtaken` in `LockInv`.
* `PenguMapProofs`: `TypeCorrect`, `KeysAreReachable`, `LenIsRight`, `GrowsOnce`,
  `MapRefinement` (if no allocation fails while rehashing), `LoopIsComplete` (if a
  loop is followed up to the first change of keys or size), for every set of keys,
  hash function, first capacity above one and bound on growth. The heart is
  that the table is at most half full but for one entry, which leaves a vacant
  slot on every probe path; a key is found since no slot before it on its path
  is virgin. The refinement adds that old and new table have no key in common.
* `BundleProofs`, contents: `OnlyReachableIsKept` without conditions; `BundlesAreClosed` and
  `TheSameAgain` for programs without surprises, for any program, number of calls
  and order of the worklist. Both are about what the passes are made for: the
  surprises of section 7 break them, and a pruned bundle may lack a renamed constant,
  which `BundleIsClosed` says. `Least` is proved to be the least closed set; the kept
  weaves are a set closed under references whose every element is reached, and
  that determines it, so the second call ends with the same one.

* `LowerProofs`: `DefersRun`, `ErrDefersRun`, `TemporariesAreReleased`, `StacksMirrorBlocks`, for
  any program, nesting, set of labels and number of outcomes. The property speaks
  of the finished weave only, so the invariant has to say what is right so far.
  `Struct`: the stacks of the generator hold the cleanups, the releases and the
  baselines of exactly the blocks that are open. `Sem`: what an open block means and
  what its C does end in the same ways and show the same, once each way out is
  followed by what the blocks around still owe it; that debt, block by block from
  the outside in, is the context of a block (`Inner`). A jump is right
  since what the stacks make it write is its context (`JumpExit`, `ReturnExit`); a block that
  is closed pays its own part; a closed weave owes nothing. A property is the
  invariant for one view of the traces: what is computed, with the defers, the
  errdefers, or the release of one list.
  * Each theorem keeps out the members of `Mixed` with which section 7 shows, or the
    code suggests, that its property fails, and only those: a `try` in a `for` spoils the
    releases and not the defers, a return of several values the defers and neither
    of the others, a `return x or:` the errdefers and neither of the others. So `ErrDefersRun`
    says nothing of a weave that has one under an open errdefer. `breakInSwitch` is
    kept out of all three, for the jump goes somewhere else; `deferInArm` is kept out of the releases as well, where it does no harm, because
    the invariant is about stacks that mirror the blocks.

What is recursive by nature (the imports that are reached, the closure of a
script, the weaves that are kept) is defined as the least closed set and not by
recursion; where a first or least element of a path or a walk is needed, the
lemma `Smallest` gives it. The loops and walks along stacks of `Lower` are recursive
functions on 0 .. n: `RecursionExists` constructs one as a set of pairs up to each k, with
the well-founded order of Nat (`WFMin`) for the induction, and `RecursionStays` gives the
values.

Only model-checked: every liveness property (`ClosedCallsReturn`, `NoStuckChannel`,
`WaitReturns`, `EveryCallReturns`, `EditIsShown`, `CommandsEnd`), since fairness and `ENABLED`
are out of the prover's reach.

Invariants that are proved are listed in a run only where a mistake in the code
is what they are there to notice; the type invariants are not. The properties
behind `WaitGroupNobodySleeps`, `ChanCloseWakesAll`, `LspJobs` and `GrowsOnce` are parts of
inductive invariants and are stated for themselves.

## 7. Where the code and its documentation part

Three runs of `PROJECT.json` are expected violations.

* `bundle_cache_kill`. `bundle.c` is replaced before `.bundle_hash` is opened
  (`pengu_project.py:1649-1652`). A build that dies in between, or cannot open the
  hash file, leaves the new bundle under the fingerprint of the old one; when
  the sources return to that state, the wrong program counts as up to date.
* `lower_switch`. A `judge` over constants becomes a C `switch`, and a plain `break`
  in one of its clauses becomes a C `break` inside it (`exprs.py:3303`). The defers
  of the loop body run and the loop goes on; `LANGUAGE.md:1048` says that a bare
  `break` targets the innermost loop.
* `map_oom`. The old entries are put again into the doubled table and the old
  slots are freed whether or not the put found memory (`pengu_runtime.h:2294`); the
  comment at 2253 says that a put that cannot allocate modifies nothing.

The other configurations in this directory are additional instances, one
property each; TLC finds each property violated. They document cases that the
passing runs exclude by a constant or do not ask about.

| Configuration (module) | Property | What happens |
|---|---|---|
| `MCFilumChanUnbuffered` (`FilumChan`) | `UnbufferedSendWaits` | `chan_new(0)` makes a channel of capacity 1 (`pengu_runtime.c:468`), while `std/filum.pengu:540` speaks of unbuffered channels |
| `MCFilumChanFree` (`MCFilumChan`), `MCFilumWaitGroupFree` (`FilumWaitGroup`) | `BlockedCallsReturnBeforeFree`, `WaitersOutBeforeFree` | free destroys the mutex that the threads it woke have to take again (705, 646) |
| `MCLspClosed` (`MCLspValidation`) | `ClosedIsReleased` | a job already taken puts the buffer of a closed document back |
| `MCLspReopen` (`MCLspValidation`) | `SettledShowsText` | notifications of close and open that are handled before the calls `gather()` put on the loop (`Batched`) |
| `MCDepConflicts` (`MCDepProject`) | `ConflictsReported` | a requirement on an already resolved package is passed over unread (4975) |
| `MCDepRollback` (`MCDepProject`) | `FailedAddRestoresManifest` | re-adding a listed package with a conflict deletes its old entry (4508) |
| `MCDepFrozen` (`MCDepProject`) | `FrozenLeavesLib` | a frozen build checks out other tags before it compares (4833) |
| `MCLowerTuple` (`MCLower`) | `DefersRunOnExit` | a return of several values runs no defers (`stmts.py` 988-1043) |
| `MCLowerVoid` (`MCLower`) | `DefersRunOnExit` | the else of a `judge` without a value is not written |
| `MCLowerArm` (`MCLower`) | `DefersRunOnExit` | a defer inside `unsafe`, `with`, `do`, a value `if` or a clause of a `judge` joins the scope around the block and runs even if the block does not |
| `MCLowerTry` (`MCLower`) | `TemporariesReleased` | a failing `try` does not release the list a loop owns (`or_block.py:418`) |
| `MCLowerOrder` (`MCLower`) | `ReleasesInnermostFirst` | a labelled jump releases the outer of the loops it leaves first (`bundle.py:728`) |
| `MCPenguMapLoop` (`MCPenguMap`) | `LoopVisitsOnce` | a put that overwrites a value doubles a half-full table, and the loop goes on in the new one |

Further cases are one constant away from a configuration of this directory:

| Configuration, and what to change | Property | What happens |
|---|---|---|
| `MCFilumSync`, `Recursive = TRUE` | `RunsOnce` | on Windows a callback that reaches its own guard is entered again; elsewhere the thread waits for itself |
| `MCFilumSync`, without the exception `RefusesAfterWrap` | `RegisterButForRefusals` | after an overflow `compare_swap` refuses what `load` returned (443); with `LongHalf = IntHalf`, the widths on Windows, the exception is not needed |
| `MCLspTyping`, as it is | `NewerEditKeepsSymbols` | an edit between the last `should_abort()` and the store (756-759) |
| `MCLspPaced`, `Paced = FALSE`, `MaxActs = 3` | `ImportersUpdated` | an importer in its first check is not yet known as a dependent |
| `MCLspPaced`, `Paced = Batched = FALSE`, `MaxActs = 5`, `Ops = {"open", "change"}` | `SettledShowsText` | the job of a cancelled run puts an older text of the importer back into the buffer (`server.py:707`); the next change of the module validates and shows that one |
| `MCLspPaced`, `Empty` among the texts of the module | `SettledShowsFresh` | a module that was emptied in the editor is still seen as its file, since `did_open` and `did_change` ignore an empty text (`server.py` 962, 1001) |
| `MCDepProject`, without the exception `Overtaken` | `FrozenAcceptsBuild` | a tag that a requirement was waiting for makes a frozen build fetch (4835) and reject the lock, although the project is the same |
| `MCDepProject`, as it is | `ImportsCheckedOut` | a refreshed checkout keeps the old modules under `pengu/` (4482) |
| `MCCaches`, `Files = {main, near, far}` | `RunsTheProgram` | a file created where the search looks earlier changes none of the recorded digests (`pengu_cache.py:477`) |
| `MCCaches`, `EditsDuringRuns = TRUE` | `CacheIsRight`, `ListIsRight` | a file saved between two of the reads of one run |
| `MCCaches`, `EditsDuringBuilds = TRUE` | `HitIsRight` | a source saved during a build is in the fingerprint and not in the bundle |
| `MCLower`, `Mixed = {"returnOr"}` | `ErrDefersRunOnFailure` | `return x or:` with a block is always lowered as an error return (`stmts.py:1010-1014`), so the open errdefers run when `x` succeeds too; `LANGUAGE.md:2876` says "`errdefer` only on an error return" |
| `MCDce`, `Changes = {"shadow"}` | `AnswerIsRight` | a file appears where a search looks before the file it found |
| `MCDce`, `Changes = {"companion"}` | `AnswerIsRight` | a `.d.pengu` appears beside a wrapper of a remembered order, or beside one that is only in the editor |
| `MCDce`, `Changes = {"vanish"}` | `AnswerIsRight` | a file open in the editor is deleted; its signature is that of the buffer |
| `MCDce`, `Changes = {"during"}` | `AnswerIsRight` | a save while the search runs is recorded as if it had been seen |
| `MCDce`, `Surprises = {"hidden"}` | `BundleIsClosed`, `SameBundleAgain` | an identifier that happens to name an instance is looked up in vain and never again (`bundle.py:421`) |
| `MCDce`, `Surprises = {"derive"}` | `BundleIsClosed` | a type that comes with a late instance has helpers that were generated too early (`bundle.py:200`) |
| `MCDce`, `Surprises = {"variant"}` | `BundleIsClosed` | the name of one omen begins that of another, and `--prune-types` keeps the wrong one (`types_gen.py:485`) |
| `MCDce`, without the exception `Renamed` | `BundleIsClosed` | `--prune-types` looks for the Pengu name of a constant where the text has its C name, and drops a renamed constant that is used (`constants.py:178`, 216) |
| `MCDce`, `Surprises = {"unseen"}` or `{"byname"}` | `BundleIsClosed` | without the exact pass, instances that only a body brings up, and weaves that only constants or lambdas use, are not there |

## 8. What is not modelled

* Language server: the synchronous path of the tests, and the feature providers.
  An edit that empties a document is ignored by the handlers; the model does the
  same and the properties leave such documents out (`PatientClientSeesFresh` leaves
  out emptied modules). Requests are checked against
  a client that opens, edits and closes; a configuration change drops the cache by
  which `FirstAnswerHasTable` tells that the checker crashed.
* Once: `WeakMemory` is `FALSE` in the runs, as on x86 or with MSVC's `volatile`; the
  unlocked read of the flag is a race in C, and with `WeakMemory = TRUE`
  `ReturnSeesCallback` does not hold.
* Dependencies: local sources, `vendor/`, the download cache, build scripts,
  verify, tree, the text of constraints. Writes of the manifest are atomic.
* Script cache: wasm targets, the ages that the collector looks at, the parser
  table cache; reading a set of files is one step. An entry that the collector
  removes between lookup and exec makes the run fail; the property allows it.
* Incremental build: two builds in one directory at once are in the model
  (`Concurrent`), but nothing promises that they work, and they do not. A header
  replaced by one with an older time is not noticed; the code says so.
* Import resolution: the extraction of import lines from a tree and the cache
  of trees (an entry is what its key stands for). Time stamps are never equal
  by accident.
* Dead-code elimination: native includes and library builds, and what the C text
  of a construct is. Reading suggests a gap that is not in the model: the filter
  of native includes does not look at the texts of types and constants (`bundle.py`,
  `native_texts`).
* Lowering: expressions, and the statements that strict C99 hoists out of the arms
  of a `judge`. `or return` has no action because
  it has no C: `is_maybe`, which all its ways read (`or_block.py` 334, 363, 385), is
  bound in the branch of `or else` only (272), so the generator stops with an
  UnboundLocalError. What it is meant to write (327-405) would be a model of its own:
  the syntax of the returned expression decides whether the errdefers run (331), where
  `LANGUAGE.md:2829` runs them always, and the lists of the loops it leaves are not
  released. The order of defers and errdefers among each other is
  not compared. Seen while reading: a `for` over a string or a map
  that no variable holds evaluates it in every turn; a constant step of 0 loops.
* Hash map: keys as bytes. A key type of the size of `PenguString` is hashed as a
  string (2303, 2324), whatever it is. A loop whose body removes keys ends early
  (`"remove"` is in `Disturbing`).
* Parser, checker, inference, expressions and declarations, strings and lists of
  the runtime header, the sequential library modules, the self-hosted compiler
  and the release tools: sequential programs whose difficulty is the size of their
  case analysis. They are most of the 65 000 lines of the implementation, which is
  why the mapped share of it is small: a model of them would restate each case,
  and no interleaving, failure or history of calls would be in it.
