# GnostisMCP in TLA+

GnostisMCP indexes source code projects and answers questions about them over the Model Context
Protocol: it walks the files, cuts them into chunks, has an external service embed the chunks,
keeps vectors, symbols, a call graph and fingerprints, and follows the file system with a watcher.
This directory holds TLA+ modules translated from its source (`../src`), TLC configurations that
check them on small instances, and TLAPS proofs. `PROJECT.json` maps every definition to its lines.

Contents: [1 The system](#1-the-system) · [2 Modules](#2-modules) · [3 Runs and bounds](#3-runs-and-bounds) ·
[4 Fairness](#4-fairness) · [5 Proofs](#5-proofs) · [6 Where code and documentation part](#6-where-code-and-documentation-part) ·
[7 What is not modelled](#7-what-is-not-modelled) · [8 Plan](#8-plan)

Run a check with `tlc -config FileIndex.cfg MCFileIndex`, a proof with `tlapm JobQueue_proofs.tla`.

## 1 The system

### 1.1 Processes, goroutines, locks

One process per data directory is the *primary*; any further process forwards its standard input to
the primary and prints the answers. `cmd/gnostis/main.go` decides by an advisory lock (`internal/lock`).
In the primary run

| goroutine | started in | what it does |
|---|---|---|
| job worker | `jobs.Queue.Start` | runs the queued jobs one after the other |
| Run | `app.App.Run` | initial index, resumption of an interrupted job, then the watcher |
| watcher | `watcher.Watcher.Start` | receives notifications, collects paths in `pending` |
| timers | `watcher.handleEvent` | one flush each after a quiet period of the debounce time |
| restarter | `app.runWatcherRestarter` | replaces the watcher when the projects changed |
| status ticker | `app.startStatusTicker` | broadcasts the status when it changed |
| HTTP/WebSocket handlers | `internal/mcp`, `internal/web` | tools and dashboard; one read loop per socket |

`App.rebuildMu` serialises whatever writes an index or the list of projects: the initial index,
rebuilds, the watcher's jobs, adding, editing and removing projects, starting a watcher. Readers
(search, coverage, graph queries, status) do not take it: they use snapshots behind atomic pointers
or the lock of the one structure they read. The hard behaviours follow from that: a query sees a job
half done; results and snapshots are stale when used; what survives a crash is a prefix of several
independent writes; a failure is often logged and forgotten.

### 1.2 Components

| component (source) | state | operations | correct when | modelled in |
|---|---|---|---|---|
| job queue (`internal/jobs`) | slice of jobs, notify channel, condition variable | Submit, SubmitWithID, Start, Wait, List | jobs run once, one at a time, in order; whoever waits is woken; bounded history | `JobQueue` |
| incremental indexing (`app/indexing.go`, `embed.go`, `app_cleanup.go`) | files seen, changed, batches | initial pass with retries, rebuild, single-file job, cleanup | what a pass read is found afterwards; an unchanged file is not embedded again; no edit is lost | `FileIndex` |
| vector store (`internal/store`) | chunks, hashes in memory and in the table | AddChunks, DeleteByPaths, SaveHashes, Query | a hash vouches for chunks; one version of a file | `FileIndex`; Query in `Search` |
| symbol index (`internal/symbol`) | symbols, table | AddChunks, RemoveByPath, Save, Lookup | symbols of the chunks stored; find_symbol finds the definitions | `FileIndex`; Lookup in `Search` |
| progress, job lifecycle (`internal/progress`, `app/app.go`, `rebuild.go`, `uptodate.go`) | the progress row, the job ID | Start … Done, Load, SetJobID; initialIndex, resume, rebuild, end of Run | an interrupted job is made up for by the next process; a process told to stop ends | `IndexLifecycle` |
| projects (`app/projects.go`, `config_watcher.go`, `config/projects.go`, `mcp/server.go`) | lists in memory, table, snapshots, the server's list, the watcher's list | AddProject, EditProject, RemoveProject, restart | lists agree; names and paths are distinct; the watcher follows | `Projects` |
| data directory lock (`internal/lock`, `cmd/gnostis`) | lock file and its inode | TryLock, StalePID, Remove | one primary | `DataDirLock` |
| file watcher (`internal/watcher`) | pending paths, timers, fsnotify | handleEvent, flush, Stop | each notified change is reported unless the flush is put off for ever; silence after Stop | `Watcher` |
| RPC client and transport (`web/src/lib/rpc.ts`, `mcp/transport_ws.go`) | socket, connect promise, pending calls, timers | connect, call, onopen/onmessage/onclose | every call ends; a lost connection is replaced | `RpcClient` |
| call graph (`internal/graph`, `app/graph_queries.go`) | nodes, edges, files, two tables | AddChunk, RemoveByPath, Save, Load, TracePath | graph of the chunks stored; answers are shortest paths | `CodeGraph` |
| similarity index (`internal/simhash`) | fingerprints, table | Add, RemoveByPath, Save, FindSimilar | fingerprints of the chunks stored | `CodeGraph` (not the ranking) |
| result caches (`app/changes_cache.go`, `graph_layout.go`) | change lists (30 s), layouts | cached read, invalidate | a rebuild is seen; nothing wrong is told for long | `ResultCaches` |
| graph layout (`internal/graph/layout.go`, `app/graph_layout.go`) | – | choice of nodes and edges, forces | bounded, no dangling edge, numbers of what is drawn | `GraphView` (not the forces) |
| dead code, architecture (`app/graph_queries.go`, `architecture.go`) | – | two reads each | what is called dead is not called; every file counted once | `GraphView` |
| search, ranking (`internal/search`, `mcp/tools_unified.go`) | – | Search, merge of code and documentation | nothing better is cut off | `Search`, `Ranking` |
| chunker (`internal/chunker`) | parsers | Chunk, splitChunk, calls | chunks are the lines they name and cover what they are cut from; a call has one caller | `Chunker` (not the grammars) |
| walk and filters (`internal/indexer`, `internal/directory`) | cache of .gitignore files | Walk, isIgnored, ShouldIndex | – | `FileIndex` (`Indexed`; not the globs) |
| embedding provider (`internal/embeddings`, `app/embed.go`) | cache of one attempt | Embed in at most four concurrent batches | vectors belong to their chunks; a retry asks for the rest only | `EmbedBatches` |
| configuration, database, statistics, logs, web server, proxy, MCP tools, views | see `PROJECT.json` | | | – |

### 1.3 Who calls whom

- A tool or the dashboard submits a rebuild to the **queue**; a single-file job comes from the
  **watcher**'s onChange. Both take `rebuildMu` and run **indexing**, which writes **store**,
  **symbols**, **graph**, **fingerprints** and **progress**.
- **Progress** and the queue share the job ID (`SetJobID`), which the next process reads.
- **Projects** signals the restarter (channel of capacity one), which stops the old **watcher** and
  starts a new one over the new list.
- Graph queries, coverage and search read store, hashes and graph while a job writes them.
- The **RPC client** meets the server's read loop of one socket, which answers requests in order.

## 2 Modules

| module | EXTENDS / uses | role |
|---|---|---|
| `SerialExecutor` | – | abstract specification: jobs wait, run one at a time in order of submission, each at most once |
| `JobQueue` | INSTANCE `SerialExecutor` | `internal/jobs/queue.go`; one action per critical section or channel operation |
| `JobQueue_proofs` | `JobQueue`, TLAPS | the theorems |
| `FileIndex` | – | one project's index, its jobs, edits, faults, crashes |
| `FileIndex_proofs` | `FileIndex`, TLAPS | the theorems |
| `IndexLifecycle` | – | jobs from request to completion across processes |
| `IndexLifecycle_proofs` | `IndexLifecycle`, TLAPS | the theorems |
| `Projects` | – | the lists of projects, the watcher's restarts |
| `Watcher` | – | one watcher from Start to Stop |
| `Watcher_proofs` | `Watcher`, TLAPS | the theorems |
| `CodeGraph` | – | call graph and fingerprints beside the jobs; TracePath |
| `CodeGraph_proofs` | `CodeGraph`, TLAPS | the theorems |
| `RpcClient` | – | dashboard client and the server's read loop |
| `DataDirLock` | – | election of the primary |
| `Projects_proofs` | `Projects`, TLAPS | the theorems |
| `EmbedBatches` | – | one pass's calls of `embedChunks`: batches, cache, errors |
| `ResultCaches` | – | cached change lists and layouts beside jobs |
| `Caches_proofs` | `EmbedBatches`, `ResultCaches`, TLAPS | the theorems about both caches, that of vectors and those of results |
| `Chunker` | – | pure: a file becomes chunks with their calls |
| `Ranking` | – | pure: the first n by a value, in every order of equal values |
| `Search` | `Ranking` | pure: Store.Query, Search, the merge, find_symbol |
| `GraphView` | `Ranking` | pure: GraphLayout's choice, DeadCode, Architecture |
| `Algorithms` | `Chunker`, `Search`, `GraphView` | calls an algorithm with any input of the constants, and answers |
| `Answers_proofs` | `RpcClient`, `Algorithms`, TLAPS | the theorems about the client's calls and about all answers |
| `MC…` | the module of that name | values of the constants for TLC, symmetry |

How the models fit together, each leaving to another what it abstracts:

- `IndexLifecycle` has the queue of `JobQueue` as a sequence served in order (justified by the
  refinement `JobQueue` ⇒ `SerialExecutor`) and `FileIndex` as one bit per project: does its index
  lack anything?
- `CodeGraph` has the store of `FileIndex` as a function from files to contents whose chunks and
  hash change at once; `FileIndex` has the graph as the content it was built from.
- `FileIndex` has the embedding of a batch of files as one step that succeeds or fails; `EmbedBatches` has
  the concurrent requests behind that step, whose results the theorem `VectorsBelongToChunks` describes.
- `ResultCaches` has the index of a project as a version that a job increases, `GraphView` what is computed
  from one state of it (or from two, between which a job ran).
- `Projects` has a watcher as the set of directories it watches; `Watcher` has the life of one.

### 2.1 State and actions

**JobQueue.** An entry is the ID its caller gave, the status, and `no`, the ordinal of the submission, a ghost
that tells jobs apart: IDs come back (a full rebuild that is resumed is submitted as "index", `rebuild.go:126`; two
generated within a microsecond are equal), and Wait takes the first entry of its ID (`FirstWith`). `asOf` remembers
which submission an answer of Wait can speak for. `jobs` is `q.jobs`, `notify` the channel, `worker` and `client` say where a goroutine
stands. `SubmitWithID`/`SignalSubmitted` are the two halves of `SubmitWithID`, which releases `q.mu`
before it signals; `PickJob`, `FinishJob` and `SignalNext` are the parts of `processNext`, which runs the
job function without the lock; `ScanInWait` is one turn of Wait's loop. `prune` is a *relation*
between the slice before and after (`IsCopyOrder`), so that proofs need no recursion.

**FileIndex.** A file is its content; a chunk, a hash, a graph entry and a symbol entry are the
content they were made from. That is what the properties tell apart, and all that they compare.
Every action is one write that survives a crash or one read of the disk: `initialIndex` and
`RebuildProject` become `purge → walk → stale → embed → hashes → saveSym → saveGraph`, where edits
may fall between any two. A fault kind says which operation fails (`Faults`); `MaxFaults` bounds
them. `torn` is the file whose chunks are deleted and whose hash is not. `ignored` is what the .gitignore files
say, as the cache of the process has read them: passes obey it (`Indexed`), single-file jobs do not.

**IndexLifecycle.** A row is a job ID and a status; `Progress` is read from it (`Load`) and written
to it by the operations the code calls, in the code's order; a crash forgets all but the row and the
index. IDs keep their parts (kind, project, timestamp), because `jobPrefix` cuts them. `main`, `run` and
`working` are the three goroutines whose end decides when a process ends: Run itself, the one that waits
for the initial job and starts the watcher, and the worker. Faults include a signal, a web server that ends
and a watcher that cannot start; jobs run in a context without cancellation, so that nothing cuts one short
but the end of the process.

**Projects.** One operation holds `rebuildMu` from `AddProject`, `EditProject` or `RemoveProject`
to the signal; the actions in between are the points where a snapshot, the table or the server's
slice changes. `served` is a slice of the array of `a.projects`, which a removal shifts in place.

**Watcher.** A timer is `armed`, then `fired`, then `flushing` (it has taken `pending`), then
free again; several may be in flight. A notification that stops an armed timer arms another one, never the same,
so that the fairness of a timer does not force a timer that is stopped again and again to fire. Actions are critical sections of `w.mu` and the unprotected steps
of `Stop`. The run loop can find `w.watcher` nil, where it panics.

**CodeGraph.** A content is its chunks in order, each with a symbol and the names it calls; a node is
a file and a symbol. `RemoveByPath` and `AddChunk` are the code's operations, one action per call,
since each takes the graph's lock on its own. `TracePath` is one action per read of the graph.
Edges form a set: `splitChunk` makes several chunks of one function, whose edges are equal but for
their line, and the queries here do not count them.

**RpcClient.** A socket is `connecting`, `open`, `closing`, `failing` or `closed`; an action is one
browser event with its microtasks. `promise` and `ws` are the module's variables of that name.

**EmbedBatches.** A chunk is its ID, which stands for path and text, and so is the vector that belongs to
it. `Launch` is one turn of the loop (`g.Go` blocks while `MaxConcurrent` batches are out); the steps of a
batch are its look at the context, its request and its writes. Calls follow each other with what is left of
the embedding cache, as the groups of a pass and its retries do.

**ResultCaches.** Files and index of a project are versions; an entry remembers the versions it was computed
from, and its age. A request is the reads it makes one after the other (projects, directories, walk, hashes),
and the store of its result; a job is its work, then its invalidations. The two caches share nothing, so a
behaviour asks one of them (`asked`).

**Chunker, Search, GraphView.** Functions of their input. What a sort that is not stable, fed from a map,
leaves open is a set of answers (`Ranking`). A text is the lengths of its lines, a syntax tree a preorder of
nodes whose texts are whole lines, a document its similarity, boosts and filters, a graph two readings between
which a file may have changed. What is recursive in the code is written as a function over a prefix (`Bytes`,
`Begins`) or as the least set with a closure (`Above`), so that it can be reasoned about. The reference
definitions the answers are compared with stand beside them, and `Algorithms` makes them a specification of
two states, the input and the answer.

**DataDirLock.** A file is an inode, since `flock` belongs to the inode while `Remove` removes the
name. An action is one system call.

## 3 Runs and bounds

| run | instance | shows |
|---|---|---|
| `job_queue` | 2 clients, of which one waits, history 2, 3 jobs under 2 IDs | four invariants, the refinement of `SerialExecutor`, progress if no job fails |
| `file_index` | 2 files, none or one of them ignored, 2 contents, batches of one, 2 attempts, 2 faults of any kind, 2 edits, 1 request | a pass stores, hashes and keeps the symbols of what it read, whatever fails; edits are not lost |
| `lifecycle` | 2 projects, 2 requests, 3 faults of seven kinds, 2 edits | interrupted jobs are resumed or made up for; a process told to stop ends |
| `lifecycle_rebuild` | 2 projects, 1 request, no fault | **violated** `RebuildRebuilds`: "rebuild everything" skips projects whose row says done |
| `projects` | 2 paths, 2 names, 2 filters, 2 faults, 3 operations | lists agree, the watcher follows |
| `watcher` | 1 file in the root, 1 in a new directory, 3 timers at once, a kernel queue of 1, notifications without end | no notified change is lost, each is reported unless put off for ever, silence after Stop |
| `rpc_client` | 2 calls, 4 sockets | every call ends, a connection is sought for ever |
| `code_graph` | 2 files, 3 symbols, 2 contents, 3 queries, 2 events | graph and fingerprints follow the store; paths are paths, and shortest ones |
| `embed_batches` | 2 IDs, batches of 2, 2 at once, 5 chunks, 3 calls | every chunk gets its vector, progress adds up, a retry asks for nothing it knows, every call returns |
| `result_caches` | 2 projects, 2 requests at once, lifetime 2, slowest request 1, 2 events | a rebuild is seen; errors, races and edits are told for one lifetime at most |
| `algorithms` | every text of up to 4 lines, tree of up to 3 nodes, set of up to 6 of 9 documents, graph of 4 functions with up to 4 calls | chunks, search, merge, find_symbol, dead code, layout and summary against their reference definitions |
| `data_dir_lock` | 3 processes | **violated** `SinglePrimary`: the name is removed under a live lock |

The type invariants are not among the runs' properties: for the modules with proofs they are theorems
(`TypeCorrect`, for every value of the constants; `CachesTypeCorrect` for `ResultCaches`). To a cfg can be added
the five properties that section 6 says do not hold (`SubmittedJobRuns`, `AnsweredIdIsOver`, `CoveredIsIndexed`,
`ReloadedGraphFollowsStore`, `EveryChangeIsReported`): TLC then prints the trace.

The bounds, and why they are enough:

- `JobQueue`: three jobs and a history of two give a running, a pending and a finished one at once
  and make `prune` drop something; two clients give a submitter and a waiter in every order, and the waiter may
  submit as well. One waiter is what the code has (`app.go:206`), and a call of Wait changes nothing that another
  looks at. Two IDs are the one waited for and another; each may come back up to three times. The theorems of
  section 5 hold for every value.
- `FileIndex`: two files are needed for "one of a batch fails"; a batch of one makes several batches;
  two edits let a file change twice during one pass; two faults let the retry, or the job that
  repairs, fail as well. `MaxAttempts` is 2 where the code has 3: a second retry begins in the
  state that the first one began in. A content stands for all its chunks. That one file or none is ignored
  gives passes that skip what a single-file job has indexed; the choice is made anew by each process.
- `IndexLifecycle`: two projects distinguish "this one" from "all"; three faults include a crash
  during the resumption of what a crash interrupted, and a signal after an error has cancelled the context.
- `Projects`: a third operation meets what the second left behind; two names for two paths make
  the suffixes of `uniqueProjectName` collide.
- `Watcher`: notifications have no end. Three timers at once are one that fires late, its successor and one armed by
  the loop in between; when all three run or flush, the loop waits for a flush to end (`TimerLeft`). A queue of one
  holds the next notification beside the one that is handled; what does not fit is dropped, as the kernel does.
- `RpcClient`: sockets are spent on reconnections; with four, an old one can close after its
  successor opened, twice.
- `CodeGraph`: `Loop` and `Bridge` form cycles, two files that define one symbol, and targets within
  and beyond the depth. `MaxEvents` counts edits, restarts and queries together. `DefaultDepth`
  and `DepthLimit` are 1 and 3 where the code has 10 and 25 (`graph_queries.go:17`), so that both cut
  something off.
- `EmbedBatches`: five chunks make three batches, of which two are out; two IDs make the same text come
  twice, in one batch and in two; three calls are a group, a failure and its retry.
- `ResultCaches`: a lifetime of two and requests of up to one tell "computed before", "stored after" and
  "expired" apart; an event is a job, an edit, an error or a change of the list. Two events combine (a job and an edit, a watcher's
  job and a rebuild, two operations); both of them while two requests compute at once is beyond five minutes, so the
  constraint `OnePairAtATime` leaves it out. The theorems `SuccessfulRebuildsAreSeen` and `ChangeListsCatchUp` hold
  for any number of both.
- `Algorithms` (the inputs are in `MCAlgorithms`): a chunk has at most 8 characters, so that of lines of 0, 3 and 7 some fit together, some
  alone, and with their overlap not; nine documents have equal scores, equal places and each combination of
  boost, filter and cut that changes an order; four calls among four functions give cycles, isolated nodes
  and more edges than the cap of 3.

Bounds that are not in the code are named as such where the constants are declared (`MaxJobs`,
`MaxFaults`, `MaxEdits`, `MaxRequests`, `MaxWrites`, `MaxEvents`, `MaxSockets`, `MaxTimers`); `MaxQueue` is the kernel's.

Every property of a passing run has a *mutant* next to the definition it changes (`Name_Change`,
marked `mutant:`): the change a plausible bug would be, with which TLC finds the property violated.

`CHECK_DEADLOCK FALSE` stands where the system may come to rest: every client sleeps in Wait with
the queue stopped, or the bounds leave nothing to do.

## 4 Fairness

- `JobQueue`, `FairSpec`: weak fairness of the worker's steps, and of each client between taking a
  lock and returning it. The Go scheduler runs every runnable goroutine; job functions return
  (they work through finite lists with timeouts of the HTTP client). Nobody is obliged to submit. `WaitReturns`
  exempts an ID that is submitted again after the call, since Wait may go on with the new job.
- `Projects`: weak fairness of the operation that holds `rebuildMu` and of the restarter. Operations
  return; the debounce timer fires; `sync.Mutex` hands itself over to a waiter that starves.
  Nobody is obliged to call an operation.
- `Watcher`: weak fairness of the loop and of every timer's flush, for the same reasons: a timer that stays armed
  fires, one that is stopped first does not. That the next notification stops it each time is possible, and the
  exception `ChangeIsReported` makes (`Postponed` infinitely often); it assumes nothing of how fast they come.
  Notifications are not fair: the kernel may drop them (`Change`).
- `RpcClient`: weak fairness of the browser: a socket that connects opens or fails, one that closes
  fires its close event, a call's timer fires. The server is not fair; it may never answer.
- `EmbedBatches`: weak fairness of the loop, of the batches together and of the return. Goroutines run, and
  the provider answers or the HTTP client's timeout of 120 seconds ends the request.
- `IndexLifecycle`: weak fairness of the steps of a job under way, of Run's goroutines, and of "the worker takes the
  initial job or leaves". That the worker takes other jobs is not assumed: after a failed job it may not
  hear of them (`JobQueue`). Nor is that the process is ever told to stop. Web server and status ticker
  end with the context.
- `FileIndex`, `CodeGraph`, `ResultCaches`, `DataDirLock` and the algorithms claim no liveness and assume none.

## 5 Proofs

`JobQueue_proofs` proves, for any set of clients, any `MaxHistory > 0` and any `MaxJobs`:

| theorem | property | |
|---|---|---|
| `TypeCorrect` | `TypeOK` | |
| `WorkerIndexIsStable` | `WorkerOwnsRunning` | the index kept across the unlocked job function is still right |
| `SignalsReachPendingJobs` | `NoLostWakeup` | merged signals lose a job only after a failure |
| `NoMissedBroadcast` | `BlockedOnActive` | who sleeps in Wait has something to wait for |
| `WaitAnswersForFinishedJobs` | `AnsweredJobIsOver` | whatever IDs come back: the job that Wait found is over, and so are the earlier ones of its ID |
| `QueueImplementsExecutor` | `ImplementsExecutor` | Spec ⇒ `Executor!Spec` |
| `HistoryStaysBounded` | `HistoryBounded` | whatever prune copies, for every history size |

The assumptions are `MaxHistoryAssumption` and `MaxJobsAssumption`, which TLC evaluates in `job_queue`.
(`MaxJobs` is only required to be a natural number: it bounds nothing that the proofs use.)

The argument:

1. *Effect lemmas.* `SetStatus`, `AppendJob` and `PrunedIsCopy` say what an operation does to the slice:
   prune leaves old entries, none twice, and all active ones in their order. `PickEffect`,
   `SubmitEffect` and `FinishEffect` lift that to pending, running and active entries. The later
   proofs use no more of the sequences than this.
2. *`TypesAndIndex`* = `TypeOK ∧ WorkerOwnsRunning`. Neither is inductive alone: the slice keeps its
   type in `FinishJob` only if `idx` is one of its indices, and `idx` stays right only because the
   slice grows at its end while a job runs, and prune runs only when the worker holds the lock.
3. *`SubmissionOrder`*: the ordinals in the slice are distinct and at most `submitted`; active jobs stand in the
   order of submission, and what is over was submitted before what runs, and that before what is pending. IDs
   may repeat. Needed for `AnsweredJobIsOver` (all jobs of an ID up to the one that Wait found are over, because that one
   is) and for the order of the executor.
4. *`Waiting`* = the three wakeup invariants, inductive over 2 and 3.
5. *`HistoryBounded`*: prune keeps all active jobs and at most `MaxHistory` entries if others are among them
   (`OnlyActiveCopied`, `PrunedHistory`); jobs submitted after that are active.
6. *Refinement*: with 2 and 3 every step is a step of `SerialExecutor` or leaves its variables alone;
   `FinishJob` is the case that needs `FinishEffect`.

`FileIndex_proofs` proves all invariants of `file_index`, and the parts of `PassStoresWhatItSaw` one by one, for any set of files and contents, any .gitignore rules, any `BatchFiles` and `MaxAttempts` above zero, and any number of edits, requests and faults
(`MaxEdits`, `MaxRequests` and `MaxFaults` occur in guards that no proof uses):

| theorem | property | exempt |
|---|---|---|
| `TypeCorrect` | `TypeOK` | |
| `OneVersionOfAFile` | `SingleVersion` | failed deletions |
| `HashesVouchForChunks` | `HashHasChunks` | crashes, failed deletions and insertions |
| `PassesHashWhatTheySaw` | `PassHashesWhatItSaw` | nothing |
| `PassesIndexWhatTheySaw` | `PassIndexesWhatItSaw` | crashes, failed deletions and insertions |
| `PassesKeepSymbols` | `PassKeepsSymbols` | crashes, failed deletions |
| `PassesCoverTheGraph` | `PassCoversGraph` | nothing |
| `PassesStoreWhatTheySaw` | `PassStoresWhatItSaw` | each part as above |
| `NoChangeIsLost` | `WatchedIsFresh` | crashes, failed deletions and insertions |

The assumptions are `AbsentAssumption` and `AttemptsAssumption`; TLC evaluates them in `file_index`. The argument is a chain of invariants, each inductive over the ones before it:

1. `Bookkeeping`: what is torn is still to be deleted, what is to be deleted or embedded is among what the
   job stores, and what a pass stores it saw. `AfterFailure` gathers what a failed step does, since a retry,
   a job given up and an initial index that failed all go the same way.
2. `Hashed`: what was embedded has the hash it was stored with; what a pass skipped, the hash it was
   skipped for. Its last conjunct is `PassHashesWhatItSaw`.
3. `NoLeftovers`: while deletions succeed, what the job has deleted and not yet stored has neither chunks
   nor hash. This is why an insertion cannot make a second version (`OneContent`, which is
   `SingleVersion` without counting), and why the table never holds a hash that the map does not
   (`HashHasChunks`).
4. `PassIndexesWhatItSaw` follows from 2, `HashHasChunks` and `OneContent`, without a further induction.
5. `SymbolsFollow`, `Covered`: symbols of the hashed content, except for files being deleted; the graph once
   a pass has written it.
6. `Added`, then `AllFresh`: what `WatchedIsFresh` becomes at every point of a job. A pass may hold stale chunks
   of a file until it has walked, but none of a file that is gone; after the walk it has seen what is
   there, or the file has a change to come. The pass ends with 4, the single-file job with `Added`. A file
   that is ignored is outside the pass: it has what the last single-file job gave it, or nothing.

The other modules hold fewer theorems, for any values of the constants:

| module | theorem | property |
|---|---|---|
| `IndexLifecycle_proofs` | `TypeCorrect` | `TypeOK` |
| | `JobIsFiled` | `ProgressNamesJob` |
| | `IndexIsResumed` | `OnlyIndexIsResumed` |
| | `PassesAreRecorded` | `PassIsRecorded` |
| | `WatcherStartsIndexed` | `WatchedIsIndexed` |
| | `InitialJobAnswers` | `IndexDoneIsComing`, the safety part of `ShutdownEnds` |
| `Projects_proofs` | `TypeCorrect` | `TypeOK` |
| | `DistinctProjects` | `ProjectsAreDistinct` |
| | `AgreeingLists` | `ListsAgree` |
| | `RestartIsDue` | `RestartPending` |
| `Watcher_proofs` | `TypeCorrect` | `TypeOK` |
| | `StopIsQuiet` | `StoppedIsQuiet` |
| | `NoChangeIsLost` | `ChangeIsOnItsWay` |
| `Answers_proofs` | `TypeCorrect` | `TypeOK` of `RpcClient` |
| | `NeverGivesUp` | `KeepsTrying` |
| | `NobodyIsStranded` | `NobodyWaitsInVain` |
| | `SearchIsDeepEnough` | `SearchMissesOnlyTheFarOnes` |
| | `MergeIsLossless` | `MergeKeepsTheBest` |
| | `SymbolsAreFound` | `FindsDefinitions` |
| | `ListedCodeIsDead` | `DeadCodeIsDead` |
| | `ViewsAreConsistent` | `ViewsAddUp` |
| | `ChunksAreFaithful` | `ChunksAreTheirLines` |
| | `CallersAreUnique` | `CallsHaveOneCaller` |
| `Caches_proofs` | `TypeCorrect` | `TypeOK` of `EmbedBatches` |
| | `VectorsBelongToChunks` | `VectorsAreTheirChunks` |
| | `RetriesAskOnlyForTheRest` | `KnownIsNotAskedAgain` |
| | `ProgressIsComplete` | `ProgressAddsUp` |
| | `CachesTypeCorrect` | `CachesTypeOK` |
| | `SuccessfulRebuildsAreSeen` | `RebuildIsSeen` |
| | `ChangeListsCatchUp` | `ChangesCatchUp` |
| `CodeGraph_proofs` | `TypeCorrect` | `TypeOK` |
| | `GraphStaysClosed` | `GraphIsClosed` |
| | `TracesArePaths` | `TraceIsAPath` |
| | `IndexesFollowStore` | `FollowsStore` |
| | `TracesAreShortest` | `TraceIsShortest` |

- *IndexLifecycle* assumes `MaxRequestsAssumption`, which bounds the timestamps. `Filed` says of
  every moment in a job that memory, row and job agree on the ID, and that a resumed job has that of an
  index job; neither half is inductive alone, as `initialIndex` takes the ID of the job it resumes from
  the row. `Stages` cuts the life of a process nobody asked anything of into four: the initial
  job waits, is under way, has failed, has succeeded. The point is in `UnderWay`: its `SetJobID` saves a
  status that was never loaded, so it finds neither "running" nor "done" and walks everything.
  `ProcessStepEffect` says that the steps of Run and of the worker's loop touch no job and no progress.
- *Watcher* (`PathsAssumption`): `Kept` strengthens `ChangeIsOnItsWay` by "what is pending has a timer
  that is armed or has fired", and leans on `Bookkeeping`: the loop has no event while it selects, so
  receiving overwrites none, and a timer that is not flushing has no batch to overwrite. `StoppedIsQuiet`
  needs that nobody holds `w.mu` from when Stop has taken it and the context is cancelled.
- *RpcClient* (`CallsAssumption`, `MaxSocketsAssumption`): `WaitsForSocket` is `NobodyWaitsInVain` and
  that the socket exists. The close of an old socket keeps it, because it rejects all that is pending.
- *Projects* (`Typed`): `ByName` says that table and lists have a name once; `EntryIs` what an operation under
  way knows of the project it is about; `DbFollows` how the table differs from the list at each of its points
  (before, without, or with another version of that entry), unless a deletion has failed; `CopiesFollow` when
  the snapshots and the server's slice are those of the lists. `Told`, their conjunction, is inductive; none
  of them is alone, as an operation takes its entry from the list and leaves it to the table. `Due`
  (a list the watcher does not follow has a signal to come) needs none of them.
- *EmbedBatches* (`IdsAssumption`, `SizesAssumption`): `TypedPlaces` says that the places in `missing` are places of the
  call's chunks, each once, and where the batches under way begin and stand; `Vectors`, that every place
  filled has the vector of its chunk, every place left open is missing and every missing place behind `next` is
  filled or with a batch; `Kept`, that what a goroutine has written is in the cache. The property on
  retries is an action property of `Launch` from `Kept`. `Ledger` keeps the books of the progress: no two
  goroutines hold the same place (`Apart`), and what was reported and what they still hold add up to what the
  loop has passed, unless one failed, when they add up to less.
- *ResultCaches* (`ProjectsAssumption`, `ViewsAssumption`, `TimesAssumption`): `Rebuilds` says of every result,
  kept or in the hands of a request that no invalidation could overlook, that it is of the index of the last
  rebuild (`UpToDate`), and that the index does not change between the two invalidations of a job; kept results
  alone would not be inductive, as a request stores what it read before. `CatchUp`: a project that has been quiet for
  longer than a request runs was read as it is (`RequestsRight`), and a list that is kept was begun at most `Slow`
  before it was stored (`ListsRight`), so that its age bounds how long it can have been wrong. Both need that the list of
  projects and its snapshot differ only inside one operation (`Lists`), during which no project counts as quiet.
- *CodeGraph* (`ContentsAssumption`): `GraphIsClosed` is inductive; two lemmas say that `RemoveByPath` and `AddChunk` keep
  it. `TypeCorrect` is a conjunction of five parts, because tables, job, query and ghosts take their types from
  each other; finiteness is part of it. `TracesArePaths`: items of the queue are paths of visited nodes, each
  once, and targets are never visited (`Searching`), so that the one target of an answer is its end.
  `IndexesFollowStore`: while a file is replaced, what the graph has of it and what is left to add are
  together what was read (`Replacing`, `GraphFollows`); a file that is done, or has chunks, is mirrored. It
  uses `GraphIsClosed`: without it `RemoveByPath`, which finds edges by their nodes, would leave some.
  `TracesAreShortest` is the correctness of breadth-first search with a queue that holds paths, as long as no job
  disturbs it: `WithinIs` and `WithinGrows` give the recursion of the reference definition `Within`; `Layers` says that
  the queue holds paths of two adjacent lengths in order (`Levels`), that each is a shortest one, that the
  callees of what has left the queue were looked at, none of them a target, and are visited as far as the depth
  allows (`Expanded`, and `HalfExpanded` for the node whose callees are being looked at).
- *Algorithms* (`FilesAssumption` and the five after it): the inductive invariant, `InputsRight`, only says that the
  input is one of the constants'; the work is in a lemma for each algorithm, which holds for every input.
  `TopFacts` and `RankedFacts` say what sorting and cutting leave, in whatever order of equals: all, or n that are no worse
  than the rest. `SearchFacts`, `MergeAnswer`, `FindAnswer`, `DeadAnswer`, `LayoutAnswer` and `ArchitectureAnswer` rest on
  them; `SumOfParts` counts a finite set by its parts, for the files of the packages. For the chunker `Recursion`
  gives a function defined along the numbers, `BytesFacts`, `BeginsFacts` and `PartBytes` what the two recursions
  compute; `PieceFacts` and `PiecesCover` say of splitting that pieces are lines of their chunk, and all of them. What is above a
  node of the tree is a chain (`AboveIsChain`), from `AboveStep`; its least symbol is the outermost one
  (`InsideOutermost`), and there is only one, which gives both the lines covered and the one caller of a call.

The assumptions named are evaluated by TLC in the runs of the modules that state them. Those of `Algorithms` are
what the code's inputs have: a Go slice is finite and sort compares numbers; a heading begins at a line; a node of
a syntax tree comes after its parent in preorder and lies within it; a markdown file is not parsed; the package of a
node is the directory of its file; limits are positive, since the tools replace others by
their defaults. `MergeKeepsTheBest` has an exception that a counterexample of TLC asked for: of two *different*
chunks at one place the merge keeps that of the code search. Two chunks share path and lines only if a section that was
split ends with an empty piece, on the line of a last heading that is one line.

Induction is done over sets: `Least` (a set of numbers has a least element, from the well-foundedness of `<`) and
`Induction` (a set with 0 and all successors has all numbers) take a set where the library's theorems take an
operator, and can be cited for any set defined by a formula. Out of the prover's reach, and left to TLC, are the
liveness properties (`StartedUnlessFailure`, `WaitReturns`, `WatcherFollows`, `ChangeIsReported`, `CallEnds`, `CallReturns`,
`ShutdownEnds`). Every invariant and action property of a passing run is stated by a theorem.

## 6 Where code and documentation part

Two runs show the code doing something else than its own comments say. Each is a trace TLC prints.

- **A rebuild that rebuilds nothing** (`lifecycle_rebuild`, `app/app.go:272`). `RebuildIndex` deletes all and
  calls `initialIndex`, whose up-to-date test reads a row that says done.
- **Two primaries** (`data_dir_lock`, `lock/lock.go:44`). The PID is written after the lock is taken and not
  cleared at the end: a live lock file can carry a dead PID, and gets removed.

Five more are properties of the modules that do not hold. Added to the cfg of the module's run they give
a trace:

- **A failed job strands the next one** (`SubmittedJobRuns` in `JobQueue`, `jobs/queue.go:173`). `processNext` signals
  only if `err == nil`; two submissions may have merged into one token. The next submission wakes the queue.
- **Wait answers for another job** (`AnsweredIdIsOver` in `JobQueue`, `jobs/queue.go:109`). Wait stops at the first entry
  of its ID. A resumed full rebuild is submitted as "index", as often as a process finds an interrupted row; while an
  earlier one that is over is still listed, and stands first, Wait("index") is true though the later one is pending or
  runs. Prune decides, as it copies active entries to the front. `AnsweredJobIsOver` is what holds. The one caller
  of Wait (`app.go:206`) does not wait for "index", and what `generateID` makes is equal only within a microsecond.
- **A flush put off for ever** (`EveryChangeIsReported` in `Watcher`, `watcher/watcher.go:162`). Each notification, of
  whatever path, stops the timer and starts the whole debounce of two seconds. While a tree is written more often than
  that (a log, a build that goes on), no change in it is reported. `ChangeIsReported` is what holds.
- **Indexed without chunks** (`CoveredIsIndexed` in `FileIndex`, `store/store.go:122`). `AddChunks` sets the hash in
  memory before the collection is asked; the retry then skips the file and reports success.
- **A graph that cannot be saved twice** (`ReloadedGraphFollowsStore` in `CodeGraph`, `graph/persist.go:18`). Save
  deletes nodes before the edges that refer to them; from the second save on the foreign key refuses, and
  the error is only logged.

Met while modelling, modelled as the code has it, without a run of their own. The properties of the
passing runs are stated so that they hold with these, and say which exception they make:

- *Queue*: prune drops the newest finished jobs, not the oldest; Wait returns false for a job that
  finished well and was pruned; when an ID is submitted again during a wait, Wait may go on with the new job.
- *Indexing*: a single-file job stores chunks without a hash, so that coverage says not indexed and
  later cleanups and rebuilds miss the file; a crash between the deletions of chunks and hash makes
  the next pass skip a file without chunks; a crash in a rebuild loses symbols of unchanged files;
  the single-file job reads the file twice.
- *.gitignore*: passes obey it (`indexer.go:56`), single-file jobs and the up-to-date test go by `ShouldIndex`
  only (`indexing.go:345`, `uptodate.go:55`). An edited ignored file is therefore indexed, without a hash, and
  no pass or rebuild that goes by hashes removes it. The parsed files are cached for the life of the process:
  an edited .gitignore takes effect at the next start.
- *Nested projects*: a file belongs to the first project whose path is a prefix of its path, also without a
  separator between (`indexing.go:312`: a file of `/src/api2` goes to `/src/api`); passes skip what the pass of another
  project has hashed; rebuilding an outer project takes over the files of an inner one, removing it deletes their
  chunks (`isUnderPath`), until a pass of the inner one finds them missing. A project at `/` covers nothing but `/` itself there.
- *Lifecycle*: `Done` is saved after each project, so that a crash between two, with a status request
  before the initial job, leaves the second unindexed (`early`); the watcher is started before the
  resumed job ran; the initial job's `SetJobID` overwrites the ID of an interrupted one;
  `jobPrefix` cuts `project:api-1` to `project:api`; `get_index_job` is asked for an ID without its
  timestamp.
- *End of Run*: an error of the initial index, of the web server or of the watcher's start cancels the context and
  leaves Run waiting for a signal, without watcher and soon without worker. When the worker leaves before
  it has taken the initial job, Run waits for ever, and SIGINT, which it has taken over, no longer ends the
  process (`ShutdownEnds` names the case). `Wait` for a resumed job never waits: the row has the ID without
  its timestamp.
- *Projects*: when `DeleteProjectFile` fails the project comes back at the next start, may be
  registered twice, the watcher is not restarted and the server's slice has been shifted;
  `findProject` (`coverage.go:116`) loads two snapshots that `updateSnapshots` stores one after
  the other, and can pair a project with another's directory or index past the end.
- *Watcher*: Stop sets `w.watcher` to nil while the loop and `handleEvent` use it; a timer that has fired when
  its successor is armed flushes early; nothing limits how long notifications put a flush off; what was pending at a restart is dropped; files in a new
  directory are missed until the directory itself is watched.
- *Graph*: the single-file job of a file that is gone removes its chunks, hash and symbols, and neither its graph entries nor its
  fingerprints. No rebuild or cleanup finds them afterwards, since both go by the paths that have a hash
  (`store.Paths()`): they stay, as far as they were saved also across restarts, until the file is back and indexed anew. A file that is gone and
  still has its hash loses them to the next cleanup or rebuild. Fingerprints lost
  in a crash are not repaired for files the loaded graph knows; edges are counted twice for a
  function that was split into chunks; `DeadCode` while a file is replaced reports what its
  callers, just removed, still call; projects are told apart by `strings.HasPrefix` in one place and by
  path elements in another, so `/a/x` covers `/a/xy` in the former.
- *RPC client*: `onclose` rejects all pending calls, also those sent on a newer socket, and forgets a
  newer `ws`.
- *Caches*: results are computed, then stored without looking whether they were invalidated meanwhile.
  `RebuildProject` drops the layouts of that project, never the view of all (`graph_layout.go:193`), and neither the
  initial index, the watcher's jobs, failing rebuilds nor operations on projects drop anything; layouts
  have no lifetime. The comments at `graph_layout.go:24` and `changes_cache.go:46` say otherwise. Errors are
  cached like results: a caller that cancels its request gives its error to all for 30 seconds.
- *Embeddings*: the answer's vectors are taken in the order in which they come; the `index` that
  names the input of each is parsed and not used (`embeddings/openai.go:121`). The progress counts all chunks in
  its total and only those embedded as done, so that it stays below 100 % after a retry.
- *Chunks*: text before the first heading of a markdown file is in no chunk; equal texts of one file share an
  ID; each piece of a split function calls `AddChunk` with all the calls of the function.
- *Search*: under a path it looks only at the `4k` documents most similar anywhere; `source=code` includes
  markdown; entries of the symbol index loaded from the table have lost project, signature and case, so
  that find_symbol with a project misses them.
- *Dead code*: the dashboard asks for the kind "both" (`rpc.ts:398`; the tool's description says it is the
  default), which matches no node; a function whose file is chunked anew between the two reads is listed
  though it is called.

## 7 What is not modelled

Not within TLC's reach or with nothing to interleave: floating point (embeddings, layout forces, the
similarity ranking; the scores of `Search` are integers, hundredths of the code's), tree-sitter grammars, glob
matching, HTTP and log formatting, rendering. The status ticker, the notifications and the dashboard's stores,
which each status overwrites, are left out, as are configuration, statistics, the stdio proxy and the tools'
decoding of arguments (`PROJECT.json` has the reasons, component by component). External code that the
models take from its use: DuckDB (a transaction happens or not; foreign keys hold), chromem's collection
(deletes and adds), fsnotify, flock, the browser's WebSocket and task queue.

What the models assume: files of one project do not have the same path as those of another; a content
determines its chunks (the chunker is a function); hashes do not collide; the clock does not go back;
one writer at a time for what `rebuildMu` guards, which the code's call sites establish.

In `EmbedBatches` the provider answers in the order of its input, or fails; in `ResultCaches` a request takes at most
`Slow`, less than the lifetime of an entry.

In `CodeGraph` a rebuild removes a file's chunks and hash together with its entries in the indexes (`Purge`). The code
(`deleteChunksByPrefix`, `cleanupDeletedFiles`) walks over `store.Paths()`, the files with a hash, removes the entries of
each, and deletes the chunks of all of them from the store at the end; since nothing compares the two while a job
runs, one action per file does both.

## 8 Plan

In this order; what is done is marked.

1. `JobQueue` with `SerialExecutor` and its proofs – *done*
2. `FileIndex` and its proofs, .gitignore files – *done*
3. `IndexLifecycle` and its proofs, the end of Run – *done*
4. `Projects` and its proofs, `Watcher` and its proofs – *done*
5. `DataDirLock`, `RpcClient` and its proofs – *done*
6. `CodeGraph` and its proofs – *done*
7. `Chunker`, `Search`, `GraphView` against their reference definitions, and the proofs – *done*
8. `ResultCaches` and its proofs – *done*
9. `EmbedBatches` and its proofs – *done*
10. `StatusFeed`: ticker, notifications to sockets that come and go, the dashboard's stores
11. Composition of `IndexLifecycle` with `FileIndex` for one project: the bit "stale" as a refinement
    mapping, so that the abstraction used there is checked and not only argued
12. `Selection`: which project a file belongs to when projects are nested or their names extend each other,
    for passes, single-file jobs, rebuilds and removals
