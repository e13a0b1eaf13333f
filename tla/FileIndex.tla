----------------------------- MODULE FileIndex -----------------------------
(***************************************************************************)
(* One project's index: the vector store and its file hashes               *)
(* (internal/store), the call graph and the symbol index, and the jobs of  *)
(* internal/app that keep them in step with the files on disk while those  *)
(* change, operations fail and the process is killed.                      *)
(*                                                                         *)
(* Every job runs under rebuildMu, so at most one is under way.  A file is *)
(* its content; the chunks of a content stand or fall together; the hash   *)
(* of a content is the content.  One action is one write that survives a   *)
(* crash, or one point where the disk is read.                             *)
(***************************************************************************)
EXTENDS Integers, FiniteSets

CONSTANTS
    Files,       \* the indexable paths of the project
    Contents,    \* what a file may hold
    Absent,      \* no such file, no such hash, no such entry
    Rules,       \* the sets of files that the .gitignore files may rule out
    BatchFiles,  \* embedBatchFiles
    MaxAttempts, \* maxIndexRetries
    Faults,      \* which operations may fail: see Fault
    MaxFaults,   \* bound on the faults, not in the code
    MaxEdits,    \* bound on the changes of the disk, not in the code
    MaxRequests  \* bound on the rebuilds and reindexings asked for, not in the code

ASSUME AbsentAssumption == Absent \notin Contents \cup Files
ASSUME RulesAssumption == Rules \subseteq SUBSET Files
ASSUME BatchAssumption == BatchFiles \in Nat \ {0}
ASSUME AttemptsAssumption == MaxAttempts \in Nat \ {0}
ASSUME FaultsAssumption ==
    Faults \subseteq {"crash", "walk", "embed", "add", "hashes", "delete", "save"}

VARIABLES
    disk,      \* the content of every file
    ignored,   \* the files that the .gitignore files rule out, as gitIgnoreCache has read them
    chunks,    \* the contents whose chunks the collection holds for a file
    hash,      \* Store.hashes
    dbHash,    \* table file_hashes
    graph,     \* the content the call graph was built from
    dbGraph,   \* tables graph_nodes and graph_edges
    sym,       \* the content the symbol index was built from
    dbSym,     \* table symbols
    pc,        \* where the job under way stands
    job,       \* what it is
    seen,      \* what it read from disk
    changed,   \* the files it has to store again
    todo,      \* those it has still to delete or to embed
    torn,      \* the file whose chunks are deleted and whose hash is not
    attempt,   \* the turn of indexDirectoryWithRetry
    failed,    \* did that give up?
    started,   \* has the initial job begun?
    watching,  \* is the watcher running?
    events,    \* files with a watcher job to come
    missed,    \* ghost: files with a change that no job is left to pick up
    had,       \* ghost: the kinds of faults there were
    faults, edits, requests  \* ghosts: how many there were

store == <<chunks, hash, dbHash>>
derived == <<graph, dbGraph, sym, dbSym>>
local == <<job, seen, changed, todo, torn, attempt, failed>>
outside == <<disk, ignored, started, watching, events, missed>>
bounds == <<had, faults, edits, requests>>
vars == <<disk, ignored, chunks, hash, dbHash, graph, dbGraph, sym, dbSym, pc, job, seen,
          changed, todo, torn, attempt, failed, started, watching, events, missed,
          had, faults, edits, requests>>

Entry == Contents \cup {Absent}
Nothing == [p \in Files |-> Absent]
On(f) == {p \in Files : f[p] # Absent}
Without(f, S) == [p \in Files |-> IF p \in S THEN Absent ELSE f[p]]
With(f, S, g) == [p \in Files |-> IF p \in S THEN g[p] ELSE f[p]]
ChunksOf(c) == {c} \ {Absent}

EndJob ==
    /\ job' = "none" /\ seen' = Nothing /\ changed' = {} /\ todo' = {}
    /\ torn' = Absent /\ attempt' = 0 /\ failed' = FALSE

Init ==
    /\ disk \in [Files -> Entry]
    /\ ignored \in Rules
    /\ chunks = [p \in Files |-> {}]
    /\ hash = Nothing /\ dbHash = Nothing
    /\ graph = Nothing /\ dbGraph = Nothing
    /\ sym = Nothing /\ dbSym = Nothing
    /\ pc = "idle"
    /\ job = "none" /\ seen = Nothing /\ changed = {} /\ todo = {}
    /\ torn = Absent /\ attempt = 0 /\ failed = FALSE
    /\ started = FALSE
    /\ watching = FALSE
    /\ events = {}
    /\ missed = On(disk)
    /\ had = {} /\ faults = 0 /\ edits = 0 /\ requests = 0

\* An operation of the given kind fails.
Fault(kind) ==
    /\ kind \in Faults
    /\ faults < MaxFaults
    /\ faults' = faults + 1
    /\ had' = had \cup {kind}

-----------------------------------------------------------------------------
(* The disk and the watcher *)

Notice_WhenIdle(p) ==  \* mutant: changes during a job are dropped
    /\ events' = IF watching /\ pc = "idle" THEN events \cup {p} ELSE events
    /\ missed' = IF watching THEN missed ELSE missed \cup {p}

\* The watcher notes a change, or nobody is there to see it.
Notice(p) ==
    IF watching
    THEN events' = events \cup {p} /\ UNCHANGED missed
    ELSE missed' = missed \cup {p} /\ UNCHANGED events

Edit(p) ==
    /\ edits < MaxEdits
    /\ edits' = edits + 1
    /\ \E c \in Entry \ {disk[p]} : disk' = [disk EXCEPT ![p] = c]
    /\ Notice(p)
    /\ UNCHANGED <<ignored, store, derived, pc, local, started, watching, had, faults, requests>>

\* Run starts the watcher when the initial job is over, under rebuildMu.
StartWatcher ==
    /\ pc = "idle"
    /\ started
    /\ ~watching
    /\ watching' = TRUE
    /\ UNCHANGED <<disk, ignored, store, derived, pc, local, started, events, missed, bounds>>

\* The process dies and starts again: what was in memory is read back from the
\* database, and what the watcher had noted is gone.  A cached .gitignore is never
\* read again by one process, but by the next, which may find it changed.
Crash ==
    /\ Fault("crash")
    /\ hash' = dbHash
    /\ graph' = dbGraph
    /\ sym' = dbSym
    /\ ignored' \in Rules
    /\ pc' = "idle"
    /\ EndJob
    /\ started' = FALSE
    /\ watching' = FALSE
    /\ events' = {}
    /\ missed' = Files
    /\ UNCHANGED <<disk, chunks, dbHash, dbGraph, dbSym, edits, requests>>

-----------------------------------------------------------------------------
(* Jobs begin *)

\* What is stored of a file is deleted whether or not it has a hash.
ToDelete_Hashed(S) == S \cap On(hash)  \* mutant: nothing to do without a hash
ToDelete(S) == S

\* RemoveByPath of both: the symbols are deleted from the database at once.
Forget(S) ==
    /\ sym' = Without(sym, S)
    /\ dbSym' = Without(dbSym, S)
    /\ graph' = Without(graph, S)
    /\ UNCHANGED dbGraph

\* initialIndex from cleanupDeletedFiles on.
BeginInitial ==
    /\ pc = "idle"
    /\ ~started
    /\ started' = TRUE
    /\ job' = "initial"
    /\ pc' = "purge"
    /\ todo' = On(hash) \ On(disk)
    /\ Forget(todo')
    /\ UNCHANGED <<disk, ignored, store, seen, changed, torn, attempt, failed, watching, events,
                   missed, bounds>>

\* RebuildProject: deleteChunksByPrefix goes by the paths that have a hash.
BeginRebuild ==
    /\ pc = "idle"
    /\ requests < MaxRequests
    /\ requests' = requests + 1
    /\ job' = "rebuild"
    /\ pc' = "purge"
    /\ todo' = On(hash)
    /\ Forget(todo')
    /\ UNCHANGED <<disk, ignored, store, seen, changed, torn, attempt, failed, started, watching,
                   events, missed, had, faults, edits>>

\* reindexFile up to os.Stat: a job of the watcher, or one path of ReindexFiles,
\* which looks for the file first.
BeginFile(p) ==
    /\ pc = "idle"
    /\ \/ /\ p \in events
          /\ events' = events \ {p}
          /\ UNCHANGED requests
       \/ /\ p \in On(disk)
          /\ requests < MaxRequests
          /\ requests' = requests + 1
          /\ UNCHANGED events
    /\ job' = "file"
    /\ pc' = "purge"
    /\ seen' = [Nothing EXCEPT ![p] = disk[p]]
    /\ changed' = {p}
    /\ todo' = ToDelete({p})
    /\ UNCHANGED <<disk, ignored, store, derived, torn, attempt, failed, started, watching, missed,
                   had, faults, edits>>

-----------------------------------------------------------------------------
(* Store.DeleteByPaths: the chunks of a file, then its hash, file by file *)

Deleting == pc \in {"purge", "stale"}

DeleteChunks(p) ==
    /\ Deleting
    /\ torn = Absent
    /\ p \in todo
    /\ chunks' = [chunks EXCEPT ![p] = {}]
    /\ torn' = p
    /\ UNCHANGED <<hash, dbHash, derived, pc, job, seen, changed, todo, attempt, failed,
                   outside, bounds>>

DeleteHash_InMemory ==  \* mutant: the map is forgotten
    /\ Deleting
    /\ torn # Absent
    /\ dbHash' = [dbHash EXCEPT ![torn] = Absent]
    /\ todo' = todo \ {torn}
    /\ torn' = Absent
    /\ UNCHANGED <<chunks, hash, derived, pc, job, seen, changed, attempt, failed, outside,
                   bounds>>

DeleteHash ==
    /\ Deleting
    /\ torn # Absent
    /\ hash' = [hash EXCEPT ![torn] = Absent]
    /\ dbHash' = [dbHash EXCEPT ![torn] = Absent]
    /\ todo' = todo \ {torn}
    /\ torn' = Absent
    /\ UNCHANGED <<chunks, derived, pc, job, seen, changed, attempt, failed, outside, bounds>>

\* The collection or the database refuses: the rest is not tried.  Only
\* RebuildProject looks at the error, and is over.
DeleteFails ==
    /\ Deleting
    /\ todo # {}
    /\ Fault("delete")
    /\ IF torn = Absent
       THEN /\ \E p \in todo : chunks' \in {chunks, [chunks EXCEPT ![p] = {}]}
            /\ UNCHANGED hash
       ELSE /\ hash' = [hash EXCEPT ![torn] = Absent]
            /\ UNCHANGED chunks
    /\ IF job = "rebuild" /\ pc = "purge"
       THEN pc' = "idle" /\ EndJob /\ missed' = Files
       ELSE /\ todo' = {}
            /\ torn' = Absent
            /\ UNCHANGED <<pc, job, seen, changed, attempt, failed, missed>>
    /\ UNCHANGED <<dbHash, derived, disk, ignored, started, watching, events, edits, requests>>

\* The deletion that began the job is over.
Purged ==
    /\ pc = "purge"
    /\ todo = {}
    /\ torn = Absent
    /\ pc' = IF job = "file" THEN "read" ELSE "walk"
    /\ UNCHANGED <<store, derived, local, outside, bounds>>

-----------------------------------------------------------------------------
(* indexDirectoryWithRetry and indexDirectory *)

\* The job is left undone: what it deleted waits for the next walk.
GiveUp ==
    /\ missed' = IF job = "file" THEN missed \cup changed ELSE Files
    /\ IF job = "initial"
       THEN /\ pc' = "saveSym"
            /\ todo' = {}
            /\ failed' = TRUE
            /\ UNCHANGED <<job, seen, changed, torn, attempt>>
       ELSE pc' = "idle" /\ EndJob

\* What follows an error of indexDirectory, or of reindexFile, which is not retried.
Retry ==
    IF job # "file" /\ attempt + 1 < MaxAttempts
    THEN /\ attempt' = attempt + 1
         /\ pc' = "walk"
         /\ todo' = {}
         /\ UNCHANGED <<job, seen, changed, torn, failed, missed>>
    ELSE GiveUp

\* A file is unchanged when the stored hash is that of its content.
IsChanged_Known(p) == hash[p] = Absent  \* mutant: any hash will do
IsChanged(p) == hash[p] # disk[p]

\* Indexer.Index passes over ignored files, which the jobs of single files do not.
Indexed == Without(disk, ignored)

\* Indexer.Index, and the comparisons of chunkFilesParallel.
Walk ==
    /\ pc = "walk"
    /\ seen' = Indexed
    /\ changed' = {p \in On(Indexed) : IsChanged(p)}
    /\ todo' = ToDelete(changed')
    /\ pc' = "stale"
    /\ missed' = {p \in missed \ On(Indexed) : chunks[p] # {}}
    /\ UNCHANGED <<disk, ignored, store, derived, job, torn, attempt, failed, started, watching,
                   events, bounds>>

WalkFails ==
    /\ pc = "walk"
    /\ Fault("walk")
    /\ Retry
    /\ UNCHANGED <<disk, ignored, store, derived, started, watching, events, edits, requests>>

\* A file that is listed is gone when it is read: Index returns fs.ErrNotExist,
\* which is taken for a missing project directory and not retried.
FileVanishes(p) ==
    /\ pc = "walk"
    /\ p \in On(Indexed)
    /\ edits < MaxEdits
    /\ edits' = edits + 1
    /\ disk' = [disk EXCEPT ![p] = Absent]
    /\ events' = IF watching THEN events \cup {p} ELSE events
    /\ GiveUp
    /\ UNCHANGED <<ignored, store, derived, started, watching, had, faults, requests>>

\* Files that are unchanged but missing from the call graph.
GraphOnly == {p \in On(seen) \ changed : graph[p] = Absent}

\* The end of chunkFilesParallel: the symbols and the call graph of changed and
\* of graphOnly.  A pass that has nothing to embed is over.
Rebuilt ==
    /\ pc = "stale"
    /\ todo = {}
    /\ torn = Absent
    /\ LET redone == changed \cup GraphOnly
       IN  /\ sym' = With(sym, redone, seen)
           /\ dbSym' = Without(dbSym, redone)
           /\ graph' = With(graph, redone, seen)
    /\ todo' = changed
    /\ pc' = IF changed = {} THEN "saveSym" ELSE "embed"
    /\ UNCHANGED <<store, dbGraph, job, seen, changed, torn, attempt, failed, outside, bounds>>

\* reindexFileUnder from RemoveByPath to the symbols and the call graph.
ReadFile(p) ==
    /\ pc = "read"
    /\ changed = {p}
    /\ dbSym' = Without(dbSym, {p})
    /\ UNCHANGED <<disk, ignored, store, dbGraph, started, watching, events, bounds>>
    /\ \/ /\ seen[p] = Absent             \* os.Stat found nothing
          /\ sym' = Without(sym, {p})
          /\ pc' = "saveSym"
          /\ UNCHANGED <<graph, local, missed>>
       \/ /\ seen[p] # Absent
          /\ disk[p] = Absent             \* os.ReadFile finds nothing
          /\ sym' = Without(sym, {p})
          /\ graph' = Without(graph, {p})
          /\ pc' = "idle"
          /\ EndJob
          /\ UNCHANGED missed
       \/ /\ seen[p] # Absent
          /\ disk[p] # Absent
          /\ seen' = [seen EXCEPT ![p] = disk[p]]
          /\ sym' = With(sym, {p}, disk)
          /\ graph' = With(graph, {p}, disk)
          /\ todo' = {p}
          /\ pc' = "embed"
          /\ UNCHANGED <<job, changed, torn, attempt, failed, missed>>

-----------------------------------------------------------------------------
(* Embedding, and Store.AddChunks *)

\* The next files of changed, in whatever order the goroutines appended them.
Batches ==
    {b \in SUBSET todo : Cardinality(b) = IF Cardinality(todo) < BatchFiles
                                          THEN Cardinality(todo) ELSE BatchFiles}

\* reindexFileUnder builds a FileInfo without Hash.
HashOf(p) == IF job = "file" THEN Absent ELSE seen[p]

\* The in-memory hashes of a batch are set before the collection is asked.
Claimed(b) == [p \in Files |-> IF p \in b /\ HashOf(p) # Absent THEN HashOf(p) ELSE hash[p]]

Stored(b) == [p \in Files |-> IF p \in b THEN chunks[p] \cup ChunksOf(seen[p]) ELSE chunks[p]]

EmbedFails ==
    /\ pc = "embed"
    /\ Fault("embed")
    /\ Retry
    /\ UNCHANGED <<disk, ignored, store, derived, started, watching, events, edits, requests>>

\* A batch is embedded and added to the collection.
AddChunks ==
    /\ pc = "embed"
    /\ \E b \in Batches :
        /\ hash' = Claimed(b)
        /\ chunks' = Stored(b)
        /\ todo' = todo \ b
    /\ pc' = "hashes"
    /\ UNCHANGED <<dbHash, derived, job, seen, changed, torn, attempt, failed, outside, bounds>>

\* Some of the batch may be in the collection when it reports an error.
AddFails ==
    /\ pc = "embed"
    /\ Fault("add")
    /\ \E b \in Batches :
        /\ hash' = Claimed(b)
        /\ \E some \in SUBSET b : chunks' = Stored(some)
    /\ Retry
    /\ UNCHANGED <<dbHash, derived, disk, ignored, started, watching, events, edits, requests>>

\* saveHashes.  What is in changed and not in todo has been added; the hashes
\* of earlier batches are written again with the same value.
SaveHashes ==
    /\ pc = "hashes"
    /\ dbHash' = [p \in Files |-> IF p \in changed \ todo /\ HashOf(p) # Absent
                                  THEN HashOf(p) ELSE dbHash[p]]
    /\ pc' = IF todo = {} THEN "saveSym" ELSE "embed"
    /\ UNCHANGED <<chunks, hash, derived, local, outside, bounds>>

SaveHashesFails ==
    /\ pc = "hashes"
    /\ Fault("hashes")
    /\ Retry
    /\ UNCHANGED <<disk, ignored, store, derived, started, watching, events, edits, requests>>

-----------------------------------------------------------------------------
(* The end of a job *)

SaveSymbols ==
    /\ pc = "saveSym"
    /\ dbSym' = sym
    /\ pc' = "saveGraph"
    /\ UNCHANGED <<store, graph, dbGraph, sym, local, outside, bounds>>

\* Only initialIndex goes on.
SaveSymbolsFails ==
    /\ pc = "saveSym"
    /\ Fault("save")
    /\ IF job = "initial"
       THEN pc' = "saveGraph" /\ UNCHANGED local
       ELSE pc' = "idle" /\ EndJob
    /\ UNCHANGED <<store, derived, outside, edits, requests>>

\* saveCallGraph only logs an error.  Run gives up when the initial job failed:
\* it cancels the context of the queue and of the watcher.
SaveGraph ==
    /\ pc = "saveGraph"
    /\ dbGraph' \in {graph, dbGraph}
    /\ pc' = IF failed THEN "halted" ELSE "idle"
    /\ EndJob
    /\ UNCHANGED <<store, graph, sym, dbSym, outside, bounds>>

JobStep ==
    \/ BeginInitial
    \/ \E p \in Files : DeleteChunks(p) \/ ReadFile(p)
    \/ DeleteHash \/ DeleteFails \/ Purged
    \/ Walk \/ WalkFails \/ Rebuilt
    \/ EmbedFails \/ AddChunks \/ AddFails \/ SaveHashes \/ SaveHashesFails
    \/ SaveSymbols \/ SaveSymbolsFails \/ SaveGraph

Next ==
    \/ JobStep
    \/ BeginRebuild
    \/ StartWatcher
    \/ Crash
    \/ \E p \in Files : Edit(p) \/ BeginFile(p) \/ FileVanishes(p)

Spec == Init /\ [][Next]_vars

-----------------------------------------------------------------------------
(* Properties *)

TypeOK ==
    /\ disk \in [Files -> Entry] /\ ignored \in Rules
    /\ chunks \in [Files -> SUBSET Contents]
    /\ hash \in [Files -> Entry] /\ dbHash \in [Files -> Entry]
    /\ graph \in [Files -> Entry] /\ dbGraph \in [Files -> Entry]
    /\ sym \in [Files -> Entry] /\ dbSym \in [Files -> Entry]
    /\ pc \in {"idle", "purge", "walk", "stale", "read", "embed", "hashes", "saveSym",
               "saveGraph", "halted"}
    /\ job \in {"none", "initial", "rebuild", "file"}
    /\ seen \in [Files -> Entry]
    /\ changed \subseteq Files /\ todo \subseteq Files
    /\ torn \in Files \cup {Absent}
    /\ attempt \in 0..(MaxAttempts - 1)
    /\ failed \in BOOLEAN /\ started \in BOOLEAN /\ watching \in BOOLEAN
    /\ events \subseteq Files /\ missed \subseteq Files
    /\ had \subseteq Faults /\ faults \in Nat /\ edits \in Nat /\ requests \in Nat

NoneOf(kinds) == had \cap kinds = {}

\* A hash vouches for chunks that are there, whatever retries, rebuilds, edits
\* and failed embeddings come between, so that a job that fails is made up for by
\* the next: only a crash, or an error of the collection, can part the two
\* (DeleteByPaths and AddChunks write chunks and hash one after the other).
HashHasChunks ==
    NoneOf({"crash", "add", "delete"}) =>
        /\ \A p \in Files \ {torn} : hash[p] # Absent => hash[p] \in chunks[p]
        /\ \A p \in Files : dbHash[p] \in {hash[p], Absent}

\* A search never returns an old and a new content of one file together: what
\* was stored of a file is deleted before it is stored again, also after a crash
\* between the chunks and their hash.  Only a failed deletion, which the callers
\* log or ignore, can leave two (chunkFilesParallel, reindexFileUnder).
SingleVersion == NoneOf({"delete"}) => \A p \in Files : Cardinality(chunks[p]) <= 1

Pass == job \in {"initial", "rebuild"}
PassSucceeded == Pass /\ ~failed /\ pc = "saveSym"

\* When indexDirectoryWithRetry returns no error, every file that the last walk
\* read is stored with what was read, those it skipped included.
PassIndexesWhatItSaw ==
    PassSucceeded /\ NoneOf({"crash", "add", "delete"}) =>
        \A p \in On(seen) : chunks[p] = ChunksOf(seen[p])

\* And its symbols are those of what was read.
PassKeepsSymbols ==
    PassSucceeded /\ NoneOf({"crash", "delete"}) => \A p \in On(seen) : sym[p] = seen[p]

\* And the hash it keeps is that of what was read: the next pass over the same
\* disk has nothing to do, whichever operations failed and were retried.
PassHashesWhatItSaw == PassSucceeded => \A p \in On(seen) : hash[p] = seen[p]

\* It leaves no file out of the call graph: a graph that was never saved is
\* filled from unchanged files too (graphOnly in chunkFilesParallel).
PassCoversGraph == PassSucceeded => \A p \in On(seen) : graph[p] # Absent

\* A pass that succeeds leaves of every file that its last walk read the chunks,
\* symbols, hash and graph of what it read, also of those that it skipped,
\* whichever attempts failed before: a fault is exempted only where it parts two
\* of these for good.
PassStoresWhatItSaw ==
    PassIndexesWhatItSaw /\ PassKeepsSymbols /\ PassHashesWhatItSaw /\ PassCoversGraph

\* What the store should hold of a file: what is on disk.  A pass leaves an ignored
\* file out, and the watcher's job, once the file is written, puts it in.
Fresh(p) == chunks[p] = ChunksOf(disk[p]) \/ (p \in ignored /\ chunks[p] = {})

\* Between jobs the store agrees with the disk on every file that has no watcher
\* job to come, except for changes that were made while there was no watcher, or
\* whose job gave up: an edit during a job is never lost, wherever it falls, and
\* no stale chunks stay of a file that passes ignore and single-file jobs index.
WatchedIsFresh ==
    pc = "idle" /\ NoneOf({"crash", "add", "delete"}) =>
        \A p \in Files \ (events \cup missed) : Fresh(p)

\* CheckCoverage: what it says of a file, from its hash alone.
Coverage(p) ==
    IF disk[p] = Absent THEN IF hash[p] = Absent THEN "not_indexed" ELSE "deleted"
    ELSE IF hash[p] = Absent THEN "not_indexed"
    ELSE IF hash[p] # disk[p] THEN "stale"
    ELSE "indexed"

\* What "CheckCoverage checks whether each path is indexed and up to date"
\* promises: a file that is reported as indexed can be found.  It does not hold:
\* a failed addition leaves its hash in memory, and the retry skips the file.
CoveredIsIndexed ==
    pc = "idle" => \A p \in Files : Coverage(p) = "indexed" => disk[p] \in chunks[p]

=============================================================================
