--------------------------- MODULE IndexLifecycle ---------------------------
(***************************************************************************)
(* The life of an indexing job from request to completion: the progress    *)
(* row (internal/progress), the initial index, the rebuilds, and the       *)
(* resumption of what the previous process left behind (internal/app); and *)
(* the life of the process around it, up to the end of Run.                *)
(*                                                                         *)
(* A project's index is abstracted to whether it lacks anything the disk   *)
(* holds; FileIndex has the detail.  The queue is that of JobQueue: one    *)
(* job at a time, in the order of submission.                              *)
(***************************************************************************)
EXTENDS Integers, Sequences

CONSTANTS
    Projects,       \* the configured projects
    Requests,       \* what clients may ask for: see Request
    Faults,         \* what may go wrong: see Fault
    MaxFaults,      \* bound on the faults, not in the code
    MaxEdits,       \* bound on the changes of the disk, not in the code
    MaxRequests     \* bound on the requests, not in the code

ASSUME FaultsAssumption == Faults \subseteq {"crash", "pass", "delete", "save", "watch", "serve", "signal"}
ASSUME MaxRequestsAssumption == MaxRequests \in Nat
ASSUME RequestsAssumption == Requests \subseteq {"project", "index"}

VARIABLES
    row,       \* table progress_state: job ID and status
    id,        \* Progress.jobID
    state,     \* Progress.state: job ID and status
    queue,     \* the jobs that are waiting
    job,       \* the job under way
    pc,        \* where it stands
    dirs,      \* the projects it has still to index
    dir,       \* the one it is indexing
    err,       \* initialIndex's firstErr # nil
    main,      \* where Run stands: its context is cancelled unless it is "serving"
    working,   \* is the worker in Queue.Start?
    run,       \* where the goroutine of Run stands that starts the watcher
    awaited,   \* the job ID it waits for
    stale,     \* projects whose index lacks something
    newer,     \* projects with a file modified after the row's updated_at
    late,      \* ghost: projects modified since their last walk, with no watcher running
    early,     \* ghost: was the status asked for before the initial job began?
    faults, edits, requests  \* ghosts: how many there were

vars == <<row, id, state, queue, job, pc, dirs, dir, err, main, working, run, awaited, stale, newer,
          late, early, faults, edits, requests>>
progress == <<row, id, state>>
worker == <<queue, job, pc, dirs, dir, err>>
world == <<stale, newer, late, early>>
bounds == <<faults, edits, requests>>
process == <<main, working, run, awaited>>

(* Job IDs.  Submit appends a timestamp to what SetJobID is given without. *)
NoId == [of |-> "none", name |-> "none", stamp |-> 0]
IndexId == [NoId EXCEPT !.of = "index"]
ProjectId(p) == [NoId EXCEPT !.of = "project", !.name = p]
Stamped(i, n) == [i EXCEPT !.stamp = n]
Ids == [of : {"none", "index", "project"}, name : Projects \cup {"none"}, stamp : 0..MaxRequests + 1]

Statuses == {"unset", "idle", "running", "error", "done"}
State(i, s) == [job |-> i, status |-> s]
NoRow == State(NoId, "absent")
Fresh == State(NoId, "unset")   \* the zero value of progress.State

\* A job: what it does, to which project, under which ID it is in the queue.
Job(kind, name, i) == [kind |-> kind, name |-> name, id |-> i]
NoJob == Job("none", "none", NoId)
InitialJob == Job("initial", "none", Stamped(IndexId, MaxRequests + 1))

Init ==
    /\ row = NoRow
    /\ id = NoId
    /\ state = Fresh
    /\ queue = <<InitialJob>>
    /\ job = NoJob
    /\ pc = "idle"
    /\ dirs = {}
    /\ dir = "none"
    /\ err = FALSE
    /\ main = "serving"
    /\ working = TRUE
    /\ run = "indexing"
    /\ awaited = NoId
    /\ stale = Projects
    /\ newer = {}
    /\ late = {}
    /\ early = FALSE
    /\ faults = 0 /\ edits = 0 /\ requests = 0

Fault(kind) == kind \in Faults /\ faults < MaxFaults /\ faults' = faults + 1

-----------------------------------------------------------------------------
(* internal/progress *)

\* What Load makes of Progress.jobID and of Progress.state.
LoadedId == IF row.job # NoId THEN row.job ELSE id
Loaded ==
    IF row = NoRow THEN State(NoId, "idle") ELSE State(LoadedId, row.status)
Load ==
    /\ id' = LoadedId
    /\ state' = Loaded

SetJobID_NotSaved(i) ==  \* mutant: only Start saves
    /\ id' = i
    /\ state' = [state EXCEPT !.job = i]
    /\ UNCHANGED <<row, newer>>

\* SetJobID saves whatever the status in memory is; the time of the last update
\* is that of the state in memory too, none at all before the first Load.
SetJobID(i) ==
    /\ id' = i
    /\ state' = [state EXCEPT !.job = i]
    /\ row' = state'
    /\ newer' = IF state.status = "unset" THEN Projects ELSE newer

\* Start, Done and Fail: a new status, saved with the current time.
Record(i, status) ==
    /\ state' = State(i, status)
    /\ row' = state'
    /\ newer' = {}
    /\ UNCHANGED id

\* get_index_status and the status ticker.
AskStatus ==
    /\ Load
    /\ early' = (early \/ \E i \in DOMAIN queue : queue[i] = InitialJob)
    /\ UNCHANGED <<row, worker, process, stale, newer, late, bounds>>

-----------------------------------------------------------------------------
(* Requests and the disk *)

\* StartRebuildProject, StartRebuildIndex.
Request(kind, p) ==
    /\ kind \in Requests
    /\ requests < MaxRequests
    /\ requests' = requests + 1
    /\ queue' = Append(queue,
                  IF kind = "project"
                  THEN Job("project", p, Stamped(ProjectId(p), requests'))
                  ELSE Job("index", "none", Stamped(IndexId, requests')))
    /\ UNCHANGED <<progress, job, pc, dirs, dir, err, process, world, faults, edits>>

\* A file of p is modified or added while nobody watches; with a watcher running
\* see FileIndex.
Edit(p) ==
    /\ run # "watching"
    /\ edits < MaxEdits
    /\ edits' = edits + 1
    /\ stale' = stale \cup {p}
    /\ newer' = newer \cup {p}
    /\ late' = late \cup {p}
    /\ UNCHANGED <<progress, worker, process, early, faults, requests>>

\* A new process: New and the beginning of Run.
Restart ==
    /\ id' = NoId
    /\ state' = Fresh
    /\ queue' = <<InitialJob>>
    /\ job' = NoJob
    /\ pc' = "idle"
    /\ dirs' = {}
    /\ dir' = "none"
    /\ err' = FALSE
    /\ main' = "serving"
    /\ working' = TRUE
    /\ run' = "indexing"
    /\ awaited' = NoId
    /\ early' = FALSE
    /\ UNCHANGED <<row, stale, newer, late, edits, requests>>

\* The process dies and is started again.
Crash == Fault("crash") /\ Restart

-----------------------------------------------------------------------------
(* The worker *)

\* The ID a job gives to SetJobID: without the timestamp, except for a resumed
\* one, which keeps the ID it was found under.
ProgressId(j) ==
    IF j.kind = "project" THEN ProjectId(j.name)
    ELSE IF j.kind = "resume" THEN j.id
    ELSE IndexId

\* A job begins, with SetJobID.
Begin ==
    /\ pc = "idle"
    /\ working
    /\ queue # <<>>
    /\ job' = Head(queue)
    /\ queue' = Tail(queue)
    /\ SetJobID(ProgressId(job'))
    /\ pc' = CASE job'.kind \in {"project", "index"} -> "delete"
               [] job'.kind = "initial" -> "decide"
               [] job'.kind = "resume" -> "walk"
    /\ dirs' = IF job'.kind = "resume" THEN Projects ELSE {}
    /\ UNCHANGED <<dir, err, process, stale, late, early, bounds>>

\* deleteChunksByPrefix.  When it fails halfway, Fail is called.
Delete ==
    /\ pc = "delete"
    /\ LET deleted == IF job.kind = "index" THEN Projects ELSE {job.name}
       IN  /\ stale' = stale \cup deleted
           /\ \/ /\ dirs' = IF job.kind = "index" THEN {} ELSE deleted
                 /\ pc' = IF job.kind = "index" THEN "decide" ELSE "walk"
                 /\ UNCHANGED <<progress, job, newer, faults>>
              \/ /\ Fault("delete")
                 /\ Record(state.job, "error")
                 /\ pc' = "idle"
                 /\ job' = NoJob
                 /\ UNCHANGED dirs
    /\ UNCHANGED <<queue, dir, err, process, late, early, edits, requests>>

\* isIndexUpToDate: the paths it looks at are gone after a deletion, and the
\* files on disk are older than the last update of the row.
UpToDate == newer = {}

IsLeft(status) == status \in {"running", "error"}

\* initialIndex up to cleanupDeletedFiles.  Its callers have called SetJobID, so
\* the branch for a row without ID is never taken, and resumeInterruptedJob never
\* sees the ID of a project (see OnlyIndexIsResumed).
InitialIndex ==
    /\ pc = "decide"
    /\ Load
    /\ \/ /\ IsLeft(Loaded.status)
          /\ queue' = Append(queue, Job("resume", "none", Loaded.job))
          /\ pc' = "return"
          /\ UNCHANGED dirs
       \/ /\ Loaded.status = "done" /\ UpToDate
          /\ pc' = "return"
          /\ UNCHANGED <<queue, dirs>>
       \/ /\ ~IsLeft(Loaded.status)
          /\ ~(Loaded.status = "done" /\ UpToDate)
          /\ dirs' = Projects
          /\ pc' = "walk"
          /\ UNCHANGED queue
    /\ UNCHANGED <<row, job, dir, err, process, world, bounds>>

\* indexDirectory up to the end of the walk.
StartPass(p) ==
    /\ pc = "walk"
    /\ p \in dirs
    /\ Record(id, "running")
    /\ dirs' = dirs \ {p}
    /\ dir' = p
    /\ late' = late \ {p}
    /\ pc' = "pass"
    /\ UNCHANGED <<queue, job, err, process, stale, early, bounds>>

NextDir_LastError(failed) ==  \* mutant: the last error is returned, not the first
    /\ dir' = "none"
    /\ err' = failed
    /\ pc' = IF dirs = {} THEN "return" ELSE "walk"

NextDir(failed) ==
    /\ dir' = "none"
    /\ err' = (err \/ failed)
    /\ pc' = IF dirs = {} THEN "return" ELSE "walk"

\* indexDirectory returns without error: Done, whatever other projects follow.
PassDone ==
    /\ pc = "pass"
    /\ Record(state.job, "done")
    /\ stale' = IF dir \in late THEN stale ELSE stale \ {dir}
    /\ NextDir(FALSE)
    /\ UNCHANGED <<queue, job, dirs, process, late, early, bounds>>

\* indexDirectoryWithRetry gives up: nothing is recorded.
PassFails ==
    /\ pc = "pass"
    /\ Fault("pass")
    /\ NextDir(TRUE)
    /\ UNCHANGED <<progress, queue, job, dirs, process, world, edits, requests>>

InitialDone_OnSuccess ==  \* mutant: an error is returned without being sent to indexDone
    /\ run' = IF err THEN run ELSE "indexed"
    /\ main' = main

\* The initial job sends its error, or nil, to the goroutine of Run, which gives up
\* and cancels the context on an error.
InitialDone ==
    /\ run' = IF err THEN "failed" ELSE "indexed"
    /\ main' = IF err /\ main = "serving" THEN "cancelled" ELSE main

\* The job returns.  RebuildIndex records the error of initialIndex with Fail,
\* RebuildProject that of saving the symbols only.
Return ==
    /\ pc = "return"
    /\ \/ /\ job.kind = "index" /\ err
          /\ Record(state.job, "error")
          /\ UNCHANGED faults
       \/ /\ job.kind = "project" /\ ~err
          /\ Fault("save")
          /\ Record(state.job, "error")
       \/ /\ job.kind = "index" => ~err
          /\ UNCHANGED <<progress, newer, faults>>
    /\ IF job.kind = "initial" THEN InitialDone ELSE UNCHANGED <<run, main>>
    /\ pc' = "idle"
    /\ job' = NoJob
    /\ err' = FALSE
    /\ UNCHANGED <<queue, dirs, dir, working, awaited, stale, late, early, edits, requests>>

-----------------------------------------------------------------------------
(* Run *)

AfterInitial ==
    /\ run = "indexed"
    /\ Load
    /\ awaited' = IF Loaded.job = IndexId THEN NoId ELSE Loaded.job
    /\ run' = "waiting"
    /\ UNCHANGED <<row, worker, main, working, world, bounds>>

\* Queue.Wait has returned, if it was called, and rebuildMu is free.
WatcherIsNext ==
    /\ run = "waiting"
    /\ \A i \in DOMAIN queue : awaited # NoId => queue[i].id # awaited
    /\ job = NoJob

StartWatcher ==
    /\ WatcherIsNext
    /\ run' = "watching"
    /\ awaited' = NoId
    /\ UNCHANGED <<progress, worker, main, working, world, bounds>>

StartWatcherFails ==
    /\ WatcherIsNext
    /\ Fault("watch")
    /\ run' = "failed"
    /\ main' = IF main = "serving" THEN "cancelled" ELSE main
    /\ UNCHANGED <<progress, worker, working, awaited, world, edits, requests>>

\* The context is cancelled: the goroutine that started the watcher stops it.
StopWatcher ==
    /\ run = "watching"
    /\ main # "serving"
    /\ run' = "over"
    /\ UNCHANGED <<progress, worker, main, working, awaited, world, bounds>>

\* The worker leaves Queue.Start; select may prefer this to the jobs that wait.
\* A job under way runs to its end, for it has a context without cancellation.
StopWorker ==
    /\ working /\ pc = "idle"
    /\ main # "serving"
    /\ working' = FALSE
    /\ UNCHANGED <<progress, worker, main, run, awaited, world, bounds>>

\* The web server ends with an error: its goroutine cancels the context, and Run
\* still waits for a signal.
ServeFails ==
    /\ Fault("serve")
    /\ main = "serving"
    /\ main' = "cancelled"
    /\ UNCHANGED <<progress, worker, working, run, awaited, world, edits, requests>>

\* SIGINT or SIGTERM: Run cancels the context and waits for its goroutines.
Signal ==
    /\ Fault("signal")
    /\ main # "stopping"
    /\ main' = "stopping"
    /\ UNCHANGED <<progress, worker, working, run, awaited, world, edits, requests>>

\* They have ended (the web server and the status ticker do at once): the process
\* ends with whatever job is under way.  Sooner or later there is another one.
Exit ==
    /\ main = "stopping"
    /\ run \in {"failed", "over"}
    /\ Restart
    /\ UNCHANGED faults

Next ==
    \/ AskStatus
    \/ \E kind \in {"project", "index"}, p \in Projects : Request(kind, p)
    \/ \E p \in Projects : Edit(p) \/ StartPass(p)
    \/ Crash
    \/ Begin \/ Delete \/ InitialIndex \/ PassDone \/ PassFails \/ Return
    \/ AfterInitial \/ StartWatcher \/ StartWatcherFails \/ StopWatcher \/ StopWorker
    \/ ServeFails \/ Signal \/ Exit

Spec == Init /\ [][Next]_vars

\* Jobs come to their end, goroutines run.  Which waiting job the worker takes, and
\* whether it hears of one that follows a failed job, is not promised (JobQueue); the
\* initial job is announced, but the worker may prefer to stop.
FairSpec ==
    /\ Spec
    /\ WF_vars((Begin /\ Head(queue) = InitialJob) \/ StopWorker)
    /\ WF_vars(Delete \/ InitialIndex \/ (\E p \in Projects : StartPass(p)) \/ PassDone \/ Return)
    /\ WF_vars(AfterInitial \/ StartWatcher \/ StopWatcher)
    /\ WF_vars(Exit)

-----------------------------------------------------------------------------
(* Properties *)

TypeOK ==
    /\ row \in [job : Ids, status : Statuses \cup {"absent"}]
    /\ id \in Ids
    /\ state \in [job : Ids, status : Statuses]
    /\ \A i \in DOMAIN queue : queue[i].kind \in {"initial", "project", "index", "resume"}
    /\ job.kind \in {"none", "initial", "project", "index", "resume"}
    /\ pc \in {"idle", "delete", "decide", "walk", "pass", "return"}
    /\ (pc = "idle") <=> (job = NoJob)
    /\ dirs \subseteq Projects
    /\ dir \in Projects \cup {"none"}
    /\ err \in BOOLEAN
    /\ main \in {"serving", "cancelled", "stopping"}
    /\ working \in BOOLEAN
    /\ run \in {"indexing", "failed", "indexed", "waiting", "watching", "over"}
    /\ awaited \in Ids
    /\ stale \subseteq Projects /\ newer \subseteq Projects /\ late \subseteq Projects

\* Whoever asks for the status while a job is under way, and that writes to
\* Progress (Load), the progress is still filed under that job, in memory and in
\* the database: SetJobID saves before anybody can load the previous ID again.
ProgressNamesJob ==
    job # NoJob => id = ProgressId(job) /\ row.job = id /\ state.job = id

\* A process that dies in the middle of a pass leaves a row that says so: the
\* next one can tell (Start saves before the walk).
PassIsRecorded == pc = "pass" => row.status = "running"

\* initialIndex finds no other job than an index job to resume.
OnlyIndexIsResumed ==
    \A i \in DOMAIN queue : queue[i].kind = "resume" => queue[i].id = IndexId

\* When the watcher runs and no job is left, every project was indexed, except
\* for the changes made after its walk: whatever the previous processes did not
\* finish is made up for, provided that nobody has asked for the status before
\* the initial job and for a rebuild since (Run, initialIndex).
WatchedIsIndexed ==
    run = "watching" /\ job = NoJob /\ queue = <<>> /\ ~early /\ requests = 0
        => stale \subseteq late

\* A process that is told to stop ends, wherever its initial index, its rebuilds and
\* its goroutines stand, with one exception: when the context is cancelled before the
\* worker has taken the initial job and the worker leaves, nothing is ever sent to
\* indexDone, and Run waits for a goroutine that waits for it (Run, Queue.Start).
ShutdownEnds ==
    main = "stopping" ~> main = "serving" \/ (~working /\ InitialJob \in {queue[i] : i \in DOMAIN queue})

\* Run waits for indexDone only while the initial job waits or is under way: the
\* part of ShutdownEnds that holds at every moment.
IndexDoneIsComing ==
    run = "indexing" => job = InitialJob \/ \E i \in DOMAIN queue : queue[i] = InitialJob

\* What "RebuildIndex removes the existing index and rebuilds everything" promises.
RebuildRebuilds ==
    pc = "return" /\ job.kind = "index" /\ ~err => stale \subseteq late

=============================================================================
