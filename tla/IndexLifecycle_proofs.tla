----------------------- MODULE IndexLifecycle_proofs -----------------------
(***************************************************************************)
(* What IndexLifecycle promises for any projects and any number of         *)
(* crashes, edits and requests: that the progress row names the job under  *)
(* way and says when a pass is, that only index jobs are resumed, that Run *)
(* waits for a job that is still to come, and that whoever watches has an  *)
(* index of everything.                                                    *)
(***************************************************************************)
EXTENDS IndexLifecycle, SequenceTheorems, TLAPS

-----------------------------------------------------------------------------
(* Types *)

Kinds == {"initial", "project", "index", "resume"}
Jobs ==
    {j \in [kind : Kinds, name : Projects \cup {"none"}, id : Ids] :
        j.kind = "project" => j.name \in Projects}

\* TypeOK, with the types of jobs, and what the type of the row leaves open.
Types ==
    /\ TypeOK
    /\ queue \in Seq(Jobs)
    /\ job \in Jobs \cup {NoJob}
    /\ row.status = "absent" => row = NoRow
    /\ pc = "delete" => job.kind \in {"project", "index"}
    /\ pc = "decide" => job.kind \in {"initial", "index"}
    /\ requests \in 0..MaxRequests

LEMMA IdTypes ==
    /\ NoId \in Ids /\ IndexId \in Ids
    /\ \A p \in Projects \cup {"none"} : ProjectId(p) \in Ids /\ ProjectId(p) # NoId
    /\ \A i \in Ids, n \in 0..MaxRequests + 1 : Stamped(i, n) \in Ids
    /\ IndexId # NoId
<1>1. 0 \in 0..MaxRequests + 1
  BY MaxRequestsAssumption
<1>2. NoId \in Ids
  BY <1>1 DEF NoId, Ids
<1>3. IndexId = [of |-> "index", name |-> "none", stamp |-> 0]
  BY DEF NoId, IndexId
<1>5. IndexId \in Ids /\ IndexId # NoId
  BY <1>1, <1>3 DEF Ids, NoId
<1>6. ASSUME NEW p \in Projects \cup {"none"} PROVE ProjectId(p) \in Ids /\ ProjectId(p) # NoId
  <2>1. ProjectId(p) \in Ids
    BY <1>2 DEF ProjectId, Ids
  <2>2. ProjectId(p).of = "project" /\ NoId.of = "none"
    BY DEF ProjectId, NoId
  <2> QED
    BY <2>1, <2>2
<1>7. \A i \in Ids, n \in 0..MaxRequests + 1 : Stamped(i, n) \in Ids
  BY DEF Stamped, Ids
<1> QED
  BY <1>2, <1>5, <1>6, <1>7

LEMMA InitialJobType == InitialJob \in Jobs
<1>1. Stamped(IndexId, MaxRequests + 1) \in Ids
  BY MaxRequestsAssumption, IdTypes
<1> QED
  BY <1>1 DEF InitialJob, Job, Jobs, Kinds

LEMMA NoJobType == NoJob.kind = "none" /\ NoJob \notin Jobs
  BY DEF NoJob, Job, Jobs, Kinds

LEMMA ProgressIdType == \A j \in Jobs : ProgressId(j) \in Ids
  BY IdTypes DEF ProgressId, Jobs

\* What Load, SetJobID and Record make of the progress.
LEMMA LoadedType ==
    ASSUME Types
    PROVE  LoadedId \in Ids /\ Loaded \in [job : Ids, status : Statuses]
<1>1. LoadedId \in Ids
  BY DEF Types, TypeOK, LoadedId
<1>2. row # NoRow => row.status \in Statuses
  BY DEF Types, TypeOK
<1> QED
  BY <1>1, <1>2, IdTypes DEF Loaded, State, Statuses

LEMMA SetJobIDType ==
    ASSUME Types, NEW i \in Ids, SetJobID(i)
    PROVE  /\ id' = i /\ state' = State(i, state.status) /\ row' = state'
           /\ state' \in [job : Ids, status : Statuses]
           /\ newer' \subseteq Projects
  BY DEF SetJobID, Types, TypeOK, State

LEMMA RecordType ==
    ASSUME NEW i \in Ids, NEW status \in Statuses, Record(i, status)
    PROVE  /\ id' = id /\ state' = State(i, status) /\ row' = state'
           /\ state' \in [job : Ids, status : Statuses]
           /\ newer' = {}
  BY DEF Record, State

\* The steps of Run and of the worker's loop, which touch no job and no progress.
ProcessStep ==
    \/ StartWatcher \/ StartWatcherFails \/ StopWatcher
    \/ StopWorker \/ ServeFails \/ Signal

LEMMA ProcessStepEffect ==
    ASSUME Types, ProcessStep
    PROVE  /\ UNCHANGED <<row, id, state, queue, job, pc, dirs, dir, err>>
           /\ UNCHANGED <<stale, newer, late, early, edits, requests>>
           /\ main' \in {"serving", "cancelled", "stopping"} /\ working' \in BOOLEAN
           /\ run' \in {run, "failed", "watching", "over"} /\ awaited' \in {awaited, NoId}
           /\ run # "waiting" => run' \in {run, "over"} /\ (run' = "over" => run \in {"watching", "over"})
  BY DEF ProcessStep, StartWatcher, StartWatcherFails, StopWatcher, StopWorker, ServeFails, Signal,
         WatcherIsNext, progress, worker, world, bounds, Types, TypeOK

\* Every reachable state has the types of the Go declarations, and a job is under
\* way exactly when the worker is not idle.
LEMMA TypesInductive == Spec => []Types
<1>1. Init => Types
  <2> SUFFICES ASSUME Init PROVE Types
    OBVIOUS
  <2>1. queue \in Seq(Jobs) /\ \A i \in DOMAIN queue : queue[i] = InitialJob
    BY InitialJobType DEF Init
  <2>2. requests \in 0..MaxRequests
    BY MaxRequestsAssumption DEF Init
  <2>3. row \in [job : Ids, status : Statuses \cup {"absent"}]
    BY IdTypes DEF Init, NoRow, State
  <2>4. state \in [job : Ids, status : Statuses]
    BY IdTypes DEF Init, Fresh, State, Statuses
  <2>5. InitialJob.kind = "initial"
    BY DEF InitialJob, Job
  <2>6. row = NoRow /\ id \in Ids /\ awaited \in Ids
    BY IdTypes DEF Init
  <2>7. TypeOK
    BY <2>1, <2>3, <2>4, <2>5, <2>6, NoJobType DEF Init, TypeOK
  <2> QED
    BY <2>1, <2>2, <2>6, <2>7 DEF Init, Types
<1>2. Types /\ [Next]_vars => Types'
  <2> SUFFICES ASSUME Types, [Next]_vars PROVE Types'
    OBVIOUS
  <2> USE DEF progress, worker, world, bounds, process
  <2>0. /\ queue \in Seq(Jobs) /\ row \in [job : Ids, status : Statuses \cup {"absent"}]
        /\ id \in Ids /\ state \in [job : Ids, status : Statuses]
        /\ requests \in 0..MaxRequests /\ MaxRequests \in Nat
    BY MaxRequestsAssumption DEF Types, TypeOK
  <2>1. CASE AskStatus
    BY <2>1, LoadedType DEF AskStatus, Load, Types, TypeOK
  <2>2. ASSUME NEW kind \in {"project", "index"}, NEW p \in Projects, Request(kind, p)
        PROVE  Types'
    <3>a. requests < MaxRequests /\ requests' = requests + 1
      BY <2>2 DEF Request
    <3>1. requests' \in 0..MaxRequests /\ requests' \in 0..MaxRequests + 1
      BY <2>0, <3>a
    <3>2. PICK j : j \in Jobs /\ queue' = Append(queue, j)
      <4>1. Stamped(ProjectId(p), requests') \in Ids /\ Stamped(IndexId, requests') \in Ids
        BY <3>1, IdTypes
      <4> QED
        BY <2>2, <4>1 DEF Request, Job, Jobs, Kinds
    <3>3. queue' \in Seq(Jobs) /\ \A i \in DOMAIN queue' : queue'[i] \in Jobs
      BY <2>0, <3>2
    <3> QED
      BY <2>2, <3>1, <3>3 DEF Request, Types, TypeOK, Jobs, Kinds
  <2>3. ASSUME NEW p \in Projects, Edit(p) PROVE Types'
    BY <2>3 DEF Edit, Types, TypeOK
  <2>4. ASSUME NEW p \in Projects, StartPass(p) PROVE Types'
    <3>1. Record(id, "running") /\ "running" \in Statuses
      BY <2>4 DEF StartPass, Statuses
    <3>2. /\ id' = id /\ row' = state' /\ newer' = {}
          /\ state' \in [job : Ids, status : Statuses]
      BY <2>0, <3>1, RecordType
    <3> QED
      BY <2>4, <3>2 DEF StartPass, Types, TypeOK, Statuses
  <2>5. CASE Crash \/ Exit
    <3>0. Restart
      BY <2>5 DEF Crash, Exit
    <3>1. queue' \in Seq(Jobs) /\ \A i \in DOMAIN queue' : queue'[i] = InitialJob
      BY <3>0, InitialJobType DEF Restart
    <3>2. state' \in [job : Ids, status : Statuses]
      BY <3>0, IdTypes DEF Restart, Fresh, State, Statuses
    <3>3. InitialJob.kind = "initial"
      BY DEF InitialJob, Job
    <3>4. TypeOK'
      BY <3>0, <3>1, <3>2, <3>3, IdTypes, NoJobType DEF Restart, Types, TypeOK
    <3> QED
      BY <3>0, <3>1, <3>4 DEF Restart, Types
  <2>6. CASE Begin
    <3>1. job' \in Jobs /\ queue' \in Seq(Jobs) /\ \A i \in DOMAIN queue' : queue'[i] \in Jobs
      BY <2>0, <2>6 DEF Begin
    <3>2. SetJobID(ProgressId(job')) /\ ProgressId(job') \in Ids
      BY <2>6, <3>1, ProgressIdType DEF Begin
    <3>3. /\ id' \in Ids /\ row' = state' /\ newer' \subseteq Projects
          /\ state' \in [job : Ids, status : Statuses]
      BY <3>2, SetJobIDType
    <3>4. job'.kind \in Kinds /\ job' # NoJob
      BY <3>1 DEF Jobs, Kinds, NoJob, Job
    <3>5. /\ pc' \in {"delete", "decide", "walk"}
          /\ pc' = "delete" => job'.kind \in {"project", "index"}
          /\ pc' = "decide" => job'.kind \in {"initial", "index"}
      BY <2>6, <3>4 DEF Begin, Kinds
    <3>6. dirs' \subseteq Projects
      BY <2>6 DEF Begin
    <3>7. UNCHANGED <<dir, err, main, working, run, awaited, stale, late, requests>>
      BY <2>6 DEF Begin
    <3> QED
      BY <3>1, <3>3, <3>4, <3>5, <3>6, <3>7 DEF Types, TypeOK, Jobs, Kinds, Statuses
  <2>7. CASE Delete
    <3>1. job \in Jobs /\ (job.kind # "index" => job.name \in Projects)
      <4>1. pc = "delete" /\ job \in Jobs
        BY <2>7, NoJobType DEF Delete, Types
      <4> QED
        BY <4>1 DEF Types, Jobs
    <3> DEFINE deleted == IF job.kind = "index" THEN Projects ELSE {job.name}
    <3>2. /\ deleted \subseteq Projects /\ stale' = stale \cup deleted
          /\ UNCHANGED <<queue, dir, err, main, working, run, awaited, late, requests>>
      BY <2>7, <3>1 DEF Delete
    <3>3. CASE /\ dirs' = IF job.kind = "index" THEN {} ELSE deleted
               /\ pc' = IF job.kind = "index" THEN "decide" ELSE "walk"
               /\ UNCHANGED <<progress, job, newer, faults>>
      BY <2>7, <3>2, <3>3 DEF Delete, Types, TypeOK
    <3>4. CASE Record(state.job, "error") /\ pc' = "idle" /\ job' = NoJob /\ UNCHANGED dirs
      <4>1. /\ id' = id /\ row' = state' /\ newer' = {}
            /\ state' \in [job : Ids, status : Statuses]
        BY <2>0, <3>4, RecordType DEF Statuses
      <4> QED
        BY <3>2, <3>4, <4>1 DEF Types, TypeOK, NoJob, Job, Statuses
    <3> QED
      BY <2>7, <3>3, <3>4 DEF Delete
  <2>8. CASE InitialIndex
    <3>1. id' \in Ids /\ state' \in [job : Ids, status : Statuses]
      BY <2>8, LoadedType DEF InitialIndex, Load
    <3>2. queue' \in Seq(Jobs) /\ \A i \in DOMAIN queue' : queue'[i] \in Jobs
      <4>1. Job("resume", "none", Loaded.job) \in Jobs
        BY LoadedType DEF Job, Jobs, Kinds
      <4>2. queue' = queue \/ queue' = Append(queue, Job("resume", "none", Loaded.job))
        BY <2>8 DEF InitialIndex
      <4> QED
        BY <2>0, <4>1, <4>2
    <3>3. pc' \in {"return", "walk"} /\ pc = "decide" /\ dirs' \in {dirs, Projects}
      BY <2>8 DEF InitialIndex
    <3>4. UNCHANGED <<row, job, dir, err, main, working, run, awaited, stale, newer, late, requests>>
      BY <2>8 DEF InitialIndex
    <3> QED
      BY <3>1, <3>2, <3>3, <3>4 DEF Types, TypeOK, Jobs, Kinds
  <2>9. CASE PassDone
    <3>1. /\ id' = id /\ row' = state' /\ newer' = {}
          /\ state' \in [job : Ids, status : Statuses]
      BY <2>0, <2>9, RecordType DEF PassDone, Statuses
    <3>2. dir' = "none" /\ err' \in BOOLEAN /\ pc' \in {"return", "walk"} /\ pc = "pass"
      BY <2>9 DEF PassDone, NextDir, Types, TypeOK
    <3>3. stale' \subseteq Projects /\ UNCHANGED <<queue, job, dirs, main, working, run, awaited, late, requests>>
      BY <2>9 DEF PassDone, Types, TypeOK
    <3> QED
      BY <3>1, <3>2, <3>3 DEF Types, TypeOK, Statuses
  <2>10. CASE PassFails
    BY <2>10 DEF PassFails, NextDir, Types, TypeOK
  <2>11. CASE Return
    <3>1. \/ Record(state.job, "error")
          \/ UNCHANGED <<progress, newer>>
      BY <2>11 DEF Return
    <3>2. /\ id' \in Ids /\ newer' \subseteq Projects
          /\ state' \in [job : Ids, status : Statuses]
          /\ row' \in [job : Ids, status : Statuses \cup {"absent"}]
          /\ row'.status = "absent" => row' = NoRow
      <4>1. CASE Record(state.job, "error")
        BY <2>0, <4>1, RecordType DEF Statuses
      <4>2. CASE UNCHANGED <<progress, newer>>
        BY <4>2 DEF Types, TypeOK
      <4> QED
        BY <3>1, <4>1, <4>2
    <3>3. /\ run' \in {run, "failed", "indexed"} /\ main' \in {main, "cancelled"}
          /\ pc' = "idle" /\ job' = NoJob /\ err' = FALSE
      BY <2>11 DEF Return, InitialDone
    <3>4. UNCHANGED <<queue, dirs, dir, working, awaited, stale, late, requests>>
      BY <2>11 DEF Return
    <3> QED
      BY <3>2, <3>3, <3>4 DEF Types, TypeOK, NoJob, Job
  <2>12. CASE AfterInitial
    BY <2>12, LoadedType, IdTypes DEF AfterInitial, Load, Types, TypeOK
  <2>13. CASE ProcessStep
    BY <2>13, ProcessStepEffect, IdTypes DEF Types, TypeOK
  <2>14. CASE UNCHANGED vars
    BY <2>14 DEF vars, Types, TypeOK
  <2> QED
    BY <2>1, <2>2, <2>3, <2>4, <2>5, <2>6, <2>7, <2>8, <2>9, <2>10, <2>11, <2>12, <2>13, <2>14
       DEF Next, ProcessStep
<1> QED
  BY <1>1, <1>2, PTL DEF Spec

THEOREM TypeCorrect == Spec => []TypeOK
<1>1. Types => TypeOK
  BY DEF Types
<1> QED
  BY <1>1, TypesInductive, PTL

-----------------------------------------------------------------------------
(* The progress row *)

\* The job under way is filed in memory and in the database, and a job that is
\* resumed has the ID of an index job.
Filed ==
    /\ ProgressNamesJob
    /\ OnlyIndexIsResumed
    /\ job.kind = "resume" => job.id = IndexId

LEMMA ProgressIdIsSome == \A j \in Jobs : (j.kind = "resume" => j.id = IndexId) => ProgressId(j) # NoId
  BY IdTypes DEF ProgressId, Jobs, Kinds

\* What Load reads while a job is under way is what that job has written.
LEMMA LoadWhileFiled ==
    ASSUME Types, Filed, job # NoJob, Load
    PROVE  id' = id /\ state'.job = id /\ Loaded.job = id
<1>1. job \in Jobs
  BY DEF Types
<1>2. row.job = id /\ id # NoId
  BY <1>1, ProgressIdIsSome DEF Filed, ProgressNamesJob
<1>3. row # NoRow
  BY <1>2 DEF NoRow, State
<1> QED
  BY <1>2, <1>3 DEF Load, Loaded, LoadedId, State

LEMMA FiledInductive == Spec => []Filed
<1>1. Init => Filed
  <2> SUFFICES ASSUME Init PROVE Filed
    OBVIOUS
  <2>1. InitialJob.kind = "initial" /\ NoJob.kind = "none"
    BY DEF InitialJob, NoJob, Job
  <2>2. job = NoJob /\ \A i \in DOMAIN queue : queue[i] = InitialJob
    BY DEF Init
  <2> QED
    BY <2>1, <2>2 DEF Filed, ProgressNamesJob, OnlyIndexIsResumed
<1>2. Types /\ Filed /\ [Next]_vars => Filed'
  <2> SUFFICES ASSUME Types, Filed, [Next]_vars PROVE Filed'
    OBVIOUS
  <2> USE DEF progress, worker, world, bounds, process
  <2>0. queue \in Seq(Jobs) /\ (pc = "idle" <=> job = NoJob)
    BY DEF Types, TypeOK
  <2>1. CASE AskStatus \/ AfterInitial
    <3>1. Load /\ UNCHANGED <<row, queue, job>>
      BY <2>1 DEF AskStatus, AfterInitial
    <3>2. job # NoJob => id' = id /\ state'.job = id
      BY <3>1, LoadWhileFiled
    <3> QED
      BY <3>1, <3>2 DEF Filed, ProgressNamesJob, OnlyIndexIsResumed, ProgressId
  <2>2. ASSUME NEW kind \in {"project", "index"}, NEW p \in Projects, Request(kind, p)
        PROVE  Filed'
    <3>1. PICK j : j.kind # "resume" /\ queue' = Append(queue, j)
      BY <2>2 DEF Request, Job
    <3>2. \A i \in DOMAIN queue' : queue'[i].kind = "resume" => queue'[i].id = IndexId
      BY <2>0, <3>1 DEF Filed, OnlyIndexIsResumed
    <3> QED
      BY <2>2, <3>2 DEF Request, Filed, ProgressNamesJob, OnlyIndexIsResumed, ProgressId
  <2>3. ASSUME NEW p \in Projects, StartPass(p) PROVE Filed'
    <3>1. Record(id, "running") /\ UNCHANGED <<queue, job>> /\ job # NoJob
      BY <2>0, <2>3 DEF StartPass
    <3>2. id' = id /\ row'.job = id /\ state'.job = id
      BY <3>1 DEF Record, State
    <3> QED
      BY <3>1, <3>2 DEF Filed, ProgressNamesJob, OnlyIndexIsResumed, ProgressId
  <2>4. CASE Crash \/ Exit
    <3>1. InitialJob.kind = "initial" /\ NoJob.kind = "none"
      BY DEF InitialJob, NoJob, Job
    <3>2. job' = NoJob /\ \A i \in DOMAIN queue' : queue'[i] = InitialJob
      BY <2>4 DEF Crash, Exit, Restart
    <3> QED
      BY <3>1, <3>2 DEF Filed, ProgressNamesJob, OnlyIndexIsResumed
  <2>5. CASE Begin
    <3>1. /\ queue # <<>> /\ job' = Head(queue) /\ queue' = Tail(queue)
          /\ SetJobID(ProgressId(job'))
      BY <2>5 DEF Begin
    <3>2. id' = ProgressId(job') /\ row'.job = id' /\ state'.job = id'
      BY <3>1 DEF SetJobID, Types, TypeOK
    <3>3. \E i \in DOMAIN queue : job' = queue[i]
      BY <2>0, <3>1
    <3>4. \A i \in DOMAIN queue' : \E j \in DOMAIN queue : queue'[i] = queue[j]
      <4> SUFFICES ASSUME NEW i \in DOMAIN queue' PROVE \E j \in DOMAIN queue : queue'[i] = queue[j]
        OBVIOUS
      <4>1. i + 1 \in DOMAIN queue /\ queue'[i] = queue[i + 1]
        BY <2>0, <3>1
      <4> QED
        BY <4>1
    <3> QED
      BY <3>2, <3>3, <3>4 DEF Filed, ProgressNamesJob, OnlyIndexIsResumed, ProgressId
  <2>6. CASE InitialIndex
    <3>1. Load /\ UNCHANGED <<row, job>> /\ job # NoJob /\ pc = "decide"
      BY <2>0, <2>6 DEF InitialIndex
    <3>2. id' = id /\ state'.job = id /\ Loaded.job = id
      BY <3>1, LoadWhileFiled
    <3>3. id = IndexId
      BY <3>1 DEF Filed, ProgressNamesJob, ProgressId, Types
    <3>4. \A i \in DOMAIN queue' : queue'[i].kind = "resume" => queue'[i].id = IndexId
      <4>1. queue' = queue \/ queue' = Append(queue, Job("resume", "none", Loaded.job))
        BY <2>6 DEF InitialIndex
      <4>2. Job("resume", "none", Loaded.job).id = IndexId
        BY <3>2, <3>3 DEF Job
      <4> QED
        BY <2>0, <4>1, <4>2 DEF Filed, OnlyIndexIsResumed
    <3> QED
      BY <3>1, <3>2, <3>4 DEF Filed, ProgressNamesJob, OnlyIndexIsResumed, ProgressId
  <2>7. CASE PassDone
    <3>1. Record(state.job, "done") /\ UNCHANGED <<queue, job>> /\ job # NoJob
      BY <2>0, <2>7 DEF PassDone
    <3>2. id' = id /\ row'.job = state.job /\ state'.job = state.job
      BY <3>1 DEF Record, State
    <3> QED
      BY <3>1, <3>2 DEF Filed, ProgressNamesJob, OnlyIndexIsResumed, ProgressId
  <2>8. ASSUME job' = NoJob, UNCHANGED queue PROVE Filed'
    BY <2>8 DEF Filed, ProgressNamesJob, OnlyIndexIsResumed, NoJob, Job
  <2>9. ASSUME UNCHANGED <<progress, queue, job>> PROVE Filed'
    BY <2>9 DEF Filed, ProgressNamesJob, OnlyIndexIsResumed, ProgressId
  <2>10. CASE Delete \/ Return
    BY <2>8, <2>9, <2>10 DEF Delete, Return
  <2>11. CASE PassFails \/ ProcessStep \/ UNCHANGED vars
    BY <2>9, <2>11, ProcessStepEffect DEF PassFails, vars
  <2>12. ASSUME NEW p \in Projects, Edit(p) PROVE Filed'
    BY <2>9, <2>12 DEF Edit
  <2> QED
    BY <2>1, <2>2, <2>3, <2>4, <2>5, <2>6, <2>7, <2>10, <2>11, <2>12 DEF Next, ProcessStep
<1> QED
  BY <1>1, <1>2, TypesInductive, PTL DEF Spec

\* Whoever loads the progress while a job is under way finds that job, and so the
\* load changes no ID: SetJobID has saved the row before anything else reads it.
THEOREM JobIsFiled == Spec => []ProgressNamesJob
<1>1. Filed => ProgressNamesJob
  BY DEF Filed
<1> QED
  BY <1>1, FiledInductive, PTL

\* resumeInterruptedJob is called with the ID of an index job only, as the job that
\* calls initialIndex has given its own ID to SetJobID.
THEOREM IndexIsResumed == Spec => []OnlyIndexIsResumed
<1>1. Filed => OnlyIndexIsResumed
  BY DEF Filed
<1> QED
  BY <1>1, FiledInductive, PTL

\* While files are walked and stored the row in the database says so, also for
\* whoever starts after a crash.
THEOREM PassesAreRecorded == Spec => []PassIsRecorded
<1>1. Init => PassIsRecorded
  BY DEF Init, PassIsRecorded
<1>2. Types /\ PassIsRecorded /\ [Next]_vars => PassIsRecorded'
  <2> SUFFICES ASSUME Types, PassIsRecorded, [Next]_vars, pc' = "pass" PROVE row'.status = "running"
    BY DEF PassIsRecorded
  <2>1. ASSUME NEW p \in Projects, StartPass(p) PROVE row'.status = "running"
    BY <2>1 DEF StartPass, Record, State
  <2>2. CASE Begin
    <3>1. Head(queue) \in Jobs
      BY <2>2 DEF Begin, Types
    <3> QED
      BY <2>2, <3>1 DEF Begin, Jobs, Kinds
  <2>3. CASE UNCHANGED <<pc, row>>
    BY <2>3 DEF PassIsRecorded
  <2>4. CASE ProcessStep
    BY <2>3, <2>4, ProcessStepEffect
  <2> QED
    BY <2>1, <2>2, <2>3, <2>4 DEF Next, ProcessStep, vars, progress, worker, AskStatus, Request, Edit,
       Crash, Exit, Restart, Delete, InitialIndex, PassDone, PassFails, NextDir, Return, AfterInitial
<1> QED
  BY <1>1, <1>2, TypesInductive, PTL DEF Spec

\* While the goroutine of Run waits for indexDone the initial job is still to run, or
\* under way: the end of every other job, and every error, leave it where it is.
THEOREM InitialJobAnswers == Spec => []IndexDoneIsComing
<1> DEFINE Waiting == \E i \in DOMAIN queue : queue[i] = InitialJob
<1>0. InitialJob.kind = "initial" /\ InitialJob # NoJob
  BY DEF InitialJob, NoJob, Job
<1>1. Init => IndexDoneIsComing
  <2>1. Init => queue = <<InitialJob>>
    BY DEF Init
  <2>2. 1 \in DOMAIN <<InitialJob>> /\ <<InitialJob>>[1] = InitialJob
    OBVIOUS
  <2> QED
    BY <2>1, <2>2 DEF IndexDoneIsComing
<1>2. Types /\ IndexDoneIsComing /\ [Next]_vars => IndexDoneIsComing'
  <2> SUFFICES ASSUME Types, IndexDoneIsComing, [Next]_vars, run' = "indexing"
               PROVE  job' = InitialJob \/ Waiting'
    BY DEF IndexDoneIsComing
  <2> USE DEF progress, worker, world, bounds, process
  <2>0. queue \in Seq(Jobs) /\ (pc = "idle" <=> job = NoJob)
    BY DEF Types, TypeOK
  <2>1. CASE Crash \/ Exit
    <3>1. queue' = <<InitialJob>>
      BY <2>1 DEF Crash, Exit, Restart
    <3>2. 1 \in DOMAIN <<InitialJob>> /\ <<InitialJob>>[1] = InitialJob
      OBVIOUS
    <3> QED
      BY <3>1, <3>2
  <2>2. ASSUME UNCHANGED <<queue, job, run>> PROVE job' = InitialJob \/ Waiting'
    BY <2>2 DEF IndexDoneIsComing
  <2>3. ASSUME NEW j, queue' = Append(queue, j), UNCHANGED <<job, run>>
        PROVE  job' = InitialJob \/ Waiting'
    BY <2>0, <2>3 DEF IndexDoneIsComing
  <2>4. CASE Begin
    <3>1. run = "indexing" /\ job = NoJob /\ queue # <<>>
      BY <2>0, <2>4 DEF Begin
    <3>2. PICK i \in DOMAIN queue : queue[i] = InitialJob
      BY <1>0, <3>1 DEF IndexDoneIsComing
    <3>3. CASE i = 1
      BY <2>0, <2>4, <3>1, <3>2, <3>3 DEF Begin
    <3>4. CASE i # 1
      <4>1. i - 1 \in DOMAIN Tail(queue) /\ Tail(queue)[i - 1] = queue[i]
        BY <2>0, <3>1, <3>4
      <4> QED
        BY <2>4, <3>2, <4>1 DEF Begin
    <3> QED
      BY <3>3, <3>4
  <2>5. CASE Delete
    <3>1. job # InitialJob
      BY <1>0, <2>5 DEF Delete, Types
    <3> QED
      BY <2>5, <3>1 DEF Delete, IndexDoneIsComing
  <2>6. CASE Return
    <3>1. job.kind # "initial"
      BY <2>6 DEF Return, InitialDone
    <3> QED
      BY <1>0, <2>6, <3>1 DEF Return, IndexDoneIsComing
  <2>7. CASE ProcessStep
    BY <2>7, ProcessStepEffect DEF IndexDoneIsComing, Types, TypeOK
  <2>8. CASE InitialIndex
    BY <2>2, <2>3, <2>8 DEF InitialIndex
  <2>9. CASE AfterInitial
    BY <2>9 DEF AfterInitial
  <2>10. ASSUME NEW kind, NEW p, Request(kind, p) PROVE job' = InitialJob \/ Waiting'
    BY <2>3, <2>10 DEF Request
  <2> QED
    BY <2>1, <2>2, <2>4, <2>5, <2>6, <2>7, <2>8, <2>9, <2>10
       DEF Next, ProcessStep, vars, AskStatus, Edit, StartPass, PassDone, PassFails
<1> QED
  BY <1>1, <1>2, TypesInductive, PTL DEF Spec

-----------------------------------------------------------------------------
(* The watcher starts on a complete index *)

\* The four stages of a process nobody has asked anything of: the initial job waits,
\* is under way, has failed, has succeeded.
Waits ==
    /\ queue = <<InitialJob>> /\ job = NoJob /\ run = "indexing"
    /\ state = Fresh /\ ~err

\* It never finds a row that says done, or running: SetJobID has saved the status
\* of a state that was not loaded.  So it walks all projects.
UnderWay ==
    /\ queue = <<>> /\ job = InitialJob /\ run = "indexing"
    /\ pc \in {"decide", "walk", "pass", "return"}
    /\ pc = "decide" => ~err /\ row = State(IndexId, "unset")
    /\ pc = "return" => dirs = {}
    /\ pc # "decide" /\ ~err => stale \subseteq late \cup dirs \cup (IF pc = "pass" THEN {dir} ELSE {})

HasFailed == queue = <<>> /\ job = NoJob /\ run = "failed"

HasIndexed ==
    /\ queue = <<>> /\ job = NoJob /\ run \in {"indexed", "waiting", "watching", "over", "failed"}
    /\ stale \subseteq late

Stages == ~early /\ requests = 0 => Waits \/ UnderWay \/ HasFailed \/ HasIndexed

LEMMA InitialJobFields == InitialJob.kind = "initial" /\ InitialJob # NoJob
  BY DEF InitialJob, NoJob, Job

LEMMA StagesInductive == Spec => []Stages
<1>1. Init => Stages
  BY DEF Init, Stages, Waits
<1>2. Types /\ Stages /\ [Next]_vars => Stages'
  <2> SUFFICES ASSUME Types, Stages, [Next]_vars, ~early', requests' = 0
               PROVE  Waits' \/ UnderWay' \/ HasFailed' \/ HasIndexed'
    BY DEF Stages
  <2> USE InitialJobFields DEF progress, worker, world, bounds, process
  <2>0. (pc = "idle" <=> job = NoJob) /\ requests \in Nat /\ stale \subseteq Projects
    BY MaxRequestsAssumption DEF Types, TypeOK
  <2>1. CASE Crash \/ Exit
    BY <2>1 DEF Crash, Exit, Restart, Waits
  <2>2. CASE ~Crash /\ ~Exit
    <3>1. ~early /\ requests = 0
      <4>1. early => early'
        BY <2>2 DEF Next, vars, AskStatus, Request, Edit, StartPass, Begin, Delete, InitialIndex,
           PassDone, PassFails, Return, AfterInitial, ProcessStep, StartWatcher, StartWatcherFails,
           StopWatcher, StopWorker, ServeFails, Signal
      <4>2. requests' = requests \/ requests' = requests + 1
        BY <2>2 DEF Next, vars, AskStatus, Request, Edit, StartPass, Begin, Delete, InitialIndex,
           PassDone, PassFails, Return, AfterInitial, ProcessStep, StartWatcher, StartWatcherFails,
           StopWatcher, StopWorker, ServeFails, Signal
      <4> QED
        BY <2>0, <4>1, <4>2
    <3>2. ASSUME NEW kind, NEW p, Request(kind, p) PROVE FALSE
      BY <2>0, <3>1, <3>2 DEF Request
    <3>3. CASE Waits
      <4>0. pc = "idle" /\ queue # <<>> /\ Head(queue) = InitialJob /\ Tail(queue) = <<>>
        BY <2>0, <3>3 DEF Waits
      <4>1. CASE AskStatus
        <5>1. 1 \in DOMAIN queue /\ queue[1] = InitialJob
          BY <3>3 DEF Waits
        <5> QED
          BY <4>1, <5>1 DEF AskStatus
      <4>2. CASE Begin
        <5>1. SetJobID(IndexId) /\ job' = InitialJob /\ queue' = <<>> /\ pc' = "decide"
          BY <4>0, <4>2 DEF Begin, ProgressId
        <5>2. row' = State(IndexId, "unset")
          BY <3>3, <5>1 DEF SetJobID, Waits, Fresh, State
        <5> QED
          BY <3>3, <4>2, <5>1, <5>2 DEF Begin, Waits, UnderWay
      <4>3. ASSUME NEW p \in Projects, Edit(p) PROVE Waits'
        BY <3>3, <4>3 DEF Edit, Waits
      <4>4. CASE UNCHANGED vars
        BY <3>3, <4>4 DEF vars, Waits
      <4>5. ~AfterInitial
        BY <3>3 DEF Waits, AfterInitial
      <4>6. CASE ProcessStep
        BY <3>3, <4>6, ProcessStepEffect DEF Waits
      <4> QED
        BY <2>2, <3>2, <4>0, <4>1, <4>2, <4>3, <4>4, <4>5, <4>6
           DEF Next, ProcessStep, StartPass, Delete, InitialIndex, PassDone, PassFails, Return
    <3>4. CASE UnderWay
      <4>0. ~Begin /\ ~Delete /\ ~AfterInitial
        BY <3>4 DEF UnderWay, Begin, Delete, AfterInitial
      <4>1. CASE AskStatus
        BY <3>4, <4>1 DEF AskStatus, UnderWay
      <4>2. ASSUME NEW p \in Projects, Edit(p) PROVE UnderWay'
        BY <3>4, <4>2 DEF Edit, UnderWay
      <4>3. ASSUME NEW p \in Projects, StartPass(p) PROVE UnderWay'
        BY <3>4, <4>3 DEF StartPass, UnderWay
      <4>4. CASE InitialIndex
        <5>1. Loaded.status = "unset"
          <6>1. row = State(IndexId, "unset")
            BY <3>4, <4>4 DEF UnderWay, InitialIndex
          <6>2. row # NoRow /\ row.status = "unset"
            BY <6>1 DEF NoRow, State
          <6> QED
            BY <6>2 DEF Loaded, State
        <5>2. dirs' = Projects /\ pc' = "walk" /\ UNCHANGED queue
          BY <4>4, <5>1 DEF InitialIndex, IsLeft
        <5>3. UNCHANGED <<job, run, err, stale, late>>
          BY <4>4 DEF InitialIndex
        <5> QED
          BY <2>0, <3>4, <5>2, <5>3 DEF UnderWay
      <4>5. CASE PassDone
        BY <3>4, <4>5 DEF PassDone, NextDir, UnderWay, Types, TypeOK
      <4>6. CASE PassFails
        BY <3>4, <4>6 DEF PassFails, NextDir, UnderWay
      <4>7. CASE Return
        <5>1. job' = NoJob /\ UNCHANGED <<queue, stale, late>>
          BY <4>7 DEF Return
        <5>2. run' = IF err THEN "failed" ELSE "indexed"
          BY <3>4, <4>7 DEF Return, InitialDone, UnderWay
        <5>3. CASE err
          BY <3>4, <5>1, <5>2, <5>3 DEF UnderWay, HasFailed
        <5>4. CASE ~err
          BY <3>4, <4>7, <5>1, <5>2, <5>4 DEF UnderWay, HasIndexed, Return
        <5> QED
          BY <5>3, <5>4
      <4>8. CASE UNCHANGED vars
        BY <3>4, <4>8 DEF vars, UnderWay
      <4>9. CASE ProcessStep
        BY <3>4, <4>9, ProcessStepEffect DEF UnderWay
      <4> QED
        BY <2>2, <3>2, <4>0, <4>1, <4>2, <4>3, <4>4, <4>5, <4>6, <4>7, <4>8, <4>9 DEF Next, ProcessStep
    <3>5. CASE HasFailed \/ HasIndexed
      <4>0. pc = "idle" /\ queue = <<>>
        BY <2>0, <3>5 DEF HasFailed, HasIndexed
      <4>1. CASE AskStatus \/ AfterInitial \/ UNCHANGED vars
        BY <3>5, <4>1 DEF AskStatus, AfterInitial, vars, HasFailed, HasIndexed
      <4>3. CASE ProcessStep
        BY <3>5, <4>3, ProcessStepEffect DEF HasFailed, HasIndexed
      <4>2. ASSUME NEW p \in Projects, Edit(p) PROVE HasFailed' \/ HasIndexed'
        BY <3>5, <4>2 DEF Edit, HasFailed, HasIndexed
      <4> QED
        BY <2>2, <3>2, <4>0, <4>1, <4>2, <4>3
           DEF Next, ProcessStep, StartPass, Begin, Delete, InitialIndex, PassDone, PassFails, Return
    <3> QED
      BY <3>1, <3>3, <3>4, <3>5 DEF Stages
  <2> QED
    BY <2>1, <2>2
<1> QED
  BY <1>1, <1>2, TypesInductive, PTL DEF Spec

\* A process that is asked for nothing before its initial job has begun starts the
\* watcher only when all projects were walked and stored, whatever the previous
\* processes left behind: no edit made before the walk is missed.
THEOREM WatcherStartsIndexed == Spec => []WatchedIsIndexed
<1>1. Stages => WatchedIsIndexed
  BY DEF Stages, Waits, UnderWay, HasFailed, HasIndexed, WatchedIsIndexed
<1> QED
  BY <1>1, StagesInductive, PTL

=============================================================================
