------------------------------ MODULE JobQueue ------------------------------
(***************************************************************************)
(* The job queue of internal/jobs/queue.go: any goroutine appends jobs or  *)
(* waits for one of them, a single worker goroutine runs them.             *)
(*                                                                         *)
(* One action is one critical section of q.mu, or one operation on the     *)
(* notify channel.  An entry of the slice is the ID and the status of a    *)
(* job.  IDs come back: Submit takes one from the clock (generateID), a    *)
(* resumed rebuild the fixed one of the progress row, such as "index".     *)
(* What tells the jobs apart here is `no`, the ordinal of the submission,  *)
(* which the code neither keeps nor looks at.                              *)
(***************************************************************************)
EXTENDS Integers, Sequences, FiniteSets

CONSTANTS
    Clients,     \* goroutines that submit jobs
    Waiters,     \* those of them that call Wait too: the code has one, Run's
    Ids,         \* the IDs they give their jobs and ask for
    MaxHistory,  \* Queue.maxHistory; New replaces a value <= 0 by 20
    MaxJobs      \* bound on the number of submissions, not in the code

ASSUME MaxHistoryAssumption == MaxHistory \in Nat \ {0}
ASSUME MaxJobsAssumption == MaxJobs \in Nat

VARIABLES
    jobs,       \* q.jobs
    submitted,  \* how many jobs were ever appended
    notify,     \* does q.notify (capacity 1) hold a token?
    worker,     \* where the worker goroutine stands
    idx,        \* processNext's local idx, 0 outside of it
    failed,     \* did the last run of a job return an error?
    cancelled,  \* is the context given to Start cancelled?
    client,     \* where each client stands in SubmitWithID or in Wait
    target,     \* the ID a client's last Wait asked for
    answer,     \* what a client's last Wait returned
    asOf        \* ghost: the last submission a client's Wait can speak for: the
                \* last one before the call, then the one that it answered for

vars == <<jobs, submitted, notify, worker, idx, failed, cancelled,
          client, target, answer, asOf>>

Status == {"pending", "running", "done", "failed"}
Job == [id : Ids, no : Nat, status : Status]
Active(job) == job.status \in {"pending", "running"}
ActiveAt(s) == {i \in DOMAIN s : Active(s[i])}
PendingAt(s) == {i \in DOMAIN s : s[i].status = "pending"}
RunningAt(s) == {i \in DOMAIN s : s[i].status = "running"}

Init ==
    /\ jobs = <<>>
    /\ submitted = 0
    /\ notify = FALSE
    /\ worker = "select"
    /\ idx = 0
    /\ failed = FALSE
    /\ cancelled = FALSE
    /\ client = [c \in Clients |-> "idle"]
    /\ target = [c \in Clients |-> "none"]
    /\ answer = [c \in Clients |-> "none"]
    /\ asOf = [c \in Clients |-> 0]

-----------------------------------------------------------------------------
(* prune *)

\* prune copies the pending and running jobs first and the others after them,
\* each group in the order of the slice.
CopiedBefore_OnePass(s, i, j) == i < j  \* mutant: one pass over the slice
CopiedBefore(s, i, j) ==
    IF Active(s[i]) <=> Active(s[j]) THEN i < j ELSE Active(s[i])

PrunedLen_OffByOne(s) ==  \* mutant: breaks when len(kept) > maxHistory
    LET n == Cardinality(ActiveAt(s)) IN IF n <= MaxHistory THEN MaxHistory + 1 ELSE n
PrunedLen(s) ==
    LET n == Cardinality(ActiveAt(s)) IN IF n < MaxHistory THEN MaxHistory ELSE n

\* from[k] is where the k-th entry that prune keeps was in s: the entries that
\* are copied first are kept, in that order, and the others are dropped.
IsCopyOrder(s, from) ==
    /\ \A k, l \in DOMAIN from : k < l => CopiedBefore(s, from[k], from[l])
    /\ \A i \in DOMAIN s \ {from[k] : k \in DOMAIN from} :
          \A k \in DOMAIN from : CopiedBefore(s, from[k], i)

\* What prune makes of s (a set of one sequence).
Pruned(s) ==
    IF Len(s) <= MaxHistory
    THEN {s}
    ELSE {[k \in 1..PrunedLen(s) |-> s[from[k]]] :
            from \in {f \in [1..PrunedLen(s) -> DOMAIN s] : IsCopyOrder(s, f)}}

-----------------------------------------------------------------------------
(* Clients *)

\* mutant: the history is pruned on submission too.
SubmitWithID_Prunes(c, id) ==
    /\ client[c] = "idle"
    /\ submitted < MaxJobs
    /\ submitted' = submitted + 1
    /\ jobs' \in Pruned(Append(jobs, [id |-> id, no |-> submitted', status |-> "pending"]))
    /\ client' = [client EXCEPT ![c] = "signal"]
    /\ UNCHANGED <<notify, worker, idx, failed, cancelled, target, answer, asOf>>

\* Submit and SubmitWithID up to the release of q.mu.  There may be jobs of that
\* ID in the slice, nothing looks for them.
SubmitWithID(c, id) ==
    /\ client[c] = "idle"
    /\ submitted < MaxJobs
    /\ submitted' = submitted + 1
    /\ jobs' = Append(jobs, [id |-> id, no |-> submitted', status |-> "pending"])
    /\ client' = [client EXCEPT ![c] = "signal"]
    /\ UNCHANGED <<notify, worker, idx, failed, cancelled, target, answer, asOf>>

\* The q.signal() that ends SubmitWithID: a send that never blocks, so a
\* token that is already there stands for this one too.
SignalSubmitted(c) ==
    /\ client[c] = "signal"
    /\ notify' = TRUE
    /\ client' = [client EXCEPT ![c] = "idle"]
    /\ UNCHANGED <<jobs, submitted, worker, idx, failed, cancelled, target, answer, asOf>>

\* A caller asks for any ID: Run has it from the progress row, so that it need
\* not be one of this queue.
CallWait(c, id) ==
    /\ c \in Waiters
    /\ client[c] = "idle"
    /\ target' = [target EXCEPT ![c] = id]
    /\ asOf' = [asOf EXCEPT ![c] = submitted]
    /\ client' = [client EXCEPT ![c] = "wait"]
    /\ answer' = [answer EXCEPT ![c] = "none"]
    /\ UNCHANGED <<jobs, submitted, notify, worker, idx, failed, cancelled>>

\* The states that end a Wait.
IsOver_NotPending(job) == job.status # "pending"  \* mutant: forgets the running ones
IsOver(job) == job.status \in {"done", "failed"}

\* Wait looks at the first entry of the slice that has the ID.
FirstWith(s, id) ==
    {i \in DOMAIN s : s[i].id = id /\ \A j \in DOMAIN s : s[j].id = id => i <= j}

\* One turn of Wait's loop.  "wait" is the first turn, "woken" one after
\* q.done.Wait() returned; either way q.mu is held while jobs is scanned.
ScanInWait(c) ==
    /\ client[c] \in {"wait", "woken"}
    /\ \/ /\ \A i \in DOMAIN jobs : jobs[i].id # target[c]
          /\ client' = [client EXCEPT ![c] = "idle"]
          /\ answer' = [answer EXCEPT ![c] = "false"]
          /\ asOf' = [asOf EXCEPT ![c] = submitted]
       \/ \E i \in FirstWith(jobs, target[c]) :
          /\ IsOver(jobs[i])
          /\ client' = [client EXCEPT ![c] = "idle"]
          /\ answer' = [answer EXCEPT ![c] = "true"]
          /\ asOf' = [asOf EXCEPT ![c] = jobs[i].no]
       \/ \E i \in FirstWith(jobs, target[c]) :
          /\ ~IsOver(jobs[i])
          /\ client' = [client EXCEPT ![c] = "blocked"]
          /\ UNCHANGED <<answer, asOf>>
    /\ UNCHANGED <<jobs, submitted, notify, worker, idx, failed, cancelled, target>>

-----------------------------------------------------------------------------
(* The worker *)

\* Start's select takes a token.
TakeToken ==
    /\ worker = "select"
    /\ notify
    /\ notify' = FALSE
    /\ worker' = "pick"
    /\ UNCHANGED <<jobs, submitted, idx, failed, cancelled, client, target, answer, asOf>>

\* Start's select takes ctx.Done(); it may, even if a token is there.
StopWorker ==
    /\ worker = "select"
    /\ cancelled
    /\ worker' = "stopped"
    /\ UNCHANGED <<jobs, submitted, notify, idx, failed, cancelled, client, target, answer, asOf>>

\* processNext up to the first release of q.mu.
PickJob ==
    /\ worker = "pick"
    /\ \/ /\ PendingAt(jobs) = {}
          /\ worker' = "select"
          /\ UNCHANGED <<jobs, idx>>
       \/ \E i \in PendingAt(jobs) :
          /\ \A j \in PendingAt(jobs) : i <= j
          /\ jobs' = [jobs EXCEPT ![i].status = "running"]
          /\ idx' = i
          /\ worker' = "run"
    /\ UNCHANGED <<submitted, notify, failed, cancelled, client, target, answer, asOf>>

\* q.done.Broadcast(): every call that sleeps in Wait will scan again.
Broadcast_Forgotten == client  \* mutant
Broadcast == [c \in Clients |-> IF client[c] = "blocked" THEN "woken" ELSE client[c]]

\* processNext from the return of job.fn to the second release of q.mu.  The
\* worker writes through the index it found before it released q.mu.
FinishJob ==
    /\ worker = "run"
    /\ \E outcome \in {"done", "failed"} :
        /\ jobs' \in Pruned([jobs EXCEPT ![idx].status = outcome])
        /\ failed' = (outcome = "failed")
        /\ worker' = IF outcome = "done" THEN "signal" ELSE "select"
    /\ idx' = 0
    /\ client' = Broadcast
    /\ UNCHANGED <<submitted, notify, cancelled, target, answer, asOf>>

SignalNext_Lost ==  \* mutant: the worker goes back to select without a signal
    /\ worker = "signal"
    /\ worker' = "select"
    /\ UNCHANGED <<jobs, submitted, notify, idx, failed, cancelled, client, target, answer, asOf>>

\* The q.signal() that ends processNext when job.fn returned no error.
SignalNext ==
    /\ worker = "signal"
    /\ notify' = TRUE
    /\ worker' = "select"
    /\ UNCHANGED <<jobs, submitted, idx, failed, cancelled, client, target, answer, asOf>>

-----------------------------------------------------------------------------
\* App.Run cancels the context the worker was started with.
Cancel ==
    /\ ~cancelled
    /\ cancelled' = TRUE
    /\ UNCHANGED <<jobs, submitted, notify, worker, idx, failed, client, target, answer, asOf>>

ClientStep(c) ==
    \/ \E id \in Ids : SubmitWithID(c, id) \/ CallWait(c, id)
    \/ SignalSubmitted(c)
    \/ ScanInWait(c)
WorkerStep == TakeToken \/ StopWorker \/ PickJob \/ FinishJob \/ SignalNext

Next ==
    \/ \E c \in Clients : ClientStep(c)
    \/ WorkerStep
    \/ Cancel

\* The Go scheduler runs every goroutine that can run, and job functions
\* return: embedding requests time out and retries are limited.  Nothing makes
\* a client submit or wait, or the application cancel.
Fairness ==
    /\ WF_vars(WorkerStep)
    /\ \A c \in Clients : WF_vars(SignalSubmitted(c) \/ ScanInWait(c))

Spec == Init /\ [][Next]_vars
FairSpec == Spec /\ Fairness

-----------------------------------------------------------------------------
(* Properties *)

TypeOK ==
    /\ jobs \in Seq(Job)
    /\ submitted \in Nat
    /\ notify \in BOOLEAN
    /\ worker \in {"select", "pick", "run", "signal", "stopped"}
    /\ idx \in Nat
    /\ failed \in BOOLEAN
    /\ cancelled \in BOOLEAN
    /\ client \in [Clients -> {"idle", "signal", "wait", "blocked", "woken"}]
    /\ target \in [Clients -> Ids \cup {"none"}]
    /\ answer \in [Clients -> {"none", "true", "false"}]
    /\ asOf \in [Clients -> Nat]

\* While a job function runs without q.mu, whatever is submitted meanwhile, the
\* worker's idx still names the job it runs, and no other job is running: the
\* outcome is written to the right entry (processNext releases q.mu around fn).
WorkerOwnsRunning == RunningAt(jobs) = IF worker = "run" THEN {idx} ELSE {}

\* The notify channel merges signals.  Even so, a pending job is left without
\* any signal on its way only when the job before it failed: every other time a
\* token, the worker, or a submitter about to signal will get to it.
NoLostWakeup ==
    PendingAt(jobs) # {} /\ worker = "select" /\ ~notify
        => failed \/ \E c \in Clients : client[c] = "signal"

\* At most maxHistory finished jobs are retained, however many are submitted
\* while others finish (prune).
HistoryBounded == Cardinality(DOMAIN jobs \ ActiveAt(jobs)) <= MaxHistory

\* Wait sleeps only while the first job of its ID is pending or running: no
\* broadcast is missed between the scan and the sleep, and prune never takes the
\* job away silently.
BlockedOnActive ==
    \A c \in Clients : client[c] = "blocked"
        => \E i \in FirstWith(jobs, target[c]) : Active(jobs[i])

\* When Wait returned true, the job it found is over, and so is every job that
\* was submitted under that ID before; when it returned false, every job that
\* had been submitted under that ID by then.  They stay over: a job of that ID
\* that is pending or running is a later one.  With IDs that do not come back
\* this is "the job Wait was asked for is over".
AnsweredJobIsOver ==
    \A c \in Clients : answer[c] # "none"
        => \A i \in ActiveAt(jobs) : jobs[i].id = target[c] => jobs[i].no > asOf[c]

\* The queue runs the jobs one at a time, in the order of submission, each at
\* most once, and loses none before it has run.
Executor == INSTANCE SerialExecutor WITH
    waiting <- {jobs[i].no : i \in PendingAt(jobs)},
    current <- IF worker = "run" THEN jobs[idx].no ELSE 0

ImplementsExecutor == Executor!Spec

IsPending(n) == \E i \in PendingAt(jobs) : jobs[i].no = n

\* A submitted job is started unless the queue is stopped or a job fails.
StartedUnlessFailure ==
    \A n \in 1..MaxJobs : IsPending(n) ~> (~IsPending(n) \/ failed \/ cancelled)

\* Wait returns, unless the queue is stopped or a job fails, or the ID it waits
\* for is submitted again after the call: prune may put the new job before the
\* one that ended, so that Wait goes on with the new one.
WaitReturns ==
    \A c \in Clients :
        client[c] \in {"wait", "blocked", "woken"}
            ~> \/ client[c] = "idle"
               \/ failed \/ cancelled
               \/ \E i \in ActiveAt(jobs) : jobs[i].id = target[c] /\ jobs[i].no > asOf[c]

\* "Wait blocks until the job with the given ID is no longer running or pending",
\* said of an ID: when Wait returns, no job of that ID is pending or running.  It
\* does not hold for an ID that came back: an earlier job of that ID that is over
\* and still listed answers for the later one.
AnsweredIdIsOver ==
    [][\A c \in Clients :
          answer[c] = "none" /\ answer'[c] # "none"
              => \A i \in ActiveAt(jobs) : jobs[i].id # target[c]]_vars

\* What "Jobs execute sequentially in a single worker goroutine" promises to who
\* submits one: it is executed, unless the queue is stopped.  It does not hold:
\* two signals that merged leave the second job pending when the first one fails.
SubmittedJobRuns ==
    \A n \in 1..MaxJobs : IsPending(n) ~> (~IsPending(n) \/ cancelled)

=============================================================================
