--------------------------- MODULE JobQueue_proofs ---------------------------
(***************************************************************************)
(* Theorems about the job queue, for any number of clients, any maxHistory *)
(* and any number of submissions.                                          *)
(***************************************************************************)
EXTENDS JobQueue, SequenceTheorems, FunctionTheorems, FiniteSetTheorems, TLAPS

-----------------------------------------------------------------------------
(* Sequences of jobs *)

\* Writing the status of one entry changes nothing else.
LEMMA SetStatus ==
    ASSUME NEW s \in Seq(Job), NEW i \in DOMAIN s, NEW st \in Status
    PROVE  LET t == [s EXCEPT ![i].status = st]
           IN  /\ t \in Seq(Job)
               /\ DOMAIN t = DOMAIN s
               /\ Len(t) = Len(s)
               /\ \A j \in DOMAIN s : t[j].id = s[j].id /\ t[j].no = s[j].no
               /\ \A j \in DOMAIN s : t[j].status = IF j = i THEN st ELSE s[j].status
<1> DEFINE t == [s EXCEPT ![i].status = st]
<1>0. s[i] \in Job
  OBVIOUS
<1>1. [s[i] EXCEPT !.status = st] = [id |-> s[i].id, no |-> s[i].no, status |-> st]
  BY <1>0 DEF Job
<1>2. t = [s EXCEPT ![i] = [s[i] EXCEPT !.status = st]]
  OBVIOUS
<1>3. t \in Seq(Job) /\ Len(t) = Len(s)
  <2>1. [s[i] EXCEPT !.status = st] \in Job
    BY <1>0, <1>1 DEF Job
  <2> QED
    BY <1>2, <2>1, ExceptSeq
<1>4. DOMAIN t = DOMAIN s
  OBVIOUS
<1>5. \A j \in DOMAIN s : s[j] \in Job
  OBVIOUS
<1>6. \A j \in DOMAIN s : t[j] = IF j = i THEN [s[i] EXCEPT !.status = st] ELSE s[j]
  BY <1>2
<1> QED
  BY <1>1, <1>3, <1>4, <1>5, <1>6 DEF Job

\* Appending a job adds one entry at the end.
LEMMA AppendJob ==
    ASSUME NEW s \in Seq(Job), NEW job \in Job
    PROVE  LET t == Append(s, job)
           IN  /\ t \in Seq(Job)
               /\ DOMAIN t = DOMAIN s \cup {Len(s) + 1}
               /\ Len(s) + 1 \notin DOMAIN s
               /\ \A j \in DOMAIN s : j < Len(s) + 1
               /\ \A j \in DOMAIN s : t[j] = s[j]
               /\ t[Len(s) + 1] = job
  OBVIOUS

\* The entries of a sequence that prune copies are finitely many.
LEMMA ActiveFinite ==
    ASSUME NEW s \in Seq(Job)
    PROVE  IsFiniteSet(ActiveAt(s)) /\ Cardinality(ActiveAt(s)) \in Nat
<1>1. IsFiniteSet(1..Len(s))
  BY FS_Interval
<1>2. ActiveAt(s) \subseteq 1..Len(s)
  BY DEF ActiveAt
<1> QED
  BY <1>1, <1>2, FS_Subset, FS_CardinalityType

\* prune only drops entries that are over: every active entry is copied.
LEMMA CopyKeepsActive ==
    ASSUME NEW s \in Seq(Job),
           NEW from \in [1..PrunedLen(s) -> DOMAIN s], IsCopyOrder(s, from),
           NEW i \in ActiveAt(s)
    PROVE  \E k \in 1..PrunedLen(s) : from[k] = i
<1> DEFINE n == PrunedLen(s)
<1> DEFINE A == ActiveAt(s)
<1>1. IsFiniteSet(A) /\ Cardinality(A) \in Nat
  BY ActiveFinite
<1>2. n \in Nat /\ n >= Cardinality(A)
  BY <1>1, MaxHistoryAssumption DEF PrunedLen
<1> SUFFICES ASSUME \A k \in 1..n : from[k] # i PROVE FALSE
  OBVIOUS
<1>3. i \in DOMAIN s /\ Active(s[i])
  BY DEF ActiveAt
<1>4. \A k \in 1..n : CopiedBefore(s, from[k], i)
  BY <1>3 DEF IsCopyOrder
<1>5. \A k \in 1..n : from[k] \in A \ {i}
  BY <1>3, <1>4 DEF CopiedBefore, ActiveAt
<1>6. \A k, l \in 1..n : k < l => from[k] # from[l]
  <2> SUFFICES ASSUME NEW k \in 1..n, NEW l \in 1..n, k < l, from[k] = from[l]
               PROVE FALSE
    OBVIOUS
  <2>1. CopiedBefore(s, from[k], from[l])
    BY DEF IsCopyOrder
  <2> QED
    BY <2>1 DEF CopiedBefore
<1>7. IsFiniteSet(A \ {i}) /\ Cardinality(A \ {i}) = Cardinality(A) - 1
  BY <1>1, FS_RemoveElement
<1>8. IsFiniteSet(1..n) /\ Cardinality(1..n) = n
  BY <1>2, FS_Interval
<1>9. from \in [1..n -> A \ {i}]
  BY <1>5
<1>10. \A k, l \in 1..n : from[k] = from[l] => k = l
  BY <1>2, <1>6
<1>11. from \in Injection(1..n, A \ {i})
  BY <1>9, <1>10 DEF Injection, IsInjective
<1>12. n <= Cardinality(A) - 1
  BY <1>7, <1>8, <1>11, FS_Injection
<1> QED
  BY <1>1, <1>2, <1>12

\* What the other proofs use of prune: each entry it leaves is one of the old
\* ones, none comes twice, the active ones keep their order and are all there.
LEMMA PrunedIsCopy ==
    ASSUME NEW s \in Seq(Job), NEW t \in Pruned(s)
    PROVE  /\ t \in Seq(Job)
           /\ \E from \in [DOMAIN t -> DOMAIN s] :
                /\ \A k \in DOMAIN t : t[k] = s[from[k]]
                /\ \A k, l \in DOMAIN t : k # l => from[k] # from[l]
                /\ \A k, l \in ActiveAt(t) : k < l => from[k] < from[l]
                /\ \A i \in ActiveAt(s) : \E k \in DOMAIN t : from[k] = i
<1>1. CASE Len(s) <= MaxHistory
  <2>1. t = s
    BY <1>1 DEF Pruned
  <2> DEFINE from == [k \in DOMAIN s |-> k]
  <2>2. from \in [DOMAIN t -> DOMAIN s]
    BY <2>1
  <2>3. \A i \in ActiveAt(s) : i \in DOMAIN t /\ from[i] = i
    BY <2>1 DEF ActiveAt
  <2>4. \A k, l \in ActiveAt(t) : k < l => from[k] < from[l]
    BY <2>1, <2>3
  <2> QED
    BY <2>1, <2>2, <2>3, <2>4
<1>2. CASE ~(Len(s) <= MaxHistory)
  <2>1. PICK from \in [1..PrunedLen(s) -> DOMAIN s] :
          IsCopyOrder(s, from) /\ t = [k \in 1..PrunedLen(s) |-> s[from[k]]]
    BY <1>2 DEF Pruned
  <2>2. PrunedLen(s) \in Nat
    BY ActiveFinite, MaxHistoryAssumption DEF PrunedLen
  <2>3. DOMAIN t = 1..PrunedLen(s)
    BY <2>1
  <2>4. \A k \in DOMAIN t : t[k] = s[from[k]] /\ from[k] \in DOMAIN s /\ t[k] \in Job
    BY <2>1, <2>3
  <2>5. t \in Seq(Job)
    BY <2>1, <2>2, <2>4, IsASeq
  <2>6. \A k, l \in DOMAIN t : k < l => CopiedBefore(s, from[k], from[l])
    BY <2>1, <2>3 DEF IsCopyOrder
  <2>7. \A k, l \in DOMAIN t : k # l => from[k] # from[l]
    <3> SUFFICES ASSUME NEW k \in DOMAIN t, NEW l \in DOMAIN t, k < l, from[k] = from[l]
                 PROVE FALSE
      BY <2>2, <2>3
    <3> QED
      BY <2>4, <2>6 DEF CopiedBefore
  <2>8. \A k, l \in ActiveAt(t) : k < l => from[k] < from[l]
    BY <2>4, <2>6 DEF CopiedBefore, ActiveAt
  <2>9. \A i \in ActiveAt(s) : \E k \in DOMAIN t : from[k] = i
    BY <2>1, <2>3, CopyKeepsActive
  <2> QED
    BY <2>1, <2>3, <2>5, <2>4, <2>7, <2>8, <2>9
<1> QED
  BY <1>1, <1>2

-----------------------------------------------------------------------------
(* What the steps do to q.jobs *)

\* PickJob turns one pending entry into a running one.
LEMMA PickEffect ==
    ASSUME jobs \in Seq(Job), NEW i \in PendingAt(jobs),
           jobs' = [jobs EXCEPT ![i].status = "running"]
    PROVE  /\ jobs' \in Seq(Job)
           /\ DOMAIN jobs' = DOMAIN jobs
           /\ \A j \in DOMAIN jobs : jobs'[j].id = jobs[j].id /\ jobs'[j].no = jobs[j].no
           /\ PendingAt(jobs') = PendingAt(jobs) \ {i}
           /\ RunningAt(jobs') = RunningAt(jobs) \cup {i}
           /\ ActiveAt(jobs') = ActiveAt(jobs)
<1>1. i \in DOMAIN jobs /\ jobs[i].status = "pending"
  BY DEF PendingAt
<1>2. "running" \in Status
  BY DEF Status
<1>3. /\ jobs' \in Seq(Job)
      /\ DOMAIN jobs' = DOMAIN jobs
      /\ \A j \in DOMAIN jobs : jobs'[j].id = jobs[j].id /\ jobs'[j].no = jobs[j].no
      /\ \A j \in DOMAIN jobs :
            jobs'[j].status = IF j = i THEN "running" ELSE jobs[j].status
  BY <1>1, <1>2, SetStatus
<1> QED
  BY <1>1, <1>3 DEF PendingAt, RunningAt, ActiveAt, Active

\* FinishJob ends one entry, and moves or drops others: the pending and running
\* ones are all still there, once each and in the same order.
LEMMA FinishEffect ==
    ASSUME jobs \in Seq(Job), idx \in DOMAIN jobs, FinishJob
    PROVE  /\ jobs' \in Seq(Job)
           /\ \E from \in [DOMAIN jobs' -> DOMAIN jobs] :
                /\ \A k \in DOMAIN jobs' : jobs'[k].id = jobs[from[k]].id /\ jobs'[k].no = jobs[from[k]].no
                /\ \A k, l \in DOMAIN jobs' : k # l => from[k] # from[l]
                /\ \A k, l \in ActiveAt(jobs') : k < l => from[k] < from[l]
                /\ \A k \in DOMAIN jobs' : k \in PendingAt(jobs')
                        <=> from[k] \in PendingAt(jobs) \ {idx}
                /\ \A k \in DOMAIN jobs' : k \in RunningAt(jobs')
                        <=> from[k] \in RunningAt(jobs) \ {idx}
                /\ \A i \in ActiveAt(jobs) \ {idx} : \E k \in DOMAIN jobs' : from[k] = i
<1>1. PICK outcome \in {"done", "failed"} :
        jobs' \in Pruned([jobs EXCEPT ![idx].status = outcome])
  BY DEF FinishJob
<1>2. PICK s : s = [jobs EXCEPT ![idx].status = outcome]
  OBVIOUS
<1>3. outcome \in Status
  BY DEF Status
<1>4. /\ s \in Seq(Job)
      /\ DOMAIN s = DOMAIN jobs
      /\ \A j \in DOMAIN jobs : s[j].id = jobs[j].id /\ s[j].no = jobs[j].no
      /\ \A j \in DOMAIN jobs : s[j].status = IF j = idx THEN outcome ELSE jobs[j].status
  BY <1>2, <1>3, SetStatus
<1>5. jobs' \in Pruned(s)
  BY <1>1, <1>2
<1>6. jobs' \in Seq(Job)
  BY <1>4, <1>5, PrunedIsCopy
<1>7. PICK from \in [DOMAIN jobs' -> DOMAIN s] :
        /\ \A k \in DOMAIN jobs' : jobs'[k] = s[from[k]]
        /\ \A k, l \in DOMAIN jobs' : k # l => from[k] # from[l]
        /\ \A k, l \in ActiveAt(jobs') : k < l => from[k] < from[l]
        /\ \A i \in ActiveAt(s) : \E k \in DOMAIN jobs' : from[k] = i
  BY <1>4, <1>5, PrunedIsCopy
<1>8. PendingAt(s) = PendingAt(jobs) \ {idx} /\ RunningAt(s) = RunningAt(jobs) \ {idx}
  BY <1>4 DEF PendingAt, RunningAt
<1>9. ActiveAt(s) = ActiveAt(jobs) \ {idx}
  BY <1>4 DEF ActiveAt, Active
<1>10. from \in [DOMAIN jobs' -> DOMAIN jobs]
  BY <1>4
<1>11. \A k \in DOMAIN jobs' : /\ jobs'[k].id = jobs[from[k]].id
                               /\ jobs'[k].no = jobs[from[k]].no
                               /\ k \in PendingAt(jobs') <=> from[k] \in PendingAt(s)
                               /\ k \in RunningAt(jobs') <=> from[k] \in RunningAt(s)
  BY <1>4, <1>7 DEF PendingAt, RunningAt
<1>12. \A k \in DOMAIN jobs' : jobs'[k].id = jobs[from[k]].id /\ jobs'[k].no = jobs[from[k]].no
  BY <1>11
<1>13. \A k \in DOMAIN jobs' : k \in PendingAt(jobs') <=> from[k] \in PendingAt(jobs) \ {idx}
  BY <1>8, <1>11
<1>14. \A k \in DOMAIN jobs' : k \in RunningAt(jobs') <=> from[k] \in RunningAt(jobs) \ {idx}
  BY <1>8, <1>11
<1>15. \A i \in ActiveAt(jobs) \ {idx} : \E k \in DOMAIN jobs' : from[k] = i
  BY <1>7, <1>9
<1>16. /\ \A k, l \in DOMAIN jobs' : k # l => from[k] # from[l]
       /\ \A k, l \in ActiveAt(jobs') : k < l => from[k] < from[l]
  BY <1>7
<1> QED
  BY <1>6, <1>10, <1>12, <1>13, <1>14, <1>15, <1>16, Zenon

-----------------------------------------------------------------------------
(* Types, and the worker's index *)

TypesAndIndex == TypeOK /\ WorkerOwnsRunning

\* The two facts hold together: the type of q.jobs after FinishJob depends on
\* idx being an index of it, and idx on q.jobs only growing at its end meanwhile.
LEMMA TypesAndIndexInductive == Spec => []TypesAndIndex
<1>1. Init => TypesAndIndex
  <2> SUFFICES ASSUME Init PROVE TypesAndIndex
    OBVIOUS
  <2>1. jobs \in Seq(Job) /\ RunningAt(jobs) = {}
    BY DEF Init, RunningAt
  <2>2. TypeOK
    BY <2>1 DEF Init, TypeOK
  <2> QED
    BY <2>1, <2>2 DEF Init, TypesAndIndex, WorkerOwnsRunning
<1>2. TypesAndIndex /\ [Next]_vars => TypesAndIndex'
  <2> SUFFICES ASSUME TypesAndIndex, [Next]_vars PROVE TypesAndIndex'
    OBVIOUS
  <2> USE DEF TypesAndIndex, TypeOK, WorkerOwnsRunning
  <2>1. ASSUME NEW c \in Clients, NEW id \in Ids, SubmitWithID(c, id) PROVE TypesAndIndex'
    <3>1. [id |-> id, no |-> submitted', status |-> "pending"] \in Job
      BY <2>1 DEF SubmitWithID, Job, Status
    <3>2. /\ jobs' \in Seq(Job)
          /\ DOMAIN jobs' = DOMAIN jobs \cup {Len(jobs) + 1}
          /\ Len(jobs) + 1 \notin DOMAIN jobs
          /\ \A j \in DOMAIN jobs : jobs'[j] = jobs[j]
          /\ jobs'[Len(jobs) + 1] = [id |-> id, no |-> submitted', status |-> "pending"]
      BY <2>1, <3>1, AppendJob DEF SubmitWithID
    <3>3. RunningAt(jobs') = RunningAt(jobs)
      BY <3>2 DEF RunningAt
    <3> QED
      BY <2>1, <3>2, <3>3 DEF SubmitWithID
  <2>2. ASSUME NEW c \in Clients, SignalSubmitted(c) PROVE TypesAndIndex'
    BY <2>2 DEF SignalSubmitted
  <2>3. ASSUME NEW c \in Clients, NEW id \in Ids, CallWait(c, id) PROVE TypesAndIndex'
    BY <2>3 DEF CallWait
  <2>4. ASSUME NEW c \in Clients, ScanInWait(c) PROVE TypesAndIndex'
    <3>1. \A i \in FirstWith(jobs, target[c]) : jobs[i] \in Job
      BY DEF FirstWith
    <3>2. asOf' \in [Clients -> Nat] /\ answer' \in [Clients -> {"none", "true", "false"}]
      BY <2>4, <3>1 DEF ScanInWait, Job
    <3>3. client' \in [Clients -> {"idle", "signal", "wait", "blocked", "woken"}]
      BY <2>4 DEF ScanInWait
    <3> QED
      BY <2>4, <3>2, <3>3 DEF ScanInWait
  <2>5. CASE TakeToken
    BY <2>5 DEF TakeToken
  <2>6. CASE StopWorker
    BY <2>6 DEF StopWorker
  <2>7. CASE PickJob
    <3>1. CASE PendingAt(jobs) = {} /\ worker' = "select" /\ UNCHANGED <<jobs, idx>>
      BY <2>7, <3>1 DEF PickJob
    <3>2. ASSUME NEW i \in PendingAt(jobs), jobs' = [jobs EXCEPT ![i].status = "running"],
                 idx' = i, worker' = "run"
          PROVE  TypesAndIndex'
      <4>1. jobs' \in Seq(Job) /\ RunningAt(jobs') = RunningAt(jobs) \cup {i}
        BY <3>2, PickEffect
      <4>2. i \in Nat
        BY DEF PendingAt
      <4>3. RunningAt(jobs) = {}
        BY <2>7 DEF PickJob
      <4> QED
        BY <2>7, <3>2, <4>1, <4>2, <4>3 DEF PickJob
    <3> QED
      BY <2>7, <3>1, <3>2 DEF PickJob
  <2>8. CASE FinishJob
    <3>1. worker = "run" /\ RunningAt(jobs) = {idx}
      BY <2>8 DEF FinishJob
    <3>2. idx \in DOMAIN jobs
      BY <3>1 DEF RunningAt
    <3>3. jobs' \in Seq(Job)
      BY <2>8, <3>2, FinishEffect
    <3>4. RunningAt(jobs') = {}
      <4>1. \A k \in DOMAIN jobs' : k \notin RunningAt(jobs')
        BY <2>8, <3>1, <3>2, FinishEffect
      <4> QED
        BY <4>1 DEF RunningAt
    <3>5. worker' \in {"signal", "select"} /\ idx' = 0 /\ failed' \in BOOLEAN
      BY <2>8 DEF FinishJob
    <3> QED
      BY <2>8, <3>3, <3>4, <3>5 DEF FinishJob, Broadcast
  <2>9. CASE SignalNext
    BY <2>9 DEF SignalNext
  <2>10. CASE Cancel
    BY <2>10 DEF Cancel
  <2>11. CASE UNCHANGED vars
    BY <2>11 DEF vars
  <2> QED
    BY <2>1, <2>2, <2>3, <2>4, <2>5, <2>6, <2>7, <2>8, <2>9, <2>10, <2>11
       DEF Next, ClientStep, WorkerStep
<1> QED
  BY <1>1, <1>2, PTL DEF Spec

\* Every reachable state has the types of the Go declarations: in particular
\* q.jobs stays a slice of jobs, whatever prune copied.
THEOREM TypeCorrect == Spec => []TypeOK
<1>1. TypesAndIndex => TypeOK
  BY DEF TypesAndIndex
<1> QED
  BY <1>1, TypesAndIndexInductive, PTL

\* The worker's idx names the one running job whenever a job function runs, and
\* no job is running otherwise.
THEOREM WorkerIndexIsStable == Spec => []WorkerOwnsRunning
<1>1. TypesAndIndex => WorkerOwnsRunning
  BY DEF TypesAndIndex
<1> QED
  BY <1>1, TypesAndIndexInductive, PTL

-----------------------------------------------------------------------------
(* Waiting, waking and the order of the jobs *)

\* The ordinals tell the jobs apart, and the slice is in the order of submission
\* as far as the jobs that are not over are concerned: those that are over were
\* submitted before the running one, and that one before those that are pending.
SubmissionOrder ==
    /\ \A i \in DOMAIN jobs : jobs[i].no \in 1..submitted
    /\ \A i, j \in DOMAIN jobs : i # j => jobs[i].no # jobs[j].no
    /\ \A i, j \in ActiveAt(jobs) : i < j => jobs[i].no < jobs[j].no
    /\ \A i \in DOMAIN jobs \ PendingAt(jobs), j \in PendingAt(jobs) : jobs[i].no < jobs[j].no
    /\ \A i \in DOMAIN jobs \ ActiveAt(jobs), j \in RunningAt(jobs) : jobs[i].no < jobs[j].no
    /\ \A c \in Clients : asOf[c] \in 0..submitted

Waiting == NoLostWakeup /\ BlockedOnActive /\ AnsweredJobIsOver

\* SubmitWithID adds one pending entry at the end, the last in submission order.
LEMMA SubmitEffect ==
    ASSUME TypeOK, NEW c \in Clients, NEW id \in Ids, SubmitWithID(c, id)
    PROVE  /\ submitted' = submitted + 1
           /\ DOMAIN jobs' = DOMAIN jobs \cup {Len(jobs) + 1}
           /\ Len(jobs) + 1 \notin DOMAIN jobs
           /\ \A j \in DOMAIN jobs : j < Len(jobs) + 1 /\ jobs'[j] = jobs[j]
           /\ jobs'[Len(jobs) + 1].id = id
           /\ jobs'[Len(jobs) + 1].no = submitted + 1
           /\ ActiveAt(jobs') = ActiveAt(jobs) \cup {Len(jobs) + 1}
           /\ PendingAt(jobs') = PendingAt(jobs) \cup {Len(jobs) + 1}
           /\ RunningAt(jobs') = RunningAt(jobs)
<1>1. [id |-> id, no |-> submitted', status |-> "pending"] \in Job
  BY DEF SubmitWithID, Job, Status, TypeOK
<1>2. /\ DOMAIN jobs' = DOMAIN jobs \cup {Len(jobs) + 1}
      /\ \A j \in DOMAIN jobs : j < Len(jobs) + 1 /\ jobs'[j] = jobs[j]
      /\ jobs'[Len(jobs) + 1] = [id |-> id, no |-> submitted', status |-> "pending"]
  BY <1>1, AppendJob DEF SubmitWithID, TypeOK
<1>3. Len(jobs) + 1 \notin DOMAIN jobs
  BY DEF TypeOK
<1> QED
  BY <1>2, <1>3 DEF SubmitWithID, ActiveAt, PendingAt, RunningAt, Active

LEMMA SubmissionOrderInductive == Spec => []SubmissionOrder
<1>1. Init => SubmissionOrder
  BY DEF Init, SubmissionOrder, ActiveAt, PendingAt, RunningAt
<1>2. TypesAndIndex /\ SubmissionOrder /\ [Next]_vars => SubmissionOrder'
  <2> SUFFICES ASSUME TypesAndIndex, SubmissionOrder, [Next]_vars PROVE SubmissionOrder'
    OBVIOUS
  <2> USE DEF TypesAndIndex
  <2>0. TypeOK /\ submitted \in Nat /\ jobs \in Seq(Job)
    BY DEF TypeOK
  <2>a. /\ PendingAt(jobs) \subseteq ActiveAt(jobs) /\ RunningAt(jobs) \subseteq ActiveAt(jobs)
        /\ ActiveAt(jobs) \subseteq DOMAIN jobs
        /\ ActiveAt(jobs) = PendingAt(jobs) \cup RunningAt(jobs)
    BY DEF PendingAt, RunningAt, ActiveAt, Active
  <2>1. ASSUME NEW c \in Clients, NEW id \in Ids, SubmitWithID(c, id) PROVE SubmissionOrder'
    <3>1. /\ submitted' = submitted + 1
          /\ DOMAIN jobs' = DOMAIN jobs \cup {Len(jobs) + 1}
          /\ Len(jobs) + 1 \notin DOMAIN jobs
          /\ \A j \in DOMAIN jobs : j < Len(jobs) + 1 /\ jobs'[j] = jobs[j]
          /\ jobs'[Len(jobs) + 1].no = submitted + 1
          /\ ActiveAt(jobs') = ActiveAt(jobs) \cup {Len(jobs) + 1}
          /\ PendingAt(jobs') = PendingAt(jobs) \cup {Len(jobs) + 1}
          /\ RunningAt(jobs') = RunningAt(jobs)
      BY <2>0, <2>1, SubmitEffect
    <3>2. asOf' = asOf
      BY <2>1 DEF SubmitWithID
    <3>3. \A i \in DOMAIN jobs : jobs[i].no \in 1..submitted /\ jobs'[i].no = jobs[i].no
      BY <3>1 DEF SubmissionOrder
    <3>4. \A i \in DOMAIN jobs : jobs'[i].no < jobs'[Len(jobs) + 1].no
      BY <2>0, <3>1, <3>3
    <3>5. /\ \A i \in DOMAIN jobs' : jobs'[i].no \in 1..submitted'
          /\ \A d \in Clients : asOf'[d] \in 0..submitted'
      BY <2>0, <3>1, <3>2, <3>3 DEF SubmissionOrder
    <3>6. \A i, j \in DOMAIN jobs' : i # j => jobs'[i].no # jobs'[j].no
      BY <2>0, <3>1, <3>3, <3>4, <3>5 DEF SubmissionOrder
    <3>7. \A i, j \in ActiveAt(jobs') : i < j => jobs'[i].no < jobs'[j].no
      BY <2>0, <2>a, <3>1, <3>3, <3>4 DEF SubmissionOrder
    <3>8. \A i \in DOMAIN jobs' \ PendingAt(jobs'), j \in PendingAt(jobs') :
            jobs'[i].no < jobs'[j].no
      BY <2>a, <3>1, <3>3, <3>4 DEF SubmissionOrder
    <3>9. \A i \in DOMAIN jobs' \ ActiveAt(jobs'), j \in RunningAt(jobs') :
            jobs'[i].no < jobs'[j].no
      BY <2>a, <3>1, <3>3 DEF SubmissionOrder
    <3> QED
      BY <3>5, <3>6, <3>7, <3>8, <3>9 DEF SubmissionOrder
  <2>2. ASSUME NEW c \in Clients, NEW id \in Ids, CallWait(c, id) PROVE SubmissionOrder'
    <3>1. \A d \in Clients : asOf'[d] \in 0..submitted
      BY <2>0, <2>2 DEF CallWait, TypeOK, SubmissionOrder
    <3> QED
      BY <2>2, <3>1 DEF CallWait, SubmissionOrder
  <2>3. ASSUME NEW c \in Clients, ScanInWait(c) PROVE SubmissionOrder'
    <3>1. \A i \in DOMAIN jobs : jobs[i].no \in 0..submitted
      BY <2>0 DEF SubmissionOrder
    <3>2. FirstWith(jobs, target[c]) \subseteq DOMAIN jobs
      BY DEF FirstWith
    <3>3. \A d \in Clients : asOf[d] \in 0..submitted
      BY DEF SubmissionOrder
    <3>4. ASSUME NEW n \in 0..submitted, asOf' = [asOf EXCEPT ![c] = n]
          PROVE  \A d \in Clients : asOf'[d] \in 0..submitted
      BY <2>0, <3>3, <3>4 DEF TypeOK
    <3>5. submitted \in 0..submitted
      BY <2>0
    <3>6. \A d \in Clients : asOf'[d] \in 0..submitted
      BY <2>3, <3>1, <3>2, <3>3, <3>4, <3>5 DEF ScanInWait
    <3> QED
      BY <2>3, <3>6 DEF ScanInWait, SubmissionOrder
  <2>4. CASE PickJob
    <3>1. CASE UNCHANGED jobs
      BY <2>4, <3>1 DEF PickJob, SubmissionOrder
    <3>2. ASSUME NEW i \in PendingAt(jobs), \A j \in PendingAt(jobs) : i <= j,
                 jobs' = [jobs EXCEPT ![i].status = "running"]
          PROVE  SubmissionOrder'
      <4>1. /\ DOMAIN jobs' = DOMAIN jobs
            /\ \A j \in DOMAIN jobs : jobs'[j].no = jobs[j].no
            /\ PendingAt(jobs') = PendingAt(jobs) \ {i}
            /\ RunningAt(jobs') = RunningAt(jobs) \cup {i}
            /\ ActiveAt(jobs') = ActiveAt(jobs)
        BY <2>0, <3>2, PickEffect
      <4>2. RunningAt(jobs) = {} /\ submitted' = submitted /\ asOf' = asOf
        BY <2>4 DEF PickJob, WorkerOwnsRunning
      <4>3. \A j \in PendingAt(jobs) \ {i} : jobs[i].no < jobs[j].no
        <5>1. \A j \in PendingAt(jobs) \ {i} : i < j
          BY <2>0, <2>a, <3>2
        <5> QED
          BY <2>a, <5>1 DEF SubmissionOrder
      <4>4. \A k \in DOMAIN jobs' \ PendingAt(jobs'), j \in PendingAt(jobs') :
              jobs'[k].no < jobs'[j].no
        BY <2>a, <4>1, <4>3 DEF SubmissionOrder
      <4>5. \A k \in DOMAIN jobs' \ ActiveAt(jobs'), j \in RunningAt(jobs') :
              jobs'[k].no < jobs'[j].no
        BY <2>a, <4>1, <4>2 DEF SubmissionOrder
      <4>6. \A k, j \in ActiveAt(jobs') : k < j => jobs'[k].no < jobs'[j].no
        BY <2>a, <4>1 DEF SubmissionOrder
      <4> QED
        BY <4>1, <4>2, <4>4, <4>5, <4>6 DEF SubmissionOrder
    <3> QED
      BY <2>4, <3>1, <3>2 DEF PickJob
  <2>5. CASE FinishJob
    <3>1. idx \in DOMAIN jobs /\ RunningAt(jobs) = {idx} /\ idx \notin PendingAt(jobs)
      BY <2>5 DEF FinishJob, WorkerOwnsRunning, RunningAt, PendingAt
    <3>2. PICK from \in [DOMAIN jobs' -> DOMAIN jobs] :
            /\ \A k \in DOMAIN jobs' : jobs'[k].no = jobs[from[k]].no
            /\ \A k, l \in DOMAIN jobs' : k # l => from[k] # from[l]
            /\ \A k, l \in ActiveAt(jobs') : k < l => from[k] < from[l]
            /\ \A k \in DOMAIN jobs' : k \in PendingAt(jobs')
                    <=> from[k] \in PendingAt(jobs) \ {idx}
            /\ \A k \in DOMAIN jobs' : k \in RunningAt(jobs')
                    <=> from[k] \in RunningAt(jobs) \ {idx}
      BY <2>0, <2>5, <3>1, FinishEffect
    <3>3. /\ \A k \in ActiveAt(jobs') : k \in DOMAIN jobs' /\ from[k] \in ActiveAt(jobs)
          /\ PendingAt(jobs') \subseteq DOMAIN jobs' /\ RunningAt(jobs') \subseteq DOMAIN jobs'
      BY <3>2 DEF ActiveAt, PendingAt, RunningAt, Active
    <3>4. submitted' = submitted /\ asOf' = asOf
      BY <2>5 DEF FinishJob
    <3>5. \A i \in DOMAIN jobs' : jobs'[i].no \in 1..submitted'
      BY <3>2, <3>4 DEF SubmissionOrder
    <3>6. \A i, j \in DOMAIN jobs' : i # j => jobs'[i].no # jobs'[j].no
      BY <3>2 DEF SubmissionOrder
    <3>7. \A i, j \in ActiveAt(jobs') : i < j => jobs'[i].no < jobs'[j].no
      BY <3>2, <3>3 DEF SubmissionOrder
    <3>8. \A i \in DOMAIN jobs' \ PendingAt(jobs'), j \in PendingAt(jobs') :
            jobs'[i].no < jobs'[j].no
      <4> SUFFICES ASSUME NEW i \in DOMAIN jobs' \ PendingAt(jobs'), NEW j \in PendingAt(jobs')
                   PROVE  jobs'[i].no < jobs'[j].no
        OBVIOUS
      <4>1. from[j] \in PendingAt(jobs) /\ from[i] \in DOMAIN jobs \ PendingAt(jobs)
        BY <3>1, <3>2, <3>3
      <4>2. jobs[from[i]].no < jobs[from[j]].no
        BY <4>1 DEF SubmissionOrder
      <4> QED
        BY <3>2, <3>3, <4>2
    <3>9. RunningAt(jobs') = {}
      BY <3>1, <3>2, <3>3
    <3> QED
      BY <3>4, <3>5, <3>6, <3>7, <3>8, <3>9 DEF SubmissionOrder
  <2>6. CASE UNCHANGED <<jobs, submitted, asOf>>
    BY <2>6 DEF SubmissionOrder
  <2> QED
    BY <2>1, <2>2, <2>3, <2>4, <2>5, <2>6
       DEF Next, ClientStep, WorkerStep, SignalSubmitted, TakeToken,
           StopWorker, SignalNext, Cancel, vars
<1> QED
  BY <1>1, <1>2, TypesAndIndexInductive, PTL DEF Spec

\* No wakeup is lost except after a failed job; a call sleeps in Wait only while
\* its job is pending or running; what Wait answered stays true.
LEMMA WaitingInductive == Spec => []Waiting
<1>1. Init => Waiting
  BY DEF Init, Waiting, NoLostWakeup, BlockedOnActive, AnsweredJobIsOver, PendingAt
<1>2. TypesAndIndex /\ SubmissionOrder /\ Waiting /\ [Next]_vars => Waiting'
  <2> SUFFICES ASSUME TypesAndIndex, SubmissionOrder, Waiting, [Next]_vars PROVE Waiting'
    OBVIOUS
  <2> USE DEF TypesAndIndex, Waiting
  <2>0. TypeOK /\ submitted \in Nat /\ jobs \in Seq(Job)
    BY DEF TypeOK
  <2>a. ActiveAt(jobs) \subseteq DOMAIN jobs
    BY DEF ActiveAt
  <2>1. ASSUME NEW c \in Clients, NEW id \in Ids, SubmitWithID(c, id) PROVE Waiting'
    <3>1. /\ DOMAIN jobs' = DOMAIN jobs \cup {Len(jobs) + 1}
          /\ \A j \in DOMAIN jobs : j < Len(jobs) + 1 /\ jobs'[j] = jobs[j]
          /\ jobs'[Len(jobs) + 1].no = submitted + 1
          /\ ActiveAt(jobs') = ActiveAt(jobs) \cup {Len(jobs) + 1}
      BY <2>0, <2>1, SubmitEffect
    <3>2. /\ client' = [client EXCEPT ![c] = "signal"]
          /\ UNCHANGED <<worker, notify, failed, target, answer, asOf>>
      BY <2>1 DEF SubmitWithID
    <3>3. NoLostWakeup'
      BY <2>0, <3>2 DEF NoLostWakeup, TypeOK
    <3>4. BlockedOnActive'
      <4>1. ASSUME NEW d \in Clients, client'[d] = "blocked"
            PROVE  \E i \in FirstWith(jobs', target'[d]) : Active(jobs'[i])
        <5>1. PICK i \in FirstWith(jobs, target[d]) : Active(jobs[i])
          BY <2>0, <3>2, <4>1 DEF BlockedOnActive, TypeOK
        <5>2. i \in DOMAIN jobs /\ jobs'[i] = jobs[i]
          BY <3>1 DEF FirstWith
        <5>3. jobs[i].id = target[d] /\ \A j \in DOMAIN jobs : jobs[j].id = target[d] => i <= j
          BY <5>1 DEF FirstWith
        <5>4. i <= Len(jobs) + 1
          BY <2>0, <3>1, <5>2
        <5>5. \A j \in DOMAIN jobs' : jobs'[j].id = target[d] => i <= j
          BY <3>1, <5>3, <5>4
        <5>6. i \in FirstWith(jobs', target'[d])
          BY <3>1, <3>2, <5>2, <5>3, <5>5 DEF FirstWith
        <5> QED
          BY <5>1, <5>2, <5>6
      <4> QED
        BY <4>1 DEF BlockedOnActive
    <3>5. AnsweredJobIsOver'
      <4>1. \A d \in Clients : asOf[d] \in 0..submitted /\ jobs'[Len(jobs) + 1].no > asOf[d]
        BY <2>0, <3>1 DEF SubmissionOrder
      <4> QED
        BY <2>a, <3>1, <3>2, <4>1 DEF AnsweredJobIsOver
    <3> QED
      BY <3>3, <3>4, <3>5
  <2>2. ASSUME NEW c \in Clients, SignalSubmitted(c) PROVE Waiting'
    BY <2>2 DEF SignalSubmitted, NoLostWakeup, BlockedOnActive, AnsweredJobIsOver, TypeOK
  <2>3. ASSUME NEW c \in Clients, NEW id \in Ids, CallWait(c, id) PROVE Waiting'
    BY <2>3 DEF CallWait, NoLostWakeup, BlockedOnActive, AnsweredJobIsOver, TypeOK
  <2>4. ASSUME NEW c \in Clients, ScanInWait(c) PROVE Waiting'
    <3>0. /\ UNCHANGED <<jobs, target, worker, notify, failed>>
          /\ \A d \in Clients \ {c} :
                client'[d] = client[d] /\ answer'[d] = answer[d] /\ asOf'[d] = asOf[d]
      BY <2>0, <2>4 DEF ScanInWait, TypeOK
    <3>a. \A i \in DOMAIN jobs : jobs[i] \in Job
      BY <2>0
    <3>b. \A i \in DOMAIN jobs : Active(jobs[i]) <=> ~IsOver(jobs[i])
      BY <3>a DEF Job, Status, IsOver, Active
    <3>1. NoLostWakeup'
      BY <2>4 DEF ScanInWait, NoLostWakeup, TypeOK
    <3>2. BlockedOnActive'
      <4>1. client'[c] = "blocked" => \E i \in FirstWith(jobs, target[c]) : Active(jobs[i])
        <5>1. FirstWith(jobs, target[c]) \subseteq DOMAIN jobs
          BY DEF FirstWith
        <5> QED
          BY <2>0, <2>4, <3>b, <5>1 DEF ScanInWait, TypeOK
      <4> QED
        BY <3>0, <4>1 DEF BlockedOnActive
    <3>3. AnsweredJobIsOver'
      <4>1. ASSUME NEW j \in ActiveAt(jobs), jobs[j].id = target[c], answer'[c] # "none"
            PROVE  jobs[j].no > asOf'[c]
        <5>1. CASE \A i \in DOMAIN jobs : jobs[i].id # target[c]
          BY <2>a, <4>1, <5>1
        <5>2. ASSUME NEW i \in FirstWith(jobs, target[c]), IsOver(jobs[i]), asOf'[c] = jobs[i].no
              PROVE  jobs[j].no > asOf'[c]
          <6>1. i \in DOMAIN jobs \ ActiveAt(jobs)
            BY <3>b, <5>2 DEF FirstWith, ActiveAt
          <6>2. j \in PendingAt(jobs) \/ j \in RunningAt(jobs)
            BY DEF ActiveAt, PendingAt, RunningAt, Active
          <6>3. PendingAt(jobs) \subseteq ActiveAt(jobs)
            BY DEF ActiveAt, PendingAt, Active
          <6>4. jobs[i].no < jobs[j].no
            BY <6>1, <6>2, <6>3 DEF SubmissionOrder
          <6>5. jobs[i].no \in Nat /\ jobs[j].no \in Nat
            BY <2>a, <3>a, <6>1 DEF Job
          <6> QED
            BY <5>2, <6>4, <6>5
        <5>3. CASE answer'[c] = answer[c] /\ asOf'[c] = asOf[c]
          BY <4>1, <5>3 DEF AnsweredJobIsOver
        <5> QED
          BY <2>0, <2>4, <5>1, <5>2, <5>3 DEF ScanInWait, TypeOK
      <4> QED
        BY <3>0, <4>1 DEF AnsweredJobIsOver
    <3> QED
      BY <3>1, <3>2, <3>3
  <2>5. CASE TakeToken
    BY <2>5 DEF TakeToken, NoLostWakeup, BlockedOnActive, AnsweredJobIsOver
  <2>6. CASE StopWorker
    BY <2>6 DEF StopWorker, NoLostWakeup, BlockedOnActive, AnsweredJobIsOver
  <2>7. CASE PickJob
    <3>1. CASE PendingAt(jobs) = {} /\ UNCHANGED jobs
      BY <2>7, <3>1 DEF PickJob, NoLostWakeup, BlockedOnActive, AnsweredJobIsOver
    <3>2. ASSUME NEW i \in PendingAt(jobs), jobs' = [jobs EXCEPT ![i].status = "running"],
                 worker' = "run"
          PROVE  Waiting'
      <4>1. /\ DOMAIN jobs' = DOMAIN jobs
            /\ \A j \in DOMAIN jobs : jobs'[j].id = jobs[j].id /\ jobs'[j].no = jobs[j].no
            /\ ActiveAt(jobs') = ActiveAt(jobs)
        BY <2>0, <3>2, PickEffect
      <4>2. UNCHANGED <<client, target, answer, asOf>>
        BY <2>7 DEF PickJob
      <4>3. NoLostWakeup'
        BY <3>2 DEF NoLostWakeup
      <4>4. BlockedOnActive'
        <5>1. \A d \in Clients : FirstWith(jobs', target[d]) = FirstWith(jobs, target[d])
          BY <4>1 DEF FirstWith
        <5>2. \A j \in DOMAIN jobs : Active(jobs'[j]) <=> Active(jobs[j])
          BY <4>1 DEF ActiveAt
        <5>3. \A d \in Clients : FirstWith(jobs, target[d]) \subseteq DOMAIN jobs
          BY DEF FirstWith
        <5> QED
          BY <4>2, <5>1, <5>2, <5>3 DEF BlockedOnActive
      <4>5. AnsweredJobIsOver'
        BY <2>a, <4>1, <4>2 DEF AnsweredJobIsOver
      <4> QED
        BY <4>3, <4>4, <4>5
    <3> QED
      BY <2>7, <3>1, <3>2 DEF PickJob
  <2>8. CASE FinishJob
    <3>1. idx \in DOMAIN jobs
      BY <2>8 DEF FinishJob, WorkerOwnsRunning, RunningAt
    <3>2. PICK from \in [DOMAIN jobs' -> DOMAIN jobs] :
            /\ \A k \in DOMAIN jobs' : jobs'[k].id = jobs[from[k]].id /\ jobs'[k].no = jobs[from[k]].no
            /\ \A k \in DOMAIN jobs' : k \in PendingAt(jobs')
                    <=> from[k] \in PendingAt(jobs) \ {idx}
            /\ \A k \in DOMAIN jobs' : k \in RunningAt(jobs')
                    <=> from[k] \in RunningAt(jobs) \ {idx}
      BY <2>0, <2>8, <3>1, FinishEffect
    <3>3. \A k \in ActiveAt(jobs') : k \in DOMAIN jobs' /\ from[k] \in ActiveAt(jobs)
      BY <3>2 DEF ActiveAt, PendingAt, RunningAt, Active
    <3>4. NoLostWakeup'
      BY <2>8 DEF FinishJob, NoLostWakeup
    <3>5. BlockedOnActive'
      BY <2>8 DEF FinishJob, Broadcast, BlockedOnActive
    <3>6. AnsweredJobIsOver'
      BY <2>8, <3>2, <3>3 DEF FinishJob, AnsweredJobIsOver
    <3> QED
      BY <3>4, <3>5, <3>6
  <2>9. CASE SignalNext
    BY <2>9 DEF SignalNext, NoLostWakeup, BlockedOnActive, AnsweredJobIsOver
  <2>10. CASE Cancel
    BY <2>10 DEF Cancel, NoLostWakeup, BlockedOnActive, AnsweredJobIsOver
  <2>11. CASE UNCHANGED vars
    BY <2>11 DEF vars, NoLostWakeup, BlockedOnActive, AnsweredJobIsOver
  <2> QED
    BY <2>1, <2>2, <2>3, <2>4, <2>5, <2>6, <2>7, <2>8, <2>9, <2>10, <2>11
       DEF Next, ClientStep, WorkerStep
<1> QED
  BY <1>1, <1>2, TypesAndIndexInductive, SubmissionOrderInductive, PTL DEF Spec

\* A pending job is left without a signal on its way only after a failed job.
THEOREM SignalsReachPendingJobs == Spec => []NoLostWakeup
<1>1. Waiting => NoLostWakeup
  BY DEF Waiting
<1> QED
  BY <1>1, WaitingInductive, PTL

\* A call sleeps in Wait only while the first job of its ID is pending or running.
THEOREM NoMissedBroadcast == Spec => []BlockedOnActive
<1>1. Waiting => BlockedOnActive
  BY DEF Waiting
<1> QED
  BY <1>1, WaitingInductive, PTL

\* Whatever IDs come back: the job Wait has answered for is over and stays over,
\* and so are all that were submitted under its ID before.
THEOREM WaitAnswersForFinishedJobs == Spec => []AnsweredJobIsOver
<1>1. Waiting => AnsweredJobIsOver
  BY DEF Waiting
<1> QED
  BY <1>1, WaitingInductive, PTL

-----------------------------------------------------------------------------
(* Refinement *)

\* The queue implements the serial executor: every step submits a job, starts the
\* oldest waiting one, finishes the running one, or changes nothing of these.
THEOREM QueueImplementsExecutor == Spec => ImplementsExecutor
<1> USE DEF Executor!vars
<1>1. Init => Executor!Init
  BY DEF Init, Executor!Init, PendingAt
<1>2. TypesAndIndex /\ SubmissionOrder /\ [Next]_vars => [Executor!Next]_(Executor!vars)
  <2> SUFFICES ASSUME TypesAndIndex, SubmissionOrder, [Next]_vars
               PROVE  [Executor!Next]_(Executor!vars)
    OBVIOUS
  <2> USE DEF TypesAndIndex
  <2>0. TypeOK /\ submitted \in Nat /\ jobs \in Seq(Job)
    BY DEF TypeOK
  <2>1. ASSUME NEW c \in Clients, NEW id \in Ids, SubmitWithID(c, id) PROVE Executor!Submit
    <3>1. /\ submitted' = submitted + 1
          /\ \A j \in DOMAIN jobs : jobs'[j] = jobs[j]
          /\ jobs'[Len(jobs) + 1].no = submitted + 1
          /\ PendingAt(jobs') = PendingAt(jobs) \cup {Len(jobs) + 1}
      BY <2>0, <2>1, SubmitEffect
    <3>2. PendingAt(jobs) \subseteq DOMAIN jobs
      BY DEF PendingAt
    <3>3. worker' = worker /\ idx' = idx
      BY <2>1 DEF SubmitWithID
    <3>4. worker = "run" => jobs'[idx] = jobs[idx]
      BY <3>1 DEF WorkerOwnsRunning, RunningAt
    <3> QED
      BY <3>1, <3>2, <3>3, <3>4 DEF Executor!Submit
  <2>2. CASE PickJob
    <3>1. CASE UNCHANGED jobs /\ worker' = "select"
      BY <2>2, <3>1 DEF PickJob
    <3>2. ASSUME NEW i \in PendingAt(jobs), \A j \in PendingAt(jobs) : i <= j,
                 jobs' = [jobs EXCEPT ![i].status = "running"], idx' = i, worker' = "run"
          PROVE  Executor!StartOldest
      <4>1. /\ \A j \in DOMAIN jobs : jobs'[j].no = jobs[j].no
            /\ PendingAt(jobs') = PendingAt(jobs) \ {i}
        BY <2>0, <3>2, PickEffect
      <4>2. /\ PendingAt(jobs) \subseteq DOMAIN jobs
            /\ PendingAt(jobs) \subseteq ActiveAt(jobs)
        BY DEF PendingAt, ActiveAt, Active
      <4>3. \A j \in PendingAt(jobs) : j # i => jobs[i].no < jobs[j].no
        BY <2>0, <3>2, <4>2 DEF SubmissionOrder
      <4>4. \A m \in {jobs[j].no : j \in PendingAt(jobs)} : jobs[i].no <= m
        BY <2>0, <4>2, <4>3 DEF SubmissionOrder
      <4>5. {jobs'[j].no : j \in PendingAt(jobs')}
              = {jobs[j].no : j \in PendingAt(jobs)} \ {jobs[i].no}
        BY <4>1, <4>2 DEF SubmissionOrder
      <4>6. worker = "pick" /\ submitted' = submitted
        BY <2>2 DEF PickJob
      <4>7. jobs'[i].no = jobs[i].no
        BY <4>1, <4>2
      <4> QED
        BY <3>2, <4>4, <4>5, <4>6, <4>7 DEF Executor!StartOldest
    <3> QED
      BY <2>2, <3>1, <3>2 DEF PickJob, Executor!Next
  <2>3. CASE FinishJob
    <3>1. worker = "run" /\ RunningAt(jobs) = {idx} /\ worker' # "run" /\ submitted' = submitted
      BY <2>3 DEF FinishJob, WorkerOwnsRunning
    <3>2. idx \in DOMAIN jobs /\ idx \notin PendingAt(jobs)
      BY <3>1 DEF RunningAt, PendingAt
    <3>3. PICK from \in [DOMAIN jobs' -> DOMAIN jobs] :
            /\ \A k \in DOMAIN jobs' : jobs'[k].no = jobs[from[k]].no
            /\ \A k \in DOMAIN jobs' : k \in PendingAt(jobs')
                    <=> from[k] \in PendingAt(jobs) \ {idx}
            /\ \A i \in ActiveAt(jobs) \ {idx} : \E k \in DOMAIN jobs' : from[k] = i
      BY <2>0, <2>3, <3>2, FinishEffect
    <3>4. \A i \in PendingAt(jobs) : i \in ActiveAt(jobs) \ {idx}
      BY <3>2 DEF PendingAt, ActiveAt, Active
    <3>5. \A k \in PendingAt(jobs') : k \in DOMAIN jobs'
      BY DEF PendingAt
    <3>6. {jobs'[k].no : k \in PendingAt(jobs')} = {jobs[i].no : i \in PendingAt(jobs)}
      BY <3>2, <3>3, <3>4, <3>5
    <3>7. jobs[idx].no # 0
      BY <2>0, <3>2 DEF SubmissionOrder
    <3> QED
      BY <3>1, <3>6, <3>7 DEF Executor!Finish, Executor!Next
  <2>4. CASE UNCHANGED <<jobs, submitted, idx>> /\ (worker' = "run" <=> worker = "run")
    BY <2>4
  <2> QED
    BY <2>1, <2>2, <2>3, <2>4
       DEF Next, ClientStep, WorkerStep, SignalSubmitted, CallWait, ScanInWait,
           TakeToken, StopWorker, SignalNext, Cancel, vars, Executor!Next
<1> QED
  BY <1>1, <1>2, TypesAndIndexInductive, SubmissionOrderInductive, PTL
     DEF Spec, ImplementsExecutor, Executor!Spec

-----------------------------------------------------------------------------
(* The history *)

OverAt(s) == DOMAIN s \ ActiveAt(s)

\* When prune has no room for history it copies the active entries alone, since
\* they are copied first and there are as many as it copies.
LEMMA OnlyActiveCopied ==
    ASSUME NEW s \in Seq(Job), PrunedLen(s) = Cardinality(ActiveAt(s)),
           NEW from \in [1..PrunedLen(s) -> DOMAIN s], IsCopyOrder(s, from),
           NEW k \in 1..PrunedLen(s)
    PROVE  from[k] \in ActiveAt(s)
<1> DEFINE n == PrunedLen(s)
           A == ActiveAt(s)
           place == [i \in A |-> CHOOSE j \in 1..n : from[j] = i]
<1>1. IsFiniteSet(A) /\ n \in Nat
  BY ActiveFinite
<1>2. IsFiniteSet(1..n) /\ Cardinality(1..n) = n
  BY <1>1, FS_Interval
<1>3. \A i \in A : place[i] \in 1..n /\ from[place[i]] = i
  BY CopyKeepsActive
<1> HIDE DEF place
<1>4. place \in [A -> 1..n]
  BY <1>3 DEF place
<1>5. \A i, j \in A : place[i] = place[j] => i = j
  BY <1>3
<1>6. place \in Injection(A, 1..n)
  BY <1>4, <1>5 DEF Injection, IsInjective
<1>7. place \in Surjection(A, 1..n)
  BY <1>2, <1>6, FS_Injection
<1>8. \E i \in A : place[i] = k
  BY <1>7 DEF Surjection
<1> QED
  BY <1>3, <1>8

\* prune leaves no more than the history and what is active.
LEMMA PrunedHistory ==
    ASSUME NEW s \in Seq(Job), NEW t \in Pruned(s)
    PROVE  Cardinality(OverAt(t)) <= MaxHistory
<1> DEFINE few(m) == m \in Nat /\ m <= MaxHistory /\ OverAt(t) \subseteq 1..m
<1>1. ASSUME NEW m, few(m) PROVE Cardinality(OverAt(t)) <= MaxHistory
  <2>1. IsFiniteSet(1..m) /\ Cardinality(1..m) = m
    BY <1>1, FS_Interval
  <2>2. IsFiniteSet(OverAt(t)) /\ Cardinality(OverAt(t)) <= m
    BY <1>1, <2>1, FS_Subset
  <2>3. Cardinality(OverAt(t)) \in Nat
    BY <2>2, FS_CardinalityType
  <2> QED
    BY <1>1, <2>2, <2>3, MaxHistoryAssumption
<1>2. CASE Len(s) <= MaxHistory
  <2>1. t = s
    BY <1>2 DEF Pruned
  <2>2. few(Len(s))
    BY <1>2, <2>1 DEF OverAt
  <2> QED
    BY <1>1, <2>2
<1>3. CASE ~(Len(s) <= MaxHistory)
  <2>1. PICK from \in [1..PrunedLen(s) -> DOMAIN s] :
          IsCopyOrder(s, from) /\ t = [k \in 1..PrunedLen(s) |-> s[from[k]]]
    BY <1>3 DEF Pruned
  <2>2. PrunedLen(s) \in Nat /\ DOMAIN t = 1..PrunedLen(s)
    BY <2>1, ActiveFinite, MaxHistoryAssumption DEF PrunedLen
  <2>3. CASE Cardinality(ActiveAt(s)) < MaxHistory
    <3>1. PrunedLen(s) = MaxHistory
      BY <2>3 DEF PrunedLen
    <3>2. few(PrunedLen(s))
      BY <2>2, <3>1 DEF OverAt
    <3> QED
      BY <1>1, <3>2
  <2>4. CASE ~(Cardinality(ActiveAt(s)) < MaxHistory)
    <3>1. PrunedLen(s) = Cardinality(ActiveAt(s))
      BY <2>4 DEF PrunedLen
    <3>2. \A k \in DOMAIN t : from[k] \in ActiveAt(s)
      BY <2>1, <2>2, <3>1, OnlyActiveCopied
    <3>3. \A k \in DOMAIN t : t[k] = s[from[k]]
      BY <2>1, <2>2
    <3>4. OverAt(t) = {}
      BY <3>2, <3>3 DEF OverAt, ActiveAt
    <3> QED
      BY <3>4, FS_EmptySet, MaxHistoryAssumption
  <2> QED
    BY <2>3, <2>4
<1> QED
  BY <1>2, <1>3

\* However many jobs are submitted while others finish, at most maxHistory that
\* are over stay in q.jobs: submitting adds none, and finishing one prunes.
THEOREM HistoryStaysBounded == Spec => []HistoryBounded
<1>1. Init => HistoryBounded
  BY FS_EmptySet, MaxHistoryAssumption DEF Init, HistoryBounded
<1>2. TypesAndIndex /\ HistoryBounded /\ [Next]_vars => HistoryBounded'
  <2> SUFFICES ASSUME TypesAndIndex, HistoryBounded, [Next]_vars PROVE HistoryBounded'
    OBVIOUS
  <2>1. jobs \in Seq(Job)
    BY DEF TypesAndIndex, TypeOK
  <2>2. Cardinality(OverAt(jobs)) <= MaxHistory
    BY DEF HistoryBounded, OverAt
  <2>3. ASSUME OverAt(jobs') = OverAt(jobs) PROVE HistoryBounded'
    BY <2>2, <2>3 DEF HistoryBounded, OverAt
  <2>4. ASSUME NEW c \in Clients, NEW id \in Ids, SubmitWithID(c, id) PROVE HistoryBounded'
    <3>1. [id |-> id, no |-> submitted', status |-> "pending"] \in Job
      BY <2>4 DEF SubmitWithID, TypesAndIndex, TypeOK, Job, Status
    <3>2. /\ DOMAIN jobs' = DOMAIN jobs \cup {Len(jobs) + 1}
          /\ Len(jobs) + 1 \notin DOMAIN jobs
          /\ \A j \in DOMAIN jobs : jobs'[j] = jobs[j]
          /\ jobs'[Len(jobs) + 1] = [id |-> id, no |-> submitted', status |-> "pending"]
      BY <2>1, <2>4, <3>1, AppendJob DEF SubmitWithID
    <3>3. Active(jobs'[Len(jobs) + 1])
      BY <3>2 DEF Active
    <3>4. OverAt(jobs') = OverAt(jobs)
      BY <3>2, <3>3 DEF OverAt, ActiveAt
    <3> QED
      BY <2>3, <3>4
  <2>5. CASE PickJob
    <3>1. CASE UNCHANGED jobs
      BY <2>3, <3>1
    <3>2. ASSUME NEW i \in PendingAt(jobs), jobs' = [jobs EXCEPT ![i].status = "running"]
          PROVE  HistoryBounded'
      <4>1. DOMAIN jobs' = DOMAIN jobs /\ ActiveAt(jobs') = ActiveAt(jobs)
        BY <2>1, <3>2, PickEffect
      <4> QED
        BY <2>3, <4>1 DEF OverAt
    <3> QED
      BY <2>5, <3>1, <3>2 DEF PickJob
  <2>6. CASE FinishJob
    <3>1. PICK outcome \in {"done", "failed"} :
            jobs' \in Pruned([jobs EXCEPT ![idx].status = outcome])
      BY <2>6 DEF FinishJob
    <3>2. idx \in DOMAIN jobs /\ outcome \in Status
      BY <2>6, <3>1 DEF FinishJob, TypesAndIndex, WorkerOwnsRunning, RunningAt, Status
    <3>3. [jobs EXCEPT ![idx].status = outcome] \in Seq(Job)
      BY <2>1, <3>2, SetStatus
    <3> QED
      BY <3>1, <3>3, PrunedHistory DEF HistoryBounded, OverAt
  <2>7. CASE UNCHANGED jobs
    BY <2>3, <2>7
  <2> QED
    BY <2>4, <2>5, <2>6, <2>7
       DEF Next, ClientStep, WorkerStep, SignalSubmitted, CallWait, ScanInWait, TakeToken,
           StopWorker, SignalNext, Cancel, vars
<1> QED
  BY <1>1, <1>2, TypesAndIndexInductive, PTL DEF Spec

=============================================================================
