--------------------------- MODULE Watcher_proofs ---------------------------
(***************************************************************************)
(* What Watcher promises for any files and any number of notifications:    *)
(* types, silence after Stop, and that no notified change is lost among    *)
(* the queue, the map of pending paths, the timers and their batches.      *)
(***************************************************************************)
EXTENDS Watcher, SequenceTheorems, TLAPS

-----------------------------------------------------------------------------
(* Types *)

LEMMA NoteType ==
    ASSUME TypeOK, NEW p \in Paths, Note(p)
    PROVE  /\ pending' \subseteq Paths
           /\ timers' \in [Timer -> {"free", "armed", "fired", "flushing"}]
           /\ current' \in Timer \cup {0}
           /\ batch' = batch
<1>1. PICK t \in Timer :
        /\ timers' = [u \in Timer |->
                        IF u = t THEN "armed"
                        ELSE IF u = current /\ timers[u] = "armed" THEN "free" ELSE timers[u]]
        /\ current' = t
  BY DEF Note
<1>2. timers' \in [Timer -> {"free", "armed", "fired", "flushing"}]
  BY <1>1 DEF TypeOK
<1> QED
  BY <1>1, <1>2 DEF Note, TypeOK

\* handleEvent is called with an event.
HandlesAPath == run = "handle" => event \in Paths

LEMMA HandlesAPathStep == TypeOK /\ HandlesAPath /\ [Next]_vars => HandlesAPath'
<1> SUFFICES ASSUME TypeOK, HandlesAPath, [Next]_vars, run' = "handle" PROVE event' \in Paths
  BY DEF HandlesAPath
<1>1. CASE Receive
  <2>1. Head(queue) \in Paths
    BY <1>1 DEF Receive, TypeOK
  <2> QED
    BY <1>1, <2>1 DEF Receive
<1>2. CASE ~Receive
  <2>1. run = "handle" /\ event' = event
    BY <1>2 DEF Next, Loop, FlushStep, vars, outside, goroutine, debounce, Change, Evaluate, Leave,
       HandleEvent, AddRecursive, Fire, TakePending, Report, Cancel, Close, SetNil, Clear
  <2> QED
    BY <2>1 DEF HandlesAPath
<1> QED
  BY <1>1, <1>2

\* Every reachable state has the types of the Go declarations, and w.mu is held
\* across steps exactly while a new directory is added.
THEOREM TypeCorrect == Spec => []TypeOK
<1>1. Init => TypeOK /\ HandlesAPath
  <2> SUFFICES ASSUME Init PROVE TypeOK /\ HandlesAPath
    OBVIOUS
  <2>1. queue \in Seq(Paths)
    BY DEF Init
  <2>2. /\ timers \in [Timer -> {"free", "armed", "fired", "flushing"}]
        /\ batch \in [Timer -> SUBSET Paths]
    BY DEF Init
  <2> QED
    BY <2>1, <2>2 DEF Init, TypeOK, HandlesAPath, Paths, Files
<1>2. TypeOK /\ HandlesAPath /\ [Next]_vars => TypeOK'
  <2> SUFFICES ASSUME TypeOK, HandlesAPath, [Next]_vars PROVE TypeOK'
    OBVIOUS
  <2> USE DEF outside, goroutine, debounce
  <2>1. ASSUME NEW p \in Paths, Change(p) PROVE TypeOK'
    BY <2>1 DEF Change, TypeOK
  <2>2. CASE Evaluate
    BY <2>2 DEF Evaluate, TypeOK
  <2>3. CASE Receive
    <3>1. Head(queue) \in Paths /\ Tail(queue) \in Seq(Paths)
      BY <2>3 DEF Receive, TypeOK
    <3> QED
      BY <2>3, <3>1 DEF Receive, TypeOK
  <2>4. CASE Leave
    BY <2>4 DEF Leave, TypeOK
  <2>5. CASE HandleEvent
    <3>1. CASE Cancelled
      BY <2>5, <3>1 DEF HandleEvent, TypeOK
    <3>2. CASE ~Cancelled /\ event = Sub
      BY <2>5, <3>2 DEF HandleEvent, TypeOK
    <3>3. CASE ~Cancelled /\ event # Sub
      <4>1. /\ run' = "loop" /\ event' = None /\ Note(event)
            /\ UNCHANGED <<held, outside, stop, due>>
        BY <2>5, <3>3 DEF HandleEvent
      <4>2. event \in Paths
        BY <2>5 DEF HandleEvent, HandlesAPath
      <4>3. /\ pending' \subseteq Paths
            /\ timers' \in [Timer -> {"free", "armed", "fired", "flushing"}]
            /\ current' \in Timer \cup {0}
            /\ batch' = batch
        BY <4>1, <4>2, NoteType
      <4>4. ~held
        BY <2>5 DEF HandleEvent
      <4> QED
        BY <4>1, <4>3, <4>4 DEF TypeOK
    <3> QED
      BY <3>1, <3>2, <3>3
  <2>6. CASE AddRecursive
    <3>1. Sub \in Paths /\ SubFiles \subseteq Paths
      BY DEF Paths, Files
    <3>2. CASE Note(Sub)
      BY <2>6, <3>1, <3>2, NoteType DEF AddRecursive, TypeOK
    <3>3. CASE ~Note(Sub)
      BY <2>6, <3>3 DEF AddRecursive, TypeOK
    <3> QED
      BY <3>2, <3>3
  <2>7. ASSUME NEW t \in Timer, Fire(t) PROVE TypeOK'
    BY <2>7 DEF Fire, TypeOK
  <2>8. ASSUME NEW t \in Timer, TakePending(t) PROVE TypeOK'
    BY <2>8 DEF TakePending, TypeOK
  <2>9. ASSUME NEW t \in Timer, NEW p \in Paths, Report(t, p) PROVE TypeOK'
    BY <2>9 DEF Report, TypeOK
  <2>10. CASE Cancel \/ SetNil
    BY <2>10 DEF Cancel, SetNil, TypeOK
  <2>13. CASE Close
    <3>1. <<>> \in Seq(Paths)
      OBVIOUS
    <3> QED
      BY <2>13, <3>1 DEF Close, TypeOK
  <2>11. CASE Clear
    BY <2>11 DEF Clear, TypeOK
  <2>12. CASE UNCHANGED vars
    BY <2>12 DEF vars, TypeOK
  <2> QED
    BY <2>1, <2>2, <2>3, <2>4, <2>5, <2>6, <2>7, <2>8, <2>9, <2>10, <2>11, <2>12, <2>13
       DEF Next, Loop, FlushStep
<1> QED
  BY <1>1, <1>2, HandlesAPathStep, PTL DEF Spec

-----------------------------------------------------------------------------
(* Silence *)

\* When Stop has returned nothing is pending: who adds a path either saw the context
\* cancelled, or held w.mu until Stop could take it and clear the map.
THEOREM StopIsQuiet == Spec => []StoppedIsQuiet
<1>1. Init => StoppedIsQuiet
  BY DEF Init, StoppedIsQuiet
<1>2. TypeOK /\ (stop = "stopped" => ~held) /\ StoppedIsQuiet /\ [Next]_vars
      => StoppedIsQuiet' /\ (stop = "stopped" => ~held)'
  <2> SUFFICES ASSUME TypeOK, stop = "stopped" => ~held, StoppedIsQuiet, [Next]_vars,
                      stop' = "stopped"
               PROVE  pending' = {} /\ ~held'
    BY DEF StoppedIsQuiet
  <2>1. CASE Clear
    BY <2>1 DEF Clear, goroutine
  <2>2. stop = "stopped" \/ Clear
    BY DEF Next, Loop, FlushStep, vars, Change, Evaluate, Receive, Leave, HandleEvent,
       AddRecursive, Fire, TakePending, Report, Cancel, Close, SetNil
  <2>3. CASE stop = "stopped"
    <3>1. pending = {} /\ ~held /\ Cancelled /\ run # "add"
      BY <2>3 DEF StoppedIsQuiet, Cancelled, TypeOK
    <3> QED
      BY <2>3, <3>1 DEF Next, Loop, FlushStep, vars, goroutine, debounce, Change, Evaluate, Receive,
         Leave, HandleEvent, AddRecursive, Fire, TakePending, Report, Cancel, Close, SetNil, Clear
  <2> QED
    BY <2>1, <2>2, <2>3
<1>3. Init => (stop = "stopped" => ~held)
  BY DEF Init
<1> QED
  BY <1>1, <1>2, <1>3, TypeCorrect, PTL DEF Spec

-----------------------------------------------------------------------------
(* No notified change is lost *)

\* Where the goroutine has an event, and what a timer has in its batch.
Bookkeeping ==
    /\ run \in {"loop", "select", "returned"} => event = None
    /\ run = "add" => event = Sub
    /\ \A t \in Timer : timers[t] # "flushing" => batch[t] = {}

LEMMA BookkeepingInductive == Spec => []Bookkeeping
<1>1. Init => Bookkeeping
  BY DEF Init, Bookkeeping
<1>2. TypeOK /\ Bookkeeping /\ [Next]_vars => Bookkeeping'
  <2> SUFFICES ASSUME TypeOK, Bookkeeping, [Next]_vars PROVE Bookkeeping'
    OBVIOUS
  <2> USE DEF outside, goroutine, debounce, Bookkeeping
  <2>1. ASSUME NEW p, Note(p)
        PROVE  \A t \in Timer : timers'[t] # "flushing" => batch'[t] = {}
    <3>1. PICK t \in Timer :
            /\ timers[t] = "free"
            /\ timers' = [u \in Timer |->
                            IF u = t THEN "armed"
                            ELSE IF u = current /\ timers[u] = "armed" THEN "free"
                            ELSE timers[u]]
      BY <2>1 DEF Note
    <3>2. batch' = batch /\ batch[t] = {}
      BY <2>1, <3>1 DEF Note
    <3> QED
      BY <3>1, <3>2
  <2>2. CASE HandleEvent
    BY <2>1, <2>2 DEF HandleEvent
  <2>3. CASE AddRecursive
    BY <2>1, <2>3 DEF AddRecursive
  <2>4. ASSUME NEW t \in Timer, Fire(t) PROVE Bookkeeping'
    BY <2>4 DEF Fire, TypeOK
  <2>5. ASSUME NEW t \in Timer, TakePending(t) PROVE Bookkeeping'
    BY <2>5 DEF TakePending, TypeOK
  <2>6. ASSUME NEW t \in Timer, NEW p \in Paths, Report(t, p) PROVE Bookkeeping'
    BY <2>6 DEF Report, TypeOK
  <2>7. CASE Clear
    BY <2>7 DEF Clear, TypeOK
  <2>8. CASE UNCHANGED <<timers, batch>> /\ UNCHANGED <<run, event>>
    BY <2>8
  <2>9. CASE Evaluate \/ Receive \/ Leave
    BY <2>9 DEF Evaluate, Receive, Leave
  <2> QED
    BY <2>2, <2>3, <2>4, <2>5, <2>6, <2>7, <2>8, <2>9
       DEF Next, Loop, FlushStep, vars, Change, Cancel, Close, SetNil
<1> QED
  BY <1>1, <1>2, TypeCorrect, PTL DEF Spec

\* ChangeIsOnItsWay, with the timer that what is pending always has.
Ticking == \E t \in Timer : timers[t] \in {"armed", "fired"}
OnItsWay(p) ==
    \/ \E i \in DOMAIN queue : queue[i] = p
    \/ event = p
    \/ p \in pending
    \/ \E t \in Timer : p \in batch[t]
Kept ==
    ~Cancelled =>
        /\ pending # {} => Ticking
        /\ \A p \in due : OnItsWay(p)

\* A path that is noted is pending, nothing else is lost, and a timer ticks.
LEMMA NoteKeeps ==
    ASSUME TypeOK, NEW p, Note(p)
    PROVE  /\ Ticking' /\ pending' = pending \cup {p} /\ batch' = batch
  BY DEF Note, Ticking

LEMMA KeptInductive == Spec => []Kept
<1>1. Init => Kept
  BY DEF Init, Kept
<1>2. TypeOK /\ Bookkeeping /\ Kept /\ [Next]_vars => Kept'
  <2> SUFFICES ASSUME TypeOK, Bookkeeping, Kept, [Next]_vars, ~Cancelled'
               PROVE  /\ pending' # {} => Ticking'
                      /\ \A p \in due' : OnItsWay(p)'
    BY DEF Kept
  <2>0. ~Cancelled /\ stop = "no"
    BY DEF Cancelled, Next, Loop, FlushStep, vars, Change, Evaluate, Receive, Leave, HandleEvent,
       AddRecursive, Fire, TakePending, Report, Cancel, Close, SetNil, Clear
  <2>a. (pending # {} => Ticking) /\ \A p \in due : OnItsWay(p)
    BY <2>0 DEF Kept
  <2> USE <2>a DEF outside, goroutine, debounce, OnItsWay
  <2>1. ASSUME NEW p \in Paths, Change(p)
        PROVE  (pending' # {} => Ticking') /\ \A q \in due' : OnItsWay(q)'
    <3>1. UNCHANGED <<timers, pending, batch, event>>
      BY <2>1 DEF Change
    <3>2. CASE UNCHANGED <<queue, due>>
      BY <3>1, <3>2 DEF Ticking
    <3>3. CASE queue' = Append(queue, p) /\ due' = due \cup {p}
      <4>1. queue \in Seq(Paths)
        BY DEF TypeOK
      <4>2. /\ \A i \in DOMAIN queue : i \in DOMAIN queue' /\ queue'[i] = queue[i]
            /\ Len(queue) + 1 \in DOMAIN queue' /\ queue'[Len(queue) + 1] = p
        BY <3>3, <4>1
      <4> QED
        BY <3>1, <3>3, <4>2 DEF Ticking
    <3> QED
      BY <2>1, <3>2, <3>3 DEF Change
  <2>2. CASE Receive
    <3>1. UNCHANGED <<timers, pending, batch, due>> /\ event = None
      BY <2>2 DEF Receive, Bookkeeping
    <3>2. ASSUME NEW i \in DOMAIN queue
          PROVE  event' = queue[i] \/ \E j \in DOMAIN queue' : queue'[j] = queue[i]
      <4>1. queue \in Seq(Paths) /\ queue # <<>> /\ queue' = Tail(queue) /\ event' = Head(queue)
        BY <2>2 DEF Receive, TypeOK
      <4>2. CASE i = 1
        BY <4>1, <4>2
      <4>3. CASE i # 1
        <5>1. i - 1 \in DOMAIN queue' /\ queue'[i - 1] = queue[i]
          BY <4>1, <4>3
        <5> QED
          BY <5>1
      <4> QED
        BY <4>2, <4>3
    <3>3. \A p \in due : p # None
      BY PathsAssumption DEF TypeOK, Paths, Files
    <3> QED
      BY <3>1, <3>2, <3>3 DEF Ticking
  <2>3. CASE HandleEvent
    <3>1. CASE event = Sub
      BY <2>0, <2>3, <3>1 DEF HandleEvent, Ticking
    <3>2. CASE event # Sub
      BY <2>0, <2>3, <3>2, NoteKeeps DEF HandleEvent
    <3> QED
      BY <3>1, <3>2
  <2>4. CASE AddRecursive
    <3>1. Note(Sub) /\ UNCHANGED <<queue, due>> /\ event = Sub
      BY <2>0, <2>4 DEF AddRecursive, MayBeNil, Bookkeeping
    <3> QED
      BY <3>1, NoteKeeps
  <2>5. ASSUME NEW t \in Timer, Fire(t)
        PROVE  (pending' # {} => Ticking') /\ \A q \in due' : OnItsWay(q)'
    BY <2>5 DEF Fire, Ticking, TypeOK
  <2>6. ASSUME NEW t \in Timer, TakePending(t)
        PROVE  (pending' # {} => Ticking') /\ \A q \in due' : OnItsWay(q)'
    <3>1. batch[t] = {} /\ batch'[t] = pending /\ \A u \in Timer \ {t} : batch'[u] = batch[u]
      BY <2>6 DEF TakePending, Bookkeeping, TypeOK
    <3> QED
      BY <2>6, <3>1 DEF TakePending
  <2>7. ASSUME NEW t \in Timer, NEW p \in Paths, Report(t, p)
        PROVE  (pending' # {} => Ticking') /\ \A q \in due' : OnItsWay(q)'
    <3>1. timers[t] = "flushing"
      BY <2>7 DEF Report, Bookkeeping
    <3>2. Ticking => Ticking'
      BY <2>7, <3>1 DEF Report, Ticking, TypeOK
    <3>3. \A u \in Timer, q \in Paths \ {p} : q \in batch[u] => q \in batch'[u]
      BY <2>7 DEF Report, TypeOK
    <3> QED
      BY <2>7, <3>2, <3>3 DEF Report, TypeOK
  <2>8. CASE Clear \/ Close \/ SetNil \/ Cancel
    BY <2>0, <2>8 DEF Clear, Close, SetNil, Cancel, Cancelled
  <2>9. CASE Evaluate \/ Leave \/ UNCHANGED vars
    BY <2>9 DEF Evaluate, Leave, vars, Ticking
  <2> QED
    BY <2>1, <2>2, <2>3, <2>4, <2>5, <2>6, <2>7, <2>8, <2>9 DEF Next, Loop, FlushStep
<1> QED
  BY <1>1, <1>2, TypeCorrect, BookkeepingInductive, PTL DEF Spec

\* Until the watcher is stopped, a path with a notification that onChange was not
\* called for since is queued, being handled, pending with a timer, or in a batch.
THEOREM NoChangeIsLost == Spec => []ChangeIsOnItsWay
<1>1. Kept => ChangeIsOnItsWay
  BY DEF Kept, OnItsWay, Ticking, ChangeIsOnItsWay
<1> QED
  BY <1>1, KeptInductive, PTL

=============================================================================
