------------------------------ MODULE Watcher ------------------------------
(***************************************************************************)
(* One file watcher, internal/watcher/watcher.go, from Start to Stop: the  *)
(* goroutine that receives notifications, the map of pending paths and its *)
(* timers, and the flushes that hand the paths to onChange.                *)
(*                                                                         *)
(* One action is one critical section of w.mu, one read or write of the    *)
(* fields that Stop changes without it, or one event outside.  Start is    *)
(* over: restartWatcher makes a new watcher every time.  Below the watched *)
(* root there is one more directory, which may be created any time.        *)
(***************************************************************************)
EXTENDS Integers, Sequences, FiniteSets

CONSTANTS
    RootFiles,  \* files of the root directory
    SubFiles,   \* files of the directory that is created
    Sub,        \* that directory
    None,       \* no path
    MaxQueue,   \* how many notifications fit in the queue of the kernel
    MaxTimers   \* bound on the timers that run or flush at the same time, not in
                \* the code; they come back, and so do notifications, without end

ASSUME PathsAssumption ==
    /\ RootFiles \cap SubFiles = {}
    /\ Sub \notin RootFiles \cup SubFiles
    /\ None \notin RootFiles \cup SubFiles \cup {Sub}

VARIABLES
    exists,    \* was the directory created?
    watched,   \* the files whose directory fsnotify watches
    queue,     \* what it has still to deliver
    run,       \* where the goroutine of Start stands
    event,     \* the path of the event it handles
    held,      \* does it hold w.mu while it is in addRecursive?
    pending,   \* w.pending
    timers,    \* the state of the timers; a free one is stopped, or has flushed
    current,   \* w.timer, 0 for nil
    batch,     \* the paths that a flush has still to hand over
    stop,      \* where Stop stands
    due        \* ghost: paths with a notification that onChange was not called for since

vars == <<exists, watched, queue, run, event, held, pending, timers, current, batch, stop,
          due>>
outside == <<exists, watched, queue>>
goroutine == <<run, event, held>>
debounce == <<pending, timers, current, batch>>

Files == RootFiles \cup SubFiles
Paths == Files \cup {Sub}
Timer == 1..MaxTimers

Init ==
    /\ exists = FALSE
    /\ watched = RootFiles \cup {Sub}
    /\ queue = <<>>
    /\ run = "loop"
    /\ event = None
    /\ held = FALSE
    /\ pending = {}
    /\ timers = [t \in Timer |-> "free"]
    /\ current = 0
    /\ batch = [t \in Timer |-> {}]
    /\ stop = "no"
    /\ due = {}

Cancelled == stop # "no"

-----------------------------------------------------------------------------
(* The file system and fsnotify *)

\* A file or the directory is created, written, renamed or removed.  There is no
\* notification if its directory is not watched, the watcher is closed, or the
\* kernel's queue is full, of which run only logs an error.  Nothing ends the
\* notifications.
Change(p) ==
    /\ p \in SubFiles => exists
    /\ p = Sub => ~exists
    /\ exists' = (exists \/ p = Sub)
    /\ \/ UNCHANGED <<queue, due>>
       \/ /\ Len(queue) < MaxQueue
          /\ p \in watched
          /\ stop \in {"no", "cancelled"}
          /\ queue' = Append(queue, p)
          /\ due' = due \cup {p}
    /\ UNCHANGED <<watched, goroutine, debounce, stop>>

-----------------------------------------------------------------------------
(* run and handleEvent *)

\* w.watcher as a goroutine reads it that does not synchronise with Stop, which
\* sets it to nil: from then on it may read the old value or nil.
MayBeNil == stop \in {"nil", "stopped"}

\* The select evaluates w.watcher.Events.
Evaluate ==
    /\ run = "loop"
    /\ run' \in IF MayBeNil THEN {"select", "panic"} ELSE {"select"}
    /\ UNCHANGED <<outside, event, held, debounce, stop, due>>

Receive ==
    /\ run = "select"
    /\ queue # <<>>
    /\ event' = Head(queue)
    /\ queue' = Tail(queue)
    /\ run' = "handle"
    /\ UNCHANGED <<exists, watched, held, debounce, stop, due>>

\* The context is cancelled, or the channel of events is closed.
Leave ==
    /\ run = "select"
    /\ Cancelled
    /\ run' = "returned"
    /\ UNCHANGED <<outside, event, held, debounce, stop, due>>

Note_OnlyFirst(p) ==  \* mutant: a timer that runs is stopped and not replaced
    /\ pending' = pending \cup {p}
    /\ \E t \in Timer :
        /\ timers[t] = "free"
        /\ timers' = IF current = 0 THEN [timers EXCEPT ![t] = "armed"]
                     ELSE [timers EXCEPT ![current] = "free"]
        /\ current' = IF current = 0 THEN t ELSE current
    /\ UNCHANGED batch

\* The end of handleEvent: the timer is stopped, and a new one runs for the whole
\* debounce.  Stopping a timer that has fired does nothing.
Note(p) ==
    /\ pending' = pending \cup {p}
    /\ \E t \in Timer :
        /\ timers[t] = "free"
        /\ \A u \in Timer : timers[u] = "free" => t <= u
        /\ timers' = [u \in Timer |->
                        IF u = t THEN "armed"
                        ELSE IF u = current /\ timers[u] = "armed" THEN "free" ELSE timers[u]]
        /\ current' = t
    /\ UNCHANGED batch

\* The bound on timers: the goroutine waits for a flush to end.
TimerLeft == \E t \in Timer : timers[t] = "free"

HandleEvent_NoReturn ==  \* mutant: the context is not looked at
    /\ run = "handle"
    /\ ~held
    /\ TimerLeft
    /\ IF event = Sub
       THEN run' = "add" /\ held' = TRUE /\ UNCHANGED <<event, debounce>>
       ELSE run' = "loop" /\ event' = None /\ Note(event) /\ UNCHANGED held
    /\ UNCHANGED <<outside, stop, due>>

\* handleEvent under w.mu, which it keeps while it adds a new directory.
HandleEvent ==
    /\ run = "handle"
    /\ ~held
    /\ \/ /\ Cancelled
          /\ run' = "loop"
          /\ event' = None
          /\ UNCHANGED <<held, debounce>>
       \/ /\ ~Cancelled
          /\ TimerLeft
          /\ event = Sub
          /\ run' = "add"
          /\ held' = TRUE
          /\ UNCHANGED <<event, debounce>>
       \/ /\ ~Cancelled
          /\ event # Sub
          /\ run' = "loop"
          /\ event' = None
          /\ Note(event)
          /\ UNCHANGED held
    /\ UNCHANGED <<outside, stop, due>>

\* addRecursive of the new directory: from now on its files are watched.  It
\* uses w.watcher, which may be nil or closed by now; an error of Add is only logged.
AddRecursive ==
    /\ run = "add"
    /\ held' = FALSE
    /\ event' = None
    /\ \/ /\ MayBeNil
          /\ run' = "panic"
          /\ UNCHANGED <<watched, debounce>>
       \/ /\ run' = "loop"
          /\ watched' \in IF stop \in {"no", "cancelled"} THEN {watched, watched \cup SubFiles}
                          ELSE {watched}
          /\ Note(Sub)
    /\ UNCHANGED <<exists, queue, stop, due>>

-----------------------------------------------------------------------------
(* flush, in the goroutine of a timer *)

Fire(t) ==
    /\ timers[t] = "armed"
    /\ timers' = [timers EXCEPT ![t] = "fired"]
    /\ UNCHANGED <<outside, goroutine, pending, current, batch, stop, due>>

\* Whatever timer fired, all that is pending is taken, and w.timer is forgotten.
TakePending(t) ==
    /\ timers[t] = "fired"
    /\ ~held
    /\ batch' = [batch EXCEPT ![t] = pending]
    /\ pending' = {}
    /\ current' = 0
    /\ timers' = [timers EXCEPT ![t] = IF pending = {} THEN "free" ELSE "flushing"]
    /\ UNCHANGED <<outside, goroutine, stop, due>>

Report_ThenClears(t, p) ==  \* mutant: the map is replaced when all is handed over
    /\ p \in batch[t]
    /\ batch' = [batch EXCEPT ![t] = @ \ {p}]
    /\ timers' = IF batch'[t] = {} THEN [timers EXCEPT ![t] = "free"] ELSE timers
    /\ due' = due \ {p}
    /\ pending' = IF batch'[t] = {} THEN {} ELSE pending
    /\ UNCHANGED <<outside, goroutine, current, stop>>

\* onChange submits a job for the path.
Report(t, p) ==
    /\ p \in batch[t]
    /\ batch' = [batch EXCEPT ![t] = @ \ {p}]
    /\ timers' = IF batch'[t] = {} THEN [timers EXCEPT ![t] = "free"] ELSE timers
    /\ due' = due \ {p}
    /\ UNCHANGED <<outside, goroutine, pending, current, stop>>

-----------------------------------------------------------------------------
(* Stop: only its last step is under w.mu *)

Cancel ==
    /\ stop = "no"
    /\ stop' = "cancelled"
    /\ UNCHANGED <<outside, goroutine, debounce, due>>

Close ==
    /\ stop = "cancelled"
    /\ stop' = "closed"
    /\ queue' = <<>>
    /\ UNCHANGED <<exists, watched, goroutine, debounce, due>>

SetNil ==
    /\ stop = "closed"
    /\ stop' = "nil"
    /\ UNCHANGED <<outside, goroutine, debounce, due>>

Clear ==
    /\ stop = "nil"
    /\ ~held
    /\ stop' = "stopped"
    /\ pending' = {}
    /\ timers' = IF current # 0 /\ timers[current] = "armed"
                 THEN [timers EXCEPT ![current] = "free"] ELSE timers
    /\ current' = 0
    /\ UNCHANGED <<outside, goroutine, batch, due>>

Loop == Evaluate \/ Receive \/ Leave \/ HandleEvent \/ AddRecursive
FlushStep(t) == Fire(t) \/ TakePending(t) \/ \E p \in Paths : Report(t, p)

\* A panic ends the process.
Next ==
    /\ run # "panic"
    /\ \/ \E p \in Paths : Change(p)
       \/ Loop
       \/ \E t \in Timer : FlushStep(t)
       \/ Cancel \/ Close \/ SetNil \/ Clear

\* Goroutines that can run do, and a timer fires unless it is stopped first.
Fairness == WF_vars(Loop) /\ \A t \in Timer : WF_vars(FlushStep(t))

Spec == Init /\ [][Next]_vars /\ Fairness

-----------------------------------------------------------------------------
(* Properties *)

TypeOK ==
    /\ exists \in BOOLEAN
    /\ watched \subseteq Paths
    /\ queue \in Seq(Paths)
    /\ run \in {"loop", "select", "handle", "add", "returned", "panic"}
    /\ event \in Paths \cup {None}
    /\ held <=> run = "add"
    /\ pending \subseteq Paths
    /\ timers \in [Timer -> {"free", "armed", "fired", "flushing"}]
    /\ current \in Timer \cup {0}
    /\ batch \in [Timer -> SUBSET Paths]
    /\ stop \in {"no", "cancelled", "closed", "nil", "stopped"}
    /\ due \subseteq Paths

\* When Stop has returned nothing is pending, so that no timer it did not know of
\* reports anything more: an event that is handled while Stop runs is either
\* dropped or cleared (handleEvent looks at the context under w.mu).
StoppedIsQuiet == stop = "stopped" => pending = {}

\* Until the watcher is stopped, a path with a notification is on its way:
\* wherever events, timers and flushes overlap, there is a timer left for what is
\* pending, and a path that arrives during a flush is not lost with it.
ChangeIsOnItsWay ==
    ~Cancelled => \A p \in due :
        \/ \E i \in DOMAIN queue : queue[i] = p
        \/ event = p
        \/ p \in pending /\ \E t \in Timer : timers[t] \in {"armed", "fired"}
        \/ \E t \in Timer : p \in batch[t]

\* A notification stops the timer that would have flushed, and starts another.
Postponed ==
    /\ current # 0
    /\ timers[current] = "armed"
    /\ current' \notin {0, current}

\* And it arrives: onChange is called after every change that was notified, unless
\* the watcher is stopped, or the flush is put off for ever: every notification,
\* of whatever path, restarts the debounce, and nothing limits how often.  As long
\* as the tree is not written at least every two seconds without end, everything
\* notified is reported.
ChangeIsReported ==
    \/ \A p \in Paths : p \in due ~> (p \notin due \/ Cancelled)
    \/ []<><<Postponed>>_vars

\* The same without that exception.  It does not hold: handleEvent can put the flush
\* off again and again, in a tree where a log is written for example.
EveryChangeIsReported == \A p \in Paths : p \in due ~> (p \notin due \/ Cancelled)

=============================================================================
