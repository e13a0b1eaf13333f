---------------------------- MODULE DataDirLock ----------------------------
(***************************************************************************)
(* How processes agree on who is the primary instance of a data directory: *)
(* the lock file of internal/lock and its use in cmd/gnostis/main.go.      *)
(*                                                                         *)
(* A process that holds an exclusive flock on the file DataDir/.lock is    *)
(* the primary; the others forward messages to it.  A file is an inode     *)
(* with a content, the PID of the process that locked it last; flock       *)
(* belongs to the inode, whatever becomes of its name.  One action is one  *)
(* system call.  A process is its PID, and PIDs are not used again.        *)
(***************************************************************************)
EXTENDS Integers, FiniteSets

CONSTANTS
    Procs,   \* the processes that are started one after the other or at once
    Nobody   \* no process

VARIABLES
    inodes,  \* how many inodes were created under the name .lock
    path,    \* the inode of that name, 0 if there is none
    pid,     \* the content of every inode
    holder,  \* who has an exclusive flock on it
    pc,      \* where a process stands in main
    fd,      \* the inode it has opened
    read     \* the PID that StalePID has read

vars == <<inodes, path, pid, holder, pc, fd, read>>

Inode == 1..(2 * Cardinality(Procs))

Init ==
    /\ inodes = 0
    /\ path = 0
    /\ pid = [i \in Inode |-> Nobody]
    /\ holder = [i \in Inode |-> Nobody]
    /\ pc = [p \in Procs |-> "none"]
    /\ fd = [p \in Procs |-> 0]
    /\ read = [p \in Procs |-> Nobody]

Goto(p, label) == pc' = [pc EXCEPT ![p] = label]
Alive(p) == pc[p] \notin {"none", "dead"}

Start(p) ==
    /\ pc[p] = "none"
    /\ Goto(p, "open")
    /\ UNCHANGED <<inodes, path, pid, holder, fd, read>>

\* TryLock: os.OpenFile with O_CREATE, for the first time or after the removal.
Open(p) ==
    /\ pc[p] \in {"open", "reopen"}
    /\ inodes' = IF path = 0 THEN inodes + 1 ELSE inodes
    /\ path' = IF path = 0 THEN inodes' ELSE path
    /\ fd' = [fd EXCEPT ![p] = path']
    /\ Goto(p, IF pc[p] = "open" THEN "flock" ELSE "reflock")
    /\ UNCHANGED <<pid, holder, read>>

\* TryLock: the non-blocking flock.  A process that is refused twice is a proxy.
Flock(p) ==
    /\ pc[p] \in {"flock", "reflock"}
    /\ IF holder[fd[p]] = Nobody
       THEN /\ holder' = [holder EXCEPT ![fd[p]] = p]
            /\ Goto(p, "locked")
            /\ UNCHANGED fd
       ELSE /\ fd' = [fd EXCEPT ![p] = 0]
            /\ Goto(p, IF pc[p] = "flock" THEN "refused" ELSE "proxy")
            /\ UNCHANGED holder
    /\ UNCHANGED <<inodes, path, pid, read>>

\* TryLock: the PID is written to the locked file; the process is the primary.
WritePid(p) ==
    /\ pc[p] = "locked"
    /\ pid' = [pid EXCEPT ![fd[p]] = p]
    /\ Goto(p, "primary")
    /\ UNCHANGED <<inodes, path, holder, fd, read>>

\* StalePID: os.ReadFile.  Without a PID the file is not stale.
ReadPid(p) ==
    /\ pc[p] = "refused"
    /\ read' = [read EXCEPT ![p] = IF path = 0 THEN Nobody ELSE pid[path]]
    /\ Goto(p, IF read'[p] = Nobody THEN "proxy" ELSE "probe")
    /\ UNCHANGED <<inodes, path, pid, holder, fd>>

\* StalePID: kill with signal 0.
Probe(p) ==
    /\ pc[p] = "probe"
    /\ Goto(p, IF Alive(read[p]) THEN "proxy" ELSE "stale")
    /\ UNCHANGED <<inodes, path, pid, holder, fd, read>>

\* main: os.Remove of whatever has the name by now, and TryLock again.
Remove(p) ==
    /\ pc[p] = "stale"
    /\ path' = 0
    /\ Goto(p, "reopen")
    /\ UNCHANGED <<inodes, pid, holder, fd, read>>

\* A process ends, by Unlock and return or by a crash: its flock is released and
\* its PID stays in the file.
Exit(p) ==
    /\ Alive(p)
    /\ holder' = [i \in Inode |-> IF holder[i] = p THEN Nobody ELSE holder[i]]
    /\ fd' = [fd EXCEPT ![p] = 0]
    /\ Goto(p, "dead")
    /\ UNCHANGED <<inodes, path, pid, read>>

Next ==
    \E p \in Procs :
        \/ Start(p) \/ Open(p) \/ Flock(p) \/ WritePid(p)
        \/ ReadPid(p) \/ Probe(p) \/ Remove(p) \/ Exit(p)

Spec == Init /\ [][Next]_vars

-----------------------------------------------------------------------------
(* Properties *)

\* What "If another gnostis process already holds the lock, this process becomes
\* a stdio proxy" promises: two processes never are primaries at once.
SinglePrimary ==
    \A p, q \in Procs : pc[p] = "primary" /\ pc[q] = "primary" => p = q

=============================================================================
