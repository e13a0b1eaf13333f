--------------------------- MODULE SerialExecutor ---------------------------
(***************************************************************************)
(* What the job queue of internal/jobs promises to those who submit jobs:  *)
(* jobs are numbered in the order of submission, run one at a time in that *)
(* order, run at most once, and are never dropped before they have run.    *)
(* Whether and when a finished job is still listed is not part of it.      *)
(***************************************************************************)
EXTENDS Integers

VARIABLES
    submitted,  \* how many jobs have been submitted; they are 1..submitted
    waiting,    \* the jobs that have not been started
    current     \* the job that is running, 0 when there is none

vars == <<submitted, waiting, current>>

TypeOK ==
    /\ submitted \in Nat
    /\ waiting \subseteq 1..submitted
    /\ current \in 0..submitted

Init ==
    /\ submitted = 0
    /\ waiting = {}
    /\ current = 0

Submit ==
    /\ submitted' = submitted + 1
    /\ waiting' = waiting \cup {submitted + 1}
    /\ UNCHANGED current

StartOldest ==
    /\ current = 0
    /\ \E n \in waiting :
        /\ \A m \in waiting : n <= m
        /\ current' = n
        /\ waiting' = waiting \ {n}
    /\ UNCHANGED submitted

Finish ==
    /\ current # 0
    /\ current' = 0
    /\ UNCHANGED <<submitted, waiting>>

Next == Submit \/ StartOldest \/ Finish

Spec == Init /\ [][Next]_vars

=============================================================================
