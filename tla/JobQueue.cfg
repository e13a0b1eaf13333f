CONSTANTS
 Clients = {c1, c2}
 Waiters = {c1}
 Ids = {i1, i2}
 MaxHistory = 2
 MaxJobs = 3
SPECIFICATION FairSpec
INVARIANTS WorkerOwnsRunning NoLostWakeup HistoryBounded AnsweredJobIsOver
PROPERTIES ImplementsExecutor StartedUnlessFailure WaitReturns
\* The system may stop: the worker has returned and every client sleeps in Wait.
CHECK_DEADLOCK FALSE
