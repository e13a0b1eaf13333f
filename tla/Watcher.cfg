CONSTANTS
 RootFiles = {f}
 SubFiles = {g}
 Sub = d
 None = None
 MaxQueue = 1
 MaxTimers = 3
SPECIFICATION Spec
INVARIANTS StoppedIsQuiet ChangeIsOnItsWay
PROPERTY ChangeIsReported
\* The system may stop: the watcher is stopped, or nothing changes any more.
CHECK_DEADLOCK FALSE
