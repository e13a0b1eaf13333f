CONSTANTS
 Projects <- TwoProjects
 Requests = {"project", "index"}
 Faults = {"crash", "pass", "delete", "save", "watch", "serve", "signal"}
 MaxFaults = 3
 MaxEdits = 2
 MaxRequests = 2
SPECIFICATION FairSpec
INVARIANTS ProgressNamesJob WatchedIsIndexed
PROPERTY ShutdownEnds
\* The system may stop: the initial job has failed, or nothing more is asked for.
CHECK_DEADLOCK FALSE
