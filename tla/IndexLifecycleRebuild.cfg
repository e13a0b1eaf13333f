CONSTANTS
 Projects <- TwoProjects
 Requests = {"index"}
 Faults = {}
 MaxFaults = 0
 MaxEdits = 0
 MaxRequests = 1
SPECIFICATION Spec
INVARIANT RebuildRebuilds
\* The system may stop: the initial job has failed, or nothing more is asked for.
CHECK_DEADLOCK FALSE
