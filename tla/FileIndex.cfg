CONSTANTS
 Files = {f1, f2}
 Contents = {v1, v2}
 Absent = Absent
 Rules <- NoneOrOne
 BatchFiles = 1
 MaxAttempts = 2
 Faults = {"crash", "walk", "embed", "add", "hashes", "delete", "save"}
 MaxFaults = 2
 MaxEdits = 2
 MaxRequests = 1
SPECIFICATION Spec
INVARIANTS HashHasChunks SingleVersion PassStoresWhatItSaw WatchedIsFresh
\* The system may stop: the initial job has failed, or nothing more is changed.
CHECK_DEADLOCK FALSE
SYMMETRY Symmetry
