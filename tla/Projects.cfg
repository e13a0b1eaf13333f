CONSTANTS
 None = None
 Paths = {a, b}
 Bases = {x, y}
 Filters = {f, g}
 Faults = {"save", "purge", "delete", "watch", "crash"}
 MaxFaults = 2
 MaxWrites = 3
SPECIFICATION Spec
INVARIANTS ProjectsAreDistinct ListsAgree RestartPending
PROPERTY WatcherFollows
\* The system may stop: nobody asks for anything more.
CHECK_DEADLOCK FALSE
