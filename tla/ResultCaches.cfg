CONSTANTS
 Projects = {p1, p2}
 All = All
 Clients = {c1, c2}
 Absent = Absent
 Ttl = 2
 Slow = 1
 MaxVersion = 1
 MaxEvents = 2
SYMMETRY Symmetry
CONSTRAINT OnePairAtATime
SPECIFICATION CachesSpec
INVARIANTS RebuildIsSeen ChangesCatchUp
CHECK_DEADLOCK FALSE
