CONSTANTS
 Files = {f1, f2}
 Symbols = {"main", "f", "g"}
 Contents <- TwoContents
 Absent = Absent
 Queries <- SomeQueries
 DefaultDepth = 1
 DepthLimit = 3
 MaxEvents = 2
SPECIFICATION Spec
INVARIANTS FollowsStore TraceIsAPath TraceIsShortest
