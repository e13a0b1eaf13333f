CONSTANTS
 MaxChunkChars = 8
 MaxEdges = 3
 MaxHotspots = 2
 Strings <- MCStrings
 Files <- MCFiles
 Collections <- MCCollections
 Arguments <- MCArguments
 Limits = {1, 2}
 Graphs <- MCGraphs
 NodeLimits = {2, 3}
SPECIFICATION AlgSpec
INVARIANTS ChunksAreTheirLines CallsHaveOneCaller SearchMissesOnlyTheFarOnes
 MergeKeepsTheBest FindsDefinitions DeadCodeIsDead ViewsAddUp
CHECK_DEADLOCK FALSE
