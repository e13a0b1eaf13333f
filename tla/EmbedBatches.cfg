CONSTANTS
 Ids = {a, b}
 None = None
 BatchSize = 2
 MaxConcurrent = 2
 MaxChunks = 5
 MaxCalls = 3
SPECIFICATION FairSpec
INVARIANTS VectorsAreTheirChunks ProgressAddsUp
PROPERTIES KnownIsNotAskedAgain CallReturns
CHECK_DEADLOCK FALSE
