---------------------------- MODULE EmbedBatches ----------------------------
(***************************************************************************)
(* embedChunks (internal/app/embed.go): what the embedding cache does not  *)
(* know is cut into batches, of which a few are with the provider at once; *)
(* every batch writes its vectors into the results and into the cache.  An *)
(* error cancels the others.  indexDirectory calls it for group after group*)
(* of files, and indexDirectoryWithRetry starts over after an error, with  *)
(* the cache that the failed call has left.                                *)
(*                                                                         *)
(* A chunk is its ID, which stands for its path and text (hashChunk), and  *)
(* so is the vector that the provider returns for it.  The provider is     *)
(* assumed to answer in the order of its input: openai.go does not look at *)
(* the index that an answer carries.                                       *)
(***************************************************************************)
EXTENDS Integers, Sequences, FiniteSets

CONSTANTS
    Ids,            \* the IDs of chunks
    None,           \* no vector, no answer
    BatchSize,      \* provider.BatchSize(); openai.go makes it positive
    MaxConcurrent,  \* maxConcurrent
    MaxChunks,      \* bound on the chunks of a call, not in the code
    MaxCalls        \* bound on the calls, not in the code

ASSUME IdsAssumption == None \notin Ids /\ None \notin {"error", "vectors"}
ASSUME SizesAssumption ==
    BatchSize \in Nat \ {0} /\ MaxConcurrent \in Nat \ {0} /\ MaxChunks \in Nat /\ MaxCalls \in Nat

VARIABLES
    pc,         \* embedChunks: "idle", "launch" (the loop) or "wait" (g.Wait)
    chunks,     \* its argument
    missing,    \* missingIndices
    next,       \* the i of the loop
    running,    \* the goroutines of the errgroup
    results,    \* its result
    cache,      \* the embedding cache of the application
    failed,     \* has the group an error, is gctx cancelled?
    answer,     \* what the last call returned
    reported,   \* what onEmbedded was told in this call
    answered,   \* ghost: the chunks of batches that came to their end, in any call
    calls       \* ghost: how many calls there were

vars == <<pc, chunks, missing, next, running, results, cache, failed, answer, reported, answered, calls>>

Vector == Ids \cup {None}
ChunkLists == UNION {[1..n -> Ids] : n \in 1..MaxChunks}

\* A goroutine has the missing indices after start up to stop, and has written
\* the vectors up to at once the provider has answered.
Batch == [start : Nat, stop : Nat, at : Nat, pc : {"asking", "writing"}]

Init ==
    /\ pc = "idle" /\ chunks = <<>> /\ missing = <<>> /\ next = 0 /\ running = {}
    /\ results = <<>> /\ cache = [id \in Ids |-> None]
    /\ failed = FALSE /\ answer = None /\ reported = 0 /\ answered = {} /\ calls = 0

\* The members of a finite set of numbers from the least to the greatest.
Listed(S) ==
    {m \in [1..Cardinality(S) -> S] :
        /\ \A i \in S : \E j \in DOMAIN m : m[j] = i
        /\ \A i, j \in DOMAIN m : i < j => m[i] < m[j]}

\* What the cache lacks.
Unknown(cs) == {i \in DOMAIN cs : cache[cs[i]] = None}

EmbedChunks(cs) ==
    /\ pc = "idle" /\ calls < MaxCalls /\ calls' = calls + 1
    /\ pc' = "launch" /\ chunks' = cs
    /\ missing' \in Listed(Unknown(cs))
    /\ results' = [i \in DOMAIN cs |-> cache[cs[i]]]
    /\ next' = 0 /\ failed' = FALSE /\ answer' = None /\ reported' = 0
    /\ UNCHANGED <<running, cache, answered>>

\* g.Go blocks while MaxConcurrent goroutines run; it does not look at the error.
Launch ==
    /\ pc = "launch" /\ next < Len(missing) /\ Cardinality(running) < MaxConcurrent
    /\ next' = IF next + BatchSize > Len(missing) THEN Len(missing) ELSE next + BatchSize
    /\ running' = running \cup {[start |-> next, stop |-> next', at |-> next, pc |-> "asking"]}
    /\ UNCHANGED <<pc, chunks, missing, results, cache, failed, answer, reported, answered, calls>>

LoopEnds ==
    /\ pc = "launch" /\ next >= Len(missing)
    /\ pc' = "wait"
    /\ UNCHANGED <<chunks, missing, next, running, results, cache, failed, answer, reported, answered, calls>>

\* The provider answers with as many vectors as it was given texts.
Answer(b) ==
    /\ b.pc = "asking"
    /\ running' = (running \ {b}) \cup {[b EXCEPT !.pc = "writing"]}
    /\ UNCHANGED <<pc, chunks, missing, next, results, cache, failed, answer, reported, answered, calls>>

\* mutant: a goroutine that fails keeps its place.
Fail_KeepsPlace(b) ==
    /\ b.pc = "asking"
    /\ running' = (running \ {b}) \cup {[b EXCEPT !.pc = "failed"]} /\ failed' = TRUE
    /\ UNCHANGED <<pc, chunks, missing, next, results, cache, answer, reported, answered, calls>>

\* It answers with an error or with another number, or the context is cancelled:
\* by the job, or by the first goroutine that failed.
Fail(b) ==
    /\ b.pc = "asking"
    /\ running' = running \ {b} /\ failed' = TRUE
    /\ UNCHANGED <<pc, chunks, missing, next, results, cache, answer, reported, answered, calls>>

\* mutant: the place in the batch is taken for the place in the results.
Place_InBatch(b) == b.at + 1

Place(b) == missing[b.at + 1]

\* mutant: the cache is left to the end of the call.
Remembered_Not(id) == cache

\* The cache with the vector of a chunk.
Remembered(id) == [cache EXCEPT ![id] = id]

\* The vector of missingTexts[b.at], into the results and, under cacheMu, the cache.
Write(b) ==
    /\ b.pc = "writing" /\ b.at < b.stop
    /\ LET id == chunks[missing[b.at + 1]]
       IN /\ results' = [results EXCEPT ![Place(b)] = id]
          /\ cache' = Remembered(id)
    /\ running' = (running \ {b}) \cup {[b EXCEPT !.at = @ + 1]}
    /\ UNCHANGED <<pc, chunks, missing, next, failed, answer, reported, answered, calls>>

\* mutant: a full batch is reported also where the last one is shorter.
Size_Full(b) == BatchSize

Size(b) == b.stop - b.start

\* onEmbedded, under progressMu, and the end of the goroutine.
Report(b) ==
    /\ b.pc = "writing" /\ b.at >= b.stop
    /\ reported' = reported + Size(b)
    /\ answered' = answered \cup {chunks[missing[j]] : j \in (b.start + 1)..b.stop}
    /\ running' = running \ {b}
    /\ UNCHANGED <<pc, chunks, missing, next, results, cache, failed, answer, calls>>

\* g.Wait waits for all goroutines, then returns the first error.
Return ==
    /\ pc = "wait" /\ running = {}
    /\ pc' = "idle" /\ answer' = IF failed THEN "error" ELSE "vectors"
    /\ UNCHANGED <<chunks, missing, next, running, results, cache, failed, reported, answered, calls>>

Work(b) == Answer(b) \/ Fail(b) \/ Write(b) \/ Report(b)
Works == \E b \in running : Work(b)

Next ==
    \/ \E cs \in ChunkLists : EmbedChunks(cs)
    \/ Launch \/ LoopEnds \/ Works \/ Return

Spec == Init /\ [][Next]_vars

\* Goroutines run, and the provider answers or the HTTP client's 120 s are over.
FairSpec == Spec /\ WF_vars(Launch) /\ WF_vars(LoopEnds) /\ WF_vars(Works) /\ WF_vars(Return)

-----------------------------------------------------------------------------

\* The values that the variables take.
TypeOK ==
    /\ pc \in {"idle", "launch", "wait"}
    /\ chunks \in Seq(Ids)
    /\ missing \in Seq(DOMAIN chunks)
    /\ next \in 0..Len(missing)
    /\ running \subseteq Batch
    /\ results \in [DOMAIN chunks -> Vector] /\ cache \in [Ids -> Vector]
    /\ failed \in BOOLEAN /\ answer \in {None, "error", "vectors"}
    /\ reported \in Int /\ answered \subseteq Ids

\* Whatever the batches did in whatever order, and whatever earlier calls left in
\* the cache: a call that returns vectors returns one for every chunk, its own
\* (embedChunks, AddChunks relies on it).
VectorsAreTheirChunks ==
    answer = "vectors" => \A i \in DOMAIN chunks : results[i] = chunks[i]

\* A retry asks for nothing that an earlier call has finished, though that call
\* failed: an embedding is paid for once (the cache that outlives embedChunks).
KnownIsNotAskedAgain ==
    [][pc = "idle" /\ pc' = "launch" =>
          \A j \in DOMAIN missing' : chunks'[missing'[j]] \notin answered]_vars

\* Progress never tells of more chunks than were missing, and of all of them once
\* vectors are returned (onEmbedded, Progress.AddChunks).
ProgressAddsUp ==
    /\ reported <= Len(missing)
    /\ answer = "vectors" => reported = Len(missing)

\* Every call returns: no goroutine waits for a place that nobody frees (SetLimit, Wait).
CallReturns == pc = "launch" ~> pc = "idle"

=============================================================================
