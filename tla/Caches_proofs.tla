--------------------------- MODULE Caches_proofs ---------------------------
(***************************************************************************)
(* What the caches of internal/app promise.  The embedding cache of        *)
(* embedChunks, for any chunks, batch size, number of goroutines and of    *)
(* calls: types, vectors that belong to their chunks, a retry that asks    *)
(* for the rest only, and progress that adds up.  The change lists and the *)
(* layouts, for any projects, requests, lifetime and jobs: types, that a   *)
(* rebuild is seen, and that a change list catches up.  The two parts      *)
(* share no state and are proved one after the other.                      *)
(***************************************************************************)
EXTENDS EmbedBatches, ResultCaches, FiniteSetTheorems, TLAPS

-----------------------------------------------------------------------------
(* The embedding cache: types and places *)

LEMMA ChunkListsType == ASSUME NEW cs \in ChunkLists PROVE cs \in Seq(Ids)
  BY DEF ChunkLists

\* What the cache lacks of a call is listed completely.
LEMMA ListedUnknown ==
    ASSUME NEW cs \in Seq(Ids), NEW m \in Listed(Unknown(cs))
    PROVE  /\ m \in Seq(DOMAIN cs)
           /\ \A j \in 1..Len(m) : m[j] \in Unknown(cs)
           /\ \A i \in Unknown(cs) : \E j \in 1..Len(m) : m[j] = i
<1> DEFINE S == Unknown(cs)
<1>1. S \subseteq 1..Len(cs) /\ Len(cs) \in Nat
  BY DEF Unknown
<1>2. IsFiniteSet(S) /\ Cardinality(S) \in Nat
  <2>1. IsFiniteSet(1..Len(cs))
    BY <1>1, FS_Interval
  <2>2. IsFiniteSet(S)
    BY <1>1, <2>1, FS_Subset
  <2> QED
    BY <2>2, FS_CardinalityType
<1> DEFINE n == Cardinality(S)
<1>3. m \in [1..n -> S] /\ \A i \in S : \E j \in DOMAIN m : m[j] = i
  BY DEF Listed
<1> HIDE DEF n, S
<1>4. n \in Nat
  BY <1>2 DEF n
<1>5. m \in Seq(S) /\ Len(m) = n /\ DOMAIN m = 1..n
  BY <1>3, <1>4
<1>6. DOMAIN cs = 1..Len(cs)
  OBVIOUS
<1>7. m \in [1..n -> DOMAIN cs]
  BY <1>1, <1>3, <1>6
<1>8. m \in Seq(DOMAIN cs)
  BY <1>4, <1>7
<1> QED
  BY <1>3, <1>5, <1>8 DEF S

\* The places of a batch are among those of the loop so far; what has not been
\* answered has not been written; no goroutine is left between two calls.
Bounds ==
    /\ \A b \in running : b.start <= b.at /\ b.at <= b.stop /\ b.stop <= next
    /\ \A b \in running : b.pc = "asking" => b.at = b.start
    /\ pc = "idle" => running = {}
    /\ pc = "wait" => next = Len(missing)
    /\ pc # "idle" => answer = None

TypedPlaces == TypeOK /\ Bounds

LEMMA InitTyped == Init => TypedPlaces
<1> SUFFICES ASSUME Init PROVE TypedPlaces
  OBVIOUS
<1>1. chunks \in Seq(Ids) /\ missing \in Seq(DOMAIN chunks) /\ Len(missing) = 0
  BY DEF Init
<1>2. results \in [DOMAIN chunks -> Vector] /\ cache \in [Ids -> Vector]
  BY DEF Init, Vector
<1>3. failed \in BOOLEAN
  BY DEF Init
<1>4. /\ pc \in {"idle", "launch", "wait"} /\ next \in 0..Len(missing) /\ running \subseteq Batch
      /\ answer \in {None, "error", "vectors"} /\ reported \in Int /\ answered \subseteq Ids
  BY <1>1 DEF Init
<1>5. TypeOK
  BY <1>1, <1>2, <1>3, <1>4 DEF TypeOK
<1>6. Bounds
  BY DEF Init, Bounds
<1> QED
  BY <1>5, <1>6 DEF TypedPlaces

LEMMA NextTyped == TypedPlaces /\ [Next]_vars => TypedPlaces'
<1> SUFFICES ASSUME TypedPlaces, [Next]_vars PROVE TypedPlaces'
  OBVIOUS
<1> USE SizesAssumption
<1>1. ASSUME NEW cs \in ChunkLists, EmbedChunks(cs) PROVE TypedPlaces'
  <2>1. cs \in Seq(Ids)
    BY ChunkListsType
  <2>2. missing' \in Seq(DOMAIN cs) /\ Len(missing') \in Nat
    BY <1>1, <2>1, ListedUnknown DEF EmbedChunks
  <2>3. results' \in [DOMAIN chunks' -> Vector]
    BY <1>1, <2>1 DEF EmbedChunks, TypedPlaces, TypeOK
  <2>4. chunks' \in Seq(Ids) /\ missing' \in Seq(DOMAIN chunks') /\ next' \in 0..Len(missing')
    BY <1>1, <2>1, <2>2 DEF EmbedChunks
  <2>5. failed' \in BOOLEAN
    BY <1>1 DEF EmbedChunks
  <2>6. /\ pc' \in {"idle", "launch", "wait"} /\ answer' \in {None, "error", "vectors"}
        /\ running' \subseteq Batch /\ cache' \in [Ids -> Vector]
        /\ reported' \in Int /\ answered' \subseteq Ids
    BY <1>1 DEF EmbedChunks, TypedPlaces, TypeOK
  <2>7. TypeOK'
    BY <2>4, <2>5, <2>6, <2>3 DEF TypeOK
  <2>8. Bounds'
    BY <1>1 DEF EmbedChunks, TypedPlaces, Bounds
  <2> QED
    BY <2>7, <2>8 DEF TypedPlaces
<1>2. ASSUME Launch PROVE TypedPlaces'
  <2>1. Len(missing) \in Nat /\ next \in Nat /\ next < Len(missing)
    BY <1>2 DEF Launch, TypedPlaces, TypeOK
  <2>2. next' \in 0..Len(missing) /\ next < next'
    BY <1>2, <2>1 DEF Launch
  <2> DEFINE new == [start |-> next, stop |-> next', at |-> next, pc |-> "asking"]
  <2>3. new \in Batch
    BY <2>1, <2>2 DEF Batch
  <2>4. running' = running \cup {new}
    BY <1>2 DEF Launch
  <2>5. TypeOK'
    BY <1>2, <2>2, <2>3, <2>4 DEF Launch, TypedPlaces, TypeOK
  <2>6. \A b \in running : b.stop <= next'
    BY <2>1, <2>2 DEF TypedPlaces, Bounds, TypeOK, Batch
  <2>7. Bounds'
    BY <1>2, <2>1, <2>2, <2>4, <2>6 DEF Launch, TypedPlaces, Bounds
  <2> QED
    BY <2>5, <2>7 DEF TypedPlaces
<1>3. ASSUME LoopEnds PROVE TypedPlaces'
  BY <1>3 DEF LoopEnds, TypedPlaces, Bounds, TypeOK
<1>4. ASSUME NEW b \in running, Answer(b) PROVE TypedPlaces'
  <2>1. [b EXCEPT !.pc = "writing"] \in Batch
    BY DEF TypedPlaces, TypeOK, Batch
  <2>2. TypeOK'
    BY <1>4, <2>1 DEF Answer, TypedPlaces, TypeOK
  <2>3. Bounds'
    BY <1>4 DEF Answer, TypedPlaces, Bounds, TypeOK, Batch
  <2> QED
    BY <2>2, <2>3 DEF TypedPlaces
<1>5. ASSUME NEW b \in running, Fail(b) PROVE TypedPlaces'
  BY <1>5 DEF Fail, TypedPlaces, Bounds, TypeOK
<1>6. ASSUME NEW b \in running, Write(b) PROVE TypedPlaces'
  <2>1. /\ b \in Batch /\ b.at < b.stop /\ b.stop <= next /\ next <= Len(missing)
        /\ b.start <= b.at /\ b.pc = "writing"
    BY <1>6 DEF Write, TypedPlaces, Bounds, TypeOK
  <2> DEFINE c == [b EXCEPT !.at = @ + 1]
  <2>2. c \in Batch /\ c.at = b.at + 1 /\ c.start = b.start /\ c.stop = b.stop /\ c.pc = "writing"
    BY <2>1 DEF Batch
  <2>3. b.at + 1 \in 1..Len(missing)
    BY <2>1 DEF Batch, TypedPlaces, TypeOK
  <2>4. missing[b.at + 1] \in DOMAIN chunks
    BY <2>3 DEF TypedPlaces, TypeOK
  <2>5. chunks[missing[b.at + 1]] \in Ids
    BY <2>4 DEF TypedPlaces, TypeOK
  <2>6. running' = (running \ {b}) \cup {c}
    BY <1>6 DEF Write
  <2>7. results' \in [DOMAIN chunks -> Vector] /\ cache' \in [Ids -> Vector]
    BY <1>6, <2>4, <2>5 DEF Write, Place, Remembered, TypedPlaces, TypeOK, Vector
  <2>8. TypeOK'
    BY <1>6, <2>2, <2>6, <2>7 DEF Write, TypedPlaces, TypeOK
  <2>9. Bounds'
    BY <1>6, <2>1, <2>2, <2>6 DEF Write, TypedPlaces, Bounds, Batch
  <2> QED
    BY <2>8, <2>9 DEF TypedPlaces
<1>7. ASSUME NEW b \in running, Report(b) PROVE TypedPlaces'
  <2>1. b \in Batch /\ b.stop <= next /\ next <= Len(missing)
    BY DEF TypedPlaces, Bounds, TypeOK
  <2>2. \A j \in (b.start + 1)..b.stop : j \in 1..Len(missing)
    BY <2>1 DEF Batch, TypedPlaces, TypeOK
  <2>3. \A j \in (b.start + 1)..b.stop : missing[j] \in DOMAIN chunks
    BY <2>2 DEF TypedPlaces, TypeOK
  <2>4. {chunks[missing[j]] : j \in (b.start + 1)..b.stop} \subseteq Ids
    BY <2>3 DEF TypedPlaces, TypeOK
  <2>5. reported + Size(b) \in Int
    BY <2>1 DEF Size, Batch, TypedPlaces, TypeOK
  <2> QED
    BY <1>7, <2>4, <2>5 DEF Report, TypedPlaces, Bounds, TypeOK
<1>8. ASSUME Return PROVE TypedPlaces'
  BY <1>8 DEF Return, TypedPlaces, Bounds, TypeOK
<1>9. ASSUME UNCHANGED vars PROVE TypedPlaces'
  BY <1>9 DEF vars, TypedPlaces, Bounds, TypeOK
<1> QED
  BY <1>1, <1>2, <1>3, <1>4, <1>5, <1>6, <1>7, <1>8, <1>9 DEF Next, Works, Work

LEMMA AlwaysTyped == Spec => []TypedPlaces
  BY InitTyped, NextTyped, PTL DEF Spec

\* Every reachable state has the types of the Go declarations; the places of the
\* batches stay within the missing indices.
THEOREM TypeCorrect == Spec => []TypeOK
<1>1. TypedPlaces => TypeOK
  BY DEF TypedPlaces
<1> QED
  BY <1>1, AlwaysTyped, PTL

-----------------------------------------------------------------------------
(* The embedding cache: vectors and chunks *)

\* A vector that is kept or returned is that of its chunk.
OwnVectors ==
    /\ \A id \in Ids : cache[id] \in {None, id}
    /\ \A i \in DOMAIN chunks : results[i] \in {None, chunks[i]}

\* What has no vector yet is listed as missing; of the missing, what the loop has
\* passed has its vector or is still in the hands of a goroutine, if none failed.
Covered ==
    /\ \A i \in DOMAIN chunks : results[i] = chunks[i] \/ (\E j \in 1..Len(missing) : missing[j] = i)
    /\ ~failed =>
          \A j \in 1..next : \/ results[missing[j]] = chunks[missing[j]]
                             \/ \E b \in running : b.at < j /\ j <= b.stop

Vectors == OwnVectors /\ Covered /\ VectorsAreTheirChunks

LEMMA InitVectors == Init => Vectors
  BY DEF Init, Vectors, OwnVectors, Covered, VectorsAreTheirChunks

\* Writing a vector leaves what is right right.
LEMMA WriteRight ==
    ASSUME TypedPlaces, OwnVectors, NEW b \in running, Write(b)
    PROVE  /\ OwnVectors'
           /\ \A i \in DOMAIN chunks : results[i] = chunks[i] => results'[i] = chunks[i]
           /\ b.at + 1 \in 1..Len(missing)
           /\ results'[missing[b.at + 1]] = chunks[missing[b.at + 1]]
           /\ cache'[chunks[missing[b.at + 1]]] # None
           /\ \A id \in Ids : cache[id] # None => cache'[id] # None
<1> DEFINE i0 == missing[b.at + 1]
<1> DEFINE id0 == chunks[i0]
<1>1. b.at + 1 \in 1..Len(missing)
  BY DEF Write, TypedPlaces, Bounds, TypeOK, Batch
<1>2. i0 \in DOMAIN chunks
  BY <1>1 DEF TypedPlaces, TypeOK
<1>3. id0 \in Ids
  BY <1>2 DEF TypedPlaces, TypeOK
<1>4. results' = [results EXCEPT ![i0] = id0] /\ cache' = [cache EXCEPT ![id0] = id0] /\ chunks' = chunks
  BY DEF Write, Place, Remembered
<1>5. results \in [DOMAIN chunks -> Vector] /\ cache \in [Ids -> Vector]
  BY DEF TypedPlaces, TypeOK
<1> HIDE DEF i0
<1>6. \A i \in DOMAIN chunks : results'[i] = IF i = i0 THEN chunks[i] ELSE results[i]
  BY <1>2, <1>4, <1>5
<1>7. \A id \in Ids : cache'[id] = IF id = id0 THEN id ELSE cache[id]
  BY <1>3, <1>4, <1>5
<1>8. None \notin Ids
  BY IdsAssumption
<1> QED
  BY <1>1, <1>2, <1>3, <1>4, <1>6, <1>7, <1>8 DEF OwnVectors, i0

LEMMA NextVectors == TypedPlaces /\ Vectors /\ [Next]_vars => Vectors'
<1> SUFFICES ASSUME TypedPlaces, Vectors, [Next]_vars PROVE Vectors'
  OBVIOUS
<1> USE SizesAssumption
<1>1. ASSUME NEW cs \in ChunkLists, EmbedChunks(cs) PROVE Vectors'
  <2>1. cs \in Seq(Ids) /\ chunks' = cs /\ missing' \in Listed(Unknown(cs)) /\ next' = 0
    BY <1>1, ChunkListsType DEF EmbedChunks
  <2>2. \A i \in DOMAIN cs : cs[i] \in Ids /\ results'[i] = cache[cs[i]]
    BY <1>1, <2>1 DEF EmbedChunks
  <2>3. OwnVectors'
    BY <1>1, <2>1, <2>2 DEF EmbedChunks, Vectors, OwnVectors
  <2>4. \A i \in DOMAIN cs : results'[i] = cs[i] \/ i \in Unknown(cs)
    BY <2>2 DEF Vectors, OwnVectors, Unknown
  <2>5. \A i \in Unknown(cs) : \E j \in 1..Len(missing') : missing'[j] = i
    BY <2>1, ListedUnknown
  <2>6. Covered'
    BY <2>1, <2>4, <2>5 DEF Covered
  <2>7. VectorsAreTheirChunks'
    BY <1>1, IdsAssumption DEF EmbedChunks, VectorsAreTheirChunks
  <2> QED
    BY <2>3, <2>6, <2>7 DEF Vectors
<1>2. ASSUME Launch PROVE Vectors'
  <2> DEFINE new == [start |-> next, stop |-> next', at |-> next, pc |-> "asking"]
  <2>1. next \in Nat /\ next' \in Nat /\ Len(missing) \in Nat
    BY <1>2 DEF Launch, TypedPlaces, TypeOK
  <2>2. running' = running \cup {new} /\ new.at = next /\ new.stop = next'
    BY <1>2 DEF Launch
  <2>3. \A j \in 1..next' : j \in 1..next \/ (new.at < j /\ j <= new.stop)
    BY <2>1, <2>2
  <2> HIDE DEF new
  <2>4. Covered'
    BY <1>2, <2>2, <2>3 DEF Launch, Vectors, Covered
  <2> QED
    BY <1>2, <2>4 DEF Launch, Vectors, OwnVectors, VectorsAreTheirChunks
<1>3. ASSUME LoopEnds PROVE Vectors'
  BY <1>3 DEF LoopEnds, Vectors, OwnVectors, Covered, VectorsAreTheirChunks
<1>4. ASSUME NEW b \in running, Answer(b) PROVE Vectors'
  <2> DEFINE c == [b EXCEPT !.pc = "writing"]
  <2>1. c.at = b.at /\ c.stop = b.stop
    BY DEF TypedPlaces, TypeOK, Batch
  <2>2. running' = (running \ {b}) \cup {c}
    BY <1>4 DEF Answer
  <2> HIDE DEF c
  <2>3. Covered'
    BY <1>4, <2>1, <2>2 DEF Answer, Vectors, Covered
  <2> QED
    BY <1>4, <2>3 DEF Answer, Vectors, OwnVectors, VectorsAreTheirChunks
<1>5. ASSUME NEW b \in running, Fail(b) PROVE Vectors'
  BY <1>5 DEF Fail, Vectors, OwnVectors, Covered, VectorsAreTheirChunks
<1>6. ASSUME NEW b \in running, Write(b) PROVE Vectors'
  <2>1. /\ OwnVectors' /\ b.at + 1 \in 1..Len(missing)
        /\ \A i \in DOMAIN chunks : results[i] = chunks[i] => results'[i] = chunks[i]
        /\ results'[missing[b.at + 1]] = chunks[missing[b.at + 1]]
    BY <1>6, WriteRight DEF Vectors
  <2>2. /\ chunks' = chunks /\ missing' = missing /\ next' = next /\ failed' = failed
        /\ answer' = answer /\ running' = (running \ {b}) \cup {[b EXCEPT !.at = @ + 1]}
    BY <1>6 DEF Write
  <2>3. VectorsAreTheirChunks'
    BY <2>1, <2>2 DEF Vectors, VectorsAreTheirChunks
  <2> DEFINE c == [b EXCEPT !.at = @ + 1]
  <2>4. c \in running' /\ c.at = b.at + 1 /\ c.stop = b.stop /\ b.at \in Nat
    BY <2>2 DEF TypedPlaces, TypeOK, Batch
  <2> HIDE DEF c
  <2>5. ASSUME ~failed, NEW j \in 1..next
        PROVE  \/ results'[missing[j]] = chunks[missing[j]]
               \/ \E x \in running' : x.at < j /\ j <= x.stop
    <3>1. missing[j] \in DOMAIN chunks
      BY DEF TypedPlaces, TypeOK
    <3>2. CASE results[missing[j]] = chunks[missing[j]]
      BY <2>1, <3>1, <3>2
    <3>3. CASE \E x \in running : x.at < j /\ j <= x.stop
      <4>1. PICK x \in running : x.at < j /\ j <= x.stop
        BY <3>3
      <4>2. CASE x # b
        BY <2>2, <4>1, <4>2
      <4>3. CASE x = b /\ j = b.at + 1
        BY <2>1, <4>3
      <4>4. CASE x = b /\ j # b.at + 1
        <5>1. c.at < j /\ j <= c.stop
          BY <2>4, <4>1, <4>4 DEF TypedPlaces, TypeOK
        <5> QED
          BY <2>4, <5>1
      <4> QED
        BY <4>2, <4>3, <4>4
    <3> QED
      BY <2>5, <3>2, <3>3 DEF Vectors, Covered
  <2>6. Covered'
    BY <2>1, <2>2, <2>5 DEF Vectors, Covered
  <2> QED
    BY <2>1, <2>3, <2>6 DEF Vectors
<1>7. ASSUME NEW b \in running, Report(b) PROVE Vectors'
  <2>1. \A j \in 1..next : ~(b.at < j /\ j <= b.stop)
    BY <1>7 DEF Report, TypedPlaces, TypeOK, Batch
  <2>2. Covered'
    BY <1>7, <2>1 DEF Report, Vectors, Covered
  <2> QED
    BY <1>7, <2>2 DEF Report, Vectors, OwnVectors, VectorsAreTheirChunks
<1>8. ASSUME Return PROVE Vectors'
  <2>1. next = Len(missing) /\ running = {}
    BY <1>8 DEF Return, TypedPlaces, Bounds
  <2>2. ~failed => \A i \in DOMAIN chunks : results[i] = chunks[i]
    BY <2>1 DEF Vectors, Covered
  <2>3. VectorsAreTheirChunks'
    BY <1>8, <2>2 DEF Return, VectorsAreTheirChunks
  <2> QED
    BY <1>8, <2>3 DEF Return, Vectors, OwnVectors, Covered
<1>9. ASSUME UNCHANGED vars PROVE Vectors'
  BY <1>9 DEF vars, Vectors, OwnVectors, Covered, VectorsAreTheirChunks
<1> QED
  BY <1>1, <1>2, <1>3, <1>4, <1>5, <1>6, <1>7, <1>8, <1>9 DEF Next, Works, Work

\* Whatever order the batches are answered in and whatever failed before: a call
\* that returns vectors returns for every chunk its own.
THEOREM VectorsBelongToChunks == Spec => []VectorsAreTheirChunks
<1>1. TypedPlaces /\ Vectors /\ [Next]_vars => Vectors'
  BY NextVectors
<1>2. Vectors => VectorsAreTheirChunks
  BY DEF Vectors
<1> QED
  BY <1>1, <1>2, InitVectors, AlwaysTyped, PTL DEF Spec

-----------------------------------------------------------------------------
(* Retries *)

\* What a goroutine has written, and what a batch that came to its end contained,
\* is in the cache.
Kept ==
    /\ \A b \in running : \A j \in (b.start + 1)..b.at : cache[chunks[missing[j]]] # None
    /\ \A id \in answered : cache[id] # None

LEMMA InitKept == Init => Kept
  BY DEF Init, Kept

LEMMA NextKept == TypedPlaces /\ Vectors /\ Kept /\ [Next]_vars => Kept'
<1> SUFFICES ASSUME TypedPlaces, Vectors, Kept, [Next]_vars PROVE Kept'
  OBVIOUS
<1>1. ASSUME NEW cs \in ChunkLists, EmbedChunks(cs) PROVE Kept'
  BY <1>1 DEF EmbedChunks, Kept, TypedPlaces, Bounds
<1>2. ASSUME Launch PROVE Kept'
  <2> DEFINE new == [start |-> next, stop |-> next', at |-> next, pc |-> "asking"]
  <2>1. \A j \in (new.start + 1)..new.at : FALSE
    BY DEF TypedPlaces, TypeOK
  <2>2. running' = running \cup {new}
    BY <1>2 DEF Launch
  <2> HIDE DEF new
  <2> QED
    BY <1>2, <2>1, <2>2 DEF Launch, Kept
<1>3. ASSUME LoopEnds PROVE Kept'
  BY <1>3 DEF LoopEnds, Kept
<1>4. ASSUME NEW b \in running, Answer(b) PROVE Kept'
  <2> DEFINE c == [b EXCEPT !.pc = "writing"]
  <2>1. c.at = b.at /\ c.start = b.start
    BY DEF TypedPlaces, TypeOK, Batch
  <2>2. running' = (running \ {b}) \cup {c}
    BY <1>4 DEF Answer
  <2> HIDE DEF c
  <2> QED
    BY <1>4, <2>1, <2>2 DEF Answer, Kept
<1>5. ASSUME NEW b \in running, Fail(b) PROVE Kept'
  BY <1>5 DEF Fail, Kept
<1>6. ASSUME NEW b \in running, Write(b) PROVE Kept'
  <2>1. /\ cache'[chunks[missing[b.at + 1]]] # None
        /\ \A id \in Ids : cache[id] # None => cache'[id] # None
    BY <1>6, WriteRight DEF Vectors
  <2> DEFINE c == [b EXCEPT !.at = @ + 1]
  <2>2. running' = (running \ {b}) \cup {c} /\ missing' = missing /\ chunks' = chunks /\ answered' = answered
    BY <1>6 DEF Write
  <2>3. c.at = b.at + 1 /\ c.start = b.start /\ b.at \in Nat /\ b.start \in Nat
    BY DEF TypedPlaces, TypeOK, Batch
  <2> HIDE DEF c
  <2>4. \A x \in running : \A j \in (x.start + 1)..x.at : chunks[missing[j]] \in Ids
    <3> SUFFICES ASSUME NEW x \in running, NEW j \in (x.start + 1)..x.at PROVE chunks[missing[j]] \in Ids
      OBVIOUS
    <3>1. j \in 1..Len(missing)
      BY DEF TypedPlaces, Bounds, TypeOK, Batch
    <3>2. missing[j] \in DOMAIN chunks
      BY <3>1 DEF TypedPlaces, TypeOK
    <3> QED
      BY <3>2 DEF TypedPlaces, TypeOK
  <2>5. \A x \in running : \A j \in (x.start + 1)..x.at : cache'[chunks[missing[j]]] # None
    BY <2>1, <2>4 DEF Kept
  <2>6. \A j \in (c.start + 1)..c.at : j \in (b.start + 1)..b.at \/ j = b.at + 1
    BY <2>3
  <2>7. \A j \in (c.start + 1)..c.at : cache'[chunks[missing[j]]] # None
    BY <2>1, <2>5, <2>6
  <2>8. \A id \in answered : cache'[id] # None
    BY <2>1 DEF Kept, TypedPlaces, TypeOK
  <2> QED
    BY <2>2, <2>5, <2>7, <2>8 DEF Kept
<1>7. ASSUME NEW b \in running, Report(b) PROVE Kept'
  <2>1. \A j \in (b.start + 1)..b.stop : j \in (b.start + 1)..b.at
    BY <1>7 DEF Report, TypedPlaces, TypeOK, Batch
  <2> QED
    BY <1>7, <2>1 DEF Report, Kept
<1>8. ASSUME Return PROVE Kept'
  BY <1>8 DEF Return, Kept
<1>9. ASSUME UNCHANGED vars PROVE Kept'
  BY <1>9 DEF vars, Kept
<1> QED
  BY <1>1, <1>2, <1>3, <1>4, <1>5, <1>6, <1>7, <1>8, <1>9 DEF Next, Works, Work

\* A call never lists as missing what a batch of an earlier call, failed or not,
\* has brought.
THEOREM RetriesAskOnlyForTheRest == Spec => KnownIsNotAskedAgain
<1>1. ASSUME TypedPlaces, Kept, [Next]_vars, pc = "idle", pc' = "launch", NEW j \in DOMAIN missing'
      PROVE  chunks'[missing'[j]] \notin answered
  <2>1. running = {}
    BY <1>1 DEF TypedPlaces, Bounds
  <2>2. PICK cs \in ChunkLists : EmbedChunks(cs)
    BY <1>1, <2>1 DEF Next, Works, Launch, LoopEnds, Return, vars
  <2>3. cs \in Seq(Ids) /\ chunks' = cs /\ missing' \in Listed(Unknown(cs))
    BY <2>2, ChunkListsType DEF EmbedChunks
  <2>4. missing'[j] \in Unknown(cs)
    <3>1. missing' \in Seq(DOMAIN cs) /\ \A i \in 1..Len(missing') : missing'[i] \in Unknown(cs)
      BY <2>3, ListedUnknown
    <3>2. j \in 1..Len(missing')
      BY <3>1
    <3> QED
      BY <3>1, <3>2
  <2>5. cache[cs[missing'[j]]] = None
    BY <2>4 DEF Unknown
  <2>6. cs[missing'[j]] \notin answered
    BY <1>1, <2>5 DEF Kept
  <2> QED
    BY <2>3, <2>6
<1>2. TypedPlaces /\ Kept /\ [Next]_vars =>
        [pc = "idle" /\ pc' = "launch" => \A j \in DOMAIN missing' : chunks'[missing'[j]] \notin answered]_vars
  BY <1>1
<1>3. TypedPlaces /\ Vectors /\ [Next]_vars => Vectors'
  BY NextVectors
<1>4. TypedPlaces /\ Vectors /\ Kept /\ [Next]_vars => Kept'
  BY NextKept
<1> QED
  BY <1>2, <1>3, <1>4, InitVectors, InitKept, AlwaysTyped, PTL DEF Spec, KnownIsNotAskedAgain

-----------------------------------------------------------------------------
(* The embedding cache: progress *)

\* The places of a batch among the missing, and what goroutines still have.
Held(b) == (b.start + 1)..b.stop
Outstanding == UNION {Held(b) : b \in running}

\* No two goroutines have the same place.
Apart ==
    /\ \A b \in running : b.start < b.stop
    /\ \A b, d \in running : b = d \/ b.stop <= d.start \/ d.stop <= b.start

\* What is reported and what goroutines still have is no more than the loop has
\* passed, and just that if none failed.
Ledger ==
    /\ Apart
    /\ reported \in Nat
    /\ reported + Cardinality(Outstanding) <= next
    /\ ~failed => reported + Cardinality(Outstanding) = next
    /\ answer = "vectors" => reported = Len(missing)

\* What goroutines have lies among what the loop has passed.
LEMMA OutstandingFinite ==
    ASSUME TypedPlaces
    PROVE  /\ Outstanding \subseteq 1..next /\ IsFiniteSet(Outstanding) /\ Cardinality(Outstanding) \in Nat
           /\ next \in Nat
<1>1. next \in Nat
  BY DEF TypedPlaces, TypeOK
<1>2. ASSUME NEW b \in running PROVE Held(b) \subseteq 1..next
  <2>1. b.start \in Nat /\ b.stop \in Nat /\ b.stop <= next
    BY DEF TypedPlaces, TypeOK, Bounds, Batch
  <2> QED
    BY <1>1, <2>1 DEF Held
<1>3. Outstanding \subseteq 1..next
  BY <1>2 DEF Outstanding
<1>4. IsFiniteSet(Outstanding)
  <2>1. IsFiniteSet(1..next)
    BY <1>1, FS_Interval
  <2> QED
    BY <1>3, <2>1, FS_Subset
<1> QED
  BY <1>1, <1>3, <1>4, FS_CardinalityType

LEMMA HeldSize ==
    ASSUME NEW b \in Batch, b.start < b.stop
    PROVE  IsFiniteSet(Held(b)) /\ Cardinality(Held(b)) = b.stop - b.start
<1>1. b.start + 1 \in Int /\ b.stop \in Int /\ b.start \in Int
  BY DEF Batch
<1>2. ~(b.start + 1 > b.stop) /\ b.stop - (b.start + 1) + 1 = b.stop - b.start
  BY <1>1
<1>3. /\ IsFiniteSet((b.start + 1)..b.stop)
      /\ Cardinality((b.start + 1)..b.stop) =
           IF b.start + 1 > b.stop THEN 0 ELSE b.stop - (b.start + 1) + 1
  BY <1>1, FS_Interval
<1> QED
  BY <1>2, <1>3 DEF Held

\* A goroutine that goes on, at whatever place, keeps what it has.
LEMMA GoesOn ==
    ASSUME TypedPlaces, Ledger, NEW b \in running, NEW c, c.start = b.start, c.stop = b.stop,
           running' = (running \ {b}) \cup {c}, UNCHANGED <<missing, next, failed, answer, reported>>
    PROVE  Ledger'
<1>1. Apart'
  BY DEF Ledger, Apart
<1>2. Held(c) = Held(b)
  BY DEF Held
<1>3. Outstanding' = Outstanding
  BY <1>2 DEF Outstanding, Held
<1> QED
  BY <1>1, <1>3 DEF Ledger

\* A goroutine that ends gives back what it has, which nobody else has.
LEMMA GivesBack ==
    ASSUME TypedPlaces, Ledger, NEW b \in running, running' = running \ {b}
    PROVE  /\ Apart'
           /\ Cardinality(Outstanding') = Cardinality(Outstanding) - Size(b)
           /\ Size(b) \in Nat
<1>1. b \in Batch /\ b.start < b.stop /\ b.start \in Nat /\ b.stop \in Nat
  BY DEF TypedPlaces, TypeOK, Ledger, Apart, Batch
<1>2. Apart'
  BY DEF Ledger, Apart
<1>3. ASSUME NEW d \in running, d # b PROVE Held(d) \cap Held(b) = {}
  <2>1. d.start \in Nat /\ d.stop \in Nat
    BY DEF TypedPlaces, TypeOK, Batch
  <2>2. d.stop <= b.start \/ b.stop <= d.start
    BY <1>3 DEF Ledger, Apart
  <2> QED
    BY <1>1, <2>1, <2>2 DEF Held
<1>4. Outstanding' = Outstanding \ Held(b)
  BY <1>3 DEF Outstanding, Held
<1>5. Outstanding \cap Held(b) = Held(b)
  BY DEF Outstanding
<1>6. Cardinality(Outstanding \ Held(b)) = Cardinality(Outstanding) - Cardinality(Held(b))
  BY <1>5, OutstandingFinite, FS_Difference
<1> QED
  BY <1>1, <1>2, <1>4, <1>6, HeldSize DEF Size

LEMMA InitLedger == Init => Ledger
<1> SUFFICES ASSUME Init PROVE Ledger
  OBVIOUS
<1>1. Outstanding = {}
  BY DEF Init, Outstanding
<1>2. Cardinality(Outstanding) = 0
  BY <1>1, FS_EmptySet
<1> QED
  BY <1>2, IdsAssumption DEF Init, Ledger, Apart

LEMMA NextLedger == TypedPlaces /\ Ledger /\ [Next]_vars => Ledger'
<1> SUFFICES ASSUME TypedPlaces, Ledger, [Next]_vars PROVE Ledger'
  OBVIOUS
<1> USE SizesAssumption
<1>1. ASSUME NEW cs \in ChunkLists, EmbedChunks(cs) PROVE Ledger'
  <2>1. /\ running = {} /\ running' = {} /\ next' = 0 /\ reported' = 0 /\ answer' = None
    BY <1>1 DEF EmbedChunks, TypedPlaces, Bounds
  <2>2. Cardinality(Outstanding') = 0
    BY <2>1, FS_EmptySet DEF Outstanding
  <2> QED
    BY <2>1, <2>2, IdsAssumption DEF Ledger, Apart
<1>2. ASSUME Launch PROVE Ledger'
  <2> DEFINE new == [start |-> next, stop |-> next', at |-> next, pc |-> "asking"]
  <2>1. /\ Len(missing) \in Nat /\ next \in Nat /\ next' \in Nat /\ next < next'
        /\ answer = None /\ UNCHANGED <<missing, failed, answer, reported>>
    BY <1>2 DEF Launch, TypedPlaces, Bounds, TypeOK
  <2>2. running' = running \cup {new} /\ new.start = next /\ new.stop = next' /\ new \in Batch
    BY <1>2, <2>1 DEF Launch, Batch
  <2> HIDE DEF new
  <2>3. \A b \in running : b.stop <= new.start /\ b.stop \in Nat /\ b.start \in Nat
    BY <2>2 DEF TypedPlaces, TypeOK, Bounds, Batch
  <2>4. Apart'
    BY <2>1, <2>2, <2>3 DEF Ledger, Apart
  <2>5. Outstanding' = Outstanding \cup Held(new)
    BY <2>2 DEF Outstanding, Held
  <2>6. Outstanding \cap Held(new) = {}
    <3>1. Held(new) = (next + 1)..next'
      BY <2>2 DEF Held
    <3> QED
      BY <2>1, <3>1, OutstandingFinite
  <2>7. IsFiniteSet(Held(new)) /\ Cardinality(Held(new)) = next' - next
    BY <2>1, <2>2, HeldSize
  <2>8. Cardinality(Outstanding') = Cardinality(Outstanding) + (next' - next)
    <3>1. Cardinality(Outstanding \cap Held(new)) = 0
      BY <2>6, FS_EmptySet
    <3>2. Cardinality(Outstanding \cup Held(new)) =
            Cardinality(Outstanding) + Cardinality(Held(new)) - Cardinality(Outstanding \cap Held(new))
      BY <2>7, OutstandingFinite, FS_Union
    <3> QED
      BY <2>1, <2>5, <2>7, <3>1, <3>2, OutstandingFinite
  <2> QED
    BY <2>1, <2>4, <2>8, OutstandingFinite, IdsAssumption DEF Ledger
<1>3. ASSUME LoopEnds PROVE Ledger'
  BY <1>3 DEF LoopEnds, Ledger, Apart, Outstanding, Held
<1>4. ASSUME NEW b \in running, Answer(b) PROVE Ledger'
  <2>1. [b EXCEPT !.pc = "writing"].start = b.start /\ [b EXCEPT !.pc = "writing"].stop = b.stop
    BY DEF TypedPlaces, TypeOK, Batch
  <2> QED
    BY <1>4, <2>1, GoesOn DEF Answer
<1>5. ASSUME NEW b \in running, Fail(b) PROVE Ledger'
  <2>1. /\ running' = running \ {b} /\ failed' = TRUE /\ answer = None
        /\ UNCHANGED <<missing, next, answer, reported>>
    BY <1>5 DEF Fail, TypedPlaces, Bounds
  <2>2. Apart' /\ Cardinality(Outstanding') = Cardinality(Outstanding) - Size(b) /\ Size(b) \in Nat
    BY <2>1, GivesBack
  <2> QED
    BY <2>1, <2>2, OutstandingFinite, IdsAssumption DEF Ledger
<1>6. ASSUME NEW b \in running, Write(b) PROVE Ledger'
  <2>1. [b EXCEPT !.at = @ + 1].start = b.start /\ [b EXCEPT !.at = @ + 1].stop = b.stop
    BY DEF TypedPlaces, TypeOK, Batch
  <2> QED
    BY <1>6, <2>1, GoesOn DEF Write
<1>7. ASSUME NEW b \in running, Report(b) PROVE Ledger'
  <2>1. /\ running' = running \ {b} /\ reported' = reported + Size(b) /\ answer = None
        /\ UNCHANGED <<missing, next, answer, failed>>
    BY <1>7 DEF Report, TypedPlaces, Bounds
  <2>2. Apart' /\ Cardinality(Outstanding') = Cardinality(Outstanding) - Size(b) /\ Size(b) \in Nat
    BY <2>1, GivesBack
  <2> QED
    BY <2>1, <2>2, OutstandingFinite, IdsAssumption DEF Ledger
<1>8. ASSUME Return PROVE Ledger'
  <2>1. next = Len(missing) /\ running = {} /\ UNCHANGED <<missing, next, running, failed, reported>>
    BY <1>8 DEF Return, TypedPlaces, Bounds
  <2>2. Outstanding = {} /\ Outstanding' = {}
    BY <2>1 DEF Outstanding
  <2>3. Cardinality(Outstanding) = 0
    BY <2>2, FS_EmptySet
  <2>4. ~failed => reported = Len(missing)
    BY <2>1, <2>3 DEF Ledger
  <2> QED
    BY <1>8, <2>1, <2>2, <2>3, <2>4 DEF Return, Ledger, Apart
<1>9. ASSUME UNCHANGED vars PROVE Ledger'
  BY <1>9 DEF vars, Ledger, Apart, Outstanding, Held
<1> QED
  BY <1>1, <1>2, <1>3, <1>4, <1>5, <1>6, <1>7, <1>8, <1>9 DEF Next, Works, Work

\* Progress never tells of more chunks than were missing, and of every one once
\* vectors are returned, for any batch size and whichever batches fail.
THEOREM ProgressIsComplete == Spec => []ProgressAddsUp
<1>1. TypedPlaces /\ Ledger => ProgressAddsUp
  <2> SUFFICES ASSUME TypedPlaces, Ledger PROVE ProgressAddsUp
    OBVIOUS
  <2>1. next <= Len(missing) /\ Len(missing) \in Nat /\ Cardinality(Outstanding) \in Nat /\ next \in Nat
    BY OutstandingFinite DEF TypedPlaces, TypeOK
  <2> QED
    BY <2>1 DEF Ledger, ProgressAddsUp
<1> QED
  BY <1>1, AlwaysTyped, InitLedger, NextLedger, PTL DEF Spec

-----------------------------------------------------------------------------
(* Change lists and layouts: types *)

\* What a request has read, and what is kept of one.
Results ==
    [op : {"changes", "layout"}, key : Views, pc : {"find", "dirs", "walk", "hashes", "store"},
     age : Nat, raced : BOOLEAN, dir : Projects \cup {Absent}, disk : Nat, index : [Projects -> Nat]]

\* How far a request of either kind can be.
UnderWay(r) ==
    /\ r \in Results /\ r.age <= Slow
    /\ r.op = "changes" => r.key \in Projects
    /\ r.op = "layout" => r.pc = "store"
    /\ r.pc = "find" => r.dir = Absent
    /\ r.pc \in {"walk", "hashes"} => r.dir \in Projects

ChangeList(p, e) == e \in Results /\ e.op = "changes" /\ e.key = p /\ e.age < Ttl
Layout(v, e) == e \in Results /\ e.op = "layout" /\ e.key = v

TypedWorld ==
    /\ disk \in [Projects -> Nat] /\ index \in [Projects -> Nat]
    /\ psnap \in Seq(Projects) /\ dsnap \in Seq(Projects) /\ job.list \in Seq(Projects)
    /\ job.scope \subseteq Projects /\ job.pc \in {"idle", "work", "layouts", "dsnap"}
    /\ job = [kind |-> job.kind, scope |-> job.scope, pc |-> job.pc, list |-> job.list]
    /\ quiet \in [Projects -> Nat]

TypedCaches ==
    /\ changes = [p \in Projects |-> changes[p]]
    /\ \A p \in Projects : changes[p] = Absent \/ ChangeList(p, changes[p])
    /\ layouts = [v \in Views |-> layouts[v]]
    /\ \A v \in Views : layouts[v] = Absent \/ Layout(v, layouts[v])

TypedCalls ==
    /\ call = [c \in Clients |-> call[c]]
    /\ \A c \in Clients : call[c] = Idle \/ UnderWay(call[c])

CachesTyped == TypedWorld /\ TypedCaches /\ TypedCalls

LEMMA IdleIsNoResult == Idle.pc = "idle" /\ \A r \in Results : r # Idle
  BY DEF Idle, Results

\* The request that DetectChangesCached and GraphLayout begin.
LEMMA BegunType ==
    /\ \A p \in Projects : UnderWay([Idle EXCEPT !.op = "changes", !.key = p, !.pc = "find"])
    /\ \A v \in Views, f \in [Projects -> Nat] :
          UnderWay([Idle EXCEPT !.op = "layout", !.key = v, !.pc = "store", !.index = f])
<1>1. /\ Idle \in [op : {Absent}, key : {Absent}, pc : {"idle"}, age : Nat, raced : BOOLEAN,
                   dir : {Absent}, disk : Nat, index : [Projects -> Nat]]
      /\ Idle.age = 0
  BY DEF Idle
<1>2. ASSUME NEW p \in Projects
      PROVE  UnderWay([Idle EXCEPT !.op = "changes", !.key = p, !.pc = "find"])
  <2> DEFINE r == [Idle EXCEPT !.op = "changes", !.key = p, !.pc = "find"]
  <2>1. /\ r \in [op : {"changes"}, key : {p}, pc : {"find"}, age : Nat, raced : BOOLEAN,
                  dir : {Absent}, disk : Nat, index : [Projects -> Nat]]
        /\ r.age = 0
    BY <1>1
  <2> HIDE DEF r
  <2>2. r \in Results
    BY <2>1 DEF Results, Views
  <2>3. UnderWay(r)
    BY <2>1, <2>2, TimesAssumption DEF UnderWay
  <2> QED
    BY <2>3 DEF r
<1>3. ASSUME NEW v \in Views, NEW f \in [Projects -> Nat]
      PROVE  UnderWay([Idle EXCEPT !.op = "layout", !.key = v, !.pc = "store", !.index = f])
  <2> DEFINE r == [Idle EXCEPT !.op = "layout", !.key = v, !.pc = "store", !.index = f]
  <2>1. /\ r \in [op : {"layout"}, key : {v}, pc : {"store"}, age : Nat, raced : BOOLEAN,
                  dir : {Absent}, disk : Nat, index : [Projects -> Nat]]
        /\ r.age = 0
    BY <1>1
  <2> HIDE DEF r
  <2>2. r \in Results
    BY <2>1 DEF Results
  <2>3. UnderWay(r)
    BY <2>1, <2>2, TimesAssumption DEF UnderWay
  <2> QED
    BY <2>3 DEF r
<1> QED
  BY <1>2, <1>3

\* The lists of projects that updateSnapshots may store.
LEMMA ListsType ==
    ASSUME NEW list \in Seq(Projects), NEW p \in Projects
    PROVE  Append(list, p) \in Seq(Projects) /\ \A k \in Places(list, p) : Without(list, k) \in Seq(Projects)
<1>1. Append(list, p) \in Seq(Projects)
  OBVIOUS
<1>2. ASSUME NEW k \in Places(list, p) PROVE Without(list, k) \in Seq(Projects)
  <2>1. k \in 1..Len(list)
    BY DEF Places
  <2>2. Len(list) - 1 \in Nat
    BY <2>1
  <2>3. Without(list, k) \in [1..(Len(list) - 1) -> Projects]
    BY <2>1, <2>2 DEF Without
  <2> QED
    BY <2>2, <2>3
<1> QED
  BY <1>1, <1>2

\* A step of one request.
LEMMA UpdateTyped ==
    ASSUME TypedCalls, NEW c \in Clients, NEW r, Update(c, r), r = Idle \/ UnderWay(r)
    PROVE  TypedCalls'
<1>1. call' = [d \in Clients |-> IF d = c THEN r ELSE call[d]]
  BY DEF Update, TypedCalls
<1>2. \A d \in Clients : call'[d] = Idle \/ UnderWay(call'[d])
  BY <1>1 DEF TypedCalls
<1>3. call' = [d \in Clients |-> call'[d]]
  BY <1>1
<1> QED
  BY <1>2, <1>3 DEF TypedCalls

LEMMA RaceTyped ==
    ASSUME TypedWorld, TypedCalls, NEW op, call' = Race(op)
    PROVE  TypedCalls'
<1>1. Absent \notin Dropped
  BY ViewsAssumption DEF TypedWorld, Dropped, Views
<1>2. ASSUME NEW c \in Clients PROVE call'[c] = Idle \/ UnderWay(call'[c])
  <2>1. call'[c] = [call[c] EXCEPT !.raced = @ \/ (call[c].op = op /\ call[c].key \in Dropped)]
    BY DEF Race
  <2>2. CASE call[c] = Idle
    <3>1. ~(call[c].op = op /\ call[c].key \in Dropped) /\ call[c].raced = FALSE
      BY <1>1, <2>2 DEF Idle
    <3>2. call'[c] = [Idle EXCEPT !.raced = FALSE]
      BY <2>1, <2>2, <3>1
    <3> QED
      BY <3>2 DEF Idle
  <2>3. CASE UnderWay(call[c])
    <3> DEFINE raced == call[c].raced \/ (call[c].op = op /\ call[c].key \in Dropped)
    <3>1. raced \in BOOLEAN
      BY <2>3 DEF UnderWay, Results
    <3>2. call'[c] = [call[c] EXCEPT !.raced = raced]
      BY <2>1
    <3> QED
      BY <2>3, <3>1, <3>2 DEF UnderWay, Results
  <2> QED
    BY <2>2, <2>3 DEF TypedCalls
<1>3. call' = [c \in Clients |-> call'[c]]
  BY DEF Race
<1> QED
  BY <1>2, <1>3 DEF TypedCalls

LEMMA InitCachesTyped == CachesInit => CachesTyped
<1> SUFFICES ASSUME CachesInit PROVE CachesTyped
  OBVIOUS
<1>1. psnap \in Seq(Projects)
  BY ProjectsAssumption, FS_CardinalityType DEF CachesInit
<1>2. TypedWorld
  BY <1>1 DEF CachesInit, TypedWorld, NoJob
<1>3. TypedCaches /\ TypedCalls
  BY DEF CachesInit, TypedCaches, TypedCalls
<1> QED
  BY <1>2, <1>3 DEF CachesTyped

LEMMA TickTyped == ASSUME CachesTyped, Tick PROVE CachesTyped'
<1> USE TimesAssumption
<1>1. TypedWorld'
  BY DEF Tick, world, CachesTyped, TypedWorld
<1>2. ASSUME NEW p \in Projects PROVE changes'[p] = Absent \/ ChangeList(p, changes'[p])
  <2>1. changes'[p] = Aged(changes[p])
    BY DEF Tick
  <2>2. CASE changes[p] = Absent
    BY <2>1, <2>2 DEF Aged
  <2>3. CASE ChangeList(p, changes[p])
    BY <2>1, <2>3 DEF Aged, ChangeList, Results
  <2> QED
    BY <2>2, <2>3 DEF CachesTyped, TypedCaches
<1>3. TypedCaches'
  BY <1>2 DEF Tick, CachesTyped, TypedCaches
<1>4. ASSUME NEW c \in Clients PROVE call'[c] = Idle \/ UnderWay(call'[c])
  <2>1. call'[c] = IF call[c] = Idle THEN Idle ELSE [call[c] EXCEPT !.age = @ + 1]
    BY DEF Tick
  <2>2. CASE UnderWay(call[c])
    <3>1. call[c].pc # "idle"
      BY <2>2 DEF UnderWay, Results
    <3>2. call[c].age < Slow
      BY <3>1 DEF Tick
    <3> QED
      BY <2>1, <2>2, <3>2 DEF UnderWay, Results
  <2> QED
    BY <2>1, <2>2 DEF CachesTyped, TypedCalls
<1>5. TypedCalls'
  BY <1>4 DEF Tick, TypedCalls
<1> QED
  BY <1>1, <1>3, <1>5 DEF CachesTyped

LEMMA RequestTyped ==
    ASSUME CachesTyped, NEW c \in Clients, Request(c)
    PROVE  CachesTyped'
<1> USE TimesAssumption
<1>1. ASSUME NEW p \in Projects, AskChanges(c, p) PROVE CachesTyped'
  <2>1. CASE changes[p] # Absent
    BY <1>1, <2>1 DEF AskChanges, world, caches, CachesTyped, TypedWorld, TypedCaches, TypedCalls
  <2>2. CASE changes[p] = Absent
    <3> DEFINE r == [Idle EXCEPT !.op = "changes", !.key = p, !.pc = "find"]
    <3>1. UnderWay(r)
      BY BegunType
    <3>2. Update(c, r)
      BY <1>1, <2>2 DEF AskChanges
    <3>3. TypedCalls'
      BY <3>1, <3>2, UpdateTyped DEF CachesTyped
    <3> QED
      BY <1>1, <3>3 DEF AskChanges, world, caches, CachesTyped, TypedWorld, TypedCaches
  <2> QED
    BY <2>1, <2>2
<1>2. ASSUME FindProject(c) PROVE CachesTyped'
  <2>1. UnderWay(call[c]) /\ call[c].op = "changes" /\ call[c].key \in Projects
    <3>1. call[c].pc = "find" /\ call[c] # Idle
      BY <1>2, IdleIsNoResult DEF FindProject
    <3> QED
      BY <3>1 DEF CachesTyped, TypedCalls, UnderWay, Results
  <2>2. PICK r : Update(c, r) /\ UnderWay(r)
    <3>1. CASE Places(psnap, call[c].key) = {}
      <4> DEFINE r == [call[c] EXCEPT !.pc = "store"]
      <4>1. UnderWay(r)
        BY <2>1 DEF UnderWay, Results
      <4> QED
        BY <1>2, <3>1, <4>1 DEF FindProject
    <3>2. CASE Places(psnap, call[c].key) # {}
      <4>1. PICK i \in Places(psnap, call[c].key) : Update(c, [call[c] EXCEPT !.pc = "dirs", !.disk = i])
        BY <1>2, <3>2 DEF FindProject
      <4>2. i \in Nat
        BY DEF Places, CachesTyped, TypedWorld
      <4>3. UnderWay([call[c] EXCEPT !.pc = "dirs", !.disk = i])
        BY <2>1, <4>2 DEF UnderWay, Results
      <4> QED
        BY <4>1, <4>3
    <3> QED
      BY <3>1, <3>2
  <2>3. TypedCalls'
    BY <2>2, UpdateTyped DEF CachesTyped
  <2> QED
    BY <1>2, <2>3 DEF FindProject, world, caches, ghosts, CachesTyped, TypedWorld, TypedCaches
<1>3. ASSUME FindDirectory(c) PROVE CachesTyped'
  <2>1. UnderWay(call[c]) /\ call[c].op = "changes" /\ call[c].key \in Projects
    BY <1>3 DEF FindDirectory, CachesTyped, TypedCalls, UnderWay, Results, Idle
  <2>2. PICK r : Update(c, r) /\ (r = Idle \/ UnderWay(r))
    <3>1. CASE call[c].disk \in DOMAIN dsnap
      <4>1. dsnap[call[c].disk] \in Projects
        BY <3>1 DEF CachesTyped, TypedWorld
      <4>2. UnderWay([call[c] EXCEPT !.pc = "walk", !.dir = dsnap[call[c].disk]])
        BY <2>1, <4>1 DEF UnderWay, Results
      <4> QED
        BY <1>3, <3>1, <4>2 DEF FindDirectory
    <3>2. CASE call[c].disk \notin DOMAIN dsnap
      BY <1>3, <3>2 DEF FindDirectory
    <3> QED
      BY <3>1, <3>2
  <2>3. TypedCalls'
    BY <2>2, UpdateTyped DEF CachesTyped
  <2> QED
    BY <1>3, <2>3 DEF FindDirectory, world, caches, ghosts, CachesTyped, TypedWorld, TypedCaches
<1>4. ASSUME WalkFiles(c) PROVE CachesTyped'
  <2>1. UnderWay(call[c]) /\ call[c].dir \in Projects
    BY <1>4 DEF WalkFiles, CachesTyped, TypedCalls, UnderWay, Results, Idle
  <2>2. disk[call[c].dir] \in Nat
    BY <2>1 DEF CachesTyped, TypedWorld
  <2>3. UnderWay([call[c] EXCEPT !.pc = "hashes", !.disk = disk[call[c].dir]])
    BY <1>4, <2>1, <2>2 DEF WalkFiles, UnderWay, Results
  <2>4. TypedCalls'
    BY <1>4, <2>3, UpdateTyped DEF WalkFiles, CachesTyped
  <2> QED
    BY <1>4, <2>4 DEF WalkFiles, world, caches, ghosts, CachesTyped, TypedWorld, TypedCaches
<1>5. ASSUME FailWalk(c) PROVE CachesTyped'
  <2>1. UnderWay(call[c])
    BY <1>5 DEF FailWalk, CachesTyped, TypedCalls, Idle
  <2>2. UnderWay([call[c] EXCEPT !.pc = "store", !.dir = Absent])
    BY <2>1 DEF UnderWay, Results
  <2>3. TypedCalls'
    BY <1>5, <2>2, UpdateTyped DEF FailWalk, CachesTyped
  <2>4. quiet' \in [Projects -> Nat]
    BY <1>5 DEF FailWalk, CachesTyped, TypedWorld
  <2> QED
    BY <1>5, <2>3, <2>4 DEF FailWalk, world, caches, CachesTyped, TypedWorld, TypedCaches
<1>6. ASSUME ReadHashes(c) PROVE CachesTyped'
  <2>1. UnderWay(call[c]) /\ call[c].dir \in Projects
    BY <1>6 DEF ReadHashes, CachesTyped, TypedCalls, UnderWay, Results, Idle
  <2>2. index[call[c].dir] \in Nat
    BY <2>1 DEF CachesTyped, TypedWorld
  <2>3. UnderWay([call[c] EXCEPT !.pc = "store", !.index[call[c].dir] = index[call[c].dir]])
    BY <2>1, <2>2 DEF UnderWay, Results
  <2>4. TypedCalls'
    BY <1>6, <2>3, UpdateTyped DEF ReadHashes, CachesTyped
  <2> QED
    BY <1>6, <2>4 DEF ReadHashes, world, caches, ghosts, CachesTyped, TypedWorld, TypedCaches
<1>7. ASSUME StoreChanges(c) PROVE CachesTyped'
  <2>1. UnderWay(call[c]) /\ call[c].op = "changes" /\ call[c].key \in Projects
    BY <1>7 DEF StoreChanges, CachesTyped, TypedCalls, UnderWay, Idle
  <2>2. ChangeList(call[c].key, [call[c] EXCEPT !.age = 0])
    BY <2>1 DEF UnderWay, ChangeList, Results
  <2>3. TypedCaches'
    BY <1>7, <2>1, <2>2 DEF StoreChanges, CachesTyped, TypedCaches
  <2>4. TypedCalls'
    BY <1>7, UpdateTyped DEF StoreChanges, CachesTyped
  <2> QED
    BY <1>7, <2>3, <2>4 DEF StoreChanges, world, CachesTyped, TypedWorld
<1>8. ASSUME NEW v \in Views, AskLayout(c, v) PROVE CachesTyped'
  <2>1. Read(v) \in [Projects -> Nat]
    BY DEF Read, CachesTyped, TypedWorld
  <2>2. UnderWay([Idle EXCEPT !.op = "layout", !.key = v, !.pc = "store", !.index = Read(v)])
    BY <2>1, BegunType
  <2>3. TypedCalls'
    BY <1>8, <2>2, UpdateTyped DEF AskLayout, CachesTyped
  <2> QED
    BY <1>8, <2>3 DEF AskLayout, world, caches, ghosts, CachesTyped, TypedWorld, TypedCaches
<1>9. ASSUME StoreLayout(c) PROVE CachesTyped'
  <2>1. UnderWay(call[c]) /\ call[c].op = "layout" /\ call[c].key \in Views
    BY <1>9 DEF StoreLayout, CachesTyped, TypedCalls, UnderWay, Results, Idle
  <2>2. Layout(call[c].key, [call[c] EXCEPT !.age = 0])
    BY <2>1 DEF UnderWay, Layout, Results
  <2>3. TypedCaches'
    BY <1>9, <2>1, <2>2 DEF StoreLayout, CachesTyped, TypedCaches
  <2>4. TypedCalls'
    BY <1>9, UpdateTyped DEF StoreLayout, CachesTyped
  <2> QED
    BY <1>9, <2>3, <2>4 DEF StoreLayout, world, ghosts, CachesTyped, TypedWorld
<1> QED
  BY <1>1, <1>2, <1>3, <1>4, <1>5, <1>6, <1>7, <1>8, <1>9 DEF Request

LEMMA NextCachesTyped == CachesTyped /\ [CachesNext]_cachesVars => CachesTyped'
<1> SUFFICES ASSUME CachesTyped, [CachesNext]_cachesVars PROVE CachesTyped'
  OBVIOUS
<1>1. CASE Tick
  BY <1>1, TickTyped
<1>2. ASSUME NEW p \in Projects, EditFiles(p) PROVE CachesTyped'
  BY <1>2 DEF EditFiles, caches, CachesTyped, TypedWorld, TypedCaches, TypedCalls
<1>3. ASSUME NEW p \in Projects, JobWorks(p) PROVE CachesTyped'
  <2>1. index' \in [Projects -> Nat] /\ quiet' \in [Projects -> Nat]
    BY <1>3 DEF JobWorks, CachesTyped, TypedWorld
  <2> QED
    BY <1>3, <2>1 DEF JobWorks, caches, CachesTyped, TypedWorld, TypedCaches, TypedCalls
<1>4. ASSUME NEW kind, NEW S \in SUBSET Projects, StartJob(kind, S) PROVE CachesTyped'
  BY <1>4 DEF StartJob, NoJob, world, caches, ghosts, CachesTyped, TypedWorld, TypedCaches, TypedCalls
<1>5. CASE JobEndsQuietly
  BY <1>5 DEF JobEndsQuietly, NoJob, world, caches, ghosts, CachesTyped, TypedWorld, TypedCaches, TypedCalls
<1>6. CASE InvalidateChanges
  <2>1. TypedCalls'
    BY <1>6, RaceTyped DEF InvalidateChanges, CachesTyped
  <2> QED
    BY <1>6, <2>1 DEF InvalidateChanges, world, ghosts, CachesTyped, TypedWorld, TypedCaches
<1>7. CASE InvalidateLayouts
  <2>1. TypedCalls'
    BY <1>7, RaceTyped DEF InvalidateLayouts, CachesTyped
  <2> QED
    BY <1>7, <2>1 DEF InvalidateLayouts, NoJob, world, CachesTyped, TypedWorld, TypedCaches
<1>8. ASSUME NEW p \in Projects, StorePsnap(p) PROVE CachesTyped'
  <2>1. psnap' \in Seq(Projects)
    BY <1>8, ListsType DEF StorePsnap, CachesTyped, TypedWorld
  <2> QED
    BY <1>8, <2>1 DEF StorePsnap, NoJob, caches, CachesTyped, TypedWorld, TypedCaches, TypedCalls
<1>9. CASE StoreDsnap
  BY <1>9 DEF StoreDsnap, NoJob, caches, CachesTyped, TypedWorld, TypedCaches, TypedCalls
<1>10. ASSUME NEW c \in Clients, Request(c) PROVE CachesTyped'
  BY <1>10, RequestTyped
<1>11. CASE UNCHANGED cachesVars
  BY <1>11 DEF cachesVars, CachesTyped, TypedWorld, TypedCaches, TypedCalls
<1> QED
  BY <1>1, <1>2, <1>3, <1>4, <1>5, <1>6, <1>7, <1>8, <1>9, <1>10, <1>11 DEF CachesNext

\* The caches, the requests and the lists have the types of their declarations, and
\* no change list is told that is older than the lifetime of an entry.
THEOREM CachesTypeCorrect == CachesSpec => []CachesTypeOK
<1>1. CachesTyped => CachesTypeOK
  BY DEF CachesTyped, TypedWorld, TypedCaches, TypedCalls, CachesTypeOK, ChangeList, Layout, UnderWay, Results
<1> QED
  BY <1>1, InitCachesTyped, NextCachesTyped, PTL DEF CachesSpec

-----------------------------------------------------------------------------
(* Change lists and layouts: a rebuild that has succeeded is seen *)

\* What a rebuild has left is of the index as it is or was.
RebuiltIsPast ==
    /\ rebuilt \in [Views -> [Projects -> Nat]]
    /\ \A v \in Views : \A p \in Scope(v) : rebuilt[v][p] <= index[p]

\* A result that no invalidation could overlook is of the index that the last
\* rebuild left; between its two invalidations a job does not change the index.
UpToDate(r) ==
    /\ r.op = "changes" /\ ~r.raced /\ r.dir = r.key =>
          /\ r.index[r.key] >= rebuilt[r.key][r.key]
          /\ job.pc = "layouts" /\ r.key \in Dropped => r.index[r.key] >= index[r.key]
    /\ r.op = "layout" /\ ~r.raced => \A p \in Scope(r.key) : r.index[p] >= rebuilt[r.key][p]

Rebuilds ==
    /\ RebuiltIsPast
    /\ \A c \in Clients : call[c].pc = "store" => UpToDate(call[c])
    /\ \A p \in Projects : changes[p] # Absent => UpToDate(changes[p])
    /\ \A v \in Views : layouts[v] # Absent => UpToDate(layouts[v])

LEMMA ScopeType == \A v \in Views : Scope(v) \subseteq Projects /\ (v \in Projects => Scope(v) = {v})
  BY ViewsAssumption DEF Views, Scope

LEMMA InitRebuilds == CachesInit => Rebuilds
<1> SUFFICES ASSUME CachesInit PROVE Rebuilds
  OBVIOUS
<1>1. RebuiltIsPast
  BY ScopeType DEF CachesInit, RebuiltIsPast
<1>2. \A c \in Clients : call[c].pc # "store"
  BY IdleIsNoResult DEF CachesInit
<1> QED
  BY <1>1, <1>2 DEF CachesInit, Rebuilds

\* Where neither the index nor the job nor its rebuilds change, only what is new counts.
LEMMA SameWorld ==
    ASSUME Rebuilds, UNCHANGED <<index, job, rebuilt>>
    PROVE  RebuiltIsPast' /\ \A r : UpToDate(r) => UpToDate(r)'
  BY DEF Rebuilds, RebuiltIsPast, UpToDate, Dropped

\* The age of a result does not matter, nor where its request stands.
LEMMA OnlyTheRead ==
    ASSUME NEW r, NEW s, UpToDate(r), s.op = r.op, s.key = r.key, s.raced = r.raced, s.dir = r.dir,
           s.index = r.index
    PROVE  UpToDate(s)
  BY DEF UpToDate

LEMMA TickRebuilds == ASSUME CachesTyped, Rebuilds, Tick PROVE Rebuilds'
<1>1. UNCHANGED <<index, job, rebuilt>>
  BY DEF Tick, world
<1>2. RebuiltIsPast'
  BY <1>1, SameWorld
<1>3. ASSUME NEW c \in Clients, call'[c].pc = "store" PROVE UpToDate(call[c])'
  <2>1. call'[c] = IF call[c] = Idle THEN Idle ELSE [call[c] EXCEPT !.age = @ + 1]
    BY DEF Tick
  <2>2. UnderWay(call[c]) /\ call'[c] = [call[c] EXCEPT !.age = @ + 1]
    BY <1>3, <2>1, IdleIsNoResult DEF CachesTyped, TypedCalls
  <2>3. call[c].pc = "store" /\ call'[c].op = call[c].op /\ call'[c].key = call[c].key
        /\ call'[c].raced = call[c].raced /\ call'[c].dir = call[c].dir /\ call'[c].index = call[c].index
    BY <1>3, <2>2 DEF UnderWay, Results
  <2>4. UpToDate(call'[c])
    BY <2>3, OnlyTheRead DEF Rebuilds
  <2> QED
    BY <1>1, <2>4, SameWorld
<1>4. ASSUME NEW p \in Projects, changes'[p] # Absent PROVE UpToDate(changes[p])'
  <2>1. changes[p] # Absent /\ changes'[p] = [changes[p] EXCEPT !.age = @ + 1]
    BY <1>4 DEF Tick, Aged
  <2>2. changes[p] \in Results
    BY <2>1 DEF CachesTyped, TypedCaches, ChangeList
  <2>3. changes'[p].op = changes[p].op /\ changes'[p].key = changes[p].key
        /\ changes'[p].raced = changes[p].raced /\ changes'[p].dir = changes[p].dir
        /\ changes'[p].index = changes[p].index
    BY <2>1, <2>2 DEF Results
  <2>4. UpToDate(changes'[p])
    BY <2>1, <2>3, OnlyTheRead DEF Rebuilds
  <2> QED
    BY <1>1, <2>4, SameWorld
<1>5. ASSUME NEW v \in Views, layouts'[v] # Absent PROVE UpToDate(layouts[v])'
  BY <1>1, <1>5, SameWorld DEF Tick, Rebuilds
<1> QED
  BY <1>2, <1>3, <1>4, <1>5 DEF Rebuilds

\* A step of one request that stores nothing: what it may store must be up to date.
LEMMA UpdateRebuilds ==
    ASSUME CachesTyped, Rebuilds, UNCHANGED <<index, job, rebuilt, caches>>, NEW c \in Clients, NEW r,
           Update(c, r), r.pc = "store" => UpToDate(r)
    PROVE  Rebuilds'
<1>1. RebuiltIsPast' /\ \A s : UpToDate(s) => UpToDate(s)'
  BY SameWorld
<1>2. call' = [d \in Clients |-> IF d = c THEN r ELSE call[d]]
  BY DEF Update, CachesTyped, TypedCalls
<1>3. \A d \in Clients : call'[d].pc = "store" => UpToDate(call'[d])
  BY <1>2 DEF Rebuilds
<1>4. \A p \in Projects : changes'[p] # Absent => UpToDate(changes'[p])
  BY DEF Rebuilds, caches
<1>5. \A v \in Views : layouts'[v] # Absent => UpToDate(layouts'[v])
  BY DEF Rebuilds, caches
<1> QED
  BY <1>1, <1>3, <1>4, <1>5 DEF Rebuilds

LEMMA RequestRebuilds ==
    ASSUME CachesTyped, Rebuilds, NEW c \in Clients, Request(c)
    PROVE  Rebuilds'
<1>1. ASSUME NEW p \in Projects, AskChanges(c, p) PROVE Rebuilds'
  <2>1. CASE changes[p] # Absent
    <3>1. UNCHANGED <<index, job, rebuilt, caches, call>>
      BY <1>1, <2>1 DEF AskChanges, world
    <3> QED
      BY <3>1, SameWorld DEF Rebuilds, caches
  <2>2. CASE changes[p] = Absent
    <3> DEFINE r == [Idle EXCEPT !.op = "changes", !.key = p, !.pc = "find"]
    <3>1. r.pc = "find"
      BY DEF Idle
    <3>2. Update(c, r) /\ UNCHANGED <<index, job, rebuilt, caches>>
      BY <1>1, <2>2 DEF AskChanges, world
    <3> QED
      BY <3>1, <3>2, UpdateRebuilds
  <2> QED
    BY <2>1, <2>2
<1>2. ASSUME FindProject(c) PROVE Rebuilds'
  <2>1. call[c].pc = "find" /\ UNCHANGED <<index, job, rebuilt, caches>>
    BY <1>2 DEF FindProject, world, ghosts
  <2>2. UnderWay(call[c]) /\ call[c].op = "changes" /\ call[c].key # call[c].dir
    BY <2>1, IdleIsNoResult, ViewsAssumption DEF CachesTyped, TypedCalls, UnderWay, Results
  <2>3. PICK r : Update(c, r) /\ (r.pc = "store" => UpToDate(r))
    <3>1. CASE Places(psnap, call[c].key) = {}
      <4>1. UpToDate([call[c] EXCEPT !.pc = "store"])
        BY <2>2 DEF UpToDate, UnderWay, Results
      <4> QED
        BY <1>2, <3>1, <4>1 DEF FindProject
    <3>2. CASE Places(psnap, call[c].key) # {}
      <4>1. PICK i : Update(c, [call[c] EXCEPT !.pc = "dirs", !.disk = i])
        BY <1>2, <3>2 DEF FindProject
      <4>2. [call[c] EXCEPT !.pc = "dirs", !.disk = i].pc = "dirs"
        BY <2>2 DEF UnderWay, Results
      <4> QED
        BY <4>1, <4>2
    <3> QED
      BY <3>1, <3>2
  <2> QED
    BY <2>1, <2>3, UpdateRebuilds
<1>3. ASSUME FindDirectory(c) PROVE Rebuilds'
  <2>1. call[c].pc = "dirs" /\ UNCHANGED <<index, job, rebuilt, caches>>
    BY <1>3 DEF FindDirectory, world, ghosts
  <2>2. UnderWay(call[c])
    BY <2>1, IdleIsNoResult DEF CachesTyped, TypedCalls
  <2>3. PICK r : Update(c, r) /\ r.pc # "store"
    <3>1. [call[c] EXCEPT !.pc = "walk", !.dir = dsnap[call[c].disk]].pc = "walk"
      BY <2>2 DEF UnderWay, Results
    <3> QED
      BY <1>3, <3>1, IdleIsNoResult DEF FindDirectory
  <2> QED
    BY <2>1, <2>3, UpdateRebuilds
<1>4. ASSUME WalkFiles(c) PROVE Rebuilds'
  <2>1. call[c].pc = "walk" /\ UNCHANGED <<index, job, rebuilt, caches>>
    BY <1>4 DEF WalkFiles, world, ghosts
  <2>2. UnderWay(call[c])
    BY <2>1, IdleIsNoResult DEF CachesTyped, TypedCalls
  <2>3. [call[c] EXCEPT !.pc = "hashes", !.disk = disk[call[c].dir]].pc = "hashes"
    BY <2>2 DEF UnderWay, Results
  <2> QED
    BY <1>4, <2>1, <2>3, UpdateRebuilds DEF WalkFiles
<1>5. ASSUME FailWalk(c) PROVE Rebuilds'
  <2>1. call[c].pc = "walk" /\ UNCHANGED <<index, job, rebuilt, caches>>
    BY <1>5 DEF FailWalk, world
  <2>2. UnderWay(call[c]) /\ call[c].op = "changes" /\ call[c].key # Absent
    BY <2>1, IdleIsNoResult, ViewsAssumption DEF CachesTyped, TypedCalls, UnderWay, Results
  <2>3. UpToDate([call[c] EXCEPT !.pc = "store", !.dir = Absent])
    BY <2>2 DEF UpToDate, UnderWay, Results
  <2> QED
    BY <1>5, <2>1, <2>3, UpdateRebuilds DEF FailWalk
<1>6. ASSUME ReadHashes(c) PROVE Rebuilds'
  <2>1. call[c].pc = "hashes" /\ UNCHANGED <<index, job, rebuilt, caches>>
    BY <1>6 DEF ReadHashes, world, ghosts
  <2>2. UnderWay(call[c]) /\ call[c].op = "changes" /\ call[c].key \in Projects /\ call[c].dir \in Projects
    BY <2>1, IdleIsNoResult DEF CachesTyped, TypedCalls, UnderWay, Results
  <2> DEFINE r == [call[c] EXCEPT !.pc = "store", !.index[call[c].dir] = index[call[c].dir]]
  <2>3. r.op = "changes" /\ r.key = call[c].key /\ r.dir = call[c].dir /\ r.index[r.dir] = index[r.dir]
    BY <2>2 DEF UnderWay, Results
  <2>4. r.key \in Views /\ r.key \in Scope(r.key) /\ index[r.key] \in Int
    BY <2>2, <2>3, ScopeType DEF Views, CachesTyped, TypedWorld
  <2>5. rebuilt[r.key][r.key] <= index[r.key] /\ rebuilt[r.key][r.key] \in Int
    BY <2>2, <2>3, <2>4 DEF Rebuilds, RebuiltIsPast
  <2>6. Update(c, r)
    BY <1>6 DEF ReadHashes
  <2> HIDE DEF r
  <2>7. UpToDate(r)
    BY <2>3, <2>4, <2>5 DEF UpToDate
  <2> QED
    BY <2>1, <2>6, <2>7, UpdateRebuilds
<1>7. ASSUME StoreChanges(c) PROVE Rebuilds'
  <2>1. call[c].pc = "store" /\ call[c].op = "changes" /\ UNCHANGED <<index, job, rebuilt, layouts>>
    BY <1>7 DEF StoreChanges, world
  <2>2. UnderWay(call[c]) /\ call[c].key \in Projects
    BY <2>1, IdleIsNoResult DEF CachesTyped, TypedCalls, UnderWay
  <2> DEFINE e == [call[c] EXCEPT !.age = 0]
  <2>3. UpToDate(e)
    <3>1. UpToDate(call[c])
      BY <2>1 DEF Rebuilds
    <3>2. /\ e.op = call[c].op /\ e.key = call[c].key /\ e.raced = call[c].raced
          /\ e.dir = call[c].dir /\ e.index = call[c].index
      BY <2>2 DEF UnderWay, Results
    <3> HIDE DEF e
    <3> QED
      BY <3>1, <3>2, OnlyTheRead
  <2>4. changes' = [p \in Projects |-> IF p = call[c].key THEN e ELSE changes[p]]
    BY <1>7 DEF StoreChanges, CachesTyped, TypedCaches
  <2>5. call' = [d \in Clients |-> IF d = c THEN Idle ELSE call[d]]
    BY <1>7 DEF StoreChanges, Update, CachesTyped, TypedCalls
  <2> HIDE DEF e
  <2>6. \A p \in Projects : changes'[p] # Absent => UpToDate(changes'[p])
    BY <2>3, <2>4 DEF Rebuilds
  <2>7. \A d \in Clients : call'[d].pc = "store" => UpToDate(call'[d])
    BY <2>5, IdleIsNoResult DEF Rebuilds
  <2>8. RebuiltIsPast' /\ \A s : UpToDate(s) => UpToDate(s)'
    BY <2>1, SameWorld
  <2> QED
    BY <2>1, <2>6, <2>7, <2>8 DEF Rebuilds
<1>8. ASSUME NEW v \in Views, AskLayout(c, v) PROVE Rebuilds'
  <2> DEFINE r == [Idle EXCEPT !.op = "layout", !.key = v, !.pc = "store", !.index = Read(v)]
  <2>1. r.op = "layout" /\ r.key = v /\ r.index = Read(v)
    BY DEF Idle
  <2>2. Update(c, r) /\ UNCHANGED <<index, job, rebuilt, caches>>
    BY <1>8 DEF AskLayout, world, ghosts
  <2> HIDE DEF r
  <2>3. \A p \in Scope(v) : r.index[p] >= rebuilt[v][p]
    <3> SUFFICES ASSUME NEW p \in Scope(v) PROVE r.index[p] >= rebuilt[v][p]
      OBVIOUS
    <3>1. p \in Projects /\ r.index[p] = index[p]
      BY <2>1, ScopeType DEF Read
    <3>2. rebuilt[v][p] <= index[p] /\ rebuilt[v][p] \in Int /\ index[p] \in Int
      BY <3>1 DEF Rebuilds, RebuiltIsPast, CachesTyped, TypedWorld
    <3> QED
      BY <3>1, <3>2
  <2>4. UpToDate(r)
    BY <2>1, <2>3 DEF UpToDate
  <2> QED
    BY <2>2, <2>4, UpdateRebuilds
<1>9. ASSUME StoreLayout(c) PROVE Rebuilds'
  <2>1. call[c].pc = "store" /\ UNCHANGED <<index, job, rebuilt, changes>>
    BY <1>9 DEF StoreLayout, world, ghosts
  <2>2. UnderWay(call[c])
    BY <2>1, IdleIsNoResult DEF CachesTyped, TypedCalls
  <2> DEFINE e == [call[c] EXCEPT !.age = 0]
  <2>3. UpToDate(e)
    <3>1. UpToDate(call[c])
      BY <2>1 DEF Rebuilds
    <3>2. /\ e.op = call[c].op /\ e.key = call[c].key /\ e.raced = call[c].raced
          /\ e.dir = call[c].dir /\ e.index = call[c].index
      BY <2>2 DEF UnderWay, Results
    <3> HIDE DEF e
    <3> QED
      BY <3>1, <3>2, OnlyTheRead
  <2>4. layouts' = layouts \/ layouts' = [v \in Views |-> IF v = call[c].key THEN e ELSE layouts[v]]
    BY <1>9 DEF StoreLayout, CachesTyped, TypedCaches
  <2>5. call' = [d \in Clients |-> IF d = c THEN Idle ELSE call[d]]
    BY <1>9 DEF StoreLayout, Update, CachesTyped, TypedCalls
  <2> HIDE DEF e
  <2>6. \A v \in Views : layouts'[v] # Absent => UpToDate(layouts'[v])
    BY <2>3, <2>4 DEF Rebuilds
  <2>7. \A d \in Clients : call'[d].pc = "store" => UpToDate(call'[d])
    BY <2>5, IdleIsNoResult DEF Rebuilds
  <2>8. RebuiltIsPast' /\ \A s : UpToDate(s) => UpToDate(s)'
    BY <2>1, SameWorld
  <2> QED
    BY <2>1, <2>6, <2>7, <2>8 DEF Rebuilds
<1> QED
  BY <1>1, <1>2, <1>3, <1>4, <1>5, <1>6, <1>7, <1>8, <1>9 DEF Request

\* While a job works the index may grow: nothing is promised before its invalidations.
LEMMA WorkRebuilds ==
    ASSUME CachesTyped, Rebuilds, NEW p \in Projects, JobWorks(p)
    PROVE  Rebuilds'
<1>1. job.pc = "work" /\ UNCHANGED <<job, rebuilt, changes, layouts, call>>
  BY DEF JobWorks, caches
<1>2. \A q \in Projects : index[q] \in Int /\ index'[q] >= index[q]
  BY DEF JobWorks, CachesTyped, TypedWorld
<1>3. RebuiltIsPast'
  <2> SUFFICES ASSUME NEW v \in Views, NEW q \in Scope(v) PROVE rebuilt[v][q] <= index'[q]
    BY <1>1 DEF Rebuilds, RebuiltIsPast, Scope
  <2>1. q \in Projects
    BY ScopeType
  <2>2. rebuilt[v][q] <= index[q] /\ rebuilt[v][q] \in Int
    BY <2>1 DEF Rebuilds, RebuiltIsPast
  <2>3. index'[q] \in Int
    BY <2>1 DEF JobWorks, CachesTyped, TypedWorld
  <2> QED
    BY <1>2, <2>1, <2>2, <2>3
<1>4. \A r : UpToDate(r) => UpToDate(r)'
  BY <1>1 DEF UpToDate, Dropped
<1> QED
  BY <1>1, <1>3, <1>4 DEF Rebuilds

\* The steps of jobs that invalidate nothing: none leads to the second invalidation.
LEMMA OtherJobsRebuild ==
    ASSUME Rebuilds, UNCHANGED <<index, rebuilt, changes, layouts, call>>, job'.pc # "layouts"
    PROVE  Rebuilds'
<1>1. RebuiltIsPast'
  BY DEF Rebuilds, RebuiltIsPast
<1>2. \A r : UpToDate(r) => UpToDate(r)'
  BY DEF UpToDate
<1> QED
  BY <1>1, <1>2 DEF Rebuilds

LEMMA DroppedType == CachesTyped => Dropped \subseteq Views
  BY DEF CachesTyped, TypedWorld, Dropped, Views

\* A call that began before an invalidation of its kind is marked.
LEMMA RaceMarks ==
    ASSUME CachesTyped, NEW op, call' = Race(op), NEW c \in Clients
    PROVE  /\ call'[c].pc = call[c].pc /\ call'[c].op = call[c].op /\ call'[c].key = call[c].key
           /\ call'[c].dir = call[c].dir /\ call'[c].index = call[c].index
           /\ ~call'[c].raced => ~call[c].raced
           /\ ~call'[c].raced => ~(call[c].op = op /\ call[c].key \in Dropped)
<1>1. call'[c] = [call[c] EXCEPT !.raced = call[c].raced \/ (call[c].op = op /\ call[c].key \in Dropped)]
  BY DEF Race
<1>2. CASE call[c] = Idle
  BY <1>1, <1>2 DEF Idle
<1>3. CASE UnderWay(call[c])
  BY <1>1, <1>3 DEF UnderWay, Results
<1> QED
  BY <1>2, <1>3 DEF CachesTyped, TypedCalls

LEMMA InvalidateChangesRebuilds ==
    ASSUME CachesTyped, Rebuilds, InvalidateChanges
    PROVE  Rebuilds'
<1>1. /\ UNCHANGED <<index, rebuilt, layouts>> /\ call' = Race("changes")
      /\ Dropped' = Dropped
  BY DEF InvalidateChanges, world, ghosts, CachesTyped, TypedWorld, Dropped
<1>2. RebuiltIsPast'
  BY <1>1 DEF Rebuilds, RebuiltIsPast
<1>3. \A r : UpToDate(r) /\ ~(r.op = "changes" /\ r.key \in Dropped) => UpToDate(r)'
  BY <1>1 DEF UpToDate
<1>4. ASSUME NEW c \in Clients, call'[c].pc = "store" PROVE UpToDate(call[c])'
  <2>1. /\ call'[c].pc = call[c].pc /\ call'[c].op = call[c].op /\ call'[c].key = call[c].key
        /\ call'[c].dir = call[c].dir /\ call'[c].index = call[c].index
        /\ ~call'[c].raced => ~call[c].raced
        /\ ~call'[c].raced => ~(call[c].op = "changes" /\ call[c].key \in Dropped)
    BY <1>1, RaceMarks
  <2>2. UpToDate(call[c])
    BY <1>4, <2>1 DEF Rebuilds
  <2> QED
    BY <1>1, <2>1, <2>2 DEF UpToDate
<1>5. ASSUME NEW p \in Projects, changes'[p] # Absent PROVE UpToDate(changes[p])'
  <2>1. p \notin Dropped /\ changes'[p] = changes[p]
    BY <1>5 DEF InvalidateChanges
  <2>2. changes[p].key = p /\ UpToDate(changes[p])
    BY <1>5, <2>1 DEF CachesTyped, TypedCaches, ChangeList, Rebuilds
  <2> QED
    BY <1>3, <2>1, <2>2
<1>6. ASSUME NEW v \in Views, layouts'[v] # Absent PROVE UpToDate(layouts[v])'
  <2>1. layouts[v].op = "layout" /\ UpToDate(layouts[v])
    BY <1>1, <1>6 DEF CachesTyped, TypedCaches, Layout, Rebuilds
  <2> QED
    BY <1>1, <1>3, <2>1
<1> QED
  BY <1>2, <1>4, <1>5, <1>6 DEF Rebuilds

LEMMA InvalidateLayoutsRebuilds ==
    ASSUME CachesTyped, Rebuilds, InvalidateLayouts
    PROVE  Rebuilds'
<1>1. /\ UNCHANGED <<index, changes>> /\ call' = Race("layout")
      /\ job.pc = "layouts" /\ job'.pc = "idle"
      /\ rebuilt' = [v \in Views |-> IF v \in Dropped THEN Read(v) ELSE rebuilt[v]]
      /\ layouts' = [v \in Views |-> IF v \in Dropped THEN Absent ELSE layouts[v]]
  BY DEF InvalidateLayouts, NoJob, world
<1>2. \A v \in Views : Read(v) \in [Projects -> Nat] /\ \A p \in Scope(v) : Read(v)[p] = index[p]
  BY ScopeType DEF Read, CachesTyped, TypedWorld
<1>3. RebuiltIsPast'
  <2>1. rebuilt' \in [Views -> [Projects -> Nat]]
    BY <1>1, <1>2 DEF Rebuilds, RebuiltIsPast
  <2>2. ASSUME NEW v \in Views, NEW p \in Scope(v) PROVE rebuilt'[v][p] <= index'[p]
    <3>1. p \in Projects /\ index[p] \in Int
      BY ScopeType DEF CachesTyped, TypedWorld
    <3>2. CASE v \in Dropped
      BY <1>1, <1>2, <3>1, <3>2
    <3>3. CASE v \notin Dropped
      BY <1>1, <3>3 DEF Rebuilds, RebuiltIsPast
    <3> QED
      BY <3>2, <3>3
  <2> QED
    BY <2>1, <2>2 DEF RebuiltIsPast, Scope
<1>4. ASSUME NEW r, r.op = "changes", r.key \in Projects, UpToDate(r) PROVE UpToDate(r)'
  <2>1. r.key \in Views /\ r.key \in Scope(r.key)
    BY <1>4, ScopeType DEF Views
  <2>2. CASE r.key \in Dropped
    <3>1. rebuilt'[r.key][r.key] = index[r.key]
      BY <1>1, <1>2, <2>1, <2>2
    <3> QED
      BY <1>1, <1>4, <2>2, <3>1 DEF UpToDate
  <2>3. CASE r.key \notin Dropped
    <3>1. rebuilt'[r.key] = rebuilt[r.key]
      BY <1>1, <2>1, <2>3
    <3> QED
      BY <1>1, <1>4, <3>1 DEF UpToDate
  <2> QED
    BY <2>2, <2>3
<1>5. ASSUME NEW r, r.op = "layout", r.key \in Views, r.key \notin Dropped, UpToDate(r) PROVE UpToDate(r)'
  <2>1. rebuilt'[r.key] = rebuilt[r.key]
    BY <1>1, <1>5
  <2> QED
    BY <1>5, <2>1 DEF UpToDate, Scope
<1>6. ASSUME NEW c \in Clients, call'[c].pc = "store" PROVE UpToDate(call[c])'
  <2>1. /\ call'[c].pc = call[c].pc /\ call'[c].op = call[c].op /\ call'[c].key = call[c].key
        /\ call'[c].dir = call[c].dir /\ call'[c].index = call[c].index
        /\ ~call'[c].raced => ~call[c].raced
        /\ ~call'[c].raced => ~(call[c].op = "layout" /\ call[c].key \in Dropped)
    BY <1>1, RaceMarks
  <2>2. UpToDate(call[c]) /\ UnderWay(call[c])
    BY <1>6, <2>1, IdleIsNoResult DEF Rebuilds, CachesTyped, TypedCalls
  <2>3. CASE call'[c].raced
    BY <2>3 DEF UpToDate
  <2>4. CASE ~call'[c].raced
    <3>1. UpToDate(call'[c])
      BY <2>1, <2>2, <2>4 DEF UpToDate
    <3>2. CASE call[c].op = "changes"
      BY <1>4, <2>1, <2>2, <3>1, <3>2 DEF UnderWay
    <3>3. CASE call[c].op = "layout"
      BY <1>5, <2>1, <2>2, <2>4, <3>1, <3>3 DEF UnderWay, Results
    <3> QED
      BY <2>2, <3>2, <3>3 DEF UnderWay, Results
  <2> QED
    BY <2>3, <2>4
<1>7. ASSUME NEW p \in Projects, changes'[p] # Absent PROVE UpToDate(changes[p])'
  <2>1. changes[p].op = "changes" /\ changes[p].key = p /\ UpToDate(changes[p])
    BY <1>1, <1>7 DEF CachesTyped, TypedCaches, ChangeList, Rebuilds
  <2> QED
    BY <1>1, <1>4, <2>1
<1>8. ASSUME NEW v \in Views, layouts'[v] # Absent PROVE UpToDate(layouts[v])'
  <2>1. v \notin Dropped /\ layouts'[v] = layouts[v]
    BY <1>1, <1>8
  <2>2. layouts[v].op = "layout" /\ layouts[v].key = v /\ UpToDate(layouts[v])
    BY <1>8, <2>1 DEF CachesTyped, TypedCaches, Layout, Rebuilds
  <2> QED
    BY <1>5, <2>1, <2>2
<1> QED
  BY <1>3, <1>6, <1>7, <1>8 DEF Rebuilds

LEMMA NextRebuilds == CachesTyped /\ Rebuilds /\ [CachesNext]_cachesVars => Rebuilds'
<1> SUFFICES ASSUME CachesTyped, Rebuilds, [CachesNext]_cachesVars PROVE Rebuilds'
  OBVIOUS
<1>1. CASE Tick
  BY <1>1, TickRebuilds
<1>2. ASSUME NEW p \in Projects, EditFiles(p) PROVE Rebuilds'
  BY <1>2, SameWorld DEF EditFiles, caches, Rebuilds
<1>3. ASSUME NEW p \in Projects, JobWorks(p) PROVE Rebuilds'
  BY <1>3, WorkRebuilds
<1>4. ASSUME NEW kind, NEW S \in SUBSET Projects, StartJob(kind, S) PROVE Rebuilds'
  BY <1>4, OtherJobsRebuild DEF StartJob, NoJob, world, caches, ghosts
<1>5. CASE JobEndsQuietly
  BY <1>5, OtherJobsRebuild DEF JobEndsQuietly, NoJob, world, caches, ghosts
<1>6. CASE InvalidateChanges
  BY <1>6, InvalidateChangesRebuilds
<1>7. CASE InvalidateLayouts
  BY <1>7, InvalidateLayoutsRebuilds
<1>8. ASSUME NEW p \in Projects, StorePsnap(p) PROVE Rebuilds'
  BY <1>8, OtherJobsRebuild DEF StorePsnap, NoJob, caches
<1>9. CASE StoreDsnap
  BY <1>9, OtherJobsRebuild DEF StoreDsnap, NoJob, caches
<1>10. ASSUME NEW c \in Clients, Request(c) PROVE Rebuilds'
  BY <1>10, RequestRebuilds
<1>11. CASE UNCHANGED cachesVars
  BY <1>11, SameWorld DEF cachesVars, Rebuilds
<1> QED
  BY <1>1, <1>2, <1>3, <1>4, <1>5, <1>6, <1>7, <1>8, <1>9, <1>10, <1>11 DEF CachesNext

\* A rebuild that has succeeded is seen: for any projects, requests and jobs, and
\* in whatever order they read, invalidate and store, no change list and no layout
\* that is kept is older than the last rebuild, unless its computation had begun
\* before that rebuild was over.
THEOREM SuccessfulRebuildsAreSeen == CachesSpec => []RebuildIsSeen
<1>1. CachesTyped /\ Rebuilds => RebuildIsSeen
  <2> SUFFICES ASSUME CachesTyped, Rebuilds PROVE RebuildIsSeen
    OBVIOUS
  <2>1. ASSUME NEW p \in Projects, changes[p] # Absent, ~changes[p].raced, changes[p].dir = p
        PROVE  changes[p].index[p] >= rebuilt[p][p]
    BY <2>1 DEF Rebuilds, UpToDate, CachesTyped, TypedCaches, ChangeList
  <2>2. ASSUME NEW v \in Views, layouts[v] # Absent, ~layouts[v].raced, NEW p \in Scope(v)
        PROVE  layouts[v].index[p] >= rebuilt[v][p]
    BY <2>2 DEF Rebuilds, UpToDate, CachesTyped, TypedCaches, Layout
  <2> QED
    BY <2>1, <2>2 DEF RebuildIsSeen
<1> QED
  BY <1>1, InitCachesTyped, NextCachesTyped, InitRebuilds, NextRebuilds, PTL DEF CachesSpec

-----------------------------------------------------------------------------
(* Change lists and layouts: they catch up *)

\* The two lists differ between the two stores of updateSnapshots only; no project
\* counts as quiet there.
Lists ==
    /\ job.pc # "dsnap" => psnap = dsnap
    /\ job.pc = "dsnap" => job.list = psnap /\ \A p \in Projects : quiet[p] = 0

\* What a change list says of its project is true.
Right(r) ==
    IF Places(psnap, r.key) = {} THEN r.dir = Absent
    ELSE r.dir = r.key /\ r.disk = disk[r.key] /\ r.index[r.key] = index[r.key]

\* What a request has read so far is true.
RightSoFar(r) ==
    /\ r.pc = "dirs" => r.disk \in Places(psnap, r.key)
    /\ r.pc \in {"walk", "hashes"} => Places(psnap, r.key) # {} /\ r.dir = r.key
    /\ r.pc = "hashes" => r.disk = disk[r.key]
    /\ r.pc = "store" => Right(r)

\* A project that has been quiet for longer than a request runs was read as it is.
RequestsRight ==
    \A c \in Clients :
       call[c].op = "changes" /\ UnderWay(call[c]) /\ quiet[call[c].key] > call[c].age => RightSoFar(call[c])

\* A list that is kept for some time was computed by a request that began no more
\* than Slow before.
ListsRight ==
    \A p \in Projects : changes[p] # Absent /\ quiet[p] > Slow + changes[p].age => Right(changes[p])

CatchUp == Lists /\ RequestsRight /\ ListsRight /\ ~wrong

LEMMA InitCatchUp == CachesInit => CatchUp
<1> SUFFICES ASSUME CachesInit PROVE CatchUp
  OBVIOUS
<1>1. Lists
  BY DEF CachesInit, NoJob, Lists
<1>2. RequestsRight
  BY IdleIsNoResult DEF CachesInit, RequestsRight, UnderWay
<1> QED
  BY <1>1, <1>2 DEF CachesInit, ListsRight, CatchUp

\* Nothing that a list tells of an unchanged project changes with the others.
LEMMA SameProject ==
    ASSUME NEW r, UNCHANGED psnap, disk'[r.key] = disk[r.key], index'[r.key] = index[r.key]
    PROVE  (Right(r) => Right(r)') /\ (RightSoFar(r) => RightSoFar(r)')
  BY DEF Right, RightSoFar

\* A change of some projects, or of all of them: of these nothing is promised.
LEMMA ChangedProjects ==
    ASSUME CachesTyped, CatchUp, UNCHANGED <<changes, call, wrong>>,
           \A p \in Projects : quiet'[p] = 0 \/ UNCHANGED <<psnap, disk[p], index[p], quiet[p]>>
    PROVE  RequestsRight' /\ ListsRight' /\ ~wrong'
<1>1. ASSUME NEW c \in Clients, call[c].op = "changes", UnderWay(call[c]), quiet'[call[c].key] > call[c].age
      PROVE  RightSoFar(call[c])'
  <2>1. call[c].key \in Projects /\ call[c].age \in Nat
    BY <1>1 DEF UnderWay, Results
  <2>2. UNCHANGED <<psnap, disk[call[c].key], index[call[c].key], quiet[call[c].key]>>
    BY <1>1, <2>1
  <2>3. RightSoFar(call[c])
    BY <1>1, <2>1, <2>2 DEF CatchUp, RequestsRight
  <2> QED
    BY <2>1, <2>2, <2>3, SameProject
<1>2. ASSUME NEW p \in Projects, changes[p] # Absent, quiet'[p] > Slow + changes[p].age
      PROVE  Right(changes[p])'
  <2>1. changes[p].key = p /\ changes[p].age \in Nat
    BY <1>2 DEF CachesTyped, TypedCaches, ChangeList, Results
  <2>2. UNCHANGED <<psnap, disk[p], index[p], quiet[p]>>
    BY <1>2, <2>1, TimesAssumption
  <2>3. Right(changes[p])
    BY <1>2, <2>2 DEF CatchUp, ListsRight
  <2> QED
    BY <2>1, <2>2, <2>3, SameProject
<1> QED
  BY <1>1, <1>2 DEF CatchUp, RequestsRight, ListsRight, UnderWay, Results

LEMMA TickCatchesUp == ASSUME CachesTyped, CatchUp, Tick PROVE CatchUp'
<1>1. UNCHANGED <<disk, index, psnap, dsnap, job, wrong>> /\ job.pc # "dsnap"
  BY DEF Tick, world
<1>2. \A p \in Projects : quiet[p] \in Nat /\ quiet'[p] \in Nat /\ quiet'[p] <= quiet[p] + 1
  BY DEF Tick, CachesTyped, TypedWorld
<1>3. RequestsRight'
  <2> SUFFICES ASSUME NEW c \in Clients, call'[c].op = "changes", UnderWay(call'[c]),
                      quiet'[call'[c].key] > call'[c].age
               PROVE  RightSoFar(call[c])'
    BY DEF RequestsRight, UnderWay, Results
  <2>1. call'[c] = IF call[c] = Idle THEN Idle ELSE [call[c] EXCEPT !.age = @ + 1]
    BY DEF Tick
  <2>2. UnderWay(call[c]) /\ call'[c] = [call[c] EXCEPT !.age = @ + 1]
    BY <2>1, IdleIsNoResult DEF CachesTyped, TypedCalls, UnderWay
  <2>3. /\ call'[c].op = call[c].op /\ call'[c].key = call[c].key /\ call'[c].pc = call[c].pc
        /\ call'[c].dir = call[c].dir /\ call'[c].disk = call[c].disk /\ call'[c].index = call[c].index
        /\ call'[c].age = call[c].age + 1 /\ call[c].age \in Nat
    BY <2>2 DEF UnderWay, Results
  <2>4. call[c].key \in Projects
    BY <2>2, <2>3 DEF UnderWay
  <2>5. quiet[call[c].key] > call[c].age
    BY <1>2, <2>3, <2>4
  <2>6. RightSoFar(call[c])
    BY <2>2, <2>3, <2>5 DEF CatchUp, RequestsRight
  <2> QED
    BY <1>1, <2>3, <2>6 DEF RightSoFar, Right
<1>4. ListsRight'
  <2> SUFFICES ASSUME NEW p \in Projects, changes'[p] # Absent, quiet'[p] > Slow + changes'[p].age
               PROVE  Right(changes[p])'
    BY DEF ListsRight
  <2>1. changes[p] # Absent /\ changes'[p] = [changes[p] EXCEPT !.age = @ + 1]
    BY DEF Tick, Aged
  <2>2. changes[p] \in Results
    BY <2>1 DEF CachesTyped, TypedCaches, ChangeList
  <2>3. /\ changes'[p].key = changes[p].key /\ changes'[p].dir = changes[p].dir
        /\ changes'[p].disk = changes[p].disk /\ changes'[p].index = changes[p].index
        /\ changes'[p].age = changes[p].age + 1 /\ changes[p].age \in Nat
    BY <2>1, <2>2 DEF Results
  <2>4. quiet[p] > Slow + changes[p].age
    BY <1>2, <2>3, TimesAssumption
  <2>5. Right(changes[p])
    BY <2>1, <2>4 DEF CatchUp, ListsRight
  <2> QED
    BY <1>1, <2>3, <2>5 DEF Right
<1>5. Lists'
  BY <1>1 DEF CatchUp, Lists
<1> QED
  BY <1>1, <1>3, <1>4, <1>5 DEF CatchUp

\* A step of one request that stores nothing and tells nothing.
LEMMA UpdateCatchesUp ==
    ASSUME CachesTyped, CatchUp, UNCHANGED <<world, job, quiet, wrong, changes>>, NEW c \in Clients, NEW r,
           Update(c, r),
           r.op = "changes" /\ UnderWay(r) /\ quiet[r.key] > r.age => RightSoFar(r)
    PROVE  CatchUp'
<1>1. call' = [d \in Clients |-> IF d = c THEN r ELSE call[d]]
  BY DEF Update, CachesTyped, TypedCalls
<1>2. \A s : RightSoFar(s) => RightSoFar(s)'
  BY DEF RightSoFar, Right, world
<1>3. \A d \in Clients :
         call'[d].op = "changes" /\ UnderWay(call'[d]) /\ quiet[call'[d].key] > call'[d].age => RightSoFar(call'[d])
  BY <1>1 DEF CatchUp, RequestsRight
<1>4. RequestsRight'
  BY <1>2, <1>3 DEF RequestsRight, UnderWay, Results
<1>5. ListsRight' /\ Lists' /\ ~wrong'
  BY DEF CatchUp, ListsRight, Lists, Right, world
<1> QED
  BY <1>4, <1>5 DEF CatchUp

\* What is told is right.
LEMMA TellsRight ==
    ASSUME NEW p, NEW e, Tell(p, e), e.key = p, quiet[p] > Ttl + Slow => Right(e)
    PROVE  ~wrong'
  BY DEF Tell, Right

LEMMA RequestCatchesUp ==
    ASSUME CachesTyped, CatchUp, NEW c \in Clients, Request(c)
    PROVE  CatchUp'
<1> USE TimesAssumption
<1>1. ASSUME NEW p \in Projects, AskChanges(c, p) PROVE CatchUp'
  <2>1. CASE changes[p] # Absent
    <3>1. changes[p].key = p /\ changes[p].age \in Nat /\ changes[p].age < Ttl /\ quiet[p] \in Nat
      BY <2>1 DEF CachesTyped, TypedWorld, TypedCaches, ChangeList, Results
    <3>2. quiet[p] > Ttl + Slow => Right(changes[p])
      BY <2>1, <3>1 DEF CatchUp, ListsRight
    <3>3. ~wrong'
      BY <1>1, <2>1, <3>1, <3>2, TellsRight DEF AskChanges
    <3>4. UNCHANGED <<disk, index, psnap, dsnap, job, quiet, changes, call>>
      BY <1>1, <2>1 DEF AskChanges, world, caches
    <3>5. \A s : (RightSoFar(s) => RightSoFar(s)') /\ (Right(s) => Right(s)')
      BY <3>4 DEF RightSoFar, Right
    <3> QED
      BY <3>3, <3>4, <3>5 DEF CatchUp, Lists, RequestsRight, ListsRight, UnderWay, Results
  <2>2. CASE changes[p] = Absent
    <3> DEFINE r == [Idle EXCEPT !.op = "changes", !.key = p, !.pc = "find"]
    <3>1. r.pc = "find"
      BY DEF Idle
    <3>2. Update(c, r) /\ UNCHANGED <<world, job, quiet, wrong, changes>>
      BY <1>1, <2>2 DEF AskChanges, caches
    <3> HIDE DEF r
    <3>3. RightSoFar(r)
      BY <3>1 DEF RightSoFar
    <3> QED
      BY <3>2, <3>3, UpdateCatchesUp
  <2> QED
    BY <2>1, <2>2
<1>2. ASSUME FindProject(c) PROVE CatchUp'
  <2>1. call[c].pc = "find" /\ UNCHANGED <<world, job, quiet, wrong, changes>>
    BY <1>2 DEF FindProject, caches, ghosts
  <2>2. UnderWay(call[c]) /\ call[c].dir = Absent
    BY <2>1, IdleIsNoResult DEF CachesTyped, TypedCalls, UnderWay
  <2>3. PICK r : Update(c, r) /\ RightSoFar(r)
    <3>1. CASE Places(psnap, call[c].key) = {}
      <4>1. RightSoFar([call[c] EXCEPT !.pc = "store"])
        BY <2>2, <3>1 DEF RightSoFar, Right, UnderWay, Results
      <4> QED
        BY <1>2, <3>1, <4>1 DEF FindProject
    <3>2. CASE Places(psnap, call[c].key) # {}
      <4>1. PICK i \in Places(psnap, call[c].key) : Update(c, [call[c] EXCEPT !.pc = "dirs", !.disk = i])
        BY <1>2, <3>2 DEF FindProject
      <4>2. RightSoFar([call[c] EXCEPT !.pc = "dirs", !.disk = i])
        BY <2>2 DEF RightSoFar, UnderWay, Results
      <4> QED
        BY <4>1, <4>2
    <3> QED
      BY <3>1, <3>2
  <2> QED
    BY <2>1, <2>3, UpdateCatchesUp
<1>3. ASSUME FindDirectory(c) PROVE CatchUp'
  <2>1. call[c].pc = "dirs" /\ UNCHANGED <<world, job, quiet, wrong, changes>>
    BY <1>3 DEF FindDirectory, caches, ghosts
  <2>2. UnderWay(call[c]) /\ call[c].op = "changes" /\ call[c].key \in Projects /\ call[c].age \in Nat
    BY <2>1, IdleIsNoResult DEF CachesTyped, TypedCalls, UnderWay, Results
  <2>3. CASE call[c].disk \in DOMAIN dsnap
    <3> DEFINE r == [call[c] EXCEPT !.pc = "walk", !.dir = dsnap[call[c].disk]]
    <3>1. r.pc = "walk" /\ r.key = call[c].key /\ r.age = call[c].age /\ r.dir = dsnap[call[c].disk]
      BY <2>2 DEF UnderWay, Results
    <3>2. Update(c, r)
      BY <1>3, <2>3 DEF FindDirectory
    <3> HIDE DEF r
    <3>3. ASSUME quiet[call[c].key] > call[c].age PROVE RightSoFar(r)
      <4>1. call[c].disk \in Places(psnap, call[c].key)
        BY <2>1, <2>2, <3>3 DEF CatchUp, RequestsRight, RightSoFar
      <4>2. psnap = dsnap
        BY <2>2, <3>3 DEF CatchUp, Lists
      <4>3. r.dir = r.key
        BY <3>1, <4>1, <4>2 DEF Places
      <4> QED
        BY <3>1, <4>1, <4>3 DEF RightSoFar
    <3> QED
      BY <2>1, <3>1, <3>2, <3>3, UpdateCatchesUp
  <2>4. CASE call[c].disk \notin DOMAIN dsnap
    <3>1. Update(c, Idle)
      BY <1>3, <2>4 DEF FindDirectory
    <3>2. RightSoFar(Idle)
      BY IdleIsNoResult DEF RightSoFar
    <3> QED
      BY <2>1, <3>1, <3>2, UpdateCatchesUp
  <2> QED
    BY <2>3, <2>4
<1>4. ASSUME WalkFiles(c) PROVE CatchUp'
  <2>1. call[c].pc = "walk" /\ UNCHANGED <<world, job, quiet, wrong, changes>>
    BY <1>4 DEF WalkFiles, caches, ghosts
  <2>2. UnderWay(call[c]) /\ call[c].op = "changes"
    BY <2>1, IdleIsNoResult DEF CachesTyped, TypedCalls, UnderWay, Results
  <2> DEFINE r == [call[c] EXCEPT !.pc = "hashes", !.disk = disk[call[c].dir]]
  <2>3. /\ r.pc = "hashes" /\ r.key = call[c].key /\ r.age = call[c].age /\ r.dir = call[c].dir
        /\ r.disk = disk[call[c].dir]
    BY <2>2 DEF UnderWay, Results
  <2>4. Update(c, r)
    BY <1>4 DEF WalkFiles
  <2> HIDE DEF r
  <2>5. ASSUME quiet[call[c].key] > call[c].age PROVE RightSoFar(r)
    <3>1. RightSoFar(call[c])
      BY <2>2, <2>5 DEF CatchUp, RequestsRight
    <3> QED
      BY <2>1, <2>3, <3>1 DEF RightSoFar
  <2> QED
    BY <2>1, <2>3, <2>4, <2>5, UpdateCatchesUp
<1>5. ASSUME FailWalk(c) PROVE CatchUp'
  <2>1. /\ call[c].pc = "walk" /\ UNCHANGED <<disk, index, psnap, dsnap, job, changes, wrong>>
        /\ Update(c, [call[c] EXCEPT !.pc = "store", !.dir = Absent])
        /\ quiet' = [quiet EXCEPT ![call[c].key] = 0]
    BY <1>5 DEF FailWalk, world, caches
  <2>2. UnderWay(call[c]) /\ call[c].key \in Projects
    BY <2>1, IdleIsNoResult DEF CachesTyped, TypedCalls, UnderWay, Results
  <2>3. \A p \in Projects : quiet'[p] = IF p = call[c].key THEN 0 ELSE quiet[p]
    BY <2>1, <2>2 DEF CachesTyped, TypedWorld
  <2>4. ASSUME NEW d \in Clients, call'[d].op = "changes", UnderWay(call'[d]), quiet'[call'[d].key] > call'[d].age
        PROVE  RightSoFar(call[d])'
    <3>1. call'[d].key \in Projects /\ call'[d].age \in Nat
      BY <2>4 DEF UnderWay, Results
    <3>2. call'[d].key # call[c].key
      BY <2>3, <2>4, <3>1
    <3>3. d # c
      <4>1. [call[c] EXCEPT !.pc = "store", !.dir = Absent].key = call[c].key
        BY <2>2 DEF UnderWay, Results
      <4> QED
        BY <2>1, <3>2, <4>1 DEF Update, CachesTyped, TypedCalls
    <3>4. call'[d] = call[d]
      BY <2>1, <3>3 DEF Update, CachesTyped, TypedCalls
    <3>5. quiet[call[d].key] > call[d].age
      BY <2>3, <2>4, <3>1, <3>2, <3>4
    <3>6. RightSoFar(call[d])
      BY <2>4, <3>4, <3>5 DEF CatchUp, RequestsRight
    <3> QED
      BY <2>1, <3>4, <3>6 DEF RightSoFar, Right
  <2>5. RequestsRight'
    BY <2>4 DEF RequestsRight, UnderWay, Results
  <2>6. ListsRight'
    <3> SUFFICES ASSUME NEW p \in Projects, changes[p] # Absent, quiet'[p] > Slow + changes[p].age
                 PROVE  Right(changes[p])'
      BY <2>1 DEF ListsRight
    <3>1. changes[p].age \in Nat
      BY DEF CachesTyped, TypedCaches, ChangeList, Results
    <3>2. quiet[p] > Slow + changes[p].age
      BY <2>3, <3>1
    <3>3. Right(changes[p])
      BY <3>2 DEF CatchUp, ListsRight
    <3> QED
      BY <2>1, <3>3 DEF Right
  <2>7. Lists' /\ ~wrong'
    BY <2>1, <2>3 DEF CatchUp, Lists
  <2> QED
    BY <2>5, <2>6, <2>7 DEF CatchUp
<1>6. ASSUME ReadHashes(c) PROVE CatchUp'
  <2>1. call[c].pc = "hashes" /\ UNCHANGED <<world, job, quiet, wrong, changes>>
    BY <1>6 DEF ReadHashes, caches, ghosts
  <2>2. UnderWay(call[c]) /\ call[c].op = "changes" /\ call[c].dir \in Projects
    BY <2>1, IdleIsNoResult DEF CachesTyped, TypedCalls, UnderWay, Results
  <2> DEFINE r == [call[c] EXCEPT !.pc = "store", !.index[call[c].dir] = index[call[c].dir]]
  <2>3. /\ r.pc = "store" /\ r.key = call[c].key /\ r.age = call[c].age /\ r.dir = call[c].dir
        /\ r.disk = call[c].disk /\ r.index[r.dir] = index[r.dir]
    BY <2>2 DEF UnderWay, Results
  <2>4. Update(c, r)
    BY <1>6 DEF ReadHashes
  <2> HIDE DEF r
  <2>5. ASSUME quiet[call[c].key] > call[c].age PROVE RightSoFar(r)
    <3>1. RightSoFar(call[c])
      BY <2>2, <2>5 DEF CatchUp, RequestsRight
    <3> QED
      BY <2>1, <2>3, <3>1 DEF RightSoFar, Right
  <2> QED
    BY <2>1, <2>3, <2>4, <2>5, UpdateCatchesUp
<1>7. ASSUME StoreChanges(c) PROVE CatchUp'
  <2>1. /\ call[c].pc = "store" /\ call[c].op = "changes" /\ UNCHANGED <<disk, index, psnap, dsnap, job, quiet>>
        /\ Tell(call[c].key, call[c])
    BY <1>7 DEF StoreChanges, world
  <2>2. UnderWay(call[c]) /\ call[c].key \in Projects /\ call[c].age \in Nat /\ call[c].age <= Slow
        /\ quiet[call[c].key] \in Nat
    BY <2>1, IdleIsNoResult DEF CachesTyped, TypedWorld, TypedCalls, UnderWay, Results
  <2>3. quiet[call[c].key] > Slow => Right(call[c])
    BY <2>1, <2>2 DEF CatchUp, RequestsRight, RightSoFar
  <2>4. ~wrong'
    BY <2>1, <2>2, <2>3, TellsRight
  <2> DEFINE e == [call[c] EXCEPT !.age = 0]
  <2>5. e.key = call[c].key /\ e.age = 0 /\ e.dir = call[c].dir /\ e.disk = call[c].disk /\ e.index = call[c].index
    BY <2>2 DEF UnderWay, Results
  <2>6. changes' = [p \in Projects |-> IF p = call[c].key THEN e ELSE changes[p]]
    BY <1>7 DEF StoreChanges, CachesTyped, TypedCaches
  <2>7. call' = [d \in Clients |-> IF d = c THEN Idle ELSE call[d]]
    BY <1>7 DEF StoreChanges, Update, CachesTyped, TypedCalls
  <2> HIDE DEF e
  <2>8. \A s : (RightSoFar(s) => RightSoFar(s)') /\ (Right(s) => Right(s)')
    BY <2>1 DEF RightSoFar, Right
  <2>9. quiet[call[c].key] > Slow + e.age => Right(e)
    BY <2>3, <2>5 DEF Right
  <2>10. \A p \in Projects : changes'[p] # Absent /\ quiet[p] > Slow + changes'[p].age => Right(changes'[p])
    BY <2>6, <2>9 DEF CatchUp, ListsRight
  <2>11. \A d \in Clients :
            call'[d].op = "changes" /\ UnderWay(call'[d]) /\ quiet[call'[d].key] > call'[d].age => RightSoFar(call'[d])
    BY <2>7, IdleIsNoResult DEF CatchUp, RequestsRight, UnderWay
  <2>12. RequestsRight'
    BY <2>1, <2>8, <2>11 DEF RequestsRight, UnderWay, Results
  <2>13. ListsRight'
    BY <2>1, <2>8, <2>10 DEF ListsRight
  <2> QED
    BY <2>1, <2>4, <2>12, <2>13 DEF CatchUp, Lists
<1>8. ASSUME NEW v \in Views, AskLayout(c, v) PROVE CatchUp'
  <2> DEFINE r == [Idle EXCEPT !.op = "layout", !.key = v, !.pc = "store", !.index = Read(v)]
  <2>1. r.op = "layout"
    BY DEF Idle
  <2>2. Update(c, r) /\ UNCHANGED <<world, job, quiet, wrong, changes>>
    BY <1>8 DEF AskLayout, caches, ghosts
  <2> HIDE DEF r
  <2> QED
    BY <2>1, <2>2, UpdateCatchesUp
<1>9. ASSUME StoreLayout(c) PROVE CatchUp'
  <2>1. Update(c, Idle) /\ UNCHANGED <<world, job, quiet, wrong, changes>>
    BY <1>9 DEF StoreLayout, ghosts
  <2>2. RightSoFar(Idle)
    BY IdleIsNoResult DEF RightSoFar
  <2> QED
    BY <2>1, <2>2, UpdateCatchesUp
<1> QED
  BY <1>1, <1>2, <1>3, <1>4, <1>5, <1>6, <1>7, <1>8, <1>9 DEF Request

\* Invalidations forget lists and mark requests: what is left is as right as before.
LEMMA ForgettingIsRight ==
    ASSUME CachesTyped, CatchUp, NEW op, UNCHANGED <<disk, index, psnap, dsnap, quiet, wrong>>,
           job.pc # "dsnap", job'.pc # "dsnap", call' = Race(op),
           \A p \in Projects : changes'[p] \in {Absent, changes[p]}
    PROVE  CatchUp'
<1>1. ASSUME NEW c \in Clients, call'[c].op = "changes", UnderWay(call'[c]), quiet[call'[c].key] > call'[c].age
      PROVE  RightSoFar(call[c])'
  <2>1. call'[c] = [call[c] EXCEPT !.raced = call[c].raced \/ (call[c].op = op /\ call[c].key \in Dropped)]
    BY DEF Race
  <2>2. CASE UnderWay(call[c])
    <3>1. /\ call'[c].op = call[c].op /\ call'[c].key = call[c].key /\ call'[c].pc = call[c].pc
          /\ call'[c].dir = call[c].dir /\ call'[c].disk = call[c].disk /\ call'[c].index = call[c].index
          /\ call'[c].age = call[c].age
      BY <2>1, <2>2 DEF UnderWay, Results
    <3>2. RightSoFar(call[c])
      BY <1>1, <2>2, <3>1 DEF CatchUp, RequestsRight
    <3> QED
      BY <3>1, <3>2 DEF RightSoFar, Right
  <2>3. CASE call[c] = Idle
    <3>1. call'[c].pc = "idle"
      BY <2>1, <2>3 DEF Idle
    <3> QED
      BY <3>1 DEF RightSoFar
  <2> QED
    BY <2>2, <2>3 DEF CachesTyped, TypedCalls
<1>2. RequestsRight'
  BY <1>1 DEF RequestsRight, UnderWay, Results
<1>3. ListsRight'
  BY DEF CatchUp, ListsRight, Right
<1> QED
  BY <1>2, <1>3 DEF CatchUp, Lists

LEMMA NextCatchesUp == CachesTyped /\ CatchUp /\ [CachesNext]_cachesVars => CatchUp'
<1> SUFFICES ASSUME CachesTyped, CatchUp, [CachesNext]_cachesVars PROVE CatchUp'
  OBVIOUS
<1>1. CASE Tick
  BY <1>1, TickCatchesUp
<1>2. ASSUME NEW p \in Projects, EditFiles(p) PROVE CatchUp'
  <2>1. /\ quiet'[p] = 0 /\ UNCHANGED <<index, psnap, dsnap, job, changes, call, wrong>>
        /\ \A q \in Projects \ {p} : disk'[q] = disk[q] /\ quiet'[q] = quiet[q]
    BY <1>2 DEF EditFiles, caches, CachesTyped, TypedWorld
  <2>2. RequestsRight' /\ ListsRight' /\ ~wrong'
    BY <2>1, ChangedProjects
  <2> QED
    BY <2>1, <2>2 DEF CatchUp, Lists
<1>3. ASSUME NEW p \in Projects, JobWorks(p) PROVE CatchUp'
  <2>1. /\ quiet'[p] = 0 /\ UNCHANGED <<disk, psnap, dsnap, job, changes, call, wrong>>
        /\ \A q \in Projects \ {p} : index'[q] = index[q] /\ quiet'[q] = quiet[q]
    BY <1>3 DEF JobWorks, caches, CachesTyped, TypedWorld
  <2>2. RequestsRight' /\ ListsRight' /\ ~wrong'
    BY <2>1, ChangedProjects
  <2> QED
    BY <2>1, <2>2 DEF CatchUp, Lists
<1>4. ASSUME NEW kind, NEW S \in SUBSET Projects, StartJob(kind, S) PROVE CatchUp'
  <2>1. UNCHANGED <<disk, index, psnap, dsnap, quiet, changes, call, wrong>> /\ job.pc = "idle" /\ job'.pc = "work"
    BY <1>4 DEF StartJob, NoJob, world, caches, ghosts
  <2>2. RequestsRight' /\ ListsRight' /\ ~wrong'
    BY <2>1, ChangedProjects
  <2> QED
    BY <2>1, <2>2 DEF CatchUp, Lists
<1>5. CASE JobEndsQuietly
  <2>1. UNCHANGED <<disk, index, psnap, dsnap, quiet, changes, call, wrong>> /\ job.pc = "work" /\ job'.pc = "idle"
    BY <1>5 DEF JobEndsQuietly, NoJob, world, caches, ghosts
  <2>2. RequestsRight' /\ ListsRight' /\ ~wrong'
    BY <2>1, ChangedProjects
  <2> QED
    BY <2>1, <2>2 DEF CatchUp, Lists
<1>6. CASE InvalidateChanges
  <2>1. /\ UNCHANGED <<disk, index, psnap, dsnap, quiet, wrong>> /\ call' = Race("changes")
        /\ job.pc = "work" /\ job'.pc = "layouts"
        /\ \A p \in Projects : changes'[p] \in {Absent, changes[p]}
    BY <1>6 DEF InvalidateChanges, world, ghosts, CachesTyped, TypedWorld
  <2> QED
    BY <2>1, ForgettingIsRight
<1>7. CASE InvalidateLayouts
  <2>1. /\ UNCHANGED <<disk, index, psnap, dsnap, quiet, wrong, changes>> /\ call' = Race("layout")
        /\ job.pc = "layouts" /\ job'.pc = "idle"
    BY <1>7 DEF InvalidateLayouts, NoJob, world
  <2> QED
    BY <2>1, ForgettingIsRight
<1>8. ASSUME NEW p \in Projects, StorePsnap(p) PROVE CatchUp'
  <2>1. UNCHANGED <<disk, index, changes, call, wrong>> /\ job'.pc = "dsnap" /\ job'.list = psnap'
        /\ \A q \in Projects : quiet'[q] = 0
    BY <1>8 DEF StorePsnap, NoJob, caches
  <2>2. RequestsRight' /\ ListsRight' /\ ~wrong'
    BY <2>1, ChangedProjects
  <2> QED
    BY <2>1, <2>2 DEF CatchUp, Lists
<1>9. CASE StoreDsnap
  <2>1. /\ UNCHANGED <<disk, index, psnap, changes, call, wrong>> /\ job.pc = "dsnap" /\ job'.pc = "idle"
        /\ dsnap' = job.list /\ \A q \in Projects : quiet'[q] = 0
    BY <1>9 DEF StoreDsnap, NoJob, caches
  <2>2. RequestsRight' /\ ListsRight' /\ ~wrong'
    BY <2>1, ChangedProjects
  <2> QED
    BY <2>1, <2>2 DEF CatchUp, Lists
<1>10. ASSUME NEW c \in Clients, Request(c) PROVE CatchUp'
  BY <1>10, RequestCatchesUp
<1>11. CASE UNCHANGED cachesVars
  <2>1. UNCHANGED <<disk, index, psnap, dsnap, job, quiet, changes, call, wrong>>
    BY <1>11 DEF cachesVars
  <2>2. RequestsRight' /\ ListsRight' /\ ~wrong'
    BY <2>1, ChangedProjects
  <2> QED
    BY <2>1, <2>2 DEF CatchUp, Lists
<1> QED
  BY <1>1, <1>2, <1>3, <1>4, <1>5, <1>6, <1>7, <1>8, <1>9, <1>10, <1>11 DEF CachesNext

\* Once a project has been left alone for as long as an entry lives and a request
\* takes, detect_changes tells what is so: no error, no half-read state of the lists
\* and no version from before survives in the cache, for any lifetime and any number
\* of requests.
THEOREM ChangeListsCatchUp == CachesSpec => []ChangesCatchUp
<1>1. CatchUp => ChangesCatchUp
  BY DEF CatchUp, ChangesCatchUp
<1> QED
  BY <1>1, InitCachesTyped, NextCachesTyped, InitCatchUp, NextCatchesUp, PTL DEF CachesSpec

=============================================================================
