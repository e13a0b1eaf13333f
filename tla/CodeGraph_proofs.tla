-------------------------- MODULE CodeGraph_proofs --------------------------
(***************************************************************************)
(* What the call graph of CodeGraph keeps for any files, contents and      *)
(* queries, through jobs, failures and restarts: its types, that every     *)
(* edge has its caller and files is the set of files of the nodes, that    *)
(* graph and fingerprints follow the store while no job runs, and that     *)
(* TracePath answers with paths, and with shortest ones.                   *)
(***************************************************************************)
EXTENDS CodeGraph, FiniteSetTheorems, WellFoundedInduction, TLAPS

-----------------------------------------------------------------------------
(* Induction over numbers.  The prover cannot instantiate the library's      *)
(* theorems about predicates; a set stands for the predicate.              *)

\* Every set of numbers has a least one.
LEMMA LeastNumber ==
    ASSUME NEW T, T \subseteq Nat, T # {}
    PROVE  \E n \in T : \A m \in T : n <= m
<1> DEFINE R == OpToRel(<, Nat)
<1>1. IsWellFoundedOn(R, Nat)
  BY NatLessThanWellFounded
<1>2. \A m, n \in Nat : m < n => <<m, n>> \in R
  BY DEF OpToRel
<1> HIDE DEF R
<1>3. PICK n \in T : \A m \in T : <<m, n>> \notin R
  BY <1>1, WFMin
<1>4. ASSUME NEW m \in T PROVE n <= m
  <2>1. m \in Nat /\ n \in Nat
    OBVIOUS
  <2>2. ~(m < n)
    BY <1>2, <1>3, <2>1
  <2> QED
    BY <2>1, <2>2
<1> QED
  BY <1>4

\* Induction, for a set in place of the predicate.
LEMMA NatInd ==
    ASSUME NEW S, 0 \in S, \A n \in Nat : n \in S => n + 1 \in S
    PROVE  Nat \subseteq S
<1> SUFFICES ASSUME Nat \ S # {} PROVE FALSE
  OBVIOUS
<1>1. PICK n \in Nat \ S : \A m \in Nat \ S : n <= m
  BY LeastNumber
<1>2. n # 0 /\ n - 1 \in Nat
  BY <1>1
<1>3. n - 1 \in S
  BY <1>1, <1>2
<1> QED
  BY <1>1, <1>2, <1>3

\* A value may be defined by recursion: there is a sequence of iterates.
LEMMA Iterates ==
    ASSUME NEW D, NEW a \in D, NEW F \in [D -> D]
    PROVE  \E g : g = [k \in Nat |-> IF k = 0 THEN a ELSE F[g[k - 1]]] /\ g \in [Nat -> D]
<1> DEFINE Upto(h, n) == h \in [0..n -> D] /\ h[0] = a /\ \A k \in 1..n : h[k] = F[h[k - 1]]
<1> DEFINE S == {n \in Nat : \E h : Upto(h, n)}
<1>1. 0 \in S
  <2>1. Upto([k \in 0..0 |-> a], 0)
    OBVIOUS
  <2> QED
    BY <2>1
<1>2. ASSUME NEW n \in Nat, n \in S PROVE n + 1 \in S
  <2>1. PICK h : Upto(h, n)
    BY <1>2
  <2> DEFINE hh == [k \in 0..(n + 1) |-> IF k = n + 1 THEN F[h[n]] ELSE h[k]]
  <2>2. hh \in [0..(n + 1) -> D]
    BY <2>1
  <2>3. hh[0] = a
    BY <2>1
  <2>4. ASSUME NEW k \in 1..(n + 1) PROVE hh[k] = F[hh[k - 1]]
    BY <2>1
  <2> HIDE DEF hh
  <2>5. Upto(hh, n + 1)
    BY <2>2, <2>3, <2>4
  <2> QED
    BY <2>5
<1>3. Nat \subseteq S
  <2> HIDE DEF S
  <2> QED
    BY <1>1, <1>2, NatInd
<1>4. ASSUME NEW n \in Nat, NEW m \in Nat, NEW h, NEW i, Upto(h, n), Upto(i, m), n <= m
      PROVE  \A k \in 0..n : h[k] = i[k]
  <2> DEFINE E == {k \in Nat : k <= n => h[k] = i[k]}
  <2>1. 0 \in E
    BY <1>4
  <2>2. ASSUME NEW k \in Nat, k \in E PROVE k + 1 \in E
    <3> SUFFICES ASSUME k + 1 <= n PROVE h[k + 1] = i[k + 1]
      OBVIOUS
    <3>1. k + 1 \in 1..n /\ k + 1 \in 1..m /\ (k + 1) - 1 = k
      BY <1>4
    <3>2. h[k + 1] = F[h[k]] /\ i[k + 1] = F[i[k]]
      BY <1>4, <3>1
    <3> QED
      BY <2>2, <3>1, <3>2
  <2>3. Nat \subseteq E
    <3> HIDE DEF E
    <3> QED
      BY <2>1, <2>2, NatInd
  <2> QED
    BY <2>3
<1> DEFINE W(n) == CHOOSE h : Upto(h, n)
<1> DEFINE g == [k \in Nat |-> W(k)[k]]
<1>5. \A n \in Nat : Upto(W(n), n)
  BY <1>3
<1> HIDE DEF W
<1>6. g \in [Nat -> D]
  BY <1>5
<1>7. g[0] = a
  BY <1>5
<1>8. ASSUME NEW k \in Nat, k # 0 PROVE g[k] = F[g[k - 1]]
  <2>1. k - 1 \in Nat /\ k - 1 <= k /\ k \in 1..k /\ k - 1 \in 0..(k - 1)
    BY <1>8
  <2>2. W(k - 1)[k - 1] = W(k)[k - 1]
    <3>1. Upto(W(k - 1), k - 1) /\ Upto(W(k), k)
      BY <1>5, <2>1
    <3> HIDE DEF Upto
    <3> QED
      BY <1>4, <2>1, <3>1
  <2>3. W(k)[k] = F[W(k)[k - 1]]
    BY <1>5, <2>1
  <2> QED
    BY <2>1, <2>2, <2>3
<1> HIDE DEF g
<1>9. g = [k \in Nat |-> IF k = 0 THEN a ELSE F[g[k - 1]]]
  BY <1>6, <1>7, <1>8
<1> QED
  BY <1>6, <1>9

-----------------------------------------------------------------------------
(* A closed graph *)

\* Graph.RemoveByPath leaves a closed graph.
LEMMA RemoveByPathKeepsClosed ==
    ASSUME GraphIsClosed, NEW f, RemoveByPath(f)
    PROVE  (\A e \in edges' : e[1] \in nodes') /\ files' = {n[1] : n \in nodes'}
<1>1. \A e \in edges' : e[1] \in nodes'
  BY DEF RemoveByPath, GraphIsClosed
<1>2. files' = {n[1] : n \in nodes'}
  <2>1. CASE NodesOf(f) = {}
    BY <2>1 DEF RemoveByPath, GraphIsClosed
  <2>2. CASE NodesOf(f) # {}
    BY <2>2 DEF RemoveByPath, GraphIsClosed, NodesOf
  <2> QED
    BY <2>1, <2>2
<1> QED
  BY <1>1, <1>2

\* So does Graph.AddChunk, which adds the caller with its edges.
LEMMA AddChunkKeepsClosed ==
    ASSUME GraphIsClosed, NEW f, NEW c, AddChunk(f, c)
    PROVE  (\A e \in edges' : e[1] \in nodes') /\ files' = {n[1] : n \in nodes'}
<1>1. ASSUME NEW e \in edges' PROVE e[1] \in nodes'
  <2>1. CASE e \in edges
    BY <2>1 DEF AddChunk, GraphIsClosed
  <2>2. CASE e \in EdgesOf(f, c)
    BY <2>2 DEF AddChunk, EdgesOf
  <2> QED
    BY <2>1, <2>2 DEF AddChunk
<1>2. files' = {n[1] : n \in nodes'}
  <2>1. <<f, c.symbol>>[1] = f
    OBVIOUS
  <2> QED
    BY <2>1 DEF AddChunk, GraphIsClosed
<1> QED
  BY <1>1, <1>2

\* The rows of edges always have the row of their caller, in memory and in the
\* tables, and HasFile answers for the nodes: for any contents, whichever files are
\* removed, replaced and added again, and whenever the process ends.
THEOREM GraphStaysClosed == Spec => []GraphIsClosed
<1>1. Init => GraphIsClosed
  BY DEF Init, GraphIsClosed
<1>2. GraphIsClosed /\ [Next]_vars => GraphIsClosed'
  <2> SUFFICES ASSUME GraphIsClosed, [Next]_vars PROVE GraphIsClosed'
    OBVIOUS
  <2>1. ASSUME NEW f, Forget(f), UNCHANGED <<dbNodes, dbEdges>> PROVE GraphIsClosed'
    BY <2>1, RemoveByPathKeepsClosed DEF Forget, GraphIsClosed
  <2>2. ASSUME UNCHANGED <<graph, dbNodes, dbEdges>> PROVE GraphIsClosed'
    BY <2>2 DEF graph, GraphIsClosed
  <2>3. ASSUME NEW f \in Files, Purge(f) PROVE GraphIsClosed'
    BY <2>1, <2>3 DEF Purge
  <2>4. ASSUME NEW f \in Files, Replace(f) PROVE GraphIsClosed'
    BY <2>1, <2>4 DEF Replace
  <2>5. CASE Add
    <3>1. AddChunk(current, Head(left)) /\ UNCHANGED <<dbNodes, dbEdges>>
      BY <2>5 DEF Add, tables
    <3> QED
      BY <3>1, AddChunkKeepsClosed DEF GraphIsClosed
  <2>6. CASE SaveGraph
    <3>1. UNCHANGED graph
      BY <2>6 DEF SaveGraph
    <3>2. CASE CanSave
      <4>1. dbNodes' = nodes /\ dbEdges' = edges
        BY <2>6, <3>2 DEF SaveGraph
      <4> QED
        BY <3>1, <4>1 DEF GraphIsClosed, graph
    <3>3. CASE ~CanSave
      BY <2>2, <2>6, <3>1, <3>3 DEF SaveGraph
    <3> QED
      BY <3>2, <3>3
  <2>7. CASE Restart
    BY <2>7 DEF Restart, GraphIsClosed, tables
  <2>8. ASSUME NEW j, BeginPass(j) PROVE GraphIsClosed'
    BY <2>2, <2>8 DEF BeginPass, tables
  <2>9. ASSUME NEW f \in Files, BeginFile(f) \/ Edit(f) PROVE GraphIsClosed'
    BY <2>2, <2>9 DEF BeginFile, Edit, tables
  <2>10. CASE Walk \/ AddFingerprints \/ Store \/ StoreFails \/ SaveSimhash
    BY <2>2, <2>10 DEF Walk, AddFingerprints, Store, StoreFails, SaveSimhash, tables
  <2>11. CASE TraceStep
    <3>1. QueryStep
      BY <2>11 DEF TraceStep, AskFrom, AskTo, Take, Respond, LookAt
    <3> QED
      BY <2>2, <3>1 DEF QueryStep, tables
  <2>12. CASE UNCHANGED vars
    BY <2>2, <2>12 DEF vars, graph
  <2> QED
    BY <2>3, <2>4, <2>5, <2>6, <2>7, <2>8, <2>9, <2>10, <2>11, <2>12 DEF Next, JobStep
<1> QED
  BY <1>1, <1>2, PTL DEF Spec

-----------------------------------------------------------------------------
(* Types *)

Chunk == [symbol : Symbols, calls : SUBSET Symbols]
Asked == [from : Symbols, to : Symbols, scope : SUBSET Files, depth : 1..DepthLimit]

StoreTypes ==
    /\ disk \in [Files -> Entry] /\ chunks \in [Files -> Entry] /\ hash \in [Files -> Entry]
    /\ sim \in [Files -> Entry] /\ dbSim \in [Files -> Entry]

\* The nodes are finitely many, as each was added by one AddChunk.
GraphTypes ==
    /\ nodes \subseteq Node /\ edges \subseteq Node \X Symbols /\ files \subseteq Files
    /\ dbNodes \subseteq Node /\ dbEdges \subseteq Node \X Symbols
    /\ IsFiniteSet(nodes) /\ IsFiniteSet(dbNodes)

\* What a job replaces was there when it read the disk, and it adds the chunks
\* of one file at a time.
JobTypes ==
    /\ pc \in {"idle", "purge", "walk", "replace", "store", "saveGraph", "saveSim"}
    /\ job \in {"none", "initial", "rebuild", "file"}
    /\ seen \in [Files -> Entry]
    /\ changed \subseteq Files /\ todo \subseteq Files
    /\ current \in Files \cup {Absent} /\ left \in Seq(Chunk)
    /\ pc = "replace" => \A f \in todo : seen[f] # Absent
    /\ left # <<>> => current \in Files

QueryTypes ==
    /\ query = NoQuery \/ query \in Asked
    /\ stage \in {"none", "to", "search", "found", "notFound", "unknown"}
    /\ targets \subseteq Node /\ visited \subseteq Node /\ callees \subseteq Node
    /\ item \in Seq(Node) /\ answer \in Seq(Node) /\ queue \in Seq(Seq(Node))
    /\ stage = "to" => queue # <<>>

GhostTypes ==
    /\ calm \in BOOLEAN /\ restarted \in BOOLEAN /\ lost \in BOOLEAN
    /\ events \in Nat

Typed == StoreTypes /\ GraphTypes /\ JobTypes /\ QueryTypes /\ GhostTypes

LEMMA TypedImpliesTypeOK == Typed => TypeOK
<1> SUFFICES ASSUME Typed PROVE TypeOK
  OBVIOUS
<1>1. \A i \in DOMAIN queue : queue[i] \in Seq(Node)
  BY DEF Typed, QueryTypes
<1> QED
  BY <1>1 DEF Typed, StoreTypes, GraphTypes, JobTypes, QueryTypes, GhostTypes, TypeOK, IsPath, Chunk, Asked

\* A content is a sequence of chunks.
LEMMA ContentIsChunks == \A c \in Entry : c # Absent => c \in Contents /\ c \in Seq(Chunk)
  BY ContentsAssumption DEF Entry, Chunk

LEMMA InitTyped == Init => Typed
<1> SUFFICES ASSUME Init PROVE Typed
  OBVIOUS
<1>1. StoreTypes
  BY DEF Init, StoreTypes, Nothing, Entry
<1>2. GraphTypes
  BY FS_EmptySet DEF Init, GraphTypes
<1>3. JobTypes
  BY DEF Init, JobTypes, Nothing, Entry
<1>4. QueryTypes
  BY DEF Init, QueryTypes
<1>5. GhostTypes
  BY DEF Init, GhostTypes
<1> QED
  BY <1>1, <1>2, <1>3, <1>4, <1>5 DEF Typed

LEMMA StepStoreTypes == StoreTypes /\ JobTypes /\ [Next]_vars => StoreTypes'
<1> SUFFICES ASSUME StoreTypes, JobTypes, [Next]_vars PROVE StoreTypes'
  OBVIOUS
<1>1. Absent \in Entry
  BY DEF Entry
<1>2. ASSUME NEW f \in Files, Purge(f) \/ Replace(f) PROVE StoreTypes'
  BY <1>1, <1>2 DEF Purge, Replace, Drop, Forget, StoreTypes
<1>3. ASSUME NEW f \in Files, BeginFile(f) PROVE StoreTypes'
  BY <1>1, <1>3 DEF BeginFile, Drop, StoreTypes, tables
<1>4. ASSUME NEW f \in Files, Edit(f) PROVE StoreTypes'
  BY <1>4 DEF Edit, StoreTypes, tables
<1>5. CASE Walk
  BY <1>1, <1>5 DEF Walk, StoreTypes, tables
<1>6. ASSUME NEW S, Put(S) PROVE chunks' \in [Files -> Entry] /\ hash' \in [Files -> Entry]
  BY <1>6 DEF Put, StoreTypes, JobTypes
<1>7. CASE Store
  <2>1. UNCHANGED <<disk, sim, dbSim>>
    BY <1>7 DEF Store, tables
  <2> QED
    BY <1>6, <1>7, <2>1 DEF Store, StoreTypes
<1>8. CASE StoreFails
  <2>1. UNCHANGED <<disk, sim, dbSim>>
    BY <1>8 DEF StoreFails, tables
  <2> QED
    BY <1>6, <1>8, <2>1 DEF StoreFails, StoreTypes
<1>9. CASE AddFingerprints
  <2>1. sim' \in [Files -> Entry]
    BY <1>9 DEF AddFingerprints, StoreTypes, JobTypes
  <2> QED
    BY <1>9, <2>1 DEF AddFingerprints, StoreTypes, tables
<1>10. CASE Add \/ SaveGraph \/ SaveSimhash \/ Restart
  BY <1>10 DEF Add, SaveGraph, SaveSimhash, Restart, StoreTypes, tables
<1>11. ASSUME NEW j, BeginPass(j) PROVE StoreTypes'
  BY <1>11 DEF BeginPass, StoreTypes, tables
<1>12. CASE TraceStep
  <2>1. QueryStep
    BY <1>12 DEF TraceStep, AskFrom, AskTo, Take, Respond, LookAt
  <2> QED
    BY <2>1 DEF QueryStep, StoreTypes, tables
<1>13. CASE UNCHANGED vars
  BY <1>13 DEF vars, StoreTypes
<1> QED
  BY <1>2, <1>3, <1>4, <1>5, <1>7, <1>8, <1>9, <1>10, <1>11, <1>12, <1>13 DEF Next, JobStep

LEMMA StepGraphTypes == GraphTypes /\ JobTypes /\ [Next]_vars => GraphTypes'
<1> SUFFICES ASSUME GraphTypes, JobTypes, [Next]_vars PROVE GraphTypes'
  OBVIOUS
<1>1. ASSUME NEW f, Forget(f), UNCHANGED <<dbNodes, dbEdges>> PROVE GraphTypes'
  <2>1. nodes' \subseteq nodes /\ edges' \subseteq edges /\ files' \subseteq files
    BY <1>1 DEF Forget, RemoveByPath
  <2>2. IsFiniteSet(nodes')
    BY <2>1, FS_Subset DEF GraphTypes
  <2> QED
    BY <1>1, <2>1, <2>2 DEF GraphTypes
<1>2. ASSUME UNCHANGED <<graph, dbNodes, dbEdges>> PROVE GraphTypes'
  BY <1>2 DEF graph, GraphTypes
<1>3. ASSUME NEW f \in Files, Purge(f) \/ Replace(f) PROVE GraphTypes'
  BY <1>1, <1>3 DEF Purge, Replace
<1>4. CASE Add
  <2>1. current \in Files /\ Head(left) \in Chunk
    BY <1>4 DEF Add, JobTypes
  <2> DEFINE c == Head(left)
  <2>2. <<current, c.symbol>> \in Node /\ c.calls \subseteq Symbols
    BY <2>1 DEF Chunk, Node
  <2>3. EdgesOf(current, c) \subseteq Node \X Symbols
    BY <2>2 DEF EdgesOf
  <2>4. IsFiniteSet(nodes \cup {<<current, c.symbol>>})
    BY FS_AddElement DEF GraphTypes
  <2>5. AddChunk(current, c) /\ UNCHANGED <<dbNodes, dbEdges>>
    BY <1>4 DEF Add, tables
  <2> QED
    BY <2>1, <2>2, <2>3, <2>4, <2>5 DEF AddChunk, GraphTypes
<1>5. CASE SaveGraph
  BY <1>5 DEF SaveGraph, graph, GraphTypes
<1>6. CASE Restart
  <2>1. nodes' = dbNodes /\ edges' = dbEdges /\ files' = {n[1] : n \in dbNodes} /\ UNCHANGED <<dbNodes, dbEdges>>
    BY <1>6 DEF Restart, tables
  <2>2. files' \subseteq Files
    BY <2>1 DEF GraphTypes, Node
  <2> QED
    BY <2>1, <2>2 DEF GraphTypes
<1>7. ASSUME NEW j, BeginPass(j) PROVE GraphTypes'
  BY <1>2, <1>7 DEF BeginPass, tables
<1>8. ASSUME NEW f \in Files, BeginFile(f) \/ Edit(f) PROVE GraphTypes'
  BY <1>2, <1>8 DEF BeginFile, Edit, tables
<1>9. CASE Walk \/ AddFingerprints \/ Store \/ StoreFails \/ SaveSimhash
  BY <1>2, <1>9 DEF Walk, AddFingerprints, Store, StoreFails, SaveSimhash, tables
<1>10. CASE TraceStep
  <2>1. QueryStep
    BY <1>10 DEF TraceStep, AskFrom, AskTo, Take, Respond, LookAt
  <2> QED
    BY <1>2, <2>1 DEF QueryStep, tables
<1>11. CASE UNCHANGED vars
  BY <1>2, <1>11 DEF vars, graph
<1> QED
  BY <1>3, <1>4, <1>5, <1>6, <1>7, <1>8, <1>9, <1>10, <1>11 DEF Next, JobStep
LEMMA StepJobTypes == StoreTypes /\ GraphTypes /\ JobTypes /\ [Next]_vars => JobTypes'
<1> SUFFICES ASSUME StoreTypes, GraphTypes, JobTypes, [Next]_vars PROVE JobTypes'
  OBVIOUS
<1>1. Nothing \in [Files -> Entry] /\ <<>> \in Seq(Chunk)
  BY DEF Nothing, Entry
<1>2. ASSUME EndJob \/ ToSave PROVE JobTypes'
  BY <1>1, <1>2 DEF EndJob, ToSave, JobTypes
<1>3. ASSUME UNCHANGED jobVars PROVE JobTypes'
  BY <1>3 DEF jobVars, JobTypes
<1>4. ASSUME NEW j \in {"initial", "rebuild"}, BeginPass(j) PROVE JobTypes'
  BY <1>4 DEF BeginPass, Stale, JobTypes
<1>5. ASSUME NEW f \in Files, Purge(f) PROVE JobTypes'
  BY <1>5 DEF Purge, JobTypes
<1>6. ASSUME NEW f \in Files, Replace(f) PROVE JobTypes'
  <2>1. left' \in Seq(Chunk)
    BY <1>6, ContentIsChunks DEF Replace, JobTypes
  <2> QED
    BY <1>6, <2>1 DEF Replace, JobTypes
<1>7. CASE Walk
  <2>1. CASE ToSave
    BY <1>2, <2>1
  <2>2. CASE /\ todo' = Changed \cup GraphOnly
             /\ changed' = Changed
             /\ seen' = disk
             /\ pc' = "replace"
             /\ UNCHANGED <<job, current, left>>
    <3>1. Changed \subseteq Files /\ GraphOnly \subseteq Files
      BY DEF Changed, GraphOnly
    <3>2. \A f \in Changed \cup GraphOnly : disk[f] # Absent
      BY DEF Changed, GraphOnly
    <3> QED
      BY <2>2, <3>1, <3>2 DEF JobTypes, StoreTypes
  <2> QED
    BY <1>7, <2>1, <2>2 DEF Walk
<1>8. CASE Add
  <2>1. left' \in Seq(Chunk) /\ current \in Files
    BY <1>8 DEF Add, JobTypes
  <2> QED
    BY <1>8, <2>1 DEF Add, JobTypes
<1>9. CASE AddFingerprints
  <2>1. CASE ToSave
    BY <1>2, <2>1
  <2>2. CASE /\ current' = Absent
             /\ pc' = IF todo = {} THEN "store" ELSE pc
             /\ UNCHANGED <<job, seen, changed, todo, left>>
    <3>1. left' = <<>> /\ pc = "replace"
      BY <1>9, <2>2 DEF AddFingerprints
    <3> QED
      BY <2>2, <3>1 DEF JobTypes
  <2> QED
    BY <1>9, <2>1, <2>2 DEF AddFingerprints
<1>10. ASSUME NEW f \in Files, BeginFile(f) PROVE JobTypes'
  <2>1. CASE ToSave
    BY <1>2, <2>1
  <2>2. CASE /\ disk[f] # Absent
             /\ pc' = "replace" /\ job' = "file"
             /\ seen' = [seen EXCEPT ![f] = disk[f]]
             /\ changed' = {f} /\ todo' = {f}
             /\ UNCHANGED <<current, left>>
    BY <2>2 DEF JobTypes, StoreTypes
  <2> QED
    BY <1>10, <2>1, <2>2 DEF BeginFile
<1>11. CASE Store
  BY <1>2, <1>11 DEF Store
<1>12. CASE StoreFails
  <2>1. CASE ToSave \/ EndJob
    BY <1>2, <2>1
  <2>2. CASE /\ pc' = "walk" /\ seen' = Nothing /\ changed' = {}
             /\ UNCHANGED <<job, todo, current, left>>
    BY <1>1, <2>2 DEF JobTypes
  <2> QED
    BY <1>12, <2>1, <2>2 DEF StoreFails
<1>13. CASE SaveGraph
  BY <1>13 DEF SaveGraph, JobTypes
<1>14. CASE SaveSimhash \/ Restart
  BY <1>2, <1>14 DEF SaveSimhash, Restart
<1>15. ASSUME NEW f \in Files, Edit(f) PROVE JobTypes'
  BY <1>3, <1>15 DEF Edit
<1>16. CASE TraceStep
  <2>1. QueryStep
    BY <1>16 DEF TraceStep, AskFrom, AskTo, Take, Respond, LookAt
  <2> QED
    BY <1>3, <2>1 DEF QueryStep
<1>17. CASE UNCHANGED vars
  BY <1>3, <1>17 DEF vars, jobVars
<1> QED
  BY <1>4, <1>5, <1>6, <1>7, <1>8, <1>9, <1>10, <1>11, <1>12, <1>13, <1>14, <1>15, <1>16, <1>17
  DEF Next, JobStep

\* Every step that is no step of the query leaves it alone or ends it.
LEMMA OthersLeaveQuery ==
    ASSUME JobStep \/ Restart \/ (\E f \in Files : Edit(f)) \/ UNCHANGED vars
    PROVE  UNCHANGED queryVars \/ EndQuery
  BY DEF JobStep, BeginPass, Purge, Replace, BeginFile, Walk, Add, AddFingerprints, Store,
         StoreFails, SaveGraph, SaveSimhash, Restart, Edit, vars, queryVars

LEMMA StepQueryTypes == GraphTypes /\ QueryTypes /\ [Next]_vars => QueryTypes'
<1> SUFFICES ASSUME GraphTypes, QueryTypes, [Next]_vars PROVE QueryTypes'
  OBVIOUS
<1>1. ASSUME EndQuery PROVE QueryTypes'
  BY <1>1 DEF EndQuery, QueryTypes
<1>2. ASSUME UNCHANGED queryVars PROVE QueryTypes'
  BY <1>2 DEF queryVars, QueryTypes
<1>3. ASSUME NEW how \in {"found", "notFound", "unknown"}, NEW path \in Seq(Node),
             Answer(how, path), query' = NoQuery \/ query' \in Asked
      PROVE  QueryTypes'
  BY <1>3 DEF Answer, QueryTypes
<1>4. <<>> \in Seq(Node)
  OBVIOUS
<1>5. ASSUME NEW q \in Queries, AskFrom(q) PROVE QueryTypes'
  <2> DEFINE sources == ResolveSymbol(q.from, q.scope)
  <2>1. query' \in Asked
    <3>1. q \in [from : Symbols, to : Symbols, scope : SUBSET Files, depth : Int]
      BY QueriesAssumption
    <3>2. DepthOf(q.depth) \in 1..DepthLimit
      BY <3>1, DepthAssumption DEF DepthOf
    <3>3. query' = [q EXCEPT !.depth = DepthOf(q.depth)]
      BY <1>5 DEF AskFrom
    <3> QED
      BY <3>1, <3>2, <3>3 DEF Asked
  <2>2. CASE sources = {}
    BY <1>3, <1>4, <1>5, <2>1, <2>2 DEF AskFrom
  <2>3. CASE sources # {}
    <3>1. sources \subseteq nodes /\ IsFiniteSet(sources)
      BY FS_Subset DEF ResolveSymbol, GraphTypes
    <3>2. Cardinality(sources) \in Nat /\ Cardinality(sources) # 0
      BY <2>3, <3>1, FS_CardinalityType, FS_EmptySet
    <3>3. PICK o \in Orders(sources) : queue' = [i \in DOMAIN o |-> <<o[i]>>]
      BY <1>5, <2>3 DEF AskFrom
    <3>4. o \in [1..Cardinality(sources) -> Node]
      BY <3>1 DEF Orders, GraphTypes
    <3>5. queue' \in [1..Cardinality(sources) -> Seq(Node)]
      BY <3>3, <3>4
    <3>6. queue' \in Seq(Seq(Node)) /\ Len(queue') = Cardinality(sources)
      BY <3>2, <3>5
    <3>7. queue' # <<>>
      BY <3>2, <3>6
    <3>8. /\ stage' = "to" /\ visited' = sources
          /\ UNCHANGED <<targets, item, callees, answer>>
      BY <1>5, <2>3 DEF AskFrom
    <3> QED
      BY <2>1, <3>1, <3>6, <3>7, <3>8 DEF QueryTypes, GraphTypes
  <2> QED
    BY <2>2, <2>3
<1>6. CASE AskTo
  <2> DEFINE found == ResolveSymbol(query.to, query.scope)
  <2>1. queue[1] \in Seq(Node) /\ UNCHANGED query
    BY <1>6 DEF AskTo, QueryTypes
  <2>2. found \subseteq Node
    BY DEF ResolveSymbol, GraphTypes
  <2>3. \/ Answer("unknown", <<>>)
        \/ Answer("found", queue[1])
        \/ /\ stage' = "search" /\ targets' = found
           /\ UNCHANGED <<queue, visited, item, callees, answer>>
    BY <1>6 DEF AskTo
  <2>4. CASE Answer("unknown", <<>>)
    BY <1>3, <1>4, <2>1, <2>4 DEF QueryTypes
  <2>5. CASE Answer("found", queue[1])
    BY <1>3, <2>1, <2>5 DEF QueryTypes
  <2>6. CASE /\ stage' = "search" /\ targets' = found
             /\ UNCHANGED <<queue, visited, item, callees, answer>>
    BY <2>1, <2>2, <2>6 DEF QueryTypes
  <2> QED
    BY <2>3, <2>4, <2>5, <2>6
<1>7. CASE Take
  <2>1. UNCHANGED query
    BY <1>7 DEF Take
  <2>2. CASE Answer("notFound", <<>>)
    BY <1>3, <1>4, <2>1, <2>2 DEF QueryTypes
  <2>3. CASE /\ queue # <<>>
             /\ item' = Head(queue)
             /\ queue' = Tail(queue)
             /\ callees' = CalleesOf(Last(item'))
             /\ UNCHANGED <<stage, targets, visited, answer>>
    <3>1. item' \in Seq(Node) /\ queue' \in Seq(Seq(Node))
      BY <2>3 DEF QueryTypes
    <3>2. callees' \subseteq Node
      BY <2>3 DEF CalleesOf, GraphTypes
    <3>3. stage = "search"
      BY <1>7 DEF Take
    <3> QED
      BY <2>1, <2>3, <3>1, <3>2, <3>3 DEF QueryTypes
  <2> QED
    BY <1>7, <2>2, <2>3 DEF Take
<1>8. ASSUME NEW m \in callees, LookAt(m) PROVE QueryTypes'
  <2>1. UNCHANGED query /\ stage = "search" /\ m \in Node
    BY <1>8 DEF LookAt, QueryTypes
  <2>2. Append(item, m) \in Seq(Node)
    BY <2>1 DEF QueryTypes
  <2>3. CASE m \in targets /\ m \in nodes
    BY <1>3, <1>8, <2>1, <2>2, <2>3 DEF LookAt, QueryTypes
  <2>4. CASE ~(m \in targets /\ m \in nodes)
    <3>1. queue' \in Seq(Seq(Node)) /\ visited' \subseteq Node
      <4>1. Append(queue, Append(item, m)) \in Seq(Seq(Node))
        BY <2>2 DEF QueryTypes
      <4>2. UNCHANGED <<visited, queue>>
            \/ (/\ visited' = visited \cup {m}
                /\ queue' = IF m \in nodes THEN Append(queue, Append(item, m)) ELSE queue)
        BY <1>8, <2>4 DEF LookAt, Enqueue
      <4> QED
        BY <2>1, <4>1, <4>2 DEF QueryTypes
    <3>2. callees' \subseteq callees /\ UNCHANGED <<stage, targets, item, answer>>
      BY <1>8, <2>4 DEF LookAt
    <3> QED
      BY <2>1, <3>1, <3>2 DEF QueryTypes
  <2> QED
    BY <2>3, <2>4
<1>9. CASE Respond
  BY <1>1, <1>9 DEF Respond
<1> QED
  BY <1>1, <1>2, <1>5, <1>6, <1>7, <1>8, <1>9, OthersLeaveQuery DEF Next, TraceStep

LEMMA StepGhostTypes == GhostTypes /\ [Next]_vars => GhostTypes'
<1> SUFFICES ASSUME GhostTypes, [Next]_vars PROVE GhostTypes'
  OBVIOUS
<1>1. UNCHANGED events \/ events' = events + 1
  BY DEF Next, JobStep, TraceStep, BeginPass, Purge, Replace, BeginFile, Walk, Add,
         AddFingerprints, Store, StoreFails, SaveGraph, SaveSimhash, Restart, Edit, Event,
         AskFrom, AskTo, Take, LookAt, Respond, vars
<1>2. UNCHANGED <<restarted, lost>>
      \/ (restarted' = TRUE /\ lost' = (lost \/ pc # "idle" \/ sim # dbSim))
  BY DEF Next, JobStep, TraceStep, BeginPass, Purge, Replace, BeginFile, Walk, Add,
         AddFingerprints, Store, StoreFails, SaveGraph, SaveSimhash, Restart, Edit,
         AskFrom, AskTo, Take, LookAt, Respond, QueryStep, restartVars, vars
<1>3. UNCHANGED calm \/ calm' = TRUE \/ calm' = (stage = "none")
  BY DEF Next, JobStep, TraceStep, BeginPass, Purge, Replace, BeginFile, Walk, Add, Forget,
         AddFingerprints, Store, StoreFails, SaveGraph, SaveSimhash, Restart, Edit, EndQuery,
         AskFrom, AskTo, Take, LookAt, Respond, vars
<1>4. events' \in Nat
  BY <1>1 DEF GhostTypes
<1>5. restarted' \in BOOLEAN /\ lost' \in BOOLEAN
  BY <1>2 DEF GhostTypes
<1>6. calm' \in BOOLEAN
  BY <1>3 DEF GhostTypes
<1> QED
  BY <1>4, <1>5, <1>6 DEF GhostTypes

\* The types stay as they are declared, for any files, contents and queries: what
\* a job replaces was read, and a search expands only paths that it has.
THEOREM TypeCorrect == Spec => []TypeOK
<1>1. Init => Typed
  BY InitTyped
<1>2. Typed /\ [Next]_vars => Typed'
  BY StepStoreTypes, StepGraphTypes, StepJobTypes, StepQueryTypes, StepGhostTypes DEF Typed
<1>3. Typed => TypeOK
  BY TypedImpliesTypeOK
<1> QED
  BY <1>1, <1>2, <1>3, PTL DEF Spec
-----------------------------------------------------------------------------
(* TracePath *)

\* A path that may be an item of the queue: it starts at a symbol asked for and
\* goes on over nodes noted as visited, none of them twice.
Sound(p) ==
    /\ p # <<>>
    /\ p[1][2] = query.from /\ p[1][1] \in query.scope
    /\ \A i \in DOMAIN p : p[i] \in visited
    /\ \A i, j \in DOMAIN p : i # j => p[i] # p[j]

\* Targets are never noted as visited, so that none is met on the way.
Searching ==
    /\ stage # "search" => callees = {}
    /\ stage = "to" =>
          /\ query \in Asked
          /\ \A i \in DOMAIN queue : Sound(queue[i]) /\ Len(queue[i]) = 1
          /\ \A n \in visited : n[2] = query.from
    /\ stage = "search" =>
          /\ query \in Asked
          /\ \A i \in DOMAIN queue : Sound(queue[i])
          /\ callees # {} => Sound(item) /\ Len(item) <= query.depth
          /\ \A t \in targets : t[2] = query.to /\ t[1] \in query.scope
          /\ targets \cap visited = {}

SearchInv == Searching /\ TraceIsAPath

LEMMA StepSearch == GraphTypes /\ QueryTypes /\ SearchInv /\ [Next]_vars => SearchInv'
<1> SUFFICES ASSUME GraphTypes, QueryTypes, SearchInv, [Next]_vars PROVE SearchInv'
  OBVIOUS
<1>1. ASSUME EndQuery PROVE SearchInv'
  BY <1>1 DEF EndQuery, SearchInv, Searching, TraceIsAPath
<1>2. ASSUME UNCHANGED queryVars PROVE SearchInv'
  BY <1>2 DEF queryVars, SearchInv, Searching, TraceIsAPath, Sound
<1>3. ASSUME NEW how \in {"notFound", "unknown"}, Answer(how, <<>>) PROVE SearchInv'
  BY <1>3 DEF Answer, SearchInv, Searching, TraceIsAPath
<1>4. ASSUME NEW q \in Queries, AskFrom(q) PROVE SearchInv'
  <2> DEFINE sources == ResolveSymbol(q.from, q.scope)
  <2>1. CASE sources = {}
    BY <1>3, <1>4, <2>1 DEF AskFrom
  <2>2. CASE sources # {}
    <3>1. PICK o \in Orders(sources) : queue' = [i \in DOMAIN o |-> <<o[i]>>]
      BY <1>4, <2>2 DEF AskFrom
    <3>2. stage' = "to" /\ visited' = sources /\ callees' = {}
      BY <1>4, <2>2 DEF AskFrom, SearchInv, Searching
    <3>3. q \in [from : Symbols, to : Symbols, scope : SUBSET Files, depth : Int]
      BY QueriesAssumption
    <3>4. query' = [q EXCEPT !.depth = DepthOf(q.depth)]
      BY <1>4 DEF AskFrom
    <3>5. query'.from = q.from /\ query'.scope = q.scope
      BY <3>3, <3>4
    <3>6. query' \in Asked
      <4>1. DepthOf(q.depth) \in 1..DepthLimit
        BY <3>3, DepthAssumption DEF DepthOf
      <4> QED
        BY <3>3, <3>4, <4>1 DEF Asked
    <3>7. ASSUME NEW i \in DOMAIN queue' PROVE Sound(queue[i])' /\ Len(queue'[i]) = 1
      <4>1. i \in DOMAIN o /\ o[i] \in sources
        BY <3>1 DEF Orders
      <4>2. queue'[i] = <<o[i]>>
        BY <3>1, <4>1
      <4>3. o[i][2] = query'.from /\ o[i][1] \in query'.scope
        BY <3>5, <4>1 DEF ResolveSymbol
      <4> QED
        BY <3>2, <4>1, <4>2, <4>3 DEF Sound
    <3>8. \A n \in sources : n[2] = query'.from
      BY <3>5 DEF ResolveSymbol
    <3> QED
      BY <3>2, <3>6, <3>7, <3>8 DEF SearchInv, Searching, TraceIsAPath
  <2> QED
    BY <2>1, <2>2
<1>5. CASE AskTo
  <2> DEFINE found == ResolveSymbol(query.to, query.scope)
  <2>1. stage = "to" /\ UNCHANGED query /\ query \in Asked
    BY <1>5 DEF AskTo, SearchInv, Searching
  <2>2. CASE found = {}
    BY <1>3, <1>5, <2>2 DEF AskTo
  <2>3. CASE found # {} /\ query.from = query.to
    <3>1. stage' = "found" /\ answer' = queue[1] /\ callees' = {}
      BY <1>5, <2>3 DEF AskTo, Answer
    <3> DEFINE p == queue[1]
    <3>2. 1 \in DOMAIN queue /\ p \in Seq(Node)
      BY <2>1 DEF QueryTypes
    <3>3. Sound(p) /\ Len(p) = 1
      BY <2>1, <3>2 DEF SearchInv, Searching
    <3>4. p[1] \in Node /\ DOMAIN p = {1}
      BY <3>2, <3>3
    <3>5. query.depth \in Nat
      BY <2>1 DEF Asked
    <3>6. p[1][2] = query.from /\ p[1][1] \in query.scope
      BY <3>3 DEF Sound
    <3> HIDE DEF p
    <3>7. Last(p) = p[1]
      BY <3>3 DEF Last
    <3>8. TraceIsAPath'
      BY <2>1, <2>3, <3>1, <3>3, <3>4, <3>5, <3>6, <3>7 DEF TraceIsAPath, Last, p
    <3> QED
      BY <3>1, <3>8 DEF SearchInv, Searching
  <2>4. CASE found # {} /\ query.from # query.to
    <3>1. /\ stage' = "search" /\ targets' = found
          /\ UNCHANGED <<queue, visited, item, callees, answer>>
      BY <1>5, <2>4 DEF AskTo
    <3>2. \A i \in DOMAIN queue' : Sound(queue[i])'
      BY <2>1, <3>1 DEF SearchInv, Searching, Sound
    <3>3. \A t \in targets' : t[2] = query'.to /\ t[1] \in query'.scope
      BY <2>1, <3>1 DEF ResolveSymbol
    <3>4. targets' \cap visited' = {}
      BY <2>1, <2>4, <3>1, <3>3 DEF SearchInv, Searching
    <3>5. callees' = {}
      BY <2>1, <3>1 DEF SearchInv, Searching
    <3> QED
      BY <2>1, <3>1, <3>2, <3>3, <3>4, <3>5 DEF SearchInv, Searching, TraceIsAPath
  <2> QED
    BY <2>2, <2>3, <2>4
<1>6. CASE Take
  <2>1. stage = "search" /\ UNCHANGED query
    BY <1>6 DEF Take
  <2>2. CASE Answer("notFound", <<>>)
    BY <1>3, <2>2
  <2>3. CASE /\ queue # <<>> /\ Len(Head(queue)) <= query.depth
             /\ item' = Head(queue)
             /\ queue' = Tail(queue)
             /\ UNCHANGED <<stage, targets, visited, answer>>
    <3>1. queue[1] = Head(queue) /\ 1 \in DOMAIN queue
      BY <2>3 DEF QueryTypes
    <3>2. Sound(item)'
      BY <2>1, <2>3, <3>1 DEF SearchInv, Searching, Sound
    <3>3. ASSUME NEW i \in DOMAIN queue' PROVE Sound(queue[i])'
      <4>1. i + 1 \in DOMAIN queue /\ queue'[i] = queue[i + 1]
        BY <2>3 DEF QueryTypes
      <4> QED
        BY <2>1, <2>3, <4>1 DEF SearchInv, Searching, Sound
    <3> QED
      BY <2>1, <2>3, <3>2, <3>3 DEF SearchInv, Searching, TraceIsAPath
  <2>4. queue = <<>> \/ Len(Head(queue)) <= query.depth \/ Len(Head(queue)) > query.depth
    <3>1. SUFFICES ASSUME queue # <<>> PROVE Len(Head(queue)) \in Nat
      BY <2>1 DEF SearchInv, Searching, Asked
    <3> QED
      BY <3>1 DEF QueryTypes
  <2> QED
    BY <1>6, <2>2, <2>3, <2>4 DEF Take
<1>7. ASSUME NEW m \in callees, LookAt(m) PROVE SearchInv'
  <2>1. stage = "search" /\ UNCHANGED query /\ query \in Asked /\ m \in Node
    BY <1>7 DEF LookAt, QueryTypes, SearchInv, Searching
  <2>2. Sound(item) /\ Len(item) <= query.depth /\ item \in Seq(Node) /\ Len(item) \in Nat \ {0}
    BY <1>7, <2>1 DEF QueryTypes, SearchInv, Searching, Sound
  <2>3. query.depth \in Nat
    BY <2>1 DEF Asked
  <2> DEFINE p == Append(item, m)
  <2>4. /\ p \in Seq(Node) /\ Len(p) = Len(item) + 1 /\ p[Len(p)] = m
        /\ \A i \in DOMAIN p : i = Len(p) \/ (i \in DOMAIN item /\ p[i] = item[i])
        /\ p[1] = item[1]
    BY <2>1, <2>2
  <2>5. ASSUME m \notin visited
        PROVE  \A i, j \in DOMAIN p : i # j => p[i] # p[j]
    BY <2>2, <2>4, <2>5 DEF Sound
  <2>6. CASE m \in targets /\ m \in nodes
    <3>1. stage' = "found" /\ answer' = p /\ callees' = {}
      BY <1>7, <2>6 DEF LookAt, Answer
    <3>2. m \notin visited /\ m[2] = query.to /\ m[1] \in query.scope
      BY <2>1, <2>6 DEF SearchInv, Searching
    <3>3. p[1][2] = query.from /\ p[1][1] \in query.scope /\ p[1] \in Node
      BY <2>2, <2>4 DEF Sound
    <3>4. Len(p) - 1 <= query.depth
      BY <2>2, <2>3, <2>4
    <3>5. Last(p) = m
      BY <2>4 DEF Last
    <3> HIDE DEF p
    <3>6. TraceIsAPath'
      BY <2>1, <2>5, <3>1, <3>2, <3>3, <3>4, <3>5 DEF TraceIsAPath, Last
    <3> QED
      BY <3>1, <3>6 DEF SearchInv, Searching
  <2>7. CASE ~(m \in targets /\ m \in nodes)
    <3>1. /\ callees' = callees \ {m} /\ UNCHANGED <<stage, targets, item, answer>>
          /\ \/ UNCHANGED <<visited, queue>>
             \/ /\ m \notin targets \cup visited /\ Len(item) < query.depth
                /\ visited' = visited \cup {m}
                /\ queue' = IF m \in nodes THEN Append(queue, p) ELSE queue
      BY <1>7, <2>7 DEF LookAt, Enqueue
    <3>3. ASSUME NEW i \in DOMAIN queue' PROVE Sound(queue[i])'
      <4>1. CASE i \in DOMAIN queue /\ queue'[i] = queue[i]
        <5>1. Sound(queue[i])
          BY <2>1, <4>1 DEF SearchInv, Searching
        <5> QED
          BY <2>1, <3>1, <4>1, <5>1 DEF Sound
      <4>2. CASE /\ m \notin visited /\ visited' = visited \cup {m} /\ queue'[i] = p
        <5>1. p # <<>> /\ p[1][2] = query.from /\ p[1][1] \in query.scope
          BY <2>2, <2>4 DEF Sound
        <5>2. \A k \in DOMAIN p : p[k] \in visited'
          BY <2>2, <2>4, <4>2 DEF Sound
        <5> HIDE DEF p
        <5> QED
          BY <2>1, <2>5, <4>2, <5>1, <5>2 DEF Sound
      <4>3. \/ i \in DOMAIN queue /\ queue'[i] = queue[i]
            \/ m \notin visited /\ visited' = visited \cup {m} /\ queue'[i] = p
        <5>1. CASE queue' = queue
          BY <5>1
        <5>2. CASE m \notin visited /\ visited' = visited \cup {m} /\ queue' = Append(queue, p)
          <6>1. queue \in Seq(Seq(Node)) /\ p \in Seq(Node)
            BY <2>4 DEF QueryTypes
          <6> HIDE DEF p
          <6> QED
            BY <5>2, <6>1
        <5> QED
          BY <3>1, <5>1, <5>2
      <4> QED
        BY <4>1, <4>2, <4>3
    <3>4. Sound(item)' /\ Len(item') <= query'.depth
      BY <2>1, <2>2, <3>1 DEF Sound
    <3>5. targets' \cap visited' = {}
      BY <2>1, <3>1 DEF SearchInv, Searching
    <3>6. stage' = "search" /\ query' \in Asked
      BY <2>1, <3>1
    <3>7. \A t \in targets' : t[2] = query'.to /\ t[1] \in query'.scope
      BY <2>1, <3>1 DEF SearchInv, Searching
    <3> QED
      BY <3>3, <3>4, <3>5, <3>6, <3>7 DEF SearchInv, Searching, TraceIsAPath
  <2> QED
    BY <2>6, <2>7
<1>8. CASE Respond
  BY <1>1, <1>8 DEF Respond
<1> QED
  BY <1>1, <1>2, <1>4, <1>5, <1>6, <1>7, <1>8, OthersLeaveQuery DEF Next, TraceStep

\* What trace_path answers is a path from the one symbol to the other within the
\* project asked for, no longer than allowed and without repetition, for any graph
\* and depth and whatever jobs do between any two of its reads.
THEOREM TracesArePaths == Spec => []TraceIsAPath
<1>1. Init => SearchInv
  BY DEF Init, SearchInv, Searching, TraceIsAPath
<1>2. Init => Typed
  BY InitTyped
<1>3. Typed /\ SearchInv /\ [Next]_vars => Typed' /\ SearchInv'
  BY StepStoreTypes, StepGraphTypes, StepJobTypes, StepQueryTypes, StepGhostTypes, StepSearch
  DEF Typed
<1>4. SearchInv => TraceIsAPath
  BY DEF SearchInv
<1> QED
  BY <1>1, <1>2, <1>3, <1>4, PTL DEF Spec
-----------------------------------------------------------------------------
(* The indexes and the store *)

\* Where a job stands with the store: what it is about to store has no chunks
\* there, and what it only adds to the graph has those that it has read.
Storing ==
    /\ pc # "replace" => current = Absent /\ left = <<>>
    /\ pc \in {"walk", "store"} => todo = {}
    /\ \A f \in Files : hash[f] # Absent => chunks[f] = hash[f]
    /\ pc \in {"replace", "store"} => \A f \in changed : chunks[f] = Absent /\ hash[f] = Absent
    /\ pc = "replace" => \A f \in Files : f \in todo \cup {current} /\ chunks[f] # Absent
                                            => chunks[f] = seen[f]

Done == IF pc \in {"replace", "store"} THEN changed \ (todo \cup {current}) ELSE {}

EdgesFrom(f) == {e \in edges : e[1][1] = f}
SymbolsOf(f, c) == {<<f, c[i].symbol>> : i \in DOMAIN c}
CallsOf(f, c) == UNION {EdgesOf(f, c[i]) : i \in DOMAIN c}

\* Some chunks of the file being replaced are in the graph, the others are left.
Replacing(f) ==
    /\ NodesOf(f) \cup SymbolsOf(f, left) = SymbolsOf(f, seen[f])
    /\ EdgesFrom(f) \cup CallsOf(f, left) = CallsOf(f, seen[f])

GraphFollows ==
    ~restarted =>
        /\ \A f \in Files : f # current /\ chunks[f] # Absent => Mirrors(f, chunks[f])
        /\ \A f \in Done : Mirrors(f, seen[f])
        /\ current \in Files => Replacing(current)

SimFollows ==
    ~lost =>
        /\ \A f \in Files : f # current /\ chunks[f] # Absent => sim[f] = chunks[f]
        /\ \A f \in Done : sim[f] = seen[f]

LEMMA MirrorsIs ==
    ASSUME NEW f, NEW c
    PROVE  Mirrors(f, c) <=> NodesOf(f) = SymbolsOf(f, c) /\ EdgesFrom(f) = CallsOf(f, c)
  BY DEF Mirrors, SymbolsOf, CallsOf, EdgesFrom

\* RemoveByPath takes all that is known of a file and nothing of another.
LEMMA RemoveByPathEffect ==
    ASSUME GraphIsClosed, NEW f, RemoveByPath(f)
    PROVE  /\ NodesOf(f)' = {} /\ EdgesFrom(f)' = {}
           /\ \A g : g # f => NodesOf(g)' = NodesOf(g) /\ EdgesFrom(g)' = EdgesFrom(g)
<1>1. NodesOf(f)' = {}
  BY DEF RemoveByPath, NodesOf
<1>2. EdgesFrom(f)' = {}
  BY DEF RemoveByPath, NodesOf, EdgesFrom, GraphIsClosed
<1>3. ASSUME NEW g, g # f PROVE NodesOf(g)' = NodesOf(g)
  BY <1>3 DEF RemoveByPath, NodesOf
<1>4. ASSUME NEW g, g # f PROVE EdgesFrom(g)' = EdgesFrom(g)
  BY <1>4 DEF RemoveByPath, NodesOf, EdgesFrom
<1> QED
  BY <1>1, <1>2, <1>3, <1>4

\* AddChunk adds to what is known of a file, and nothing to another.
LEMMA AddChunkEffect ==
    ASSUME NEW f, NEW c, AddChunk(f, c)
    PROVE  /\ NodesOf(f)' = NodesOf(f) \cup {<<f, c.symbol>>}
           /\ EdgesFrom(f)' = EdgesFrom(f) \cup EdgesOf(f, c)
           /\ \A g : g # f => NodesOf(g)' = NodesOf(g) /\ EdgesFrom(g)' = EdgesFrom(g)
<1>1. \A e \in EdgesOf(f, c) : e[1][1] = f
  BY DEF EdgesOf
<1>2. <<f, c.symbol>>[1] = f
  OBVIOUS
<1>3. NodesOf(f)' = NodesOf(f) \cup {<<f, c.symbol>>}
  BY <1>2 DEF AddChunk, NodesOf
<1>4. EdgesFrom(f)' = EdgesFrom(f) \cup EdgesOf(f, c)
  BY <1>1 DEF AddChunk, EdgesFrom
<1>5. ASSUME NEW g, g # f PROVE NodesOf(g)' = NodesOf(g)
  BY <1>2, <1>5 DEF AddChunk, NodesOf
<1>6. ASSUME NEW g, g # f PROVE EdgesFrom(g)' = EdgesFrom(g)
  BY <1>1, <1>6 DEF AddChunk, EdgesFrom
<1> QED
  BY <1>3, <1>4, <1>5, <1>6

\* What a sequence of chunks amounts to is what its head and its tail do.
LEMMA HeadAndTail ==
    ASSUME NEW f, NEW c \in Seq(Chunk), c # <<>>
    PROVE  /\ SymbolsOf(f, c) = {<<f, Head(c).symbol>>} \cup SymbolsOf(f, Tail(c))
           /\ CallsOf(f, c) = EdgesOf(f, Head(c)) \cup CallsOf(f, Tail(c))
<1>1. /\ 1 \in DOMAIN c /\ c[1] = Head(c)
      /\ \A i \in DOMAIN Tail(c) : i + 1 \in DOMAIN c /\ Tail(c)[i] = c[i + 1]
  OBVIOUS
<1>2. \A i \in DOMAIN c : i = 1 \/ (i - 1 \in DOMAIN Tail(c) /\ Tail(c)[i - 1] = c[i])
  OBVIOUS
<1>3. SymbolsOf(f, c) = {<<f, Head(c).symbol>>} \cup SymbolsOf(f, Tail(c))
  <2>1. ASSUME NEW i \in DOMAIN c
        PROVE  <<f, c[i].symbol>> \in {<<f, Head(c).symbol>>} \cup SymbolsOf(f, Tail(c))
    BY <1>1, <1>2 DEF SymbolsOf
  <2>2. ASSUME NEW i \in DOMAIN Tail(c) PROVE <<f, Tail(c)[i].symbol>> \in SymbolsOf(f, c)
    BY <1>1 DEF SymbolsOf
  <2>3. <<f, Head(c).symbol>> \in SymbolsOf(f, c)
    BY <1>1 DEF SymbolsOf
  <2> QED
    BY <2>1, <2>2, <2>3 DEF SymbolsOf
<1>4. CallsOf(f, c) = EdgesOf(f, Head(c)) \cup CallsOf(f, Tail(c))
  <2>1. ASSUME NEW i \in DOMAIN c, NEW e \in EdgesOf(f, c[i])
        PROVE  e \in EdgesOf(f, Head(c)) \cup CallsOf(f, Tail(c))
    BY <1>1, <1>2 DEF CallsOf
  <2>2. ASSUME NEW i \in DOMAIN Tail(c), NEW e \in EdgesOf(f, Tail(c)[i]) PROVE e \in CallsOf(f, c)
    BY <1>1 DEF CallsOf
  <2>3. ASSUME NEW e \in EdgesOf(f, Head(c)) PROVE e \in CallsOf(f, c)
    BY <1>1 DEF CallsOf
  <2> QED
    BY <2>1, <2>2, <2>3 DEF CallsOf
<1> QED
  BY <1>3, <1>4

LEMMA StepStoring == StoreTypes /\ JobTypes /\ Storing /\ [Next]_vars => Storing'
<1> SUFFICES ASSUME StoreTypes, JobTypes, Storing, [Next]_vars PROVE Storing'
  OBVIOUS
<1>0. Absent \notin Files
  BY ContentsAssumption
<1>1. ASSUME EndJob \/ ToSave,
             \A f \in Files : hash'[f] # Absent => chunks'[f] = hash'[f]
      PROVE  Storing'
  BY <1>1 DEF EndJob, ToSave, Storing
<1>2. ASSUME UNCHANGED <<jobVars, chunks, hash>> PROVE Storing'
  BY <1>2 DEF jobVars, Storing
<1>3. ASSUME NEW j \in {"initial", "rebuild"}, BeginPass(j) PROVE Storing'
  BY <1>3 DEF BeginPass, Stale, Storing
<1>4. ASSUME NEW f \in Files, Purge(f) PROVE Storing'
  BY <1>4 DEF Purge, Drop, Storing, StoreTypes, JobTypes
<1>5. ASSUME NEW f \in Files, Replace(f) PROVE Storing'
  BY <1>0, <1>5 DEF Replace, Storing
<1>6. CASE Walk
  <2>1. \A f \in Files : hash'[f] # Absent => chunks'[f] = hash'[f]
    BY <1>6 DEF Walk, Storing
  <2>2. CASE ToSave
    BY <1>1, <2>1, <2>2
  <2>3. CASE /\ todo' = Changed \cup GraphOnly
             /\ changed' = Changed
             /\ seen' = disk
             /\ pc' = "replace"
             /\ UNCHANGED <<job, current, left>>
    <3>1. \A f \in Changed : chunks'[f] = Absent /\ hash'[f] = Absent
      BY <1>6 DEF Walk, Changed
    <3>2. \A f \in GraphOnly : chunks'[f] # Absent => chunks'[f] = disk[f]
      BY <1>6 DEF Walk, GraphOnly, Storing
    <3>3. current' = Absent
      BY <1>6, <2>3 DEF Walk, Storing
    <3> QED
      BY <1>0, <2>1, <2>3, <3>1, <3>2, <3>3 DEF Storing
  <2> QED
    BY <1>6, <2>2, <2>3 DEF Walk
<1>7. CASE Add
  BY <1>7 DEF Add, Storing
<1>8. CASE AddFingerprints
  <2>1. UNCHANGED <<chunks, hash>> /\ pc = "replace" /\ left = <<>>
    BY <1>8 DEF AddFingerprints
  <2>2. CASE ToSave
    BY <1>1, <2>1, <2>2 DEF Storing
  <2>3. CASE /\ current' = Absent
             /\ pc' = IF todo = {} THEN "store" ELSE pc
             /\ UNCHANGED <<job, seen, changed, todo, left>>
    BY <1>0, <2>1, <2>3 DEF Storing
  <2> QED
    BY <1>8, <2>2, <2>3 DEF AddFingerprints
<1>9. ASSUME NEW f \in Files, BeginFile(f) PROVE Storing'
  <2>1. /\ chunks' = [chunks EXCEPT ![f] = Absent] /\ hash' = [hash EXCEPT ![f] = Absent]
        /\ pc = "idle" /\ chunks'[f] = Absent /\ hash'[f] = Absent
    BY <1>9 DEF BeginFile, Drop, StoreTypes
  <2>2. \A g \in Files : hash'[g] # Absent => chunks'[g] = hash'[g]
    BY <2>1 DEF Storing, StoreTypes
  <2>3. CASE ToSave
    BY <1>1, <2>2, <2>3
  <2>4. CASE /\ pc' = "replace" /\ changed' = {f} /\ todo' = {f}
             /\ UNCHANGED <<current, left>>
    BY <1>0, <2>1, <2>2, <2>4 DEF Storing
  <2> QED
    BY <1>9, <2>3, <2>4 DEF BeginFile
<1>10. ASSUME pc = "store", NEW S \in SUBSET changed, Put(S)
       PROVE  \A f \in Files : hash'[f] # Absent => chunks'[f] = hash'[f]
  BY <1>10 DEF Put, Storing
<1>11. CASE Store
  BY <1>1, <1>10, <1>11 DEF Store
<1>12. CASE StoreFails
  <2>1. pc = "store" /\ \A f \in Files : hash'[f] # Absent => chunks'[f] = hash'[f]
    BY <1>10, <1>12 DEF StoreFails
  <2>2. CASE ToSave \/ EndJob
    BY <1>1, <2>1, <2>2
  <2>3. CASE /\ pc' = "walk" /\ changed' = {}
             /\ UNCHANGED <<job, todo, current, left>>
    BY <2>1, <2>3 DEF Storing
  <2> QED
    BY <1>12, <2>2, <2>3 DEF StoreFails
<1>13. CASE SaveGraph
  BY <1>13 DEF SaveGraph, Storing
<1>14. CASE SaveSimhash \/ Restart
  <2>1. EndJob /\ UNCHANGED <<chunks, hash>>
    BY <1>14 DEF SaveSimhash, Restart
  <2> QED
    BY <1>1, <2>1 DEF Storing
<1>15. ASSUME NEW f \in Files, Edit(f) PROVE Storing'
  BY <1>2, <1>15 DEF Edit
<1>16. CASE TraceStep
  <2>1. QueryStep
    BY <1>16 DEF TraceStep, AskFrom, AskTo, Take, Respond, LookAt
  <2> QED
    BY <1>2, <2>1 DEF QueryStep
<1>17. CASE UNCHANGED vars
  BY <1>2, <1>17 DEF vars, jobVars
<1> QED
  BY <1>3, <1>4, <1>5, <1>6, <1>7, <1>8, <1>9, <1>11, <1>12, <1>13, <1>14, <1>15, <1>16, <1>17
  DEF Next, JobStep
LEMMA StepGraphFollows ==
    StoreTypes /\ JobTypes /\ GraphIsClosed /\ Storing /\ GraphFollows /\ [Next]_vars => GraphFollows'
<1> SUFFICES ASSUME StoreTypes, JobTypes, GraphIsClosed, Storing, GraphFollows, [Next]_vars,
                    ~restarted'
             PROVE  GraphFollows'
  BY DEF GraphFollows
<1>0. Absent \notin Files
  BY ContentsAssumption
<1>1. CASE Restart
  BY <1>1 DEF Restart
<1>2. ASSUME UNCHANGED <<graph, restarted>>
      PROVE  /\ \A f, c : Mirrors(f, c)' <=> Mirrors(f, c)
             /\ \A f \in Files : f # current /\ chunks[f] # Absent => Mirrors(f, chunks[f])
             /\ \A f \in Done : Mirrors(f, seen[f])
             /\ current \in Files => Replacing(current)
  BY <1>2 DEF graph, Mirrors, NodesOf, GraphFollows
<1>3. ASSUME UNCHANGED <<graph, restarted>>, EndJob \/ ToSave,
             \A f \in Files : chunks'[f] # Absent => Mirrors(f, chunks'[f])
      PROVE  GraphFollows'
  <2>1. Done' = {} /\ current' \notin Files
    BY <1>0, <1>3 DEF EndJob, ToSave, Done
  <2> QED
    BY <1>2, <1>3, <2>1 DEF GraphFollows
<1>4. ASSUME UNCHANGED <<graph, restarted, chunks, jobVars>> PROVE GraphFollows'
  <2>1. Replacing(current)' <=> Replacing(current)
    BY <1>4 DEF graph, jobVars, Replacing, NodesOf, EdgesFrom, SymbolsOf, CallsOf, EdgesOf
  <2>2. Done' = Done /\ UNCHANGED <<current, seen>>
    BY <1>4 DEF jobVars, Done
  <2> QED
    BY <1>2, <1>4, <2>1, <2>2 DEF GraphFollows
<1>5. ASSUME NEW j \in {"initial", "rebuild"}, BeginPass(j) PROVE GraphFollows'
  <2>1. /\ UNCHANGED <<graph, restarted, chunks, current>> /\ Done' = {} /\ current \notin Files
    BY <1>0, <1>5 DEF BeginPass, restartVars, Done, Storing
  <2> QED
    BY <1>2, <2>1 DEF GraphFollows
<1>6. ASSUME NEW f \in Files, Forget(f), UNCHANGED restarted
      PROVE  /\ NodesOf(f)' = {} /\ EdgesFrom(f)' = {}
             /\ \A g \in Files : \A c : g # f => (Mirrors(g, c)' <=> Mirrors(g, c))
  <2>1. RemoveByPath(f)
    BY <1>6 DEF Forget
  <2> QED
    BY <2>1, RemoveByPathEffect DEF Mirrors, EdgesFrom
<1>7. ASSUME NEW f \in Files, Purge(f) PROVE GraphFollows'
  <2>1. /\ Forget(f) /\ UNCHANGED <<restarted, current>> /\ current \notin Files /\ Done' = {}
        /\ chunks' = [chunks EXCEPT ![f] = Absent]
    BY <1>0, <1>7 DEF Purge, Drop, restartVars, Done, Storing
  <2>2. \A g \in Files : chunks'[g] # Absent => g # f /\ chunks'[g] = chunks[g]
    BY <2>1 DEF StoreTypes
  <2> QED
    BY <1>6, <2>1, <2>2 DEF GraphFollows
<1>8. ASSUME NEW f \in Files, Replace(f) PROVE GraphFollows'
  <2>1. /\ Forget(f) /\ UNCHANGED <<restarted, chunks, seen, changed, pc>> /\ current = Absent
        /\ todo' = todo \ {f} /\ current' = f /\ left' = seen[f] /\ pc = "replace"
    BY <1>8 DEF Replace, restartVars
  <2>2. NodesOf(f)' = {} /\ EdgesFrom(f)' = {}
    BY <1>6, <2>1
  <2>3. Replacing(f)'
    BY <2>1, <2>2 DEF Replacing, SymbolsOf, CallsOf, EdgesOf
  <2>4. Done' \subseteq Done /\ f \notin Done'
    BY <1>0, <2>1 DEF Done, JobTypes
  <2>5. Done \subseteq Files
    BY DEF Done, JobTypes
  <2>6. \A g \in Files : g # f /\ chunks[g] # Absent => Mirrors(g, chunks[g])'
    BY <1>0, <1>6, <2>1 DEF GraphFollows
  <2>7. \A g \in Done' : Mirrors(g, seen[g])'
    BY <1>6, <2>1, <2>4, <2>5 DEF GraphFollows
  <2> QED
    BY <2>1, <2>3, <2>6, <2>7 DEF GraphFollows, Mirrors, NodesOf, EdgesOf
<1>9. CASE Walk
  <2>1. UNCHANGED <<graph, restarted>> /\ current' = Absent /\ pc = "walk" /\ current = Absent
    BY <1>9 DEF Walk, restartVars, ToSave, Storing
  <2>2. \A f \in Files : chunks'[f] # Absent => chunks'[f] = chunks[f]
    BY <1>9 DEF Walk
  <2>3. \A f \in Files : chunks'[f] # Absent => Mirrors(f, chunks'[f])
    BY <1>0, <1>2, <2>1, <2>2
  <2>4. CASE ToSave
    BY <1>3, <2>1, <2>3, <2>4
  <2>5. CASE todo' = Changed \cup GraphOnly /\ changed' = Changed
    BY <1>0, <1>2, <2>1, <2>3, <2>5 DEF GraphFollows, Done
  <2> QED
    BY <1>9, <2>4, <2>5 DEF Walk
<1>10. CASE Add
  <2> DEFINE c == Head(left)
  <2>1. /\ AddChunk(current, c) /\ left' = Tail(left) /\ left # <<>> /\ left \in Seq(Chunk)
        /\ UNCHANGED <<restarted, chunks, seen, changed, todo, pc, current>> /\ current \in Files
    BY <1>10 DEF Add, restartVars, JobTypes
  <2>2. /\ NodesOf(current)' = NodesOf(current) \cup {<<current, c.symbol>>}
        /\ EdgesFrom(current)' = EdgesFrom(current) \cup EdgesOf(current, c)
        /\ \A g : g # current => NodesOf(g)' = NodesOf(g) /\ EdgesFrom(g)' = EdgesFrom(g)
    BY <2>1, AddChunkEffect
  <2>3. /\ SymbolsOf(current, left) = {<<current, c.symbol>>} \cup SymbolsOf(current, left')
        /\ CallsOf(current, left) = EdgesOf(current, c) \cup CallsOf(current, left')
    BY <2>1, HeadAndTail
  <2>4. Replacing(current)
    BY <2>1 DEF GraphFollows
  <2> HIDE DEF c
  <2>5. NodesOf(current)' \cup SymbolsOf(current, left') = SymbolsOf(current, seen[current])
    BY <2>2, <2>3, <2>4 DEF Replacing
  <2>6. EdgesFrom(current)' \cup CallsOf(current, left') = CallsOf(current, seen[current])
    BY <2>2, <2>3, <2>4 DEF Replacing
  <2>7. Replacing(current)'
    BY <2>1, <2>5, <2>6 DEF Replacing, NodesOf, EdgesFrom, SymbolsOf, CallsOf, EdgesOf
  <2>8. \A g, d : g # current => (Mirrors(g, d)' <=> Mirrors(g, d))
    BY <2>2 DEF Mirrors, EdgesFrom
  <2>9. Done' = Done /\ current \notin Done
    BY <2>1 DEF Done
  <2> QED
    BY <2>1, <2>7, <2>8, <2>9 DEF GraphFollows
<1>11. CASE AddFingerprints
  <2>1. /\ UNCHANGED <<graph, restarted, chunks>> /\ left = <<>> /\ current # Absent
        /\ pc = "replace" /\ current \in Files
    BY <1>11 DEF AddFingerprints, restartVars, JobTypes
  <2>2. Mirrors(current, seen[current])
    <3>1. Replacing(current)
      BY <1>2, <2>1
    <3>2. SymbolsOf(current, left) = {} /\ CallsOf(current, left) = {}
      BY <2>1 DEF SymbolsOf, CallsOf
    <3> QED
      BY <3>1, <3>2, MirrorsIs DEF Replacing
  <2>3. \A f \in Files : chunks[f] # Absent => Mirrors(f, chunks[f])
    BY <1>2, <2>1, <2>2 DEF Storing
  <2>4. CASE ToSave
    BY <1>3, <2>1, <2>3, <2>4
  <2>5. CASE /\ current' = Absent
             /\ pc' = IF todo = {} THEN "store" ELSE pc
             /\ UNCHANGED <<job, seen, changed, todo, left>>
    <3>1. Done' \subseteq Done \cup {current}
      BY <2>1, <2>5 DEF Done
    <3>2. \A f \in Done' : Mirrors(f, seen[f])'
      BY <1>2, <2>1, <2>2, <2>5, <3>1
    <3> QED
      BY <1>0, <1>2, <2>1, <2>3, <2>5, <3>2 DEF GraphFollows
  <2> QED
    BY <1>11, <2>4, <2>5 DEF AddFingerprints
<1>12. ASSUME NEW f \in Files, BeginFile(f) PROVE GraphFollows'
  <2>1. UNCHANGED <<graph, restarted>> /\ chunks' = [chunks EXCEPT ![f] = Absent] /\ current = Absent
    BY <1>12 DEF BeginFile, Drop, restartVars, Storing
  <2>2. \A g \in Files : chunks'[g] # Absent => Mirrors(g, chunks'[g])
    BY <1>0, <1>2, <2>1 DEF StoreTypes
  <2>3. CASE ToSave
    BY <1>3, <2>1, <2>2, <2>3
  <2>4. CASE changed' = {f} /\ todo' = {f} /\ UNCHANGED current
    BY <1>0, <1>2, <2>1, <2>2, <2>4 DEF GraphFollows, Done
  <2> QED
    BY <1>12, <2>3, <2>4 DEF BeginFile
<1>13. ASSUME pc = "store", NEW S \in SUBSET changed, Put(S), UNCHANGED <<graph, restarted>>
       PROVE  \A f \in Files : chunks'[f] # Absent => Mirrors(f, chunks'[f])
  <2>1. current = Absent /\ Done = changed
    BY <1>13, <1>0 DEF Storing, Done, JobTypes
  <2> SUFFICES ASSUME NEW f \in Files, chunks'[f] # Absent PROVE Mirrors(f, chunks'[f])
    OBVIOUS
  <2>2. CASE f \in S
    BY <1>2, <1>13, <2>1, <2>2 DEF Put
  <2>3. CASE f \notin S
    BY <1>0, <1>2, <1>13, <2>1, <2>3 DEF Put
  <2> QED
    BY <2>2, <2>3
<1>14. CASE Store
  <2>1. pc = "store" /\ Put(changed) /\ ToSave /\ UNCHANGED <<graph, restarted>>
    BY <1>14 DEF Store, restartVars
  <2> QED
    BY <1>3, <1>13, <2>1
<1>15. CASE StoreFails
  <2>1. pc = "store" /\ UNCHANGED <<graph, restarted>>
    BY <1>15 DEF StoreFails, restartVars
  <2>2. \A f \in Files : chunks'[f] # Absent => Mirrors(f, chunks'[f])
    BY <1>13, <1>15, <2>1 DEF StoreFails
  <2>3. CASE ToSave \/ EndJob
    BY <1>3, <2>1, <2>2, <2>3
  <2>4. CASE pc' = "walk" /\ UNCHANGED current
    BY <1>0, <1>2, <2>1, <2>2, <2>4 DEF GraphFollows, Done, Storing
  <2> QED
    BY <1>15, <2>3, <2>4 DEF StoreFails
<1>16. CASE SaveGraph
  <2>1. UNCHANGED <<graph, restarted, chunks, current>> /\ Done' = {} /\ current = Absent
    BY <1>16 DEF SaveGraph, restartVars, Done, Storing
  <2> QED
    BY <1>0, <1>2, <2>1 DEF GraphFollows
<1>17. CASE SaveSimhash
  <2>1. UNCHANGED <<graph, restarted, chunks>> /\ EndJob /\ current = Absent
    BY <1>17 DEF SaveSimhash, restartVars, Storing
  <2> QED
    BY <1>0, <1>2, <1>3, <2>1
<1>18. ASSUME NEW f \in Files, Edit(f) PROVE GraphFollows'
  BY <1>4, <1>18 DEF Edit, restartVars
<1>19. CASE TraceStep
  <2>1. QueryStep
    BY <1>19 DEF TraceStep, AskFrom, AskTo, Take, Respond, LookAt
  <2> QED
    BY <1>4, <2>1 DEF QueryStep, restartVars
<1>20. CASE UNCHANGED vars
  BY <1>4, <1>20 DEF vars, graph, jobVars
<1> QED
  BY <1>1, <1>5, <1>7, <1>8, <1>9, <1>10, <1>11, <1>12, <1>14, <1>15, <1>16, <1>17, <1>18, <1>19, <1>20
  DEF Next, JobStep
LEMMA StepSimFollows ==
    StoreTypes /\ JobTypes /\ Storing /\ SimFollows /\ [Next]_vars => SimFollows'
<1> SUFFICES ASSUME StoreTypes, JobTypes, Storing, SimFollows, [Next]_vars, ~lost'
             PROVE  SimFollows'
  BY DEF SimFollows
<1>0. Absent \notin Files
  BY ContentsAssumption
<1>1. ASSUME UNCHANGED lost
      PROVE  /\ \A f \in Files : f # current /\ chunks[f] # Absent => sim[f] = chunks[f]
             /\ \A f \in Done : sim[f] = seen[f]
  BY <1>1 DEF SimFollows
<1>2. ASSUME EndJob \/ ToSave, \A f \in Files : chunks'[f] # Absent => sim'[f] = chunks'[f]
      PROVE  SimFollows'
  <2>1. Done' = {}
    BY <1>2 DEF EndJob, ToSave, Done
  <2> QED
    BY <1>2, <2>1 DEF SimFollows
<1>3. ASSUME UNCHANGED <<sim, chunks, lost, jobVars>> PROVE SimFollows'
  BY <1>1, <1>3 DEF jobVars, SimFollows, Done
<1>4. CASE Restart
  <2>1. EndJob /\ pc = "idle" /\ sim = dbSim /\ ~lost /\ sim' = dbSim /\ UNCHANGED chunks
    BY <1>4 DEF Restart
  <2>2. current = Absent
    BY <2>1 DEF Storing
  <2> QED
    BY <1>0, <1>2, <2>1, <2>2 DEF SimFollows
<1>5. ASSUME NEW j \in {"initial", "rebuild"}, BeginPass(j) PROVE SimFollows'
  <2>1. UNCHANGED <<sim, chunks, lost, current>> /\ Done' = {}
    BY <1>5 DEF BeginPass, restartVars, Done
  <2> QED
    BY <1>1, <2>1 DEF SimFollows
<1>6. ASSUME NEW f \in Files, Purge(f) PROVE SimFollows'
  <2>1. /\ chunks' = [chunks EXCEPT ![f] = Absent] /\ sim' = [sim EXCEPT ![f] = Absent]
        /\ UNCHANGED <<lost, current>> /\ Done' = {}
    BY <1>6 DEF Purge, Drop, Forget, restartVars, Done
  <2> QED
    BY <1>1, <2>1 DEF SimFollows, StoreTypes
<1>7. ASSUME NEW f \in Files, Replace(f) PROVE SimFollows'
  <2>1. /\ sim' = [sim EXCEPT ![f] = Absent] /\ UNCHANGED <<lost, chunks, seen, changed, pc>>
        /\ todo' = todo \ {f} /\ current' = f /\ current = Absent /\ pc = "replace"
    BY <1>7 DEF Replace, Forget, restartVars
  <2>2. Done' \subseteq Done /\ f \notin Done' /\ Done \subseteq Files
    BY <1>0, <2>1 DEF Done, JobTypes
  <2>3. \A g \in Files : g # f => sim'[g] = sim[g]
    BY <2>1 DEF StoreTypes
  <2> QED
    BY <1>0, <1>1, <2>1, <2>2, <2>3 DEF SimFollows
<1>8. CASE Walk
  <2>1. UNCHANGED <<lost, sim>> /\ pc = "walk" /\ current = Absent
    BY <1>8 DEF Walk, restartVars, Storing
  <2>2. \A f \in Files : chunks'[f] # Absent => sim'[f] = chunks'[f]
    BY <1>0, <1>1, <1>8, <2>1 DEF Walk
  <2>3. CASE ToSave
    BY <1>2, <2>2, <2>3
  <2>4. CASE todo' = Changed \cup GraphOnly /\ changed' = Changed
    BY <2>2, <2>4 DEF SimFollows, Done
  <2> QED
    BY <1>8, <2>3, <2>4 DEF Walk
<1>9. CASE Add
  <2>1. UNCHANGED <<lost, sim, chunks, seen, current>> /\ Done' = Done
    BY <1>9 DEF Add, restartVars, Done
  <2> QED
    BY <1>1, <2>1 DEF SimFollows
<1>10. CASE AddFingerprints
  <2>1. /\ UNCHANGED <<lost, chunks>> /\ sim' = [sim EXCEPT ![current] = seen[current]]
        /\ pc = "replace" /\ current \in Files
    BY <1>10 DEF AddFingerprints, restartVars, JobTypes
  <2>2. sim'[current] = seen[current] /\ \A f \in Files : f # current => sim'[f] = sim[f]
    BY <2>1 DEF StoreTypes
  <2>3. \A f \in Files : chunks'[f] # Absent => sim'[f] = chunks'[f]
    BY <1>1, <2>1, <2>2 DEF Storing
  <2>4. CASE ToSave
    BY <1>2, <2>3, <2>4
  <2>5. CASE /\ current' = Absent
             /\ pc' = IF todo = {} THEN "store" ELSE pc
             /\ UNCHANGED <<job, seen, changed, todo, left>>
    <3>1. Done' \subseteq Done \cup {current} /\ Done \subseteq Files
      BY <2>1, <2>5 DEF Done, JobTypes
    <3>2. \A f \in Done' : sim'[f] = seen'[f]
      BY <1>1, <2>1, <2>2, <2>5, <3>1
    <3> QED
      BY <2>3, <3>2 DEF SimFollows
  <2> QED
    BY <1>10, <2>4, <2>5 DEF AddFingerprints
<1>11. ASSUME NEW f \in Files, BeginFile(f) PROVE SimFollows'
  <2>1. UNCHANGED <<lost, sim>> /\ chunks' = [chunks EXCEPT ![f] = Absent] /\ current = Absent
    BY <1>11 DEF BeginFile, Drop, restartVars, Storing
  <2>2. \A g \in Files : chunks'[g] # Absent => sim'[g] = chunks'[g]
    BY <1>0, <1>1, <2>1 DEF StoreTypes
  <2>3. CASE ToSave
    BY <1>2, <2>2, <2>3
  <2>4. CASE changed' = {f} /\ todo' = {f}
    BY <2>2, <2>4 DEF SimFollows, Done
  <2> QED
    BY <1>11, <2>3, <2>4 DEF BeginFile
<1>12. ASSUME pc = "store", NEW S \in SUBSET changed, Put(S), UNCHANGED <<lost, sim>>
       PROVE  \A f \in Files : chunks'[f] # Absent => sim'[f] = chunks'[f]
  <2>1. current = Absent /\ Done = changed
    BY <1>0, <1>12 DEF Storing, Done, JobTypes
  <2> QED
    BY <1>0, <1>1, <1>12, <2>1 DEF Put
<1>13. CASE Store
  <2>1. pc = "store" /\ Put(changed) /\ ToSave /\ UNCHANGED <<lost, sim>>
    BY <1>13 DEF Store, restartVars
  <2> QED
    BY <1>2, <1>12, <2>1
<1>14. CASE StoreFails
  <2>1. pc = "store" /\ UNCHANGED <<lost, sim>>
    BY <1>14 DEF StoreFails, restartVars
  <2>2. \A f \in Files : chunks'[f] # Absent => sim'[f] = chunks'[f]
    BY <1>12, <1>14, <2>1 DEF StoreFails
  <2>3. CASE ToSave \/ EndJob
    BY <1>2, <2>2, <2>3
  <2>4. CASE pc' = "walk"
    BY <2>2, <2>4 DEF SimFollows, Done
  <2> QED
    BY <1>14, <2>3, <2>4 DEF StoreFails
<1>15. CASE SaveGraph
  <2>1. UNCHANGED <<lost, sim, chunks, current>> /\ Done' = {}
    BY <1>15 DEF SaveGraph, restartVars, Done
  <2> QED
    BY <1>1, <2>1 DEF SimFollows
<1>16. CASE SaveSimhash
  <2>1. UNCHANGED <<lost, sim, chunks>> /\ EndJob /\ current = Absent
    BY <1>16 DEF SaveSimhash, restartVars, Storing
  <2> QED
    BY <1>0, <1>1, <1>2, <2>1
<1>17. ASSUME NEW f \in Files, Edit(f) PROVE SimFollows'
  BY <1>3, <1>17 DEF Edit, restartVars
<1>18. CASE TraceStep
  <2>1. QueryStep
    BY <1>18 DEF TraceStep, AskFrom, AskTo, Take, Respond, LookAt
  <2> QED
    BY <1>3, <2>1 DEF QueryStep, restartVars
<1>19. CASE UNCHANGED vars
  BY <1>3, <1>19 DEF vars, jobVars
<1> QED
  BY <1>4, <1>5, <1>6, <1>7, <1>8, <1>9, <1>10, <1>11, <1>13, <1>14, <1>15, <1>16, <1>17, <1>18, <1>19
  DEF Next, JobStep

\* Between jobs, graph and fingerprints are those of the chunks that can be found,
\* for any files and contents, through failed batches, retries, rebuilds, cleanups
\* and single-file jobs: the graph in the first life of a process, the fingerprints
\* until a restart loses unsaved ones.
THEOREM IndexesFollowStore == Spec => []FollowsStore
<1> DEFINE Inv == Typed /\ Storing /\ GraphFollows /\ SimFollows
<1>1. Init => Inv
  <2> SUFFICES ASSUME Init PROVE Inv
    OBVIOUS
  <2>1. Absent \notin Files
    BY ContentsAssumption
  <2>2. Storing
    BY DEF Init, Storing, Nothing
  <2>3. GraphFollows
    BY <2>1 DEF Init, GraphFollows, Done, Nothing
  <2>4. SimFollows
    BY DEF Init, SimFollows, Done, Nothing
  <2> QED
    BY <2>2, <2>3, <2>4, InitTyped
<1>2. Inv /\ GraphIsClosed /\ [Next]_vars => Inv'
  BY StepStoreTypes, StepGraphTypes, StepJobTypes, StepQueryTypes, StepGhostTypes, StepStoring,
     StepGraphFollows, StepSimFollows DEF Typed
<1>3. Inv => FollowsStore
  <2> SUFFICES ASSUME Inv, pc = "idle", NEW f \in Files, chunks[f] # Absent
               PROVE  /\ ~restarted => Mirrors(f, chunks[f])
                      /\ ~lost => sim[f] = chunks[f]
    BY DEF FollowsStore
  <2>1. f # current
    BY ContentsAssumption DEF Storing
  <2> QED
    BY <2>1 DEF GraphFollows, SimFollows
<1> QED
  BY <1>1, <1>2, <1>3, GraphStaysClosed, PTL DEF Spec

-----------------------------------------------------------------------------
(* TracePath goes through the graph layer by layer *)

\* A path along calls, of the fewest hops to where it ends.
ShortestTo(p) ==
    /\ \A i \in 1..(Len(p) - 1) : p[i + 1] \in CalleesOf(p[i])
    /\ Last(p) \in Within[Len(p) - 1]
    /\ \A k \in 0..(Len(p) - 2) : Last(p) \notin Within[k]

\* The paths whose ends have still to be expanded.
Pending == {queue[i] : i \in DOMAIN queue} \cup (IF callees = {} THEN {} ELSE {item})

\* The callees of a node were looked at: none is a target, and all were noted that
\* the depth allows to go on from.
Expanded(n) ==
    /\ CalleesOf(n) \cap targets = {}
    /\ \A k \in 0..(query.depth - 2) : n \in Within[k] => CalleesOf(n) \subseteq visited

\* The queue is ordered by hops, with at most one between its first and its last.
Levels ==
    /\ \A i, j \in DOMAIN queue : i < j => Len(queue[i]) <= Len(queue[j])
    /\ callees # {} => \A i \in DOMAIN queue : Len(item) <= Len(queue[i]) /\ Len(queue[i]) <= Len(item) + 1
    /\ callees = {} => \A i \in DOMAIN queue : Len(queue[i]) <= Len(queue[1]) + 1

\* The node whose callees are being looked at.
HalfExpanded(n) ==
    /\ callees \subseteq CalleesOf(n)
    /\ (CalleesOf(n) \ callees) \cap targets = {}
    /\ Len(item) < query.depth => CalleesOf(n) \ callees \subseteq visited

\* The search goes through the graph layer by layer.
Layers ==
    calm =>
        /\ stage = "to" =>
              /\ visited = ResolveSymbol(query.from, query.scope)
              /\ \A n \in visited : \E i \in DOMAIN queue : Last(queue[i]) = n
        /\ stage = "search" =>
              /\ targets = ResolveSymbol(query.to, query.scope)
              /\ Within[0] \subseteq visited
              /\ \A p \in Pending : ShortestTo(p) /\ Len(p) <= query.depth
              /\ \A n \in visited : Expanded(n) \/ \E p \in Pending : Last(p) = n
              /\ callees # {} => HalfExpanded(Last(item))
              /\ Levels

Sources == ResolveSymbol(query.from, query.scope)

\* What the recursive definition of Within says.
LEMMA WithinIs ==
    /\ Within \in [Nat -> SUBSET nodes] /\ Within[0] = Sources
    /\ \A k \in Nat : Within[k + 1] = Within[k] \cup UNION {CalleesOf(n) : n \in Within[k]}
<1> DEFINE D == SUBSET nodes
           F == [W \in D |-> W \cup UNION {CalleesOf(n) : n \in W}]
           Is(g) == g = [k \in Nat |-> IF k = 0 THEN Sources ELSE F[g[k - 1]]]
           Rec(g) == g = [k \in Nat |-> IF k = 0 THEN Sources
                                       ELSE g[k - 1] \cup UNION {CalleesOf(n) : n \in g[k - 1]}]
<1>1. Sources \in D /\ F \in [D -> D]
  BY DEF Sources, ResolveSymbol, CalleesOf
<1>2. PICK g : Is(g) /\ g \in [Nat -> D]
  <2> HIDE DEF D, F
  <2> QED
    BY <1>1, Iterates
<1>3. \A k \in Nat : k # 0 => g[k - 1] \in D
  <2> HIDE DEF Is, D
  <2> QED
    BY <1>2
<1>4. Rec(g)
  BY <1>2, <1>3
<1>5. Within = CHOOSE f : Rec(f)
  BY DEF Within, Sources
<1> HIDE DEF Rec
<1>6. Rec(Within)
  BY <1>4, <1>5
<1> USE DEF Rec
<1>7. DOMAIN Within = Nat /\ Within[0] = Sources
  BY <1>6
<1>8. ASSUME NEW k \in Nat
      PROVE  Within[k + 1] = Within[k] \cup UNION {CalleesOf(n) : n \in Within[k]}
  BY <1>6
<1> DEFINE S == {k \in Nat : Within[k] \in D}
<1>9. Nat \subseteq S
  <2>1. 0 \in S
    BY <1>1, <1>7
  <2>2. ASSUME NEW k \in Nat, k \in S PROVE k + 1 \in S
    <3>1. Within[k] \cup UNION {CalleesOf(n) : n \in Within[k]} \subseteq nodes
      BY <2>2 DEF CalleesOf
    <3> QED
      BY <1>8, <3>1
  <2> HIDE DEF S
  <2> QED
    BY <2>1, <2>2, NatInd
<1>10. Within = [k \in Nat |-> Within[k]]
  BY <1>6
<1>11. Within \in [Nat -> D]
  BY <1>9, <1>10
<1> QED
  BY <1>7, <1>8, <1>11

\* The nodes at most k hops away are more and more.
LEMMA WithinGrows == \A k, j \in Nat : j <= k => Within[j] \subseteq Within[k]
<1> SUFFICES ASSUME NEW j \in Nat PROVE \A k \in Nat : j <= k => Within[j] \subseteq Within[k]
  OBVIOUS
<1> DEFINE S == {k \in Nat : j <= k => Within[j] \subseteq Within[k]}
<1>1. 0 \in S
  OBVIOUS
<1>2. ASSUME NEW k \in Nat, k \in S PROVE k + 1 \in S
  <2>1. Within[k] \subseteq Within[k + 1]
    BY WithinIs
  <2> QED
    BY <1>2, <2>1
<1>3. Nat \subseteq S
  <2> HIDE DEF S
  <2> QED
    BY <1>1, <1>2, NatInd
<1> QED
  BY <1>3

\* They change with the graph and the query only.
LEMMA WithinStays == UNCHANGED <<nodes, edges, query>> => UNCHANGED Within
  BY DEF Within, CalleesOf, ResolveSymbol

\* Once every pending path is longer than a layer is far, the layer was visited.
LEMMA LayerIsVisited ==
    ASSUME query \in Asked, Within[0] \subseteq visited,
           \A p \in Pending : ShortestTo(p) /\ Len(p) \in Nat,
           \A n \in visited : Expanded(n) \/ \E p \in Pending : Last(p) = n,
           NEW j \in Nat, j < query.depth, \A p \in Pending : j < Len(p)
    PROVE  Within[j] \subseteq visited
<1> DEFINE S == {k \in Nat : k <= j => Within[k] \subseteq visited}
<1>1. 0 \in S
  OBVIOUS
<1>2. ASSUME NEW k \in Nat, k \in S PROVE k + 1 \in S
  <2> SUFFICES ASSUME k + 1 <= j, NEW m \in Within[k + 1] PROVE m \in visited
    OBVIOUS
  <2>1. Within[k] \subseteq visited
    BY <1>2
  <2>2. CASE m \in Within[k]
    BY <2>1, <2>2
  <2>3. ASSUME NEW n \in Within[k], m \in CalleesOf(n) PROVE m \in visited
    <3>1. ASSUME NEW p \in Pending PROVE Last(p) # n
      <4>1. k \in 0..(Len(p) - 2)
        BY <3>1
      <4> QED
        BY <4>1 DEF ShortestTo
    <3>2. Expanded(n)
      BY <2>1, <3>1
    <3>3. k \in 0..(query.depth - 2)
      BY DEF Asked
    <3> QED
      BY <2>3, <3>2, <3>3 DEF Expanded
  <2> QED
    BY <2>2, <2>3, WithinIs
<1>3. Nat \subseteq S
  <2> HIDE DEF S
  <2> QED
    BY <1>1, <1>2, NatInd
<1> QED
  BY <1>3

LayersInv == Layers /\ TraceIsShortest

\* A job that changes the graph during a query ends its calm.
LEMMA OthersLeaveLayers ==
    ASSUME JobStep \/ (\E f \in Files : Edit(f)) \/ UNCHANGED vars
    PROVE  /\ UNCHANGED queryVars
           /\ stage = "none" \/ calm' = FALSE \/ UNCHANGED <<nodes, edges, calm>>
<1>1. ASSUME NEW j, BeginPass(j) PROVE UNCHANGED <<queryVars, nodes, edges, calm>>
  BY <1>1 DEF BeginPass, graph
<1>2. ASSUME NEW f, BeginFile(f) \/ Edit(f) PROVE UNCHANGED <<queryVars, nodes, edges, calm>>
  BY <1>2 DEF BeginFile, Edit, graph
<1>3. CASE Walk \/ AddFingerprints \/ Store \/ StoreFails \/ SaveGraph \/ SaveSimhash
  BY <1>3 DEF Walk, AddFingerprints, Store, StoreFails, SaveGraph, SaveSimhash, graph
<1>4. CASE UNCHANGED vars
  BY <1>4 DEF vars, queryVars
<1>5. ASSUME NEW f, Purge(f) \/ Replace(f) PROVE UNCHANGED queryVars /\ calm' = (stage = "none")
  BY <1>5 DEF Purge, Replace, Forget
<1>6. CASE Add
  BY <1>6 DEF Add
<1> QED
  BY <1>1, <1>2, <1>3, <1>4, <1>5, <1>6 DEF JobStep

\* Jobs that do not touch the graph.
LEMMA SameGraphSameLayers ==
    ASSUME UNCHANGED queryVars, UNCHANGED <<nodes, edges, calm>>, LayersInv
    PROVE  LayersInv'
<1>1. UNCHANGED Within
  BY WithinStays DEF queryVars
<1>2. \A n : UNCHANGED CalleesOf(n)
  BY DEF CalleesOf
<1>3. \A t, S : UNCHANGED ResolveSymbol(t, S)
  BY DEF ResolveSymbol
<1>4. Layers'
  BY <1>1, <1>2, <1>3 DEF LayersInv, Layers, queryVars, ShortestTo, Pending, Expanded,
     HalfExpanded, Levels
<1>5. TraceIsShortest'
  BY <1>1, <1>2, <1>3 DEF LayersInv, TraceIsShortest, Reaches, queryVars
<1> QED
  BY <1>4, <1>5 DEF LayersInv

\* AskFrom puts every source into the queue.
LEMMA AskFromLayers ==
    ASSUME GraphTypes, NEW q \in Queries, AskFrom(q) PROVE LayersInv'
<1> DEFINE sources == ResolveSymbol(q.from, q.scope)
<1>1. CASE sources = {}
  <2>1. stage' = "unknown"
    BY <1>1 DEF AskFrom, Answer
  <2> QED
    BY <2>1 DEF LayersInv, Layers, TraceIsShortest
<1>2. CASE sources # {}
  <2>1. sources \subseteq nodes /\ IsFiniteSet(sources)
    BY FS_Subset DEF ResolveSymbol, GraphTypes
  <2>2. Cardinality(sources) \in Nat
    BY <2>1, FS_CardinalityType
  <2>3. PICK o \in Orders(sources) : queue' = [i \in DOMAIN o |-> <<o[i]>>]
    BY <1>2 DEF AskFrom
  <2>4. o \in [1..Cardinality(sources) -> sources] /\ \A i, j \in DOMAIN o : i # j => o[i] # o[j]
    BY <2>3 DEF Orders
  <2>5. \A n \in sources : \E i \in DOMAIN o : o[i] = n
    <3> DEFINE I == 1..Cardinality(sources)
    <3>1. IsFiniteSet(I) /\ Cardinality(I) = Cardinality(sources)
      BY <2>2, FS_Interval
    <3>2. o \in Injection(I, sources)
      BY <2>4 DEF Injection, IsInjective
    <3>3. o \in Surjection(I, sources)
      <4> HIDE DEF I, sources
      <4> QED
        BY <2>1, <3>1, <3>2, FS_Injection
    <3> QED
      BY <2>4, <3>3 DEF Surjection
  <2>6. stage' = "to" /\ visited' = sources /\ UNCHANGED <<nodes, edges>> /\ query' = [q EXCEPT !.depth = DepthOf(q.depth)]
    BY <1>2 DEF AskFrom, QueryStep, graph
  <2>7. query'.from = q.from /\ query'.scope = q.scope
    BY <2>6, QueriesAssumption
  <2>8. visited' = ResolveSymbol(query.from, query.scope)'
    BY <2>6, <2>7 DEF ResolveSymbol
  <2>9. \A n \in visited' : \E i \in DOMAIN queue' : Last(queue'[i]) = n
    BY <2>3, <2>4, <2>5, <2>6 DEF Last
  <2> QED
    BY <2>6, <2>8, <2>9 DEF LayersInv, Layers, TraceIsShortest
<1> QED
  BY <1>1, <1>2

\* A step of a query leaves the graph and what is said about it alone.
LEMMA QueryLeavesGraph ==
    ASSUME QueryStep, UNCHANGED query
    PROVE  /\ UNCHANGED <<nodes, edges, Within>>
           /\ \A n : UNCHANGED CalleesOf(n)
           /\ \A t, S : UNCHANGED ResolveSymbol(t, S)
           /\ \A k : UNCHANGED Reaches(k)
<1>1. UNCHANGED <<nodes, edges>>
  BY DEF QueryStep, graph
<1>2. UNCHANGED Within
  BY <1>1, WithinStays
<1> QED
  BY <1>1, <1>2 DEF CalleesOf, ResolveSymbol, Reaches

\* AskTo: a source is a shortest path to itself.
LEMMA AskToLayers ==
    ASSUME QueryTypes, Searching, Layers, AskTo PROVE LayersInv'
<1> USE DEF LayersInv
<1>1. QueryStep /\ UNCHANGED <<query, calm>> /\ stage = "to"
  BY DEF AskTo
<1>2. /\ UNCHANGED <<nodes, edges, Within>>
      /\ \A n : UNCHANGED CalleesOf(n)
      /\ \A t, S : UNCHANGED ResolveSymbol(t, S)
      /\ \A k : UNCHANGED Reaches(k)
  BY <1>1, QueryLeavesGraph
<1> DEFINE found == ResolveSymbol(query.to, query.scope)
<1>3. CASE Answer("unknown", <<>>)
  BY <1>3 DEF Answer, Layers, TraceIsShortest
<1>4. CASE query.from = query.to /\ found # {} /\ Answer("found", queue[1])
  <2>1. stage' = "found" /\ answer' = queue[1]
    BY <1>4 DEF Answer
  <2>2. Len(queue[1]) = 1
    BY <1>1 DEF QueryTypes, Searching
  <2>3. Reaches(0)
    BY <1>4, WithinIs DEF Reaches, Sources
  <2>4. Reaches(0)' /\ Len(answer') - 1 = 0
    BY <1>2, <2>1, <2>2, <2>3
  <2>5. Layers'
    BY <2>1 DEF Layers
  <2>6. TraceIsShortest'
    <3>1. Len(answer') = 1
      BY <2>1, <2>2
    <3>2. 0..(Len(answer') - 1 - 1) = {} /\ 1..(Len(answer') - 1) = {}
      BY <3>1
    <3>3. Reaches(Len(answer) - 1)'
      BY <2>4 DEF Reaches
    <3> QED
      BY <2>1, <3>2, <3>3 DEF TraceIsShortest
  <2> QED
    BY <2>5, <2>6
<1>5. CASE /\ query.from # query.to
           /\ stage' = "search" /\ targets' = found
           /\ UNCHANGED <<queue, visited, item, callees, answer>>
  <2>1. TraceIsShortest'
    BY <1>5 DEF TraceIsShortest
  <2>2. callees = {} /\ query \in Asked
    BY <1>1 DEF Searching
  <2> SUFFICES ASSUME calm PROVE Layers'
    BY <1>1, <2>1 DEF Layers
  <2>3. /\ visited = Sources
        /\ \A n \in visited : \E i \in DOMAIN queue : Last(queue[i]) = n
    BY <1>1 DEF Layers, Sources
  <2>4. Within[0] = visited
    BY <2>3, WithinIs
  <2>5. ASSUME NEW i \in DOMAIN queue PROVE ShortestTo(queue[i]) /\ Len(queue[i]) = 1
    <3>1. queue[i] \in Seq(Node) /\ Len(queue[i]) = 1 /\ queue[i][1] \in visited
      BY <1>1 DEF QueryTypes, Searching, Sound
    <3>2. Last(queue[i]) \in Within[0]
      BY <2>4, <3>1 DEF Last
    <3> QED
      BY <3>1, <3>2 DEF ShortestTo
  <2>6. UNCHANGED <<Pending, query, visited, queue, callees, item>>
    BY <1>1, <1>5 DEF Pending
  <2>7. targets' = ResolveSymbol(query.to, query.scope)' /\ Within[0]' \subseteq visited'
    BY <1>1, <1>2, <1>5, <2>4
  <2>8. \A p \in Pending' : ShortestTo(p)' /\ Len(p) <= query.depth'
    <3>1. \A p \in Pending : ShortestTo(p) /\ Len(p) = 1
      BY <2>2, <2>5 DEF Pending
    <3>2. \A p : UNCHANGED ShortestTo(p)
      BY <1>2 DEF ShortestTo
    <3>3. 1 <= query.depth
      BY <2>2 DEF Asked
    <3> QED
      BY <2>6, <3>1, <3>2, <3>3
  <2>9. \A n \in visited' : \E p \in Pending' : Last(p) = n
    BY <2>3, <2>6 DEF Pending
  <2>10. Levels'
    <3>1. \A i, j \in DOMAIN queue' : Len(queue'[i]) = 1 /\ (i < j => Len(queue'[i]) <= Len(queue'[j]))
      BY <2>5, <2>6
    <3>2. \A i \in DOMAIN queue' : 1 \in DOMAIN queue'
      BY <2>6 DEF QueryTypes
    <3>3. callees' = {}
      BY <2>2, <2>6
    <3> QED
      BY <3>1, <3>2, <3>3 DEF Levels
  <2> QED
    BY <1>5, <2>2, <2>6, <2>7, <2>8, <2>9, <2>10 DEF Layers
<1> QED
  BY <1>3, <1>4, <1>5 DEF AskTo

\* An empty queue: whatever is near enough was looked at.
LEMMA NotFoundLayers ==
    ASSUME QueryTypes, Searching, Layers, stage = "search", callees = {}, calm,
           queue = <<>> \/ Len(Head(queue)) > query.depth
    PROVE  ~Reaches(query.depth)
<1>1. /\ query \in Asked /\ targets \cap visited = {}
      /\ targets = ResolveSymbol(query.to, query.scope) /\ Within[0] \subseteq visited
      /\ \A p \in Pending : ShortestTo(p) /\ Len(p) <= query.depth
      /\ \A n \in visited : Expanded(n) \/ \E p \in Pending : Last(p) = n
  BY DEF Searching, Layers
<1>2. Pending = {}
  <2>1. queue = <<>>
    <3> SUFFICES ASSUME queue # <<>> PROVE FALSE
      OBVIOUS
    <3>1. 1 \in DOMAIN queue /\ Head(queue) = queue[1] /\ queue[1] \in Seq(Node)
      BY DEF QueryTypes
    <3>2. Len(queue[1]) <= query.depth /\ Len(queue[1]) \in Nat /\ query.depth \in Nat
      BY <1>1, <3>1 DEF Pending, Asked
    <3> QED
      BY <3>1, <3>2
  <2> QED
    BY <2>1 DEF Pending
<1> DEFINE d == query.depth - 1
<1>3. d \in Nat /\ d < query.depth /\ d + 1 = query.depth
  BY <1>1 DEF Asked
<1>4. Within[d] \subseteq visited
  <2> HIDE DEF d
  <2> QED
    BY <1>1, <1>2, <1>3, LayerIsVisited
<1>5. \A n \in Within[d] : CalleesOf(n) \cap targets = {}
  BY <1>1, <1>2, <1>4 DEF Expanded
<1>6. Within[d + 1] = Within[d] \cup UNION {CalleesOf(n) : n \in Within[d]}
  BY <1>3, WithinIs
<1>7. Within[d + 1] \cap targets = {}
  <2> HIDE DEF d
  <2> QED
    BY <1>1, <1>4, <1>5, <1>6
<1> QED
  BY <1>1, <1>3, <1>7 DEF Reaches

\* Take: the first path of the queue is pending as the item.
LEMMA TakeLayers ==
    ASSUME QueryTypes, Searching, Layers, Take PROVE LayersInv'
<1> USE DEF LayersInv
<1>1. QueryStep /\ UNCHANGED <<query, calm>> /\ stage = "search" /\ callees = {}
  BY DEF Take
<1>2. /\ UNCHANGED <<nodes, edges, Within>>
      /\ \A n : UNCHANGED CalleesOf(n)
      /\ \A t, S : UNCHANGED ResolveSymbol(t, S)
      /\ \A k : UNCHANGED Reaches(k)
  BY <1>1, QueryLeavesGraph
<1>3. CASE (queue = <<>> \/ Len(Head(queue)) > query.depth) /\ Answer("notFound", <<>>)
  <2>1. stage' = "notFound"
    BY <1>3 DEF Answer
  <2>2. calm => ~Reaches(query.depth)
    BY <1>1, <1>3, NotFoundLayers
  <2>3. calm' => ~Reaches(query.depth)'
    BY <1>1, <1>2, <2>2 DEF Reaches
  <2> QED
    BY <2>1, <2>3 DEF Layers, TraceIsShortest
<1>4. CASE /\ queue # <<>>
           /\ item' = Head(queue) /\ queue' = Tail(queue)
           /\ callees' = CalleesOf(Last(item'))
           /\ UNCHANGED <<stage, targets, visited, answer>>
  <2>1. TraceIsShortest'
    BY <1>1, <1>4 DEF TraceIsShortest
  <2> SUFFICES ASSUME calm PROVE Layers'
    BY <1>1, <2>1 DEF Layers
  <2>2. /\ targets = ResolveSymbol(query.to, query.scope) /\ Within[0] \subseteq visited
        /\ \A p \in Pending : ShortestTo(p) /\ Len(p) <= query.depth
        /\ \A n \in visited : Expanded(n) \/ \E p \in Pending : Last(p) = n
        /\ Levels
    BY <1>1 DEF Layers
  <2>3. /\ Len(queue) \in Nat /\ Len(queue) # 0 /\ DOMAIN queue = 1..Len(queue)
        /\ item' = queue[1]
        /\ DOMAIN queue' = 1..(Len(queue) - 1)
        /\ \A i \in 1..(Len(queue) - 1) : queue'[i] = queue[i + 1] /\ i + 1 \in 1..Len(queue)
        /\ \A i \in 1..Len(queue) : Len(queue[i]) \in Nat
    BY <1>4 DEF QueryTypes
  <2>4. Pending = {item'} \cup {queue'[i] : i \in DOMAIN queue'}
    <3>1. Pending = {queue[i] : i \in 1..Len(queue)}
      BY <1>1, <2>3 DEF Pending
    <3>2. \A i \in 1..Len(queue) : i = 1 \/ i - 1 \in 1..(Len(queue) - 1)
      BY <2>3
    <3>3. \A i \in 1..Len(queue) : i = 1 \/ (i - 1 \in DOMAIN queue' /\ queue[i] = queue'[i - 1])
      BY <2>3, <3>2
    <3>4. 1 \in 1..Len(queue)
      BY <2>3
    <3>5. \A p \in Pending : p \in {item'} \cup {queue'[i] : i \in DOMAIN queue'}
      BY <2>3, <3>1, <3>3
    <3>6. \A i \in DOMAIN queue' : queue'[i] \in Pending
      BY <2>3, <3>1
    <3> QED
      BY <2>3, <3>1, <3>4, <3>5, <3>6
  <2>5. Pending' \subseteq Pending /\ \A p \in Pending : p \in Pending' \/ (p = item' /\ callees' = {})
    BY <2>4 DEF Pending
  <2>6. \A p \in Pending' : ShortestTo(p)' /\ Len(p) <= query.depth'
    <3>1. \A p : UNCHANGED ShortestTo(p)
      BY <1>2 DEF ShortestTo
    <3> QED
      BY <1>1, <2>2, <2>5, <3>1
  <2>7. \A n : Expanded(n) => Expanded(n)'
    BY <1>1, <1>2, <1>4 DEF Expanded
  <2>8. ASSUME NEW n \in visited' PROVE Expanded(n)' \/ \E p \in Pending' : Last(p) = n
    <3>1. CASE Expanded(n)
      BY <2>7, <3>1
    <3>2. ASSUME NEW p \in Pending, Last(p) = n, p \notin Pending' PROVE Expanded(n)'
      <4>1. CalleesOf(n) = {}
        BY <1>4, <2>5, <3>2
      <4>2. CalleesOf(n)' = {}
        BY <1>2, <4>1
      <4> QED
        BY <4>2 DEF Expanded
    <3> QED
      BY <1>4, <2>2, <3>1, <3>2
  <2>9. HalfExpanded(Last(item))'
    <3>1. CalleesOf(Last(item))' = callees'
      BY <1>2, <1>4 DEF Last
    <3> QED
      BY <3>1 DEF HalfExpanded
  <2>10. Levels'
    <3>1. \A i, j \in 1..Len(queue) : i < j => Len(queue[i]) <= Len(queue[j])
      BY <2>2, <2>3 DEF Levels
    <3>2. \A i \in 1..Len(queue) : Len(queue[i]) <= Len(queue[1]) + 1
      BY <1>1, <2>2, <2>3 DEF Levels
    <3>3. \A i \in DOMAIN queue' : Len(item') <= Len(queue'[i]) /\ Len(queue'[i]) <= Len(item') + 1
      BY <2>3, <3>1, <3>2
    <3>4. ASSUME NEW i \in DOMAIN queue', NEW j \in DOMAIN queue', i < j
          PROVE  Len(queue'[i]) <= Len(queue'[j])
      <4>1. i + 1 \in 1..Len(queue) /\ j + 1 \in 1..Len(queue) /\ i + 1 < j + 1
        BY <2>3, <3>4
      <4>2. Len(queue[i + 1]) <= Len(queue[j + 1])
        BY <3>1, <4>1
      <4> QED
        BY <2>3, <4>2
    <3>5. \A i \in DOMAIN queue' : Len(queue'[i]) <= Len(queue'[1]) + 1
      <4> SUFFICES ASSUME NEW i \in DOMAIN queue' PROVE Len(queue'[i]) <= Len(queue'[1]) + 1
        OBVIOUS
      <4>1. 1 \in DOMAIN queue'
        BY <2>3
      <4>2. Len(queue'[1]) \in Nat /\ Len(queue'[i]) \in Nat /\ Len(item') \in Nat
        BY <2>3, <4>1
      <4> QED
        BY <3>3, <4>1, <4>2
    <3> QED
      BY <3>3, <3>4, <3>5 DEF Levels
  <2>11. stage' = "search" /\ targets' = ResolveSymbol(query.to, query.scope)' /\ Within[0]' \subseteq visited'
    BY <1>1, <1>2, <1>4, <2>2
  <2> QED
    BY <2>6, <2>8, <2>9, <2>10, <2>11 DEF Layers
<1> QED
  BY <1>3, <1>4 DEF Take

\* The callee that is looked at next is one hop further than the item, and no
\* layer before has it unless it was visited.
LEMMA CalleeIsNext ==
    ASSUME QueryTypes, Searching, Layers, calm, stage = "search", NEW m \in callees
    PROVE  /\ Len(item) \in Nat \ {0} /\ Len(item) <= query.depth /\ query.depth \in Nat
           /\ item \in Seq(Node) /\ m \in CalleesOf(Last(item)) /\ m \in nodes
           /\ m \in Within[Len(item)]
           /\ \A k \in 0..(Len(item) - 1) : Within[k] \subseteq visited
<1>1. /\ query \in Asked /\ Len(item) <= query.depth /\ item # <<>> /\ item \in Seq(Node)
      /\ Within[0] \subseteq visited
      /\ \A p \in Pending : ShortestTo(p) /\ Len(p) <= query.depth
      /\ \A n \in visited : Expanded(n) \/ \E p \in Pending : Last(p) = n
      /\ HalfExpanded(Last(item)) /\ Levels
  BY DEF Searching, Sound, Layers, QueryTypes
<1>2. /\ Len(item) \in Nat \ {0} /\ query.depth \in Nat /\ Len(item) - 1 \in Nat
      /\ Len(item) - 1 < query.depth /\ (Len(item) - 1) + 1 = Len(item)
  BY <1>1 DEF Asked
<1>3. m \in CalleesOf(Last(item)) /\ m \in nodes
  BY <1>1 DEF HalfExpanded, CalleesOf
<1>4. item \in Pending
  BY DEF Pending
<1>5. Last(item) \in Within[Len(item) - 1]
  BY <1>1, <1>4 DEF ShortestTo
<1>6. m \in Within[Len(item)]
  <2> DEFINE l == Len(item) - 1
  <2>1. Within[l + 1] = Within[l] \cup UNION {CalleesOf(n) : n \in Within[l]}
    BY <1>2, WithinIs
  <2>2. m \in Within[l + 1]
    BY <1>3, <1>5, <2>1
  <2> QED
    BY <1>2, <2>2
<1>7. \A p \in Pending : Len(p) \in Nat
  BY <1>1 DEF QueryTypes, Pending
<1>8. \A p \in Pending : Len(item) - 1 < Len(p)
  <2>1. \A i \in DOMAIN queue : Len(item) <= Len(queue[i])
    BY <1>1 DEF Levels
  <2>2. \A i \in DOMAIN queue : queue[i] \in Pending
    BY DEF Pending
  <2> QED
    BY <1>2, <1>7, <2>1, <2>2 DEF Pending
<1>9. Within[Len(item) - 1] \subseteq visited
  BY <1>1, <1>2, <1>7, <1>8, LayerIsVisited
<1>10. ASSUME NEW k \in 0..(Len(item) - 1) PROVE Within[k] \subseteq visited
  <2>1. k \in Nat /\ k <= Len(item) - 1
    BY <1>2
  <2> QED
    BY <1>2, <1>9, <2>1, WithinGrows
<1> QED
  BY <1>1, <1>2, <1>3, <1>6, <1>10

\* LookAt: a target ends the search at the fewest hops, a new node is one hop further.
LEMMA LookAtLayers ==
    ASSUME QueryTypes, Searching, Layers, NEW m \in callees, LookAt(m) PROVE LayersInv'
<1> USE DEF LayersInv
<1>1. QueryStep /\ UNCHANGED <<query, calm>> /\ stage = "search"
  BY DEF LookAt
<1>2. /\ UNCHANGED <<nodes, edges, Within>>
      /\ \A n : UNCHANGED CalleesOf(n)
      /\ \A t, S : UNCHANGED ResolveSymbol(t, S)
      /\ \A k : UNCHANGED Reaches(k)
  BY <1>1, QueryLeavesGraph
<1>3. CASE ~calm
  BY <1>1, <1>3 DEF Layers, TraceIsShortest
<1> SUFFICES ASSUME calm PROVE LayersInv'
  BY <1>3
<1> DEFINE L == Len(item)
           n == Last(item)
           p == Append(item, m)
<1>4. /\ L \in Nat \ {0} /\ L <= query.depth /\ query.depth \in Nat
      /\ item \in Seq(Node) /\ m \in CalleesOf(n) /\ m \in nodes /\ m \in Within[L]
      /\ \A k \in 0..(L - 1) : Within[k] \subseteq visited
  BY <1>1, CalleeIsNext
<1>5. /\ targets = ResolveSymbol(query.to, query.scope) /\ targets \cap visited = {}
      /\ Within[0] \subseteq visited
      /\ \A q \in Pending : ShortestTo(q) /\ Len(q) <= query.depth
      /\ \A v \in visited : Expanded(v) \/ \E q \in Pending : Last(q) = v
      /\ HalfExpanded(n) /\ Levels
  BY <1>1 DEF Layers, Searching
<1>6. item \in Pending /\ ShortestTo(item)
  BY <1>5 DEF Pending
<1>7. p \in Seq(Node) /\ Len(p) = L + 1 /\ p[L + 1] = m /\ Last(p) = m /\ n = item[L]
      /\ \A i \in 1..L : p[i] = item[i]
  <2>1. m \in Node
    BY DEF QueryTypes
  <2> QED
    BY <1>4, <2>1 DEF Last
<1>8. \A i \in 1..L : p[i + 1] \in CalleesOf(p[i])
  <2> SUFFICES ASSUME NEW i \in 1..L PROVE p[i + 1] \in CalleesOf(p[i])
    OBVIOUS
  <2>1. CASE i = L
    BY <1>4, <1>7, <2>1
  <2>2. CASE i # L
    <3>1. i \in 1..(L - 1) /\ i + 1 \in 1..L
      BY <1>4, <2>2
    <3>2. item[i + 1] \in CalleesOf(item[i])
      BY <1>6, <3>1 DEF ShortestTo
    <3> QED
      BY <1>7, <3>1, <3>2
  <2> QED
    BY <2>1, <2>2
<1> HIDE DEF p, n, L
<1>9. CASE m \in targets
  <2>1. stage' = "found" /\ answer' = p
    BY <1>4, <1>9 DEF LookAt, Answer, p
  <2>2. Len(answer') - 1 = L
    BY <1>4, <1>7, <2>1
  <2>3. Reaches(L)
    BY <1>4, <1>5, <1>9 DEF Reaches
  <2>4. \A k \in 0..(L - 1) : ~Reaches(k)
    BY <1>4, <1>5 DEF Reaches
  <2>5. Reaches(Len(answer) - 1)'
    BY <1>2, <2>2, <2>3 DEF Reaches
  <2>6. \A k \in 0..(Len(answer') - 1 - 1) : ~Reaches(k)'
    BY <1>2, <2>2, <2>4
  <2>7. \A i \in 1..(Len(answer') - 1) : answer'[i + 1] \in CalleesOf(answer[i])'
    BY <1>2, <1>8, <2>1, <2>2 DEF CalleesOf
  <2>8. TraceIsShortest'
    BY <2>1, <2>5, <2>6, <2>7 DEF TraceIsShortest
  <2> QED
    BY <2>1, <2>8 DEF Layers
<1>10. CASE m \notin targets
  <2>1. /\ callees' = callees \ {m} /\ UNCHANGED <<stage, targets, item, answer>>
        /\ \/ /\ m \notin visited /\ L < query.depth
              /\ visited' = visited \cup {m} /\ queue' = Append(queue, p)
           \/ /\ m \in visited \/ L = query.depth
              /\ UNCHANGED <<visited, queue>>
    <3>1. m \notin targets \cup visited <=> m \notin visited
      BY <1>10
    <3> QED
      BY <1>4, <1>10, <3>1 DEF LookAt, Enqueue, L, p
  <2>2. /\ visited \subseteq visited' /\ visited' \subseteq visited \cup {m}
        /\ L < query.depth => m \in visited'
    BY <1>4, <2>1
  <2>3. TraceIsShortest'
    BY <1>1, <2>1 DEF TraceIsShortest
  <2>4. \A q : UNCHANGED ShortestTo(q)
    BY <1>2 DEF ShortestTo
  <2>5. \A v : Expanded(v) => Expanded(v)'
    BY <1>1, <1>2, <2>1, <2>2 DEF Expanded
  <2>6. /\ (CalleesOf(n) \ callees') \cap targets = {}
        /\ L < query.depth => CalleesOf(n) \ callees' \subseteq visited'
    BY <1>5, <1>10, <2>1, <2>2 DEF HalfExpanded, L
  <2>7. callees' # {} => HalfExpanded(Last(item))'
    <3>1. CalleesOf(Last(item))' = CalleesOf(n)
      BY <1>2, <2>1 DEF n, Last
    <3>2. callees' \subseteq CalleesOf(n)
      BY <1>5, <2>1 DEF HalfExpanded
    <3> QED
      BY <1>1, <2>1, <2>6, <3>1, <3>2 DEF HalfExpanded, L
  <2>8. callees' = {} => Expanded(n)'
    <3> SUFFICES ASSUME callees' = {} PROVE Expanded(n)'
      OBVIOUS
    <3>1. CalleesOf(n) \cap targets = {} /\ (L < query.depth => CalleesOf(n) \subseteq visited')
      BY <2>6
    <3>2. ASSUME NEW k \in 0..(query.depth - 2), n \in Within[k] PROVE L < query.depth
      <4>1. k \notin 0..(L - 2)
        BY <1>6, <3>2 DEF ShortestTo, L, n
      <4> QED
        BY <1>4, <4>1
    <3>3. CalleesOf(n)' = CalleesOf(n)
      BY <1>2, <2>1 DEF n, Last, CalleesOf
    <3>4. n' = n
      BY <2>1 DEF n, Last
    <3>5. CalleesOf(n)' \cap targets' = {}
      BY <2>1, <3>1, <3>3
    <3>6. \A k \in 0..(query'.depth - 2) : n' \in Within'[k] => CalleesOf(n)' \subseteq visited'
      BY <1>1, <1>2, <3>1, <3>2, <3>3, <3>4
    <3> QED
      BY <3>5, <3>6 DEF Expanded
  <2>9. m \notin visited => ShortestTo(p)
    <3>1. Last(p) \in Within[Len(p) - 1]
      BY <1>4, <1>7
    <3>2. ASSUME m \notin visited, NEW k \in 0..(Len(p) - 2) PROVE Last(p) \notin Within[k]
      <4>1. k \in 0..(L - 1)
        BY <1>4, <1>7
      <4> QED
        BY <1>4, <1>7, <3>2, <4>1
    <3>3. \A i \in 1..(Len(p) - 1) : p[i + 1] \in CalleesOf(p[i])
      BY <1>4, <1>7, <1>8
    <3> QED
      BY <3>1, <3>2, <3>3 DEF ShortestTo
  <2>10. CASE m \notin visited /\ L < query.depth
    <3>1. visited' = visited \cup {m} /\ queue' = Append(queue, p)
      BY <1>4, <2>1, <2>10
    <3>2. queue \in Seq(Seq(Node)) /\ Len(queue) \in Nat
      BY DEF QueryTypes
    <3>3. /\ DOMAIN queue = 1..Len(queue) /\ DOMAIN queue' = 1..(Len(queue) + 1)
          /\ queue'[Len(queue) + 1] = p /\ \A i \in 1..Len(queue) : queue'[i] = queue[i]
      BY <1>7, <3>1, <3>2
    <3>4. Pending' \subseteq Pending \cup {p} /\ p \in Pending' /\ Pending \ {item} \subseteq Pending'
      <4>1. \A i \in DOMAIN queue : i \in DOMAIN queue' /\ queue'[i] = queue[i]
        BY <3>2, <3>3
      <4>2. Len(queue) + 1 \in DOMAIN queue'
        BY <3>2, <3>3
      <4>3. \A i \in DOMAIN queue' : i \in DOMAIN queue \/ i = Len(queue) + 1
        BY <3>2, <3>3
      <4>4. \A i \in DOMAIN queue' : queue'[i] = p \/ (i \in DOMAIN queue /\ queue'[i] = queue[i])
        BY <3>3, <4>1, <4>3
      <4> QED
        BY <2>1, <3>3, <4>1, <4>2, <4>4 DEF Pending
    <3>5. callees' # {} => item \in Pending'
      BY <2>1 DEF Pending
    <3>6. \A q \in Pending' : ShortestTo(q)' /\ Len(q) <= query.depth'
      <4>1. \A q \in Pending' : ShortestTo(q) /\ Len(q) <= query.depth
        BY <1>4, <1>5, <1>7, <2>9, <2>10, <3>4
      <4> QED
        BY <1>1, <2>4, <4>1
    <3>7. \A v \in visited' : Expanded(v)' \/ \E q \in Pending' : Last(q) = v
      <4> SUFFICES ASSUME NEW v \in visited' PROVE Expanded(v)' \/ \E q \in Pending' : Last(q) = v
        OBVIOUS
      <4>1. n' = n
        BY <2>1 DEF n, Last
      <4>2. CASE v \in visited /\ Expanded(v)
        BY <2>5, <4>2
      <4>3. ASSUME NEW q \in Pending, Last(q) = v
            PROVE  Expanded(v)' \/ \E r \in Pending' : Last(r) = v
        <5>1. CASE q \in Pending'
          BY <4>3, <5>1
        <5>2. CASE q = item /\ callees' = {}
          <6>1. v = n
            BY <4>3, <5>2 DEF n
          <6> QED
            BY <2>8, <4>1, <5>2, <6>1
        <5> QED
          BY <3>4, <3>5, <5>1, <5>2
      <4>4. CASE v = m
        BY <1>7, <3>4, <4>4
      <4> QED
        BY <1>5, <3>1, <4>2, <4>3, <4>4
    <3>8. Levels'
      <4>1. \A i \in 1..Len(queue) : Len(queue[i]) \in Nat /\ L <= Len(queue[i]) /\ Len(queue[i]) <= L + 1
        BY <1>5, <3>2, <3>3 DEF Levels, L
      <4>2. \A i \in 1..(Len(queue) + 1) :
              Len(queue'[i]) \in Nat /\ L <= Len(queue'[i]) /\ Len(queue'[i]) <= L + 1
        <5>1. \A i \in 1..(Len(queue) + 1) : i \in 1..Len(queue) \/ i = Len(queue) + 1
          BY <3>2
        <5>2. Len(p) \in Nat /\ L <= Len(p) /\ Len(p) <= L + 1
          BY <1>4, <1>7
        <5> QED
          BY <3>3, <4>1, <5>1, <5>2
      <4>3. ASSUME NEW i \in DOMAIN queue', NEW j \in DOMAIN queue', i < j
            PROVE  Len(queue'[i]) <= Len(queue'[j])
        <5>1. CASE j \in 1..Len(queue)
          <6>1. i \in 1..Len(queue)
            BY <3>2, <3>3, <4>3, <5>1
          <6> QED
            BY <1>5, <3>3, <4>3, <5>1, <6>1 DEF Levels
        <5>2. CASE j = Len(queue) + 1
          <6>1. Len(queue'[j]) = L + 1
            BY <1>7, <3>3, <5>2
          <6> QED
            BY <3>3, <4>2, <6>1
        <5> QED
          BY <3>2, <3>3, <5>1, <5>2
      <4>4. 1 \in DOMAIN queue'
        BY <3>2, <3>3
      <4>5. \A i \in DOMAIN queue' : Len(queue'[i]) <= Len(queue'[1]) + 1
        BY <1>4, <3>3, <4>2, <4>4
      <4>6. Len(item') = L
        BY <2>1 DEF L
      <4> QED
        BY <3>3, <4>2, <4>3, <4>5, <4>6 DEF Levels
    <3>9. stage' = "search" /\ targets' = ResolveSymbol(query.to, query.scope)' /\ Within[0]' \subseteq visited'
      BY <1>1, <1>2, <1>5, <2>1, <2>2
    <3> QED
      BY <2>3, <2>7, <3>6, <3>7, <3>8, <3>9 DEF Layers
  <2>11. CASE ~(m \notin visited /\ L < query.depth)
    <3>1. visited' = visited /\ queue' = queue
      BY <2>1, <2>11
    <3>2. Pending' \subseteq Pending /\ Pending \ {item} \subseteq Pending'
      BY <2>1, <3>1 DEF Pending
    <3>3. callees' # {} => item \in Pending'
      BY <2>1 DEF Pending
    <3>4. \A q \in Pending' : ShortestTo(q)' /\ Len(q) <= query.depth'
      BY <1>1, <1>5, <2>4, <3>2
    <3>5. \A v \in visited' : Expanded(v)' \/ \E q \in Pending' : Last(q) = v
      <4> SUFFICES ASSUME NEW v \in visited' PROVE Expanded(v)' \/ \E q \in Pending' : Last(q) = v
        OBVIOUS
      <4>1. n' = n
        BY <2>1 DEF n, Last
      <4>2. CASE v \in visited /\ Expanded(v)
        BY <2>5, <4>2
      <4>3. ASSUME NEW q \in Pending, Last(q) = v
            PROVE  Expanded(v)' \/ \E r \in Pending' : Last(r) = v
        <5>1. CASE q \in Pending'
          BY <4>3, <5>1
        <5>2. CASE q = item /\ callees' = {}
          <6>1. v = n
            BY <4>3, <5>2 DEF n
          <6> QED
            BY <2>8, <4>1, <5>2, <6>1
        <5> QED
          BY <3>2, <3>3, <5>1, <5>2
      <4> QED
        BY <1>5, <3>1, <4>2, <4>3
    <3>6. Levels'
      <4>1. ASSUME NEW i \in DOMAIN queue PROVE Len(queue[i]) <= Len(queue[1]) + 1
        <5>1. /\ queue \in Seq(Seq(Node)) /\ 1 \in DOMAIN queue
              /\ Len(queue[i]) \in Nat /\ Len(queue[1]) \in Nat
          BY DEF QueryTypes
        <5>2. L <= Len(queue[1]) /\ Len(queue[i]) <= L + 1
          BY <1>5, <5>1 DEF Levels, L
        <5> QED
          BY <1>4, <5>1, <5>2
      <4> QED
        BY <1>5, <2>1, <3>1, <4>1 DEF Levels
    <3>7. stage' = "search" /\ targets' = ResolveSymbol(query.to, query.scope)' /\ Within[0]' \subseteq visited'
      BY <1>1, <1>2, <1>5, <2>1, <2>2
    <3> QED
      BY <2>3, <2>7, <3>4, <3>5, <3>6, <3>7 DEF Layers
  <2> QED
    BY <2>10, <2>11
<1> QED
  BY <1>9, <1>10

\* So does every step.
LEMMA StepLayers ==
    GraphTypes /\ QueryTypes /\ Searching /\ LayersInv /\ [Next]_vars => LayersInv'
<1> SUFFICES ASSUME GraphTypes, QueryTypes, Searching, LayersInv, [Next]_vars PROVE LayersInv'
  OBVIOUS
<1>1. ASSUME EndQuery PROVE LayersInv'
  BY <1>1 DEF EndQuery, LayersInv, Layers, TraceIsShortest
<1>2. CASE JobStep \/ (\E f \in Files : Edit(f)) \/ UNCHANGED vars
  <2>1. UNCHANGED queryVars
    BY <1>2, OthersLeaveLayers
  <2>2. CASE stage = "none"
    BY <2>1, <2>2 DEF queryVars, LayersInv, Layers, TraceIsShortest
  <2>3. CASE calm' = FALSE
    BY <2>3 DEF LayersInv, Layers, TraceIsShortest
  <2>4. CASE UNCHANGED <<nodes, edges, calm>>
    BY <2>1, <2>4, SameGraphSameLayers
  <2> QED
    BY <1>2, <2>2, <2>3, <2>4, OthersLeaveLayers
<1>3. CASE TraceStep
  <2>1. CASE Respond
    BY <1>1, <2>1 DEF Respond
  <2> QED
    BY <1>3, <2>1, AskFromLayers, AskToLayers, TakeLayers, LookAtLayers DEF TraceStep, LayersInv
<1>4. CASE Restart
  BY <1>1, <1>4 DEF Restart
<1> QED
  BY <1>2, <1>3, <1>4 DEF Next

\* A search that no job has disturbed finds a path if there is one of the depth
\* allowed, along edges of the graph and with the fewest hops, for any graph with
\* cycles and functions of the same name, any query and any depth (TracePath).
THEOREM TracesAreShortest == Spec => []TraceIsShortest
<1>1. Init => LayersInv
  BY DEF Init, LayersInv, Layers, TraceIsShortest
<1>2. Init => Typed /\ SearchInv
  BY InitTyped DEF Init, SearchInv, Searching, TraceIsAPath
<1>3. Typed /\ SearchInv /\ LayersInv /\ [Next]_vars => Typed' /\ SearchInv' /\ LayersInv'
  BY StepStoreTypes, StepGraphTypes, StepJobTypes, StepQueryTypes, StepGhostTypes, StepSearch,
     StepLayers
  DEF Typed, SearchInv
<1>4. LayersInv => TraceIsShortest
  BY DEF LayersInv
<1> QED
  BY <1>1, <1>2, <1>3, <1>4, PTL DEF Spec

=============================================================================
