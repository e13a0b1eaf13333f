----------------------------- MODULE CodeGraph -----------------------------
(***************************************************************************)
(* The call graph (internal/graph) and the similarity index                *)
(* (internal/simhash): how the jobs of internal/app keep them in step with *)
(* the vector store, how they are saved and loaded, and the search of      *)
(* TracePath, which reads the graph piece by piece while a job changes it. *)
(*                                                                         *)
(* A content is its chunks of functions, in order: the symbol of each and  *)
(* the names that it calls.  The vector store is left to FileIndex and     *)
(* reduced to what it holds of a file: chunks and hash change at once, and *)
(* only embeddings fail.                                                   *)
(***************************************************************************)
EXTENDS Integers, Sequences, FiniteSets

CONSTANTS
    Files,         \* the indexable paths of all projects
    Symbols,       \* the names of functions
    Contents,      \* what a file may hold
    Absent,        \* no such file, no such entry
    Queries,       \* the arguments of trace_path: scope is the files of a project, or all
    DefaultDepth,  \* what stands for no max_depth
    DepthLimit,    \* the largest
    MaxEvents      \* bound on edits, restarts and queries together, not in the code

ASSUME ContentsAssumption ==
    /\ \A c \in Contents : c \in Seq([symbol : Symbols, calls : SUBSET Symbols])
    /\ Absent \notin Contents \cup Files
ASSUME QueriesAssumption ==
    \A q \in Queries : q \in [from : Symbols, to : Symbols, scope : SUBSET Files, depth : Int]
ASSUME DepthAssumption ==
    /\ DefaultDepth \in Nat \ {0} /\ DepthLimit \in Nat \ {0} /\ DefaultDepth <= DepthLimit

VARIABLES
    disk,     \* the content of every file
    chunks,   \* the content whose chunks the store holds
    hash,     \* the content whose hash the store holds
    nodes, edges, files,  \* Graph.nodes, Graph.edges, Graph.files
    dbNodes, dbEdges,     \* tables graph_nodes, graph_edges
    sim,      \* the content whose fingerprints Index.entries holds
    dbSim,    \* table simhash_entries
    pc,       \* where the job under way stands
    job,      \* what it is
    seen,     \* what it read from disk
    changed,  \* the files it stores
    todo,     \* the files whose entries it has still to remove or to replace
    current,  \* the one that it is replacing
    left,     \* the chunks of that one that are still to be added
    query,    \* the arguments of the query under way
    stage,    \* where that query stands
    targets,  \* targetSet
    queue,    \* queue: the paths of its items
    visited,  \* visited
    item,     \* the path whose end is being expanded
    callees,  \* the callees of that end that were not looked at
    answer,   \* the path found
    calm,     \* ghost: the graph did not change during the query
    restarted,\* ghost: the graph was loaded since the first start
    lost,     \* ghost: a restart lost what a job had not saved
    events    \* ghost: how many edits, restarts and queries there were

graph == <<nodes, edges, files>>
tables == <<dbNodes, dbEdges, dbSim>>
jobVars == <<pc, job, seen, changed, todo, current, left>>
queryVars == <<query, stage, targets, queue, visited, item, callees, answer>>
restartVars == <<restarted, lost>>
vars == <<disk, chunks, hash, nodes, edges, files, dbNodes, dbEdges, sim, dbSim, pc, job, seen,
          changed, todo, current, left, query, stage, targets, queue, visited, item, callees,
          answer, calm, restarted, lost, events>>

Entry == Contents \cup {Absent}
Nothing == [f \in Files |-> Absent]
Node == Files \X Symbols
NoQuery == [from |-> Absent, to |-> Absent, scope |-> {}, depth |-> 0]

Init ==
    /\ disk \in [Files -> Entry]
    /\ chunks = Nothing /\ hash = Nothing
    /\ nodes = {} /\ edges = {} /\ files = {}
    /\ dbNodes = {} /\ dbEdges = {}
    /\ sim = Nothing /\ dbSim = Nothing
    /\ pc = "idle" /\ job = "none" /\ seen = Nothing
    /\ changed = {} /\ todo = {} /\ current = Absent /\ left = <<>>
    /\ query = NoQuery /\ stage = "none" /\ targets = {} /\ queue = <<>> /\ visited = {}
    /\ item = <<>> /\ callees = {} /\ answer = <<>> /\ calm = TRUE
    /\ restarted = FALSE /\ lost = FALSE
    /\ events = 0

Event ==
    /\ events < MaxEvents
    /\ events' = events + 1

Edit(f) ==
    /\ Event
    /\ \E c \in Entry \ {disk[f]} : disk' = [disk EXCEPT ![f] = c]
    /\ UNCHANGED <<chunks, hash, graph, sim, tables, jobVars, queryVars, calm, restartVars>>

-----------------------------------------------------------------------------
(* The graph *)

NodesOf(f) == {n \in nodes : n[1] = f}

RemoveByPath(f) ==
    /\ nodes' = nodes \ NodesOf(f)
    /\ files' = IF NodesOf(f) = {} THEN files ELSE files \ {f}
    /\ edges' = {e \in edges : e[1] \notin NodesOf(f)}

EdgesOf(f, c) == {<<<<f, c.symbol>>, t>> : t \in c.calls}
AddChunk(f, c) ==
    /\ files' = files \cup {f}
    /\ nodes' = nodes \cup {<<f, c.symbol>>}
    /\ edges' = edges \cup EdgesOf(f, c)

ResolveSymbol(s, scope) == {n \in nodes : n[2] = s /\ n[1] \in scope}
CalleesOf(n) == {m \in nodes : <<n, m[2]>> \in edges}

\* Save empties graph_nodes first, which the foreign key of graph_edges forbids
\* while that table has rows, and it requires the caller of every edge.
CanSave == dbEdges = {} /\ \A e \in edges : e[1] \in nodes

-----------------------------------------------------------------------------
(* Jobs *)

EndJob ==
    /\ pc' = "idle" /\ job' = "none" /\ seen' = Nothing
    /\ changed' = {} /\ todo' = {} /\ current' = Absent /\ left' = <<>>

EndQuery ==
    /\ query' = NoQuery /\ stage' = "none" /\ targets' = {} /\ queue' = <<>> /\ visited' = {}
    /\ item' = <<>> /\ callees' = {} /\ answer' = <<>> /\ calm' = TRUE

\* A job goes on to save: what it has read is of no use any more.
ToSave ==
    /\ pc' = "saveGraph" /\ job' = "none" /\ seen' = Nothing
    /\ changed' = {} /\ todo' = {} /\ current' = Absent /\ left' = <<>>

Stale(j) ==
    IF j = "rebuild" THEN {f \in Files : hash[f] # Absent}
    ELSE {f \in Files : hash[f] # Absent /\ disk[f] = Absent}

\* initialIndex with cleanupDeletedFiles, and RebuildProject with
\* deleteChunksByPrefix.
BeginPass(j) ==
    /\ pc = "idle"
    /\ job' = j
    /\ todo' = Stale(j)
    /\ pc' = IF Stale(j) = {} THEN "walk" ELSE "purge"
    /\ UNCHANGED <<disk, chunks, hash, graph, sim, tables, seen, changed, current, left,
                   queryVars, calm, restartVars, events>>

Drop(f) ==
    /\ chunks' = [chunks EXCEPT ![f] = Absent]
    /\ hash' = [hash EXCEPT ![f] = Absent]

\* The entries of both indexes; the rows of simhash_entries go at once.
Forget(f) ==
    /\ RemoveByPath(f)
    /\ sim' = [sim EXCEPT ![f] = Absent]
    /\ dbSim' = [dbSim EXCEPT ![f] = Absent]
    /\ calm' = (stage = "none")

Purge(f) ==
    /\ pc = "purge" /\ f \in todo
    /\ todo' = todo \ {f}
    /\ pc' = IF todo = {f} THEN "walk" ELSE pc
    /\ Drop(f)
    /\ Forget(f)
    /\ UNCHANGED <<disk, dbNodes, dbEdges, job, seen, changed, current, left, queryVars,
                   restartVars, events>>

Changed == {f \in Files : disk[f] # Absent /\ hash[f] # disk[f]}
GraphOnly == {f \in Files : disk[f] # Absent /\ hash[f] = disk[f] /\ f \notin files}

\* chunkFilesParallel up to DeleteByPaths.
Walk ==
    /\ pc = "walk"
    /\ IF Changed \cup GraphOnly = {} THEN ToSave
       ELSE /\ todo' = Changed \cup GraphOnly
            /\ changed' = Changed
            /\ seen' = disk
            /\ pc' = "replace"
            /\ UNCHANGED <<job, current, left>>
    /\ chunks' = [f \in Files |-> IF f \in Changed THEN Absent ELSE chunks[f]]
    /\ hash' = [f \in Files |-> IF f \in Changed THEN Absent ELSE hash[f]]
    /\ UNCHANGED <<disk, graph, sim, tables, queryVars, calm, restartVars, events>>

\* The rest of chunkFilesParallel for one file: its old entries go, ...
Replace_Adds(f) ==  \* mutant: the call of RemoveByPath of the graph is missing
    /\ pc = "replace" /\ current = Absent /\ f \in todo
    /\ todo' = todo \ {f}
    /\ current' = f
    /\ left' = seen[f]
    /\ sim' = [sim EXCEPT ![f] = Absent] /\ dbSim' = [dbSim EXCEPT ![f] = Absent]
    /\ UNCHANGED <<disk, chunks, hash, graph, dbNodes, dbEdges, pc, job, seen, changed,
                   queryVars, calm, restartVars, events>>
Replace(f) ==
    /\ pc = "replace" /\ current = Absent /\ f \in todo
    /\ todo' = todo \ {f}
    /\ current' = f
    /\ left' = seen[f]
    /\ Forget(f)
    /\ UNCHANGED <<disk, chunks, hash, dbNodes, dbEdges, pc, job, seen, changed, queryVars,
                   restartVars, events>>

\* ... its chunks are added one by one, ...
Add ==
    /\ pc = "replace" /\ left # <<>>
    /\ AddChunk(current, Head(left))
    /\ left' = Tail(left)
    /\ calm' = (stage = "none")
    /\ UNCHANGED <<disk, chunks, hash, sim, tables, pc, job, seen, changed, todo, current,
                   queryVars, restartVars, events>>

\* ... and then their fingerprints.  indexDirectory has nothing to embed when all
\* files were in graphOnly.
AddFingerprints ==
    /\ pc = "replace" /\ current # Absent /\ left = <<>>
    /\ sim' = [sim EXCEPT ![current] = seen[current]]
    /\ IF todo = {} /\ changed = {} THEN ToSave
       ELSE /\ current' = Absent
            /\ pc' = IF todo = {} THEN "store" ELSE pc
            /\ UNCHANGED <<job, seen, changed, todo, left>>
    /\ UNCHANGED <<disk, chunks, hash, graph, tables, queryVars, calm, restartVars, events>>

\* reindexFileUnder up to the reading of the file.  A file that is gone leaves
\* the store and nothing else.
BeginFile(f) ==
    /\ pc = "idle"
    /\ Drop(f)
    /\ IF disk[f] = Absent THEN ToSave
       ELSE /\ pc' = "replace" /\ job' = "file"
            /\ seen' = [seen EXCEPT ![f] = disk[f]]
            /\ changed' = {f} /\ todo' = {f}
            /\ UNCHANGED <<current, left>>
    /\ UNCHANGED <<disk, graph, sim, tables, queryVars, calm, restartVars, events>>

\* A file job stores chunks without a hash.
Put(S) ==
    /\ chunks' = [f \in Files |-> IF f \in S THEN seen[f] ELSE chunks[f]]
    /\ hash' = [f \in Files |-> IF f \in S /\ job # "file" THEN seen[f] ELSE hash[f]]

\* AddChunks for every batch.
Store ==
    /\ pc = "store"
    /\ Put(changed)
    /\ ToSave
    /\ UNCHANGED <<disk, graph, sim, tables, queryVars, calm, restartVars, events>>

\* Embeddings fail after some batches.  A pass starts over a number of times; in
\* the end only initialIndex goes on to save what it has in memory.
StoreFails ==
    /\ pc = "store"
    /\ \E S \in SUBSET changed : S # changed /\ Put(S)
    /\ \/ /\ job # "file"
          /\ pc' = "walk" /\ seen' = Nothing /\ changed' = {}
          /\ UNCHANGED <<job, todo, current, left>>
       \/ job = "initial" /\ ToSave
       \/ job # "initial" /\ EndJob
    /\ UNCHANGED <<disk, graph, sim, tables, queryVars, calm, restartVars, events>>

\* saveCallGraph logs an error of Save.
SaveGraph ==
    /\ pc = "saveGraph"
    /\ IF CanSave THEN dbNodes' = nodes /\ dbEdges' = edges ELSE UNCHANGED <<dbNodes, dbEdges>>
    /\ pc' = "saveSim"
    /\ UNCHANGED <<disk, chunks, hash, graph, sim, dbSim, job, seen, changed, todo, current, left,
                   queryVars, calm, restartVars, events>>

SaveSimhash ==
    /\ pc = "saveSim"
    /\ dbSim' = sim
    /\ EndJob
    /\ UNCHANGED <<disk, chunks, hash, graph, sim, dbNodes, dbEdges, queryVars, calm,
                   restartVars, events>>

\* The process ends, at any point, and starts again: NewIndex and Load.
Restart ==
    /\ Event
    /\ nodes' = dbNodes /\ edges' = dbEdges /\ files' = {n[1] : n \in dbNodes}
    /\ sim' = dbSim
    /\ restarted' = TRUE
    /\ lost' = (lost \/ pc # "idle" \/ sim # dbSim)
    /\ EndJob
    /\ EndQuery
    /\ UNCHANGED <<disk, chunks, hash, tables>>

-----------------------------------------------------------------------------
(* TracePath, on the goroutine of a request.  Each call of the graph takes *)
(* its lock for itself.                                                    *)

QueryStep == UNCHANGED <<disk, chunks, hash, graph, sim, tables, jobVars, restartVars>>

Last(path) == path[Len(path)]

DepthOf(d) == IF d <= 0 THEN DefaultDepth ELSE IF d > DepthLimit THEN DepthLimit ELSE d

\* Some order of the items, as a map has none.
Orders(S) == {o \in [1..Cardinality(S) -> S] : \A i, j \in DOMAIN o : i # j => o[i] # o[j]}

\* What the search has noted is of no use once there is an answer.
Answer(how, path) ==
    /\ stage' = how /\ answer' = path
    /\ targets' = {} /\ queue' = <<>> /\ visited' = {} /\ item' = <<>> /\ callees' = {}

AskFrom(q) ==
    /\ stage = "none"
    /\ Event
    /\ query' = [q EXCEPT !.depth = DepthOf(q.depth)]
    /\ LET sources == ResolveSymbol(q.from, q.scope)
       IN  IF sources = {} THEN Answer("unknown", <<>>)
           ELSE /\ stage' = "to"
                /\ visited' = sources
                /\ \E o \in Orders(sources) : queue' = [i \in DOMAIN o |-> <<o[i]>>]
                /\ UNCHANGED <<targets, item, callees, answer>>
    /\ calm' = TRUE
    /\ QueryStep

AskTo_AnyProject ==  \* mutant: the project is forgotten
    /\ stage = "to"
    /\ LET found == ResolveSymbol(query.to, Files)
       IN  IF found = {} THEN Answer("unknown", <<>>)
           ELSE IF query.from = query.to THEN Answer("found", queue[1])
           ELSE /\ stage' = "search" /\ targets' = found
                /\ UNCHANGED <<queue, visited, item, callees, answer>>
    /\ UNCHANGED <<query, calm, events>>
    /\ QueryStep
AskTo ==
    /\ stage = "to"
    /\ LET found == ResolveSymbol(query.to, query.scope)
       IN  IF found = {} THEN Answer("unknown", <<>>)
           ELSE IF query.from = query.to THEN Answer("found", queue[1])
           ELSE /\ stage' = "search" /\ targets' = found
                /\ UNCHANGED <<queue, visited, item, callees, answer>>
    /\ UNCHANGED <<query, calm, events>>
    /\ QueryStep

\* The next item, and its callees.
Take ==
    /\ stage = "search" /\ callees = {}
    /\ IF queue = <<>> \/ Len(Head(queue)) > query.depth THEN Answer("notFound", <<>>)
       ELSE /\ item' = Head(queue)
            /\ queue' = Tail(queue)
            /\ callees' = CalleesOf(Last(item'))
            /\ UNCHANGED <<stage, targets, visited, answer>>
    /\ UNCHANGED <<query, calm, events>>
    /\ QueryStep

Enqueue_First(path) == <<path>> \o queue  \* mutant: a stack
Enqueue(path) == Append(queue, path)

\* The loop over the callees, for one of them: a node that is gone by now is
\* skipped.
LookAt(m) ==
    /\ stage = "search" /\ m \in callees
    /\ IF m \in targets /\ m \in nodes THEN Answer("found", Append(item, m))
       ELSE /\ callees' = callees \ {m}
            /\ IF m \notin targets \cup visited /\ Len(item) < query.depth
               THEN /\ visited' = visited \cup {m}
                    /\ queue' = IF m \in nodes THEN Enqueue(Append(item, m)) ELSE queue
               ELSE UNCHANGED <<visited, queue>>
            /\ UNCHANGED <<stage, targets, item, answer>>
    /\ UNCHANGED <<query, calm, events>>
    /\ QueryStep

Respond ==
    /\ stage \in {"found", "notFound", "unknown"}
    /\ EndQuery
    /\ UNCHANGED events
    /\ QueryStep

-----------------------------------------------------------------------------

JobStep ==
    \/ \E j \in {"initial", "rebuild"} : BeginPass(j)
    \/ \E f \in Files : Purge(f) \/ Replace(f) \/ BeginFile(f)
    \/ Walk \/ Add \/ AddFingerprints \/ Store \/ StoreFails \/ SaveGraph \/ SaveSimhash

TraceStep ==
    \/ \E q \in Queries : AskFrom(q)
    \/ AskTo \/ Take \/ Respond
    \/ \E m \in callees : LookAt(m)

Next ==
    \/ JobStep
    \/ TraceStep
    \/ Restart
    \/ \E f \in Files : Edit(f)

Spec == Init /\ [][Next]_vars

-----------------------------------------------------------------------------
(* Properties *)

IsPath(p) == p \in Seq(Node)

TypeOK ==
    /\ disk \in [Files -> Entry] /\ chunks \in [Files -> Entry] /\ hash \in [Files -> Entry]
    /\ sim \in [Files -> Entry] /\ dbSim \in [Files -> Entry] /\ seen \in [Files -> Entry]
    /\ nodes \subseteq Node /\ edges \subseteq Node \X Symbols /\ files \subseteq Files
    /\ dbNodes \subseteq Node /\ dbEdges \subseteq Node \X Symbols
    /\ pc \in {"idle", "purge", "walk", "replace", "store", "saveGraph", "saveSim"}
    /\ job \in {"none", "initial", "rebuild", "file"}
    /\ changed \subseteq Files /\ todo \subseteq Files
    /\ current \in Files \cup {Absent} /\ left \in Seq([symbol : Symbols, calls : SUBSET Symbols])
    /\ query = NoQuery \/ query \in [from : Symbols, to : Symbols, scope : SUBSET Files, depth : 1..DepthLimit]
    /\ stage \in {"none", "to", "search", "found", "notFound", "unknown"}
    /\ targets \subseteq Node /\ visited \subseteq Node /\ callees \subseteq Node
    /\ IsPath(item) /\ IsPath(answer) /\ \A i \in DOMAIN queue : IsPath(queue[i])
    /\ calm \in BOOLEAN /\ restarted \in BOOLEAN /\ lost \in BOOLEAN
    /\ events \in Nat

\* Between and within jobs every edge starts at a node, and files lists exactly
\* the files that have one: Save's rows never break the foreign key of
\* graph_edges by themselves, and HasFile never hides a file without nodes from
\* the backfill.  The same holds of what Load will read.
GraphIsClosed ==
    /\ \A e \in edges : e[1] \in nodes
    /\ files = {n[1] : n \in nodes}
    /\ \A e \in dbEdges : e[1] \in dbNodes

Mirrors(f, c) ==
    /\ NodesOf(f) = {<<f, c[i].symbol>> : i \in DOMAIN c}
    /\ {e \in edges : e[1][1] = f} = UNION {EdgesOf(f, c[i]) : i \in DOMAIN c}

\* Between jobs, a file whose chunks can be found has the call graph and the
\* fingerprints of just these chunks, whichever edits, retries, partial failures
\* and rebuilds came before: the graph until the first restart, after which it
\* is what Load found, and the fingerprints until a restart loses unsaved ones.
FollowsStore ==
    pc = "idle" =>
        \A f \in Files : chunks[f] # Absent =>
            /\ ~restarted => Mirrors(f, chunks[f])
            /\ ~lost => sim[f] = chunks[f]

\* What "saveCallGraph persists the call graph to disk" promises: the same holds
\* of the graph after a restart between jobs that had saved everything.  It does
\* not hold: once the table has an edge, Save fails on its foreign key (CanSave).
ReloadedGraphFollowsStore ==
    pc = "idle" /\ ~lost => \A f \in Files : chunks[f] # Absent => Mirrors(f, chunks[f])

\* An answer starts at one of the symbols asked for and ends at the other, takes
\* no more hops than were allowed, and visits nothing twice, although jobs
\* remove and add nodes between any two reads of the search.
TraceIsAPath ==
    stage = "found" =>
        /\ answer[1][2] = query.from /\ Last(answer)[2] = query.to
        /\ Len(answer) - 1 <= query.depth
        /\ \A i, j \in DOMAIN answer : i # j => answer[i] # answer[j]
        /\ {answer[1], Last(answer)} \subseteq {n \in Node : n[1] \in query.scope}

\* The nodes at most k hops from those that the query starts at.
Within[k \in Nat] ==
    IF k = 0 THEN ResolveSymbol(query.from, query.scope)
    ELSE Within[k - 1] \cup UNION {CalleesOf(n) : n \in Within[k - 1]}

Reaches(k) == Within[k] \cap ResolveSymbol(query.to, query.scope) # {}

\* When no job touched the graph during the search, a path is found exactly if
\* there is one of the depth allowed, and it is a shortest one.
TraceIsShortest ==
    calm =>
        /\ stage = "notFound" => ~Reaches(query.depth)
        /\ stage = "found" =>
              LET hops == Len(answer) - 1
              IN  /\ Reaches(hops) /\ \A k \in 0..(hops - 1) : ~Reaches(k)
                  /\ \A i \in 1..hops : answer[i + 1] \in CalleesOf(answer[i])

=============================================================================
