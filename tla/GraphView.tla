----------------------------- MODULE GraphView -----------------------------
(***************************************************************************)
(* What the dashboard and the tools show of the call graph: the selection  *)
(* of App.GraphLayout, App.DeadCode and App.Architecture.  The graph is    *)
(* read twice, under locks of their own, and may change in between:        *)
(*   nodes  the nodes of the project at first: id (file and symbol), kind, *)
(*          package, and entry for what IsEntryPoint says,                 *)
(*   edges  the resolved edges of all projects at last, a record for each  *)
(*          entry of the slice (a call of a split chunk is there twice).   *)
(* Positions are left out.                                                 *)
(***************************************************************************)
EXTENDS Ranking, FiniteSetsExt

CONSTANTS
    MaxEdges,      \* defaultMaxEdges
    MaxHotspots    \* the limit of Architecture

\* ResolveEdges: a call goes to every node that has the name.
ResolveEdges(nodes, calls) ==
    LET named == {x \in calls \X nodes : x[1].name = x[2].id.symbol}
    IN  {[from |-> x[1].from, to |-> x[2].id, no |-> x[1].no] : x \in named}

Incoming(edges, n) == Cardinality({e \in edges : e.to = n})
Outgoing(edges, n) == Cardinality({e \in edges : e.from = n})
Degree(edges, n) == Incoming(edges, n) + Outgoing(edges, n)
Degrees(edges, nodes) == [n \in nodes |-> Degree(edges, n.id)]

\* filterEdgesByIDs
Between(edges, nodes) ==
    LET ids == {n.id : n \in nodes} IN {e \in edges : e.from \in ids /\ e.to \in ids}

\* mutant: nodes that lose their last edge to the cap stay.
Final_All(nodes, shown, connectedOnly) == nodes

\* The final pass: nodes that have lost all their edges go, too.
Final(nodes, shown, connectedOnly) ==
    {n \in nodes : connectedOnly => Degree(shown, n.id) > 0}

\* GraphLayout: the possible selections.
Layouts(nodes, edges, connectedOnly, maxNodes) ==
    LET all == Between(edges, nodes)
        degree == Degrees(all, nodes)
        linked == {n \in nodes : connectedOnly => degree[n] > 0}
        Weight(S) == [e \in S |-> Degree(all, e.from) + Degree(all, e.to)]
        Result(kept, shown) ==
            LET final == Final(kept, shown, connectedOnly)
            IN  [nodes |-> final, edges |-> Between(shown, final),
                 degree |-> IF connectedOnly THEN Degrees(shown, final) ELSE degree,
                 totalNodes |-> Cardinality(nodes), totalEdges |-> Cardinality(all),
                 subsampled |-> Cardinality(linked) > maxNodes,
                 isolated |-> Cardinality(nodes \ linked) + Cardinality(kept \ final)]
    IN  UNION {{Result(kept, shown) : shown \in Top(Between(all, kept), Weight(Between(all, kept)), MaxEdges)} :
                  kept \in Top(linked, degree, maxNodes)}

\* The kinds that an argument of dead_code stands for.
Kinds(kind) == IF kind = "" THEN {"function", "method"} ELSE {kind}

\* mutant: calls from the file of the function do not count.
IsDead_Local(edges, kind, n) ==
    /\ n.kind \in Kinds(kind) /\ ~n.entry
    /\ \A e \in edges : e.to = n.id => e.from.file = n.id.file

IsDead(edges, kind, n) == n.kind \in Kinds(kind) /\ ~n.entry /\ Incoming(edges, n.id) = 0

\* DeadCode, ordered by path.
DeadCode(nodes, edges, kind, topK) ==
    LET dead == {n \in nodes : IsDead(edges, kind, n)}
    IN  Top(dead, [n \in dead |-> -n.id.file], topK)

Packages(nodes) ==
    [p \in {n.pkg : n \in nodes} |-> Cardinality({n.id.file : n \in {m \in nodes : m.pkg = p}})]

\* Architecture, but for languages and recent changes; the number of edges is
\* that of all projects.
Architectures(nodes, edges) ==
    LET degree == Degrees(edges, nodes)
        linked == {n \in nodes : degree[n] > 0}
    IN  {[packages |-> Packages(nodes), entries |-> {n \in nodes : n.entry}, hotspots |-> hot,
          degree |-> degree, files |-> Cardinality({n.id.file : n \in nodes}), symbols |-> Cardinality(nodes)] :
            hot \in Top(linked, degree, MaxHotspots)}

\* What the views promise.

\* No edge is drawn without its ends, nothing is drawn twice or beyond the caps.
LayoutIsClosed(maxNodes, answer) ==
    /\ \A e \in answer.edges : \E n, m \in answer.nodes : n.id = e.from /\ m.id = e.to
    /\ Cardinality(answer.nodes) <= maxNodes /\ Cardinality(answer.edges) <= MaxEdges

\* With connectedOnly every node has an edge that is drawn, and its degree says
\* how many.  Shown, isolated and sampled out nodes add up.
LayoutAddsUp(nodes, connectedOnly, answer) ==
    /\ connectedOnly =>
          /\ \A n \in answer.nodes :
                answer.degree[n] > 0 /\ answer.degree[n] = Degree(answer.edges, n.id)
          /\ ~answer.subsampled => Cardinality(answer.nodes) + answer.isolated = answer.totalNodes
    /\ ~connectedOnly /\ ~answer.subsampled => answer.nodes = nodes

\* Nobody calls a listed function by its name, unless the graph has lost the
\* function since its nodes were read; one that is not listed is called, or an
\* entry point, or of another kind, or the list is full.
DeadCodeIsUncalled(nodes, later, calls, kinds, topK, answer) ==
    /\ \A n \in answer : n \in later => \A c \in calls : c.name # n.id.symbol
    /\ \A n \in nodes \ answer :
          \/ \E c \in calls : c.name = n.id.symbol
          \/ n.entry \/ n.kind \notin kinds
          \/ Cardinality(answer) = topK /\ \A m \in answer : m.id.file <= n.id.file

\* Every file is counted in one package, and only a symbol with calls is a
\* hotspot, before all that have fewer.
ArchitectureAddsUp(nodes, answer) ==
    /\ MapThenSumSet(LAMBDA p : answer.packages[p], DOMAIN answer.packages) = answer.files
    /\ answer.files <= answer.symbols
    /\ \A n \in answer.hotspots : answer.degree[n] > 0
    /\ \A n \in nodes \ answer.hotspots :
          \/ answer.degree[n] = 0
          \/ Cardinality(answer.hotspots) = MaxHotspots
             /\ \A h \in answer.hotspots : answer.degree[h] >= answer.degree[n]
=============================================================================
