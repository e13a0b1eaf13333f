----------------------------- MODULE Algorithms -----------------------------
(***************************************************************************)
(* The algorithms that keep no state, and what their answers promise.  The *)
(* algorithm op is called with the input in, and answers; out is empty or  *)
(* holds the answer, one of those that are possible.                       *)
(***************************************************************************)
EXTENDS Chunker, Search, GraphView

CONSTANTS
    Files,        \* what chunkFile is called with
    Collections,  \* what the store may hold: sets of documents
    Arguments,    \* the filters of a search
    Limits,       \* how many results may be asked for
    Graphs,       \* what the readers of the call graph may see: its nodes at
                  \* first, its nodes and calls later
    NodeLimits    \* how many nodes of the graph may be drawn

ASSUME FilesAssumption == \A f \in Files : IsFile(f) /\ (f.lang = "markdown" => f.nodes = <<>>)
\* sort.Slice orders a finite list, and compares numbers.
ASSUME CollectionsAssumption ==
    \A D \in Collections : IsFiniteSet(D) /\ D \subseteq Document
ASSUME ArgumentsAssumption == Arguments \subseteq Argument
ASSUME LimitsAssumption == Limits \subseteq Nat \ {0} /\ NodeLimits \subseteq Nat \ {0}
ASSUME CapsAssumption == MaxChunkChars \in Nat /\ MaxEdges \in Nat /\ MaxHotspots \in Nat
ASSUME GraphsAssumption ==
    \A g \in Graphs :
        /\ IsFiniteSet(g.nodes) /\ IsFiniteSet(g.later) /\ IsFiniteSet(g.calls)
        /\ \A n \in g.nodes : n.id.file \in Int
        /\ \A n, m \in g.nodes : n.id.file = m.id.file => n.pkg = m.pkg

VARIABLES op, in, out

algVars == <<op, in, out>>

Searches == [docs : Collections, args : Arguments, k : Limits]
Layoutings == [graph : Graphs, linked : BOOLEAN, max : NodeLimits]
Deads == [graph : Graphs, kind : {"", "function", "method"}, topK : Limits]

AlgInit ==
    /\ \/ op = "chunk" /\ in \in Files
       \/ op \in {"search", "merge", "find"} /\ in \in Searches
       \/ op = "layout" /\ in \in Layoutings
       \/ op = "dead" /\ in \in Deads
       \/ op = "architecture" /\ in \in Graphs
    /\ out = {}

Answer(name, answers) ==
    /\ op = name /\ out = {}
    /\ \E a \in answers : out' = {a}
    /\ UNCHANGED <<op, in>>

Edges(g) == ResolveEdges(g.later, g.calls)

AlgNext ==
    \/ Answer("chunk", {ChunkFile(in)})
    \/ Answer("search", SearchFor(in.docs, in.args, in.k))
    \/ Answer("merge", UnifiedSearch(in.docs, in.args, in.k))
    \/ Answer("find", FindSymbol(in.docs, in.args, in.k))
    \/ Answer("layout", Layouts(in.graph.nodes, Edges(in.graph), in.linked, in.max))
    \/ Answer("dead", DeadCode(in.graph.nodes, Edges(in.graph), in.kind, in.topK))
    \/ Answer("architecture", Architectures(in.nodes, Edges(in)))

AlgSpec == AlgInit /\ [][AlgNext]_algVars

-----------------------------------------------------------------------------

\* Every chunk is the text of the lines that it names, within the limit, and no
\* line is lost but those outside of all headings and symbols (ChunkFile).
ChunksAreTheirLines ==
    op = "chunk" => \A chunks \in out :
        /\ \A c \in chunks : ChunkIsItsLines(in, c)
        /\ \A n \in DOMAIN in.lines : LineIsCovered(in, chunks, n)

\* A call inside of nested symbols makes one caller in the call graph, the same
\* for every piece of a split symbol (collectSymbols, walkCalls, splitChunk).
CallsHaveOneCaller ==
    op = "chunk" => \A chunks \in out : \A i \in DOMAIN in.nodes :
        in.nodes[i].kind = "call" => CallHasOneCaller(in, chunks, i)

\* What boosts and the path could still change is not cut off too early (Search).
SearchMissesOnlyTheFarOnes ==
    op = "search" => \A a \in out : MissesOnlyTheFarOnes(in.docs, in.args, in.k, a)

\* Merging code and documentation loses no place to a worse one (unifiedSearch).
MergeKeepsTheBest ==
    op = "merge" => \A a \in out : MergeLosesNothing(in.docs, in.args, in.k, a)

\* find_symbol answers with the definitions of the project asked for, and with
\* all that it can tell to be there (findSymbol).
FindsDefinitions ==
    op = "find" => \A a \in out : FindsWhatIsThere(in.docs, in.args, a)

\* dead_code lists the functions that nobody calls, also if a job changes the
\* graph between its two reads (DeadCode).
DeadCodeIsDead ==
    op = "dead" => \A a \in out :
        DeadCodeIsUncalled(in.graph.nodes, in.graph.later, in.graph.calls,
                           IF in.kind = "" THEN {"function", "method"} ELSE {in.kind}, in.topK, a)

\* The graph view draws a graph although it samples nodes, caps edges and reads
\* the two at different times, and its numbers are of what it draws (GraphLayout);
\* the summary counts every file once and shows the functions with the most calls
\* (Architecture).
ViewsAddUp ==
    /\ op = "layout" => \A a \in out :
          LayoutIsClosed(in.max, a) /\ LayoutAddsUp(in.graph.nodes, in.linked, a)
    /\ op = "architecture" => \A a \in out : ArchitectureAddsUp(in.nodes, a)

=============================================================================
