---------------------------- MODULE MCAlgorithms ----------------------------
(* The inputs of Algorithms for TLC. *)
EXTENDS Algorithms

\* Texts of up to four lines, some of them too long for a chunk.
Texts == UNION {[1..n -> {0, 3, 7}] : n \in 1..4}
MCFile(lang, lines, heads, nodes) ==
    [lang |-> lang, lines |-> lines, heads |-> heads, nodes |-> nodes]
Documents ==
    UNION {{MCFile("markdown", t, H, <<>>) : H \in SUBSET {i \in DOMAIN t : t[i] > 0}} : t \in Texts}
\* The trees of up to three nodes on three lines: a node lies within its
\* parent, and after its elder siblings.
Nodes(n) ==
    [up : 0..(n - 1), kind : {"symbol", "call", "other"}, from : 1..3, to : 1..3]
IsTree(t) ==
    \A i \in DOMAIN t :
        /\ t[i].up < i /\ t[i].from <= t[i].to
        /\ t[i].up > 0 => t[i].from >= t[t[i].up].from /\ t[i].to <= t[t[i].up].to
        /\ i > 1 => \/ t[i].up = i - 1
                    \/ t[i].up = t[i - 1].up /\ t[i].from >= t[i - 1].to
                    \/ t[i].up = 0 /\ \A j \in 1..(i - 1) : t[i].from >= t[j].to
Trees == UNION {{t \in [1..n -> Nodes(n)] : IsTree(t)} : n \in 0..2}
            \cup {t \in [1..3 -> {x \in Nodes(3) : x.from <= x.to /\ x.kind # "other"}] : IsTree(t)}
Sources == {MCFile("other", t, {}, n) : t \in {<<3, 3, 3>>, <<7, 0, 3>>}, n \in Trees}

\* Documents of two projects; the last two are at the place of the first.
Doc(proj, dir, lang, place, sim, hit, name, loaded) ==
    [proj |-> proj, path |-> <<proj, dir, ToString(place)>>, lang |-> lang, place |-> place,
     sim |-> sim, hit |-> hit, name |-> name, loaded |-> loaded]
Docs ==
    {Doc("p", "a", "go", 1, 50, "none", "is", FALSE), Doc("p", "a", "go", 2, 50, "symbol", "has", FALSE),
     Doc("p", "b", "go", 3, 58, "path", "is", TRUE), Doc("p", "b", "markdown", 4, 54, "symbol", "not", FALSE),
     Doc("q", "b", "go", 5, 56, "none", "is", TRUE), Doc("q", "b", "go", 6, 47, "symbol", "is", FALSE),
     Doc("p", "b", "markdown", 7, 53, "symbol", "has", TRUE), Doc("p", "a", "go", 1, 55, "path", "not", TRUE),
     Doc("p", "b", "markdown", 4, 62, "none", "not", FALSE)}
MCArguments ==
    [proj : {{}, {"p"}}, lang : {{}, {"go"}}, path : {{}, {<<"p", "b">>}}, source : {"all"}]

\* Graphs of four functions in three files, one of them not there yet, or not
\* any more, when the nodes are read first or the edges later.
Node(file, symbol, kind, entry) ==
    [id |-> [file |-> file, symbol |-> symbol], kind |-> kind, pkg |-> file % 2, entry |-> entry]
Functions4 ==
    {Node(1, "f", "function", FALSE), Node(1, "g", "method", FALSE),
     Node(2, "f", "function", FALSE), Node(3, "main", "function", TRUE)}
Call(n, name, no) == [from |-> n.id, name |-> name, no |-> no]
AllCalls == {Call(n, s, 1) : n \in Functions4, s \in {"f", "g"}}
                \cup {Call(n, "g", 2) : n \in {m \in Functions4 : m.entry}}
SomeCalls == {C \in SUBSET AllCalls : Cardinality(C) <= 4}
MCGraphs ==
    {[nodes |-> Functions4 \ {x}, later |-> Functions4, calls |-> C] : x \in Functions4, C \in SomeCalls}
    \cup {[nodes |-> Functions4, later |-> Functions4 \ {x}, calls |-> {c \in C : c.from # x.id}] :
            x \in Functions4, C \in SomeCalls}

MCStrings == STRING
MCFiles == Documents \cup Sources
MCCollections == {D \in SUBSET Docs : Cardinality(D) <= 6}

=============================================================================
