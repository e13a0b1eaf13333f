------------------------------ MODULE Chunker ------------------------------
(***************************************************************************)
(* How a file becomes chunks (internal/chunker).  A line is its length in  *)
(* bytes; a text is the sequence of its lines.  A file is                  *)
(*   lines  its text,                                                      *)
(*   heads  of a markdown file: the lines at which a heading begins,       *)
(*   nodes  of a parsed file: its syntax tree below the root in preorder,  *)
(*          each with its parent (0 is the root), its kind, and the lines  *)
(*          of its text, taken as whole lines.  Empty, too, when there is  *)
(*          no parser or it fails.                                         *)
(* Names, signatures and hashes are left out: a chunk names its symbol by  *)
(* the node, and 0 stands for a section or a whole file.  The order of the *)
(* chunks of a file is that of their lines, and nobody uses it.            *)
(***************************************************************************)
EXTENDS Integers, Sequences, FiniteSets, FiniteSetsExt

CONSTANT MaxChunkChars  \* the largest text that is not split

File ==
    [lang : {"markdown", "other"}, lines : Seq(Nat), heads : SUBSET Nat,
     nodes : Seq([up : Nat, kind : {"symbol", "call", "other"}, from : Nat, to : Nat])]

\* A text has a line, and headings begin at lines.  A node comes after its parent
\* and lies within it.
IsFile(f) ==
    /\ f \in File /\ f.lines # <<>> /\ f.heads \subseteq DOMAIN f.lines
    /\ \A i \in DOMAIN f.nodes :
          LET n == f.nodes[i] IN
          /\ 1 <= n.from /\ n.from <= n.to /\ n.to <= Len(f.lines) /\ n.up < i
          /\ n.up # 0 => f.nodes[n.up].from <= n.from /\ n.to <= f.nodes[n.up].to

\* The bytes of the first lines of a text, with the ends of lines.
Bytes(lines) ==
    LET bytes[i \in 0..Len(lines)] == IF i = 0 THEN 0 ELSE bytes[i - 1] + lines[i] + 1
    IN  bytes

TextLen(lines) == Bytes(lines)[Len(lines)] - 1

Chunk(lines, from, to, node, calls) ==
    [lines |-> lines, start |-> from, end |-> to, node |-> node, calls |-> calls]

WholeFile(f) == Chunk(f.lines, 1, Len(f.lines), 0, {})

\* The section of a heading goes on to the next one: its last line is the empty
\* beginning of the line of that heading.
Section(f, head) ==
    LET later == {h \in f.heads : h > head}
        next == Min(later)
    IN  IF later = {} THEN Chunk(SubSeq(f.lines, head, Len(f.lines)), head, Len(f.lines), 0, {})
                      ELSE Chunk(Append(SubSeq(f.lines, head, next - 1), 0), head, next, 0, {})

ChunkMarkdown(f) == IF f.heads = {} THEN {WholeFile(f)} ELSE {Section(f, h) : h \in f.heads}

\* The nodes on the way from a node to the root: those that are in every set to
\* which the parent of the node belongs, and with a node its parent.
Above(f, node) ==
    LET Goes(S) == \A i \in S \cup {node} : f.nodes[i].up \in S \cup {0}
    IN  {j \in DOMAIN f.nodes : \A S \in SUBSET DOMAIN f.nodes : Goes(S) => j \in S}

Symbols(f) == {i \in DOMAIN f.nodes : f.nodes[i].kind = "symbol"}

\* mutant: the search for symbols goes on inside a symbol.
Outermost_Nested(f) == Symbols(f)

\* collectSymbols does not descend into a symbol that it has found.
Outermost(f) == {i \in Symbols(f) : Above(f, i) \cap Symbols(f) = {}}

\* Every call below a node, those of nested symbols too.
WalkCalls(f, node) == {i \in DOMAIN f.nodes : f.nodes[i].kind = "call" /\ node \in Above(f, i)}

ChunkSymbols(f) ==
    LET Build(i) == Chunk(SubSeq(f.lines, f.nodes[i].from, f.nodes[i].to),
                          f.nodes[i].from, f.nodes[i].to, i, WalkCalls(f, i))
    IN  IF Outermost(f) = {} THEN {WholeFile(f)} ELSE {Build(i) : i \in Outermost(f)}

\* mutant: the line that did not fit is not counted.
NextStart_SkipsLine(c, taken) == taken + c.start + 1

\* The line at which the next piece starts when that many lines are taken.
NextStart(c, taken) == taken + c.start

\* For every line the first one of its piece: the line that would make the piece
\* too long starts another.
Begins(lines) ==
    LET begin[i \in 1..Len(lines)] ==
            IF i = 1 THEN 1
            ELSE IF Bytes(lines)[i] - Bytes(lines)[begin[i - 1] - 1] > MaxChunkChars THEN i
                 ELSE begin[i - 1]
    IN  begin

SplitChunk(c) ==
    LET begin == Begins(c.lines)
        n == Len(c.lines)
        Piece(a, b) ==
            Chunk(SubSeq(c.lines, a, b), NextStart(c, a - 1), b + c.start - 1, c.node, c.calls)
        Ends(b) == b = n \/ begin[b + 1] # begin[b]
    IN  {Piece(begin[b], b) : b \in {i \in 1..n : Ends(i)}}

SplitLargeChunks(chunks) ==
    UNION {IF TextLen(c.lines) <= MaxChunkChars THEN {c} ELSE SplitChunk(c) : c \in chunks}

ChunkFile(f) ==
    SplitLargeChunks(IF f.lang = "markdown" THEN ChunkMarkdown(f) ELSE ChunkSymbols(f))

\* What chunkFile promises of the chunks of f.

\* A chunk is the text of the lines that it names, and too long only if it is
\* one line.  (The last line of a section is only the beginning of its line.)
ChunkIsItsLines(f, c) ==
    /\ c.start >= 1 /\ c.end <= Len(f.lines) /\ Len(c.lines) = c.end - c.start + 1
    /\ \A i \in DOMAIN c.lines :
          \/ c.lines[i] = f.lines[c.start + i - 1]
          \/ i = Len(c.lines) /\ c.lines[i] = 0 /\ c.end \in f.heads
    /\ TextLen(c.lines) <= MaxChunkChars \/ Len(c.lines) = 1

\* Only what stands before the first heading, or outside of every symbol of a
\* file that has one, is in no chunk.
LineIsCovered(f, chunks, n) ==
    \/ \E c \in chunks : n \in c.start..c.end
    \/ f.lang = "markdown" /\ f.heads # {} /\ \A h \in f.heads : n < h
    \/ /\ f.lang # "markdown" /\ Symbols(f) # {}
       /\ \A j \in Symbols(f) : n \notin f.nodes[j].from..f.nodes[j].to

\* A call inside of symbols is recorded for one of them, and by every piece of it.
CallHasOneCaller(f, chunks, call) ==
    LET callers == {c \in chunks : call \in c.calls}
        inside == Above(f, call) \cap Symbols(f)
    IN  /\ \A c, d \in callers : c.node = d.node
        /\ \A c \in chunks : c.node \in inside => c \in callers
        /\ (inside # {}) = (callers # {})
=============================================================================
