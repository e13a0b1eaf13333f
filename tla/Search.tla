------------------------------- MODULE Search -------------------------------
(***************************************************************************)
(* Semantic search (internal/search, Store.Query), the search tool that    *)
(* merges code and documentation, and find_symbol (internal/mcp).          *)
(*                                                                         *)
(* A document is a stored chunk and its entry in the symbol index:         *)
(*   proj, lang  its project and language,                                 *)
(*   path        the segments of its path,                                 *)
(*   place       what path, first and last line tell apart,                *)
(*   sim         its similarity to the query, in hundredths,               *)
(*   hit         what contains the text of the query: symbol, path, none,  *)
(*   name        its symbol is, contains or has not the name looked for,   *)
(*   loaded      its entry in the symbol index is from the table.          *)
(* An argument that is a filter is a set of at most one value; none is no  *)
(* filter.  The operators return the set of the possible answers.          *)
(***************************************************************************)
EXTENDS Ranking

CONSTANT Strings  \* the values of names, languages and the segments of paths

ASSUME MarkdownIsString == "markdown" \in Strings

Document ==
    [proj : Strings, path : Seq(Strings), lang : Strings, place : Nat, sim : Int,
     hit : {"symbol", "path", "none"}, name : {"is", "has", "not"}, loaded : BOOLEAN]
Argument ==
    [proj : SUBSET Strings, lang : SUBSET Strings, path : SUBSET Seq(Strings),
     source : {"all", "code", "docs"}]

Boost == [symbol |-> 10, path |-> 5, none |-> 0]
Score(d) == d.sim + Boost[d.hit]
Scores(S) == [d \in S |-> Score(d)]

Allows(filter, value) == \A f \in filter : f = value
UnderPath(filter, path) == \A root \in filter : IsPrefix(root, path)

\* mutant: the path does not widen the query.
Limit_Fixed(args, k) == k

\* The store is asked for more than are returned: it knows neither boosts nor paths.
Limit(args, k) == IF args.path = {} THEN 2 * k ELSE 4 * k

Hits(docs, args) == {d \in docs : Allows(args.proj, d.proj) /\ Allows(args.lang, d.lang)}

\* Store.Query
Query(docs, args, n) ==
    LET hits == Hits(docs, args) IN Top(hits, [d \in hits |-> d.sim], n)

\* Engine.Search
SearchFor(docs, args, k) ==
    LET Under(raw) == {d \in raw : UnderPath(args.path, d.path)}
    IN  UNION {Ranked(Under(raw), Scores(Under(raw)), k) : raw \in Query(docs, args, Limit(args, k))}

\* deduplicateUnifiedResults keeps the first result of a place.
Deduplicate(results) ==
    LET Seen(i) == \E h \in 1..(i - 1) : results[h].place = results[i].place
    IN  {results[i] : i \in {j \in DOMAIN results : ~Seen(j)}}

\* The two searches that a source stands for; documentation has a language of
\* its own, whichever was asked for.
CodeResults(docs, args, k) ==
    IF args.source = "docs" THEN {<<>>} ELSE SearchFor(docs, args, k)
DocsResults(docs, args, k) ==
    IF args.source = "code" THEN {<<>>} ELSE SearchFor(docs, [args EXCEPT !.lang = {"markdown"}], k)

\* mutant: the documentation is only asked for what the code left free.
UnifiedSearch_CutFirst(docs, args, k) ==
    LET Cut(results) == SubSeq(results, 1, IF Len(results) < k THEN Len(results) ELSE k)
        Merge(kept) == Ranked(kept, Scores(kept), k)
    IN  UNION {Merge(Deduplicate(Cut(c \o d))) :
                  c \in CodeResults(docs, args, k), d \in DocsResults(docs, args, k)}

UnifiedSearch(docs, args, k) ==
    LET Merge(kept) == Ranked(kept, Scores(kept), k)
    IN  UNION {Merge(Deduplicate(c \o d)) :
                  c \in CodeResults(docs, args, k), d \in DocsResults(docs, args, k)}

\* What the symbol index tells of a document: the table has no projects.
Location(d) == [doc |-> d, proj |-> IF d.loaded THEN {} ELSE {d.proj}, lang |-> d.lang]

\* Lookup, and SearchFuzzy if it finds nothing.
Matches(docs) ==
    LET exact == {d \in docs : d.name = "is"}
    IN  IF exact # {} THEN exact ELSE {d \in docs : d.name # "not"}

\* mutant: a location without a project passes the filter.
FilterLocations_Unknown(locations, args) ==
    {l \in locations : (l.proj = {} \/ args.proj \subseteq l.proj) /\ Allows(args.lang, l.lang)}

\* filterSymbolLocations
FilterLocations(locations, args) ==
    {l \in locations : args.proj \subseteq l.proj /\ Allows(args.lang, l.lang)}

\* findSymbolSemantic; its query, "function or type named ...", gives no boost.
FindSemantic(docs, args, k) ==
    {{d \in ToSet(s) : d.name # "not"} :
        s \in SearchFor({[d EXCEPT !.hit = "none"] : d \in docs}, [args EXCEPT !.path = {}], k)}

FindSymbol(docs, args, k) ==
    LET kept == FilterLocations({Location(d) : d \in Matches(docs)}, args)
    IN  IF kept # {} THEN {{[l.doc EXCEPT !.hit = "none"] : l \in kept}}
                     ELSE FindSemantic(docs, args, k)

\* What the answers promise.

\* A document that was asked for is missing from an answer only for k others
\* that score no worse, if its similarity is among the best 2k (4k under a path).
MissesOnlyTheFarOnes(docs, args, k, answer) ==
    LET Wanted(d) == d \in Hits(docs, args) /\ UnderPath(args.path, d.path)
        near(d) == {e \in Hits(docs, args) \ {d} : e.sim >= d.sim}
        wide == IF args.path = {} THEN 2 * k ELSE 4 * k
    IN  /\ \A i \in DOMAIN answer : Wanted(answer[i])
        /\ \A d \in docs \ ToSet(answer) :
              Wanted(d) => \/ Cardinality(near(d)) >= wide
                           \/ Len(answer) = k /\ \A i \in 1..k : Score(answer[i]) >= Score(d)

\* Whatever one of the two searches finds is in the merged answer, or another
\* result of the same place, or the answer is full of better ones; no place twice.
\* The exception: of different chunks at one place the merge knows only the one
\* that the search of code found, although that of documentation may be better.
MergeLosesNothing(docs, args, k, answer) ==
    /\ \A i, j \in DOMAIN answer : answer[i].place = answer[j].place => i = j
    /\ \E c \in CodeResults(docs, args, k), d \in DocsResults(docs, args, k) :
          \A r \in ToSet(c \o d) :
             \/ \E i \in DOMAIN answer : answer[i].place = r.place
             \/ Len(answer) = k /\ \A i \in 1..k : Score(answer[i]) >= Score(r)
             \/ r \notin ToSet(c) /\ \E q \in ToSet(c) : q.place = r.place

\* The answer is of the project asked for, and has every definition of the name
\* in it but those that were loaded from the table, which lost their project.
FindsWhatIsThere(docs, args, answer) ==
    LET Wanted(d) == Allows(args.proj, d.proj) /\ Allows(args.lang, d.lang)
    IN  /\ \A d \in answer : Wanted(d) /\ d.name # "not"
        /\ \A d \in docs : Wanted(d) /\ d.name = "is" /\ (args.proj = {} \/ ~d.loaded)
                              => [d EXCEPT !.hit = "none"] \in answer
=============================================================================
