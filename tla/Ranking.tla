------------------------------ MODULE Ranking ------------------------------
(***************************************************************************)
(* The idiom of every list the program returns: sort.Slice by a value, and *)
(* cut.  The sort is not stable and the lists come out of maps, so that    *)
(* any choice among elements of equal value is possible.                   *)
(***************************************************************************)
EXTENDS Integers, Sequences, FiniteSets, SequencesExt

\* The sets that the n elements of S with the largest values may be.
Top(S, value, n) ==
    {T \in kSubset(IF n < Cardinality(S) THEN n ELSE Cardinality(S), S) :
        \A t \in T, s \in S \ T : value[t] >= value[s]}

\* The sequences that they may be returned as.
Ranked(S, value, n) ==
    {s \in UNION {SetToSeqs(T) : T \in Top(S, value, n)} :
        \A i, j \in DOMAIN s : i < j => value[s[i]] >= value[s[j]]}
=============================================================================
