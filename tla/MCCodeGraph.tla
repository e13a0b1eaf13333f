---------------------------- MODULE MCCodeGraph ----------------------------
(* The small instances of CodeGraph for TLC. *)
EXTENDS CodeGraph

OneFile == {CHOOSE f \in Files : TRUE}

\* With Loop in one file and Bridge in the other, g is two hops from main by way
\* of the f of one file, and three by way of the other f and the other main.
Chunk(s, C) == [symbol |-> s, calls |-> C]
Loop == <<Chunk("main", {"f"}), Chunk("f", {"main"}), Chunk("g", {})>>
Bridge == <<Chunk("main", {"g"}), Chunk("f", {"g"})>>
TwoContents == {Loop, Bridge}

Ask(s, t, S, d) == [from |-> s, to |-> t, scope |-> S, depth |-> d]
SomeQueries ==
    {Ask("main", "g", OneFile, 9), Ask("main", "g", Files, 0), Ask("f", "f", OneFile, 0)}

=============================================================================
