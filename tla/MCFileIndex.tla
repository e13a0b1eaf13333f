---------------------------- MODULE MCFileIndex ----------------------------
(* The small instances of FileIndex for TLC. *)
EXTENDS FileIndex, TLC

\* No file is ignored, or one.
NoneOrOne == {S \in SUBSET Files : Cardinality(S) <= 1}

\* Files and contents are interchangeable.
Symmetry == Permutations(Files) \cup Permutations(Contents)

=============================================================================
