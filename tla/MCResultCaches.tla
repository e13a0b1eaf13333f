-------------------------- MODULE MCResultCaches --------------------------
(* The small instance of ResultCaches for TLC. *)
EXTENDS ResultCaches, TLC

Symmetry == Permutations(Clients) \cup Permutations(Projects)

\* Two requests compute at once beside one event; a second event combines with
\* the first one while at most one request computes.
OnePairAtATime == events < 2 \/ \E c \in Clients : \A d \in Clients \ {c} : call[d] = Idle

=============================================================================
