----------------------------- MODULE MCJobQueue -----------------------------
(* The small instances of JobQueue for TLC. *)
EXTENDS JobQueue

=============================================================================
