----------------------------- MODULE MCProjects -----------------------------
(* The small instances of Projects for TLC. *)
EXTENDS Projects

=============================================================================
