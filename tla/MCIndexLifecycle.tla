------------------------- MODULE MCIndexLifecycle -------------------------
(* The small instances of IndexLifecycle for TLC. *)
EXTENDS IndexLifecycle

TwoProjects == {"a", "b"}

=============================================================================
