--------------------------- MODULE MCDataDirLock ---------------------------
(* The small instance of DataDirLock for TLC. *)
EXTENDS DataDirLock

=============================================================================
