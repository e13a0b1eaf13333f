----------------------------- MODULE MCWatcher -----------------------------
(* The small instance of Watcher for TLC. *)
EXTENDS Watcher

=============================================================================
