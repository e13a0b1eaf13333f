-------------------------- MODULE MCEmbedBatches --------------------------
(* The small instance of EmbedBatches for TLC. *)
EXTENDS EmbedBatches

=============================================================================
