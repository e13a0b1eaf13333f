---------------------------- MODULE MCRpcClient ----------------------------
(* The small instance of RpcClient for TLC. *)
EXTENDS RpcClient

=============================================================================
