---------------------------- MODULE MCRpcChannel ----------------------------
(* RpcChannel for TLC. *)
EXTENDS RpcChannel
==============================================================================
