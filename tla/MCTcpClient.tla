----------------------------- MODULE MCTcpClient -----------------------------
(* TcpClient for TLC. *)
EXTENDS TcpClient
==============================================================================
