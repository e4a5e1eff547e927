----------------------------- MODULE MCTcpClient ------------------------------
(* TcpClient with a cap of the backoff that is no power of two, passes of the  *)
(* loop that may skip a second, and a timeout of a few passes.                 *)
EXTENDS TcpClient
=============================================================================
