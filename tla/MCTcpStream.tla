----------------------------- MODULE MCTcpStream -----------------------------
(* One stream; its constants are numbers, given in the configurations. *)
EXTENDS TcpStream
=============================================================================
