---------------------------- MODULE MCTcpServer ----------------------------
(* Instances of TcpServer for TLC. *)
EXTENDS TcpServer, TLC

CONSTANTS w1, w2, c1, c2

MCWorker == {w1, w2}
MCConn == {c1, c2}

Symmetric == Permutations(MCWorker) \cup Permutations(MCConn)
=============================================================================
