-------------------------- MODULE MCTcpConnection --------------------------
(* Model-checking instance of TcpConnection.                               *)
EXTENDS TcpConnection

CONSTANT w

NoWorkers == {}
OneWorker == {w}
NoCalls == {}
SendOnly == {"send"}
ShutdownOnly == {"shutdown"}
AllCalls == Calls
OneTwo == {1, 2}
One == {1}
=============================================================================
