---------------------------- MODULE MCTcpServer ----------------------------
(* Model-checking instance of TcpServer.                                   *)
EXTENDS TcpServer

CONSTANTS io1, io2, null

TwoConns == {acceptor} \cup 1 .. 2
ThreeFds == 0 .. 2          \* the listening socket and two others
OneThread == <<io1>>
TwoThreads == <<io1, io2>>
Quiet == {{}}               \* callbacks only read
QuietOrBusy == {{}, {"shutdown", "sendToOther"}}
=============================================================================
