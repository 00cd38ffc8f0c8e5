------------------------- MODULE MCEventLoopThread -------------------------
(* Model-checking instance of EventLoopThread.                             *)
EXTENDS EventLoopThread

CONSTANTS a, t1, t2

TwoThreads == {owner, a}
TwoTasks == {t1, t2}
=============================================================================
