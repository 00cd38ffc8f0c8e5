---------------------------- MODULE MCEventLoop ----------------------------
(* Model-checking instance of EventLoop.                                   *)
EXTENDS EventLoop, TLC

CONSTANTS a, b, t1, t2, t3

TwoThreads == {a, b}
ThreeTasks == {t1, t2, t3}
=============================================================================
