---------------------------- MODULE MCTimerQueue ----------------------------
(* Model-checking instance of TimerQueue.                                  *)
EXTENDS TimerQueue, TLC

CONSTANTS once, again, often

ThreeTimers == {once, again, often}
Intervals == (once :> 0) @@ (again :> 0) @@ (often :> 2)
Soon == 0 .. 3
=============================================================================
