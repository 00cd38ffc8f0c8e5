--------------------------- MODULE MCAsyncLogger ---------------------------
(* Model-checking instance of AsyncLogger.                                 *)
EXTENDS AsyncLogger

\* A line that leaves room for another, one that does not, and one that no
\* buffer can hold.
ThreeSizes == {1, 2, 3}
=============================================================================
