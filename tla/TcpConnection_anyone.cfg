\* Any call from a worker and from a neighbour, with no discipline at all.
SPECIFICATION Spec
CONSTANTS
    w = w
    Workers <- OneWorker
    WorkerCalls <- AllCalls
    NeighbourCalls <- AllCalls
    SameLoop = TRUE
    Sizes <- OneTwo
    MaxSends = 2
    MaxData = 1
    SndBuf = 1
    HighWaterMark = 1
INVARIANTS
    StreamIntact
    PendingIsExact
    OutputIsWatched
\* The bounded environment may have nothing left to do, and a failed assertion
\* ends the program.
CHECK_DEADLOCK FALSE
