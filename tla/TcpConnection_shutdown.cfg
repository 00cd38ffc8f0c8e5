\* shutdown() while output is waiting.
SPECIFICATION FairSpec
CONSTANTS
    w = w
    Workers <- NoWorkers
    WorkerCalls <- NoCalls
    NeighbourCalls <- NoCalls
    SameLoop = FALSE
    Sizes <- OneTwo
    MaxSends = 2
    MaxData = 1
    SndBuf = 1
    HighWaterMark = 1
PROPERTY
    ShutdownCompletes
\* The bounded environment may have nothing left to do, and a failed assertion
\* ends the program.
CHECK_DEADLOCK FALSE
