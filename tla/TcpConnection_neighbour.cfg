\* The handler of another channel of the same loop sends.
SPECIFICATION Spec
CONSTANTS
    w = w
    Workers <- NoWorkers
    WorkerCalls <- NoCalls
    NeighbourCalls <- SendOnly
    SameLoop = FALSE
    Sizes <- One
    MaxSends = 2
    MaxData = 1
    SndBuf = 1
    HighWaterMark = 1
INVARIANT
    PollerAssertsHold
\* The bounded environment may have nothing left to do, and a failed assertion
\* ends the program.
CHECK_DEADLOCK FALSE
