\* The API is used on the loop thread only: from the connection's own callbacks,
\* and shutdown() from other handlers too.
SPECIFICATION FairSpec
CONSTANTS
    w = w
    Workers <- NoWorkers
    WorkerCalls <- NoCalls
    NeighbourCalls <- ShutdownOnly
    SameLoop = FALSE
    Sizes <- OneTwo
    MaxSends = 2
    MaxData = 1
    SndBuf = 2
    HighWaterMark = 1
INVARIANTS
    FinAfterData
    CallbackProtocol
    PollerAssertsHold
PROPERTIES
    OutputDrains
    ClosedIsDestroyed
\* The bounded environment may have nothing left to do, and a failed assertion
\* ends the program.
CHECK_DEADLOCK FALSE
