\* Safety, refinement and liveness: two foreign threads, three functors.
SPECIFICATION FairSpec
CONSTANTS
    a = a
    b = b
    t1 = t1
    t2 = t2
    t3 = t3
    Threads <- TwoThreads
    Tasks <- ThreeTasks
INVARIANTS
    NoLostWakeup
PROPERTIES
    ImplementsTaskQueue
    QueuedRuns
    EarlyRuns
    QuitStops
\* loop() returns after a quit, and then nothing is left to do.
CHECK_DEADLOCK FALSE
