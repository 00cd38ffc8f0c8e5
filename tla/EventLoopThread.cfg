\* The owner destroys the thread at any time.
SPECIFICATION ThreadSpec
CONSTANTS
    owner = owner
    a = a
    t1 = t1
    t2 = t2
    Threads <- TwoThreads
    Tasks <- TwoTasks
INVARIANTS
    StartLoopIsReady
    NoThreadLeftBehind

    
\* Once destroyed nothing is left to do.
CHECK_DEADLOCK FALSE
