\* No I/O thread or two; message callbacks that only read, and others that end connections,
\* their own or another one; the server may be quit and destroyed at any moment.
SPECIFICATION FairSpec
CONSTANTS
    acceptor = acceptor
    listenFd = 0
    base = base
    io1 = io1
    io2 = io2
    null = null
    Chans <- TwoConns
    Fds <- ThreeFds
    NoChan = null
    IOLoops <- TwoThreads
    ThreadNums = {0, 2}
    Uses <- QuietOrBusy
    Quits = TRUE
INVARIANTS
    PollerAssertsHold
    DownWhileRunning
    NoDanglingChannel
    ReusedFdIsClean
PROPERTIES
    ClosedIsReclaimed
    DestructorCompletes
\* A failed assertion, or the end of the destructor, ends the program.
CHECK_DEADLOCK FALSE
