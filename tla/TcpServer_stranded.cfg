\* Is every connection told that it goes down, when the server is destroyed?
SPECIFICATION Spec
CONSTANTS
    acceptor = acceptor
    listenFd = 0
    base = base
    io1 = io1
    io2 = io2
    null = null
    Chans <- TwoConns
    Fds <- ThreeFds
    NoChan = null
    IOLoops <- OneThread
    ThreadNums = {1}
    Uses <- Quiet
    Quits = TRUE
INVARIANTS
    DownBeforeDestroyed
\* A failed assertion, or the end of the destructor, ends the program.
CHECK_DEADLOCK FALSE
