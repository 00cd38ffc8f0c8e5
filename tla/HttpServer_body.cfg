\* Two requests, read in any pieces.
CONSTANTS
    Kinds <- MCFormOrPage
    MaxRequests = 2
    PageRoutes <- MCPages
    FileRoutes <- MCFiles
SPECIFICATION HttpSpec
\* The client has sent everything.
CHECK_DEADLOCK FALSE
INVARIANT
    BodyAsSent
