SPECIFICATION Spec
CONSTANTS
\* Up to three requests, of any kind, read in any pieces.
    Kinds <- MCKinds
    MaxRequests = 3
    PageRoutes <- MCPages
    FileRoutes <- MCFiles
\* The prepend area and the vector are small enough for growing, moving and both in one read.
    CheapPrepend = 2
    InitialBytes = 3
    ExtraSize = 4
    Modulus = 64
    MaxAdded = 12
\* One slice of 2 for three keys, one for a single key; the sentinel is as low as the
\* limit of the average lets it be.
    Keys <- MCKeys
    Hash <- MCHash
    Values = {v, w}
    CacheCapacity = 3
    SliceNum = 2
    MaxAverage = 3
    NoMinimum = 4
    MaxTotal = 9
\* Two connections, four borrowers: two may sleep while two return.
    Threads = {t1, t2, t3, t4}
    InitialSize = 2
    MaxMade = 4
    ExitWaits = TRUE
\* Days of four seconds; a stream takes 4 bytes and a check every third line.
    Sizes = {1, 3}
    RollSize = 4
    FlushInterval = 1
    CheckEveryN = 3
    RollPerSeconds = 4
    Start = 4
    Finish = 10
    MaxBytes = 9
\* Texts, numbers and booleans, until the buffer of the line is full, and a little past that.
    Size = 10
    NumericSize = 5
    HeaderSizes <- Header
    NameSize = 1
    LineNumber = 42
    TextSizes <- Short
    Numbers <- Bytes
    Booleans = {FALSE, TRUE}
    MaxCells = 11
    MaxLines = 1
SYMMETRY Symmetry
INVARIANTS
    HandedAsSent
    AnsweredInOrder
    BytesInOrder
    IndexesAgree
    MinFreqIsLeast
    Exclusive
    CountsAgree
    NoWaiterForgotten
    
PROPERTIES
    ImplementsCache
    ChecksFlush
\* The bounds end every behaviour.
CHECK_DEADLOCK FALSE
