\* A buffer holds two short lines or one long one; a batch may hold three buffers.
SPECIFICATION FairSpec
CONSTANTS
    Capacity = 3
    MaxBuffers = 3
    Sizes <- ThreeSizes
    MaxLines = 5
INVARIANTS
    AssertsHold
    LinesInOrder
PROPERTIES
    LineIsFlushed
\* The back end stops.
CHECK_DEADLOCK FALSE
