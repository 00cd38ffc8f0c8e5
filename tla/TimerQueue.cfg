\* Two timers that fire once and one that is repeated, set for any of four times.
SPECIFICATION FairSpec
CONSTANTS
    once = once
    again = again
    often = often
    Timers <- ThreeTimers
    Interval <- Intervals
    Times <- Soon
    Horizon = 5
INVARIANTS
    NoTimerLost
    OnSchedule
    ArmedForEarliest
PROPERTIES
    DueIsCalled
\* The wall clock stops.
CHECK_DEADLOCK FALSE
