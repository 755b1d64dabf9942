SPECIFICATION FairSpec
CONSTANTS
    Garbage = Garbage
    SOCKETS = {1, 2, 3}
INVARIANTS
    TypeOK
    PollsOpenHandlesOnly
    ClosedMeansEnded
PROPERTIES
    NoHandleServedTwice
    HeardUnderChurn
CHECK_DEADLOCK FALSE
