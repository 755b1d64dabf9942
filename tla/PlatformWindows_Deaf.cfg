SPECIFICATION FairSpec
CONSTANTS
    Garbage = Garbage
    SOCKETS = {1, 2}
PROPERTIES
    ReadableIsCalled
CHECK_DEADLOCK FALSE
