SPECIFICATION FairSpec
CONSTANTS
    NULL = NULL
    Garbage = Garbage
    TIMERS = {1, 2, 3}
    Delays = {1}
    TicksPerMs = 2
    MaxNow = 2
    Epoch = 1
    ClockSettings = {0, 3}
    MaxGained = 3
    LongMod = 32
    U64Mod = 64
INVARIANTS
    TypeOK
    NoTimerIsLost
    FiresAtMostOnce
    NeverEarly
PROPERTIES
    ImplementsTimerService
    EveryTimerFires
CHECK_DEADLOCK FALSE
