SPECIFICATION Spec
CONSTANTS
    NULL = NULL
    Garbage = Garbage
    TIMERS = {1, 2, 3}
    Delays = {0, 1, 2}
    TicksPerMs = 1
    MaxNow = 4
    Epoch = 5
    ClockSettings = {}
    MaxGained = 0
    LongMod = 32
    U64Mod = 64
PROPERTIES
    DeletedTimerStaysQuiet
CHECK_DEADLOCK FALSE
