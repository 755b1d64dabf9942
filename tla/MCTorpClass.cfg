SPECIFICATION TorpSpec
CONSTANTS
    NULL = NULL
    Garbage = Garbage
    c1 = c1
    c2 = c2
    MaxPoll = 1024
    SOCKETS <- TwoSockets
    CLIENTS = {c1, c2}
    SERVERS = {s1}
    TIMERS = {1}
    Delays = {1}
    TicksPerMs = 1
    MaxNow = 1
    Epoch = 7
    ClockSettings = {8}
    MaxGained = 1
    LongMod = 16
    U64Mod = 32
INVARIANTS
    TorpTypeOK
    FiredBeforePolling
    TimersAreKept
PROPERTIES
    ImplementsConnManager
    ImplementsTimerManager
VIEW View
SYMMETRY Symmetry
CHECK_DEADLOCK FALSE
