SPECIFICATION FairTestServerSpec
CONSTANTS
    NULL = NULL
    Garbage = Garbage
    c1 = c1
    c2 = c2
    c3 = c3
    MaxPoll = 1024
    SOCKETS <- ThreeSockets
    CLIENTS = {c1, c2, c3}
    SERVERS = {s1}
    TIMERS = {1}
    Delays = {1}
    TicksPerMs = 1
    MaxNow = 1
    Epoch = 5
    ClockSettings = {}
    MaxGained = 0
    LongMod = 32
    U64Mod = 64
INVARIANTS
    SetBeforeUsed
PROPERTIES
    ImplementsTorpClass
    NoDescriptorServedTwice
    HealthyClientsStay
    PassEnds
    EndedConnectionIsClosed
    TimerFires
CHECK_DEADLOCK FALSE
