SPECIFICATION FairTestClientSpec
CONSTANTS
    NULL = NULL
    Garbage = Garbage
    c1 = c1
    c2 = c2
    MaxPoll = 1024
    SOCKETS <- TwoSockets
    CLIENTS = {c1, c2}
    SERVERS = {}
    TIMERS = {}
    Delays = {}
    TicksPerMs = 1
    MaxNow = 1
    Epoch = 5
    ClockSettings = {}
    MaxGained = 0
    LongMod = 32
    U64Mod = 64
PROPERTIES
    ImplementsTorpClass
    ReadsFindWhatWasReported
    EndIsNoticed
CHECK_DEADLOCK FALSE
