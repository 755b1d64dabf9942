SPECIFICATION Spec
CONSTANTS
    NULL = NULL
    Garbage = Garbage
    c1 = c1
    c2 = c2
    c3 = c3
    MaxPoll = 1024
    SOCKETS <- ThreeSockets
    CLIENTS = {c1, c2, c3}
    SERVERS = {s1}
VIEW View
SYMMETRY Symmetry
INVARIANTS
    TypeOK
    DispatchTargetsLiveClient
    CallbackClientIsLive
    SocketsOwnedOnce
    RegistryMatchesSockets
    PollArrayListsRegistry
    ClientMapIsExact
PROPERTIES
    ImplementsConnService
CHECK_DEADLOCK FALSE
