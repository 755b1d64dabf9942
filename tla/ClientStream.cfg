SPECIFICATION FairSpec
CONSTANTS
    BufferSize = 3
    MaxSent = 5
    MaxReceived = 5
INVARIANTS
    TypeOK
    WriteBufferIsUnsentStream
    ReadBufferIsUnreadStream
PROPERTIES
    UnsentIsFlushed
    SendsInOrder
    ReadsInOrder
CHECK_DEADLOCK FALSE
