SPECIFICATION Spec
CONSTANTS
    BufferSize = 3
    MaxSent = 5
    MaxReceived = 5
INVARIANTS
    NeverKilled
CHECK_DEADLOCK FALSE
