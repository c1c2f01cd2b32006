SPECIFICATION FairSpec
CONSTANTS
    MaxLength = 2
    Responses <- All
    Chunk = 7
    MaxRequests = 2
    MaxExtra = 1
    Unasked <- Unbidden
INVARIANTS
    ReceivedInOrder
    CrashHasCause
PROPERTY TimedReceiveReturns
CHECK_DEADLOCK FALSE
