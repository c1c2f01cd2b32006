SPECIFICATION Spec
CONSTANTS
    Uthreads = {u1, u2}
    MaxFd = 2
    MaxCalls = 3
INVARIANTS
    OwnResponse
CHECK_DEADLOCK FALSE
