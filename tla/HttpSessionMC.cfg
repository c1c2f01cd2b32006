\* Two uthreads of a user, as many descriptors, and one call more.
SPECIFICATION FairSpec
CONSTANTS
    Uthreads = {u1, u2}
    MaxFd = 2
    MaxCalls = 3
INVARIANTS
    TypeOK
    ConnectionsExclusive
    NoDescriptorLost
    ConnCounter
    FreeConnsQuiet
    CallGetsItsOwn
PROPERTIES
    CallsReturn
\* All functions may have returned, or the process ended.
CHECK_DEADLOCK FALSE
