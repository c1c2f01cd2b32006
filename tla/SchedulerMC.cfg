\* A worker process: the Acceptor, a handler, the launcher and a user, or a
\* user with up to two parallel() functions.
SPECIFICATION Spec
CONSTANTS
    MaxId = 4
    MaxFuns = 2
    Worker = TRUE
CONSTRAINT OneLeftOver
INVARIANTS
    TypeOK
    QueueMatchesIds
    WaitersAreWoken
    JoinCounters
    StrandedJoinWasInstant
    FlaggedEnd
    ParallelWaitsForAll
\* The process may have ended, or every uthread of it.
CHECK_DEADLOCK FALSE
