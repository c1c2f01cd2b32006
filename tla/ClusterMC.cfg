\* Three workers, each fresh or left over from an earlier test.
SPECIFICATION FairSpec
CONSTANTS
    Workers = {w1, w2, w3}
INVARIANTS
    TypeOK
    FailureHasCause
    CountsUnfinished
    OrphansHaveLostManager
PROPERTIES
    ImplementsTestRun
    NoStrandedTest
    ManagerEnds
\* The processes end; a worker that nobody contacts waits for ever.
CHECK_DEADLOCK FALSE
