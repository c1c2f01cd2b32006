SPECIFICATION FairSpec
CONSTANTS
    Phases <- FlatThenRamps
    WorkerNum = 2
    Limits = {0, 2}
    MaxBlock = 1
    MaxStep = 5
INVARIANTS
    TypeOK
    EventsAccounted
    ReportsInStep
    RampInRange
    SharesAddUp
    LimitHonoured
PROPERTIES
    ImplementsLoadTest
    TestEnds
CHECK_DEADLOCK FALSE
