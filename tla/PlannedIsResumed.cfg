SPECIFICATION Spec
CONSTANTS
    MaxId = 3
    MaxFuns = 2
    Worker = FALSE
INVARIANTS
    PlannedIsResumed
CHECK_DEADLOCK FALSE
