SPECIFICATION Spec
CONSTANTS
    MaxId = 3
    MaxFuns = 2
    Worker = TRUE
INVARIANTS
    InterruptIsGraceful
CHECK_DEADLOCK FALSE
