\* Liveness, in a worker process of three uthreads and one parallel() function.
SPECIFICATION FairSpec
CONSTANTS
    MaxId = 3
    MaxFuns = 1
    Worker = TRUE
PROPERTIES
    RegisteredRun
    TimedCallsReturn
\* The process may have ended, or every uthread of it.
CHECK_DEADLOCK FALSE
