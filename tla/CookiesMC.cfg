SPECIFICATION Spec
CONSTANTS
    Hosts <- Hosts3
    Paths <- Paths2
    SetCookies <- SetCookiesOfExample
    MaxHeaders = 2
    MaxResponses = 2
    MaxTime = 3
INVARIANTS
    SentIsLatest
    FreshIsSent
CHECK_DEADLOCK FALSE
