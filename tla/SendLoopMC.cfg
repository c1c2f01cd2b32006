\* Two messages of up to four bytes: the second starts after every way in
\* which the first can have been cut.
SPECIFICATION FairSpec
CONSTANTS
    MaxLen = 4
    MaxMessages = 2
INVARIANTS
    PositionMatchesWire
    NoWatcherLeft
PROPERTIES
    StreamSpec
    BlockedSendEnds
\* The connection may be idle, or the process may have ended.
CHECK_DEADLOCK FALSE
