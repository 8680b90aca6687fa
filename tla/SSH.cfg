SPECIFICATION FairSpec
CONSTANTS
    Requests <- AllRequests
    Ftp <- FtpRequests
    Timed <- TimedRequests
    OneAtATime = TRUE
    MaxAttempts = 3
INVARIANTS
    TypeOK
    NoneForgotten
PROPERTIES
    NotRunOnceAnswered
    StaysDisconnected
    TimedAreAnswered
    AllAreAnswered
CHECK_DEADLOCK FALSE
