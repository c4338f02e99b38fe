SPECIFICATION FairSpec
CONSTANTS
    Threads = {t1, t2}
    Nameless = {t2}
    QueueLimit = 2
    CancelNum = 1
    MaxAttempts = 2
    MaxRetries = 1
    Retryable = {"failedJob"}
    Faults <- AllFaults
    MaxForeign = 1
    t1 = t1
    t2 = t2
INVARIANTS
    TypeOK
    OwnCancelsNoted
    OneLiveJob
    NothingLeftRunning
PROPERTIES
    ShutdownEnds
