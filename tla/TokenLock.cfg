SPECIFICATION FairSpec
CONSTANTS
    Workers <- MCWorkers
    Processes <- MCProcesses
    ProcessOf <- MCProcessOf
    Scopes <- MCScopes
    MaxRetries = 1
    TimesOut = TRUE
    None = None
INVARIANTS
    TypeOK
    MutualExclusion
    HeldOnlyInside
    OneSignIn
PROPERTIES
    RequestsEnd
