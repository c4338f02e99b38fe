SPECIFICATION FairSpec
CONSTANTS
    NumRuns = 3
    MaxAttempts = 2
    MaxRetries = 1
INVARIANTS
    TypeOK
    LatestRunOwns
PROPERTIES
    DisplacesEarlierOnly
    ClaimsReturn
    ImplementsRegister
