CONSTANTS
    c1 = c1
    c2 = c2
    Callers <- MCCallers
    MaxRetries = 1
    FailureThreshold = 3
    RecoveryTimeout = 2
    HalfOpenMaxCalls = 1
    MaxRequests = 2
    Window = 3
    CountCap = 3
SPECIFICATION FairSpec
INVARIANTS WindowBound ClosedBelowThreshold
PROPERTIES RefusalJustified NoEarlyAdmission OpenRecovers
CHECK_DEADLOCK FALSE
