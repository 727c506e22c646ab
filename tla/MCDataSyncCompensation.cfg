CONSTANTS
    d1 = d1
    d2 = d2
    Docs <- MCDocs
    MaxCalls = 3
    MaxRetries = 2
    MaxLoaded = 0
    RepoOutcomes = {TRUE}
SPECIFICATION Spec
INVARIANTS EventuallyConsistent
CHECK_DEADLOCK FALSE
