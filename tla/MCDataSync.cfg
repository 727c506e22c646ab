CONSTANTS
    d1 = d1
    d2 = d2
    Docs = {d1}
    MaxCalls = 3
    MaxRetries = 2
    MaxLoaded = 1
    RepoOutcomes = {TRUE, FALSE}
SPECIFICATION FairSpec
INVARIANTS SearchAligned NotForgotten CopiesBounded OnlyRetriesGoBack
PROPERTIES RetryEnds
CHECK_DEADLOCK FALSE
