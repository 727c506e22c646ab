CONSTANTS
    Plan <- MCPlan
    Degrade <- MCDegrade
    MaxConcurrent = 2
SPECIFICATION FairSpec
INVARIANTS CheckpointLag OnlyFallbacksRepeated ResourcesReturned
PROPERTIES ImplementsRecord SessionEnds
CHECK_DEADLOCK FALSE
