CONSTANTS
    Plan <- MCPlan
    Degrade <- MCDegrade
    MaxConcurrent = 2
SPECIFICATION Spec
INVARIANTS InterruptedStepResumed
CHECK_DEADLOCK FALSE
