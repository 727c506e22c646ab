CONSTANTS
    Plan <- MCPlan
    AgentType <- MCAgentType
    DependsOn <- MCDependsOn
    AgentMaps <- MCAgentMaps
    Registrations <- MCRegistrations
    Degrade <- MCDegrade
    MaxRetries = 1
    MaxWorkers = 2
    EnableParallel = TRUE
    NoAgent = NoAgent
    NoTask = NoTask
SPECIFICATION FairSpec
INVARIANTS HonestReport SettledAtReturn SandboxPerTask
PROPERTIES BatchOrder PlanReturns
CHECK_DEADLOCK FALSE
