CONSTANTS
    w1 = w1
    w2 = w2
    o1 = o1
    o2 = o2
    Orders <- MCOrders
    Workers <- MCWorkers
    Cases <- MCCases
    Rosters <- MCRosters
    MaxTasks = 2
    MaxFaults = 1
    MaxReviews = 1
SPECIFICATION Spec
SYMMETRY Symmetric
INVARIANTS ReportOnOrderAsked AdviceMatchesOrder HighRiskUnreviewed RequestsSettled
CHECK_DEADLOCK FALSE
