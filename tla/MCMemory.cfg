CONSTANTS
    c1 = c1
    Orders <- MCOrders
    Causes <- MCCauses
    MaxKept = 2
    MaxRuns = 4
    MaxStarts = 2
    MaxFailedSaves = 1
SPECIFICATION Spec
INVARIANTS IndexAgrees HistoryKept
CHECK_DEADLOCK FALSE
