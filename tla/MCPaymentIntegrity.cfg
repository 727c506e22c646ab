CONSTANTS
    MaxPayments = 2
    Gaps <- MCGaps
    Idles <- MCIdles
SPECIFICATION PSpec
INVARIANTS LabelsAgree PassedIffHealthy
CHECK_DEADLOCK FALSE
