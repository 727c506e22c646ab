CONSTANTS
    p1 = p1
    p2 = p2
    r1 = r1
    p1a = p1a
    p1b = p1b
    p2a = p2a
    r1a = r1a
    Texts <- MCTexts
    DocOf <- MCDocOf
    Domain <- MCDomain
    Parts <- MCParts
    Hits <- MCHits
    Shelves <- MCShelves
    Aged <- MCAged
    TopK = 1
    MaxEdits = 2
SPECIFICATION RSpec
INVARIANTS DeletedOnlyByRule ForeignLast NotDisplaced
CHECK_DEADLOCK FALSE
