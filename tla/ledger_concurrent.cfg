SPECIFICATION FairSpec
CONSTANTS
    k1 = k1
    k2 = k2
    Keys = {k1, k2}
    Handlers = {h1, h2}
    MaxVersion = 2
    Bodies <- MCBodies
    MaxRequests = 3
    MaxAppWrites = 1
INVARIANTS
    TypeOK
    LedgerIsHighest
PROPERTIES
    NeverBack
    Answered
CHECK_DEADLOCK FALSE
