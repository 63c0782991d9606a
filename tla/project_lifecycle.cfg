SPECIFICATION FairSpec
CONSTANTS
    Calls = {c1, c2}
    MaxBegun = 3
    MaxTrouble = 1
    MaxKicks = 2
INVARIANTS
    TypeOK
PROPERTIES
    TornDown
    CreateWires
    RetryWorks
    Answered
CHECK_DEADLOCK FALSE
