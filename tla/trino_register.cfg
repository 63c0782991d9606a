SPECIFICATION FairSpec
CONSTANTS
    Order <- MCOrder
    OddProjects = {"my-data"}
    Missing = Missing
    MaxChanges = 4
    MaxFaults = 2
INVARIANTS
    TypeOK
PROPERTIES
    CycleSyncs
    EventuallyVisible
    EventuallyGone
CHECK_DEADLOCK FALSE
