SPECIFICATION FairSpec
CONSTANTS
    p1 = p1
    p2 = p2
    A = A
    B = B
    Partitions = {p1, p2}
    TableOf <- OneTable
    MaxOffset = 3
    Skipped <- Tombstone
    BatchMaxRecords = 2
    RejectsStale = TRUE
    Faults <- Tolerated
    MaxFaults = 3
INVARIANTS
    TypeOK
    ExactlyOnce
    SinkInv
PROPERTIES
    FeedSpec
    EventuallyDelivered
CHECK_DEADLOCK FALSE
