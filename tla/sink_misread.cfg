SPECIFICATION Spec
CONSTANTS
    p1 = p1
    p2 = p2
    A = A
    B = B
    Partitions = {p1, p2}
    TableOf <- TwoTables
    MaxOffset = 3
    Skipped <- Tombstone
    BatchMaxRecords = 2
    RejectsStale = TRUE
    Faults <- OnlyMisread
    MaxFaults = 1
INVARIANTS
    CommittedIsWritten
CHECK_DEADLOCK FALSE
