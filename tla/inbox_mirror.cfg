SPECIFICATION FairSpec
CONSTANTS
    Keys = {k1, k2}
    Values = {x, bad}
    Refused = {bad}
    Absent = Absent
    Same = Same
    MaxCommits = 3
    MaxErrors = 2
    MaxAbandons = 1
INVARIANTS
    TypeOK
    NothingSkipped
    AlwaysAPrefix
PROPERTIES
    MirrorSpec
    EventuallyMirrored
CHECK_DEADLOCK FALSE
