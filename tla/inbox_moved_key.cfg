SPECIFICATION Spec
CONSTANTS
    Keys = {k1, k2}
    Values = {x}
    Refused = {}
    Absent = Absent
    Same = Same
    MaxCommits = 3
    MaxErrors = 0
    MaxAbandons = 0
INVARIANTS
    OrderKept
CHECK_DEADLOCK FALSE
