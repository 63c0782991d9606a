SPECIFICATION FairSpec
CONSTANTS
    Columns = {c1, c2}
    PgTypes <- MCPgTypes
    Reconcilers = {r1, r2}
    Registrars = {g1}
    Absent = Absent
    MaxAlters = 1
    MaxErrors = 1
INVARIANTS
    TypeOK
    NoGapAtRest
    ReadBack
PROPERTIES
    TrueAnswer
    OneCallMends
CHECK_DEADLOCK FALSE
