SPECIFICATION FairSpec
CONSTANTS
    Conns = {c1, c2}
    Timers = {t1, t2}
    Requests = {r1}
    None = None
    AutoSuspend = TRUE
    MaxErrors = 1
INVARIANTS
    TypeOK
    OneColdStart
    TimersInReach
PROPERTIES
    DecidesWhenIdle
    Answered
    ServedWhenCalm
CHECK_DEADLOCK FALSE
