SPECIFICATION Spec
CONSTANTS
    Calls = {c1}
    MaxBegun = 3
    MaxTrouble = 1
    MaxKicks = 1
PROPERTIES
    Captured
CHECK_DEADLOCK FALSE
