SPECIFICATION Spec
CONSTANTS
    Jobs = {j1, j2, j3}
    None = None  Absent = Absent  Torn = Torn
    RemovalFails = TRUE
    ReadFails = FALSE
    MaxFaults = 3
INVARIANT Kept
CHECK_DEADLOCK FALSE
