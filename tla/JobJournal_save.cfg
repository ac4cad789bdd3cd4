SPECIFICATION FairSpec
CONSTANTS
    Jobs = {j1, j2, j3}
    None = None  Absent = Absent  Torn = Torn
    RemovalFails = FALSE
    ReadFails = FALSE
    MaxFaults = 3
PROPERTIES ImplementsCell ComesUp
CHECK_DEADLOCK FALSE
