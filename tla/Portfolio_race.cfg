SPECIFICATION Spec
CONSTANTS
    r1 = r1  r2 = r2
    Runs = {r1}
    Order <- OneRun
    Recoverers = {v1}
    Nobody = Nobody  NoRun = NoRun
    OnlyAfterRestart = FALSE
    MaxEdits = 1
    MaxFaults = 1
PROPERTY SettledStays
CHECK_DEADLOCK FALSE
