SPECIFICATION Spec
CONSTANTS
    r1 = r1  r2 = r2
    Runs = {r1}
    Order <- OneRun
    Recoverers = {v1}
    Nobody = Nobody  NoRun = NoRun
    OnlyAfterRestart = TRUE
    MaxEdits = 1
    MaxFaults = 1
PROPERTY NeverReapplied
CHECK_DEADLOCK FALSE
