SPECIFICATION Spec
CONSTANTS
    r1 = r1  r2 = r2
    Runs = {r1, r2}
    Order <- TwoRuns
    Recoverers = {v1}
    Nobody = Nobody  NoRun = NoRun
    OnlyAfterRestart = TRUE
    MaxEdits = 0
    MaxFaults = 2
INVARIANT RecoveredMeansRestored
CHECK_DEADLOCK FALSE
