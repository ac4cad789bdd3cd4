SPECIFICATION FairSpec
CONSTANTS
    r1 = r1  r2 = r2
    Runs = {r1, r2}
    Order <- TwoRuns
    Recoverers = {v1}
    Nobody = Nobody  NoRun = NoRun
    OnlyAfterRestart = TRUE
    MaxEdits = 1
    MaxFaults = 2
INVARIANTS TesterUnderLease
PROPERTIES NoSwapUnderTest RecoveredInTheEnd
CHECK_DEADLOCK FALSE
