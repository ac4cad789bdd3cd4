SPECIFICATION FairSpec
CONSTANTS
    r1 = r1  r2 = r2
    Runs = {r1}
    Order <- OneRun
    Recoverers = {v1}
    Nobody = Nobody  NoRun = NoRun
    OnlyAfterRestart = TRUE
    MaxEdits = 2
    MaxFaults = 3
INVARIANTS TypeOK InstalledIsRecoverable
PROPERTY RecoveredWhateverHappened
CHECK_DEADLOCK FALSE
