SPECIFICATION FairSpec
CONSTANTS
    config = config  a = a  b = b  j1 = j1  j2 = j2
    Executors = {e1}
    Jobs = {j1, j2}
    Config = config
    Strategies = {a, b}
    JobStrategy <- SameName
    UserFiles = {config, a}
    User = user  Absent = absent  Nobody = nobody  Stale = stale
    Interrupts = TRUE
    RemovalAtomic = FALSE
    MaxFaults = 3
INVARIANTS LostOnlyByOverrun CleanOrBackedUp
PROPERTIES BackupsRestored Marked
CHECK_DEADLOCK FALSE
