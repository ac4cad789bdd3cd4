SPECIFICATION Spec
CONSTANTS
    config = config  a = a  b = b  j1 = j1  j2 = j2
    Executors = {e1, e2}
    Jobs = {j1, j2}
    Config = config
    Strategies = {a, b}
    JobStrategy <- SameName
    UserFiles = {config, a}
    User = user  Absent = absent  Nobody = nobody  Stale = stale
    Interrupts = FALSE
    RemovalAtomic = TRUE
    MaxFaults = 2
CHECK_DEADLOCK FALSE
INVARIANT NothingLost
