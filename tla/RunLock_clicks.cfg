SPECIFICATION Spec
CONSTANTS
    r1 = r1  r2 = r2  r3 = r3
    p1 = p1  p2 = p2
    Runners = {r1, r2, r3}
    Procs = {p1, p2}
    ProcOf <- TwoProcesses
    UnlinksOpenFiles = FALSE
    Crashes = FALSE
    MaxFiles = 2
INVARIANT OneRunner
CHECK_DEADLOCK FALSE
