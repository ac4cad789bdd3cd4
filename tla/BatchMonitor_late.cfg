SPECIFICATION Spec
CONSTANTS
    a = a
    b = b
    c = c
    f = f
    g = g
    Names = {a, b}
    Path <- PathOf
    Key <- FileKeys
    Window = 2
    MaxAttempts = 2
    Used <- OneUsed
    Stale = {a}
    Left = {a}
    Keyed = {TRUE}
    Partial = {FALSE}
    StablePolls = 2
    MaxRestarts = 1
    Faults = {"slow"}
    MaxFaults <- Twice
INVARIANT FreshRunId
