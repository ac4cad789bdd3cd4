SPECIFICATION FairSpec
CONSTANTS
    a = a
    b = b
    c = c
    f = f
    g = g
    Names = {a, b}
    Path <- PathOf
    Key <- FileKeys
    Window = 2
    MaxAttempts = 2
    Used <- OneUsed
    Stale = {a}
    Left = {a}
    Keyed = {TRUE, FALSE}
    Partial = {TRUE, FALSE}
    StablePolls = 2
    MaxRestarts = 1
    Faults = {"lost", "lostresult", "dropped", "noreport", "http", "nocopy", "ended"}
    MaxFaults <- OnceOrTwice
INVARIANTS FreshEvidence AttemptsBounded GivenUpJustly LaneKept
PROPERTY Settles
