SPECIFICATION Spec
CONSTANTS
    Polls = {p1}
    MaxImports = 2
    MaxFaults = 1
INVARIANT CommittedShown
CHECK_DEADLOCK FALSE
