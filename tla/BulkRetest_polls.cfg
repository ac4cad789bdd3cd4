SPECIFICATION Spec
CONSTANTS
    Polls = {p1}
    MaxImports = 2
    MaxFaults = 0
PROPERTY MarkerKept
CHECK_DEADLOCK FALSE
