SPECIFICATION FairSpec
CONSTANTS
    MinutesPerHour = 2  Delay = 1  Horizon = 4  MaxFaults = 2
    Faults = {"jump", "mark"}
INVARIANT NothingSilent
CHECK_DEADLOCK FALSE
