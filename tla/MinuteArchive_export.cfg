SPECIFICATION FairSpec
CONSTANTS
    MinutesPerHour = 2  Delay = 1  Horizon = 5  MaxFaults = 2
    Faults = {"jump", "kill", "stop", "write", "begin", "publish", "mark", "delete", "damage", "list"}
INVARIANT MarkedAccounted
PROPERTIES WrittenInTheEnd ImplementsArchive PublishedInTheEnd
CHECK_DEADLOCK FALSE
