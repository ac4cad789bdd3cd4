SPECIFICATION FairSpec
CONSTANTS
    Polls = {p1}
    MaxImports = 2
    MaxFaults = 3
INVARIANT OneImport
PROPERTIES Reopened CommittedNotRepeated Reported
CHECK_DEADLOCK FALSE
