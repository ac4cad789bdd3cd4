SPECIFICATION FairSpec
CONSTANTS
    pc1 = pc1
    pc2 = pc2
    Machines = {pc1, pc2}
    Clock <- McClock
    MaxActs = 2
    MaxFaults = 1
PROPERTIES PublishedStays RowsReachAll NewestRowWins
CHECK_DEADLOCK FALSE
