SPECIFICATION FairSpec
CONSTANTS
    job = job  cli = cli  Nobody = Nobody
    Runs = {job, cli}
    FromPanel = {job}
    StrategiesOf <- Separate
    Size = 2
    MaxRestarts = 1
    MaxFaults = 1
    MaxKills = 1
INVARIANT TestsItsOwn
PROPERTIES NoSwapUnderTest LeftAsFound SavedKept CallsEnd
CHECK_DEADLOCK FALSE
