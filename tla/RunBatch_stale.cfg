SPECIFICATION Spec
CONSTANTS
    job = job  cli = cli  Nobody = Nobody
    Runs = {job, cli}
    FromPanel = {job}
    StrategiesOf <- Shared
    Size = 2
    MaxRestarts = 1
    MaxFaults = 0
    MaxKills = 0
INVARIANT KeepsItsOwn
CHECK_DEADLOCK FALSE
