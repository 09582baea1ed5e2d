SPECIFICATION FairSpec
CONSTANTS
    Procs = {p1}
    Plans <- DelayedPlans
    MaxFaults = 1
    MaxForeign = 0
    None = None
PROPERTIES
    RetriesComplete
CHECK_DEADLOCK FALSE
