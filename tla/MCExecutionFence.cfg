CONSTANTS
    c1 = c1
    c2 = c2
    c3 = c3
    s1 = s1
    s2 = s2
    None = None
    Controllers = {c1, c2, c3}
    Executors = {c1, c2}
    Reconcilers = {c3}
    Stores = {s1, s2}
    Home <- HomeByHost
    Plans = {"p1"}
    MaxRuns = 3
SPECIFICATION Compared
INVARIANTS
    TypeOK
    LiveOwnerKeepsLease
    NothingStranded
    FenceBelongsToExecution
PROPERTIES
    FenceRemovedOnlyWhenSettled
CHECK_DEADLOCK FALSE
