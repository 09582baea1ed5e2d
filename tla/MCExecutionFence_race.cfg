CONSTANTS
    c1 = c1
    c2 = c2
    c3 = c3
    s1 = s1
    s2 = s2
    None = None
    Controllers = {c1, c3}
    Executors = {c1}
    Reconcilers = {c3}
    Stores = {s1}
    Home <- HomeShared
    Plans = {"p1"}
    MaxRuns = 2
SPECIFICATION Spec
INVARIANT LiveOwnerKeepsLease
CHECK_DEADLOCK FALSE
