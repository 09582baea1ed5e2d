SPECIFICATION FairSpec
CONSTANTS
    Procs = {p1}
    Plans <- RolloutPlans
    MaxFaults = 3
    MaxForeign = 1
    None = None
INVARIANTS
    TypeOK
    JournalAccurate
    AcceptedIsComplete
PROPERTIES
    ExecutesReviewedPlan
    PhaseBarrier
    RetriesComplete
CHECK_DEADLOCK FALSE
