SPECIFICATION Spec
CONSTANTS
    Procs = {p1, p2}
    Plans <- AttemptPlans
    MaxFaults = 2
    MaxForeign = 1
    None = None
SYMMETRY Symmetry
INVARIANTS
    ReconcileSound
PROPERTIES
    ExecutesReviewedPlan
    JournalNeverForgets
    PhaseBarrier
CHECK_DEADLOCK FALSE
