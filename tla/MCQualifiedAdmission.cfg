SPECIFICATION Spec
CONSTANTS
    Procs = {p1, p2}
    Inputs = {i1, i2}
    Phases = 2
    MaxPreflights = 2
    MaxFaults = 2
    None = None
SYMMETRY Symmetry
INVARIANTS
    TypeOK
    ActiveIsQualified
    SupersededStops
    AllocationsOwned
PROPERTIES
    AdmittedFresh
