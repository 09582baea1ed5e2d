SPECIFICATION Spec
CONSTANTS
    Procs = {p1, p2}
    Inputs = {i1, i2}
    Phases = 1
    MaxPreflights = 2
    MaxFaults = 1
    None = None
SYMMETRY Symmetry
INVARIANT NoGoIsNotExecutable
