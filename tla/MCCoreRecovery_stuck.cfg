SPECIFICATION Spec
CONSTANTS
    Hosts = {h1}
    Applications = {a}
    Offline = {o}
    Components = 1
    MaxOps = 1
    MaxFaults = 1
    MaxForeign = 0
    MaxStray = 1
    None = None
INVARIANT JournalIsUsable
CHECK_DEADLOCK FALSE
