SPECIFICATION FairSpec
CONSTANTS
    Hosts = {h1}
    Applications = {a}
    Offline = {o}
    Components = 2
    MaxOps = 2
    MaxFaults = 2
    MaxForeign = 2
    MaxStray = 3
    None = None
INVARIANTS
    TypeOK
    NoneRunsOnPartialData
    ArchivesConsistent
    SafetyBeforeOverwrite
    OnlineExcluded
PROPERTIES
    ReleasedWhole
    MaintenanceEnds
CHECK_DEADLOCK FALSE
