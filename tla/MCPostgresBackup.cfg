SPECIFICATION FairSpec
CONSTANTS
    Jobs = {j1, j2}
    MaxBackups = 3
    Minimum = 1
    MaxFaults = 2
    None = None
INVARIANTS
    TypeOK
    MarkerHasArchive
    SuccessIsCurrent
PROPERTIES
    RetentionKeeps
    CaptureKept
    ScratchClears
