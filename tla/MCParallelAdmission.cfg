CONSTANTS
    Size = 4
    Concurrency = 2
    Limit = 3
SPECIFICATION Spec
INVARIANTS
    TypeOK
    SequentialVerdict
    NoLeak
PROPERTIES
    Terminates
