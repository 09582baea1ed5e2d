CONSTANTS
    Size = 3
    Stages <- ThreeStages
SPECIFICATION Spec
INVARIANTS
    TypeOK
    BlockedOnlyIfImpossible
    CanonicalOrder
