SPECIFICATION Spec
CONSTANTS
    Sandbox <- Three
    NoPid = "none"
    Overlap = FALSE
INVARIANTS
    TypeOK
    CancelReachesInFlight
    PoolIsNeverKilled
PROPERTIES
    CancelAnswers
    TaskEndsClean
