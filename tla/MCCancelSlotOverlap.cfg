SPECIFICATION Spec
CONSTANTS
    Sandbox <- Three
    NoPid = "none"
    Overlap = TRUE
INVARIANT
    CancelReachesInFlight
