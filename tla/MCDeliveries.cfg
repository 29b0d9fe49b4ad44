SPECIFICATION Spec
CONSTANTS
    Attempt = {"a1", "a2", "a3"}
    NoAttempt = "nobody"
    Key = {"k", "l"}
    Traffic <- MCTraffic
    JobsConcurrent = 1
    LettersMax = 1
    AlertStreak = 2
    MaxLapses = 1
    MaxResumes = 1
    MaxFaults = 2
    MaxUpsets = 2
CHECK_DEADLOCK FALSE
INVARIANTS
    TypeOK
    OneRunPerKey
    AckedIsAccounted
    LettersAccounted
    OneAlertPerStreak
PROPERTIES
    AckedEventEnds
