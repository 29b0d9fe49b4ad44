SPECIFICATION Spec
CONSTANTS
    Trigger <- OneTrigger
    Period = {1, 2}
    SchedulesMax = 1
    MaxTime = 2
    MaxCalls = 3
    MaxMishaps = 1
INVARIANTS
    TypeOK
    NoReplay
    LastRunIsReal
    OneAtATime
PROPERTIES
    DueIsAttended
