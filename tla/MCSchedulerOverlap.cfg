SPECIFICATION Spec
CONSTANTS
    Trigger <- OneTrigger
    Period = {1}
    SchedulesMax = 1
    MaxTime = 3
    MaxCalls = 1
    MaxMishaps = 0
INVARIANT
    NoConcurrentExecutions
