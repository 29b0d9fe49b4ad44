SPECIFICATION Spec
CONSTANTS
    MaxRuns = 2
    Tenant <- OneTenant
    Owner <- SameOwner
    JobsConcurrent <- OneSlot
    HostCeiling = 2
    MaxParts = 2
    StateMax = 2
    Delegated = {}
    MaxRestarts = 2
    MaxFaults = 1
INVARIANTS
    TypeOK
    WithinJobsConcurrent
    DoneHasResult
    AtMostTwoExecutions
    RecordedOnceEnded
    RunningIsExecuted
    OneExportBuild
PROPERTIES
    EndedStays
    ImplementsLifecycle
