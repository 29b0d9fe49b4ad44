SPECIFICATION FairSpec
CONSTANTS
    MaxRuns = 2
    Tenant <- OneTenant
    Owner <- SameOwner
    JobsConcurrent <- OneSlot
    HostCeiling = 2
    MaxParts = 1
    StateMax = 1
    Delegated = {}
    MaxRestarts = 2
    MaxFaults = 0
PROPERTY
    AbandonedIsReaped
