SPECIFICATION FairSpec
CONSTANTS
    MaxRuns = 2
    Tenant <- TwoTenants
    Owner <- OwnerEach
    JobsConcurrent <- OneSlotEach
    HostCeiling = 1
    MaxParts = 1
    StateMax = 1
    Delegated = {1}
    MaxRestarts = 1
    MaxFaults = 0
INVARIANTS
    WithinHostCeiling
PROPERTIES
    KeysEndWithRun
    EveryRunEnds
