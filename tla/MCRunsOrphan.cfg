SPECIFICATION Spec
CONSTANTS
    MaxRuns = 1
    Tenant <- OneTenant
    Owner <- OwnerAlone
    JobsConcurrent <- OneSlot
    HostCeiling = 1
    MaxParts = 1
    StateMax = 1
    Delegated = {}
    MaxRestarts = 0
    MaxFaults = 0
INVARIANT
    NoOrphanParts
