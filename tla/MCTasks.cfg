SPECIFICATION Spec
CONSTANTS
    Task = {"t1", "t2"}
    Worker = {"w1", "w2"}
    NoWorker = "nobody"
    Key <- MCKey
    NoKey = "none"
    OpenMax = 1
    Deadline = 1
    MaxFaults = 2
CHECK_DEADLOCK FALSE
INVARIANTS
    TypeOK
    NotBothClosings
    CompletionSticks
    ClosedWithNotice
PROPERTIES
    EveryTaskCloses
