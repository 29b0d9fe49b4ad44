SPECIFICATION Spec
CONSTANTS
    Call = {"c1", "c2", "c3"}
    Args = {"a", "b"}
    Token = {"t"}
    NoToken = "none"
    NoCall = "nobody"
    Requests <- MCRequests
    WaitMax = 2
    CallMax = 3
    Ttl = 5
    TokenTtl = 1
    RowsMin = 1
    MaxInserts = 1
    MaxFaults = 0
INVARIANTS
    ReplayMatchesArgs
