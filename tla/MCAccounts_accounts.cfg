SPECIFICATION Spec
CONSTANTS
    r1 = r1
    r2 = r2
    j1 = j1
    j2 = j2
    m1 = m1
    Requests <- TwoRequests
    Jobs <- TwoJobs
    Messages <- OneMessage
    MaxId = 1
    MaxGen = 1
    MaxFaults = 1
    Rotates = TRUE
SYMMETRY Symmetry
INVARIANTS
    TypeOK
    TokenUsable
    NothingLeftBehind
CHECK_DEADLOCK FALSE
