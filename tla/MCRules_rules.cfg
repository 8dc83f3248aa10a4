SPECIFICATION Spec
CONSTANTS
    w1 = w1
    w2 = w2
    r1 = r1
    m1 = m1
    a = a
    u = u
    Writers <- TwoWriters
    Runs <- OneRun
    Messages <- OneMessage
    Names <- AllNames
    GivenNames <- OneName
    Nodes <- SomeNodes
    LeafHolds <- Holds
    Inputs <- SubmittedNodes
    Priorities = {0}
    FileRules <- SomeFiles
    MaxId = 2
    MaxRequests = 2
    MaxCount = 1
    MaxFaults = 1
SYMMETRY Symmetry
INVARIANTS
    TypeOK
    CountsExact
    OneRowPerFileName
    ReloadMatchesFile
    NoSaveMissed
CHECK_DEADLOCK FALSE
