SPECIFICATION FairSpec
CONSTANTS
    a1 = a1
    r1 = r1
    r2 = r2
    e1 = e1
    e2 = e2
    NoRun = NoRun
    Accounts <- OneAccount
    Runs <- TwoRuns
    Emails <- OneEmail
    PoolSize = 1
    MaxEdits = 1
    MaxReindexes = 1
    MaxFaults = 1
INVARIANTS
    TypeOK
    NoTxAfterClose
    NoSilentGap
    NoGhost
PROPERTIES
    EntriesSettle
    StopsByItself
CHECK_DEADLOCK FALSE
