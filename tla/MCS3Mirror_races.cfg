SPECIFICATION Spec
CONSTANTS
    e1 = e1
    e2 = e2
    w1 = w1
    w2 = w2
    r1 = r1
    r2 = r2
    q1 = q1
    q2 = q2
    d1 = d1
    d2 = d2
    None = None
    Emails <- OneEmail
    Key <- OwnKey
    Home <- InDir1
    Name <- OwnName
    Dirs <- TwoDirs
    Workers <- TwoWorkers
    Runners <- TwoRunners
    Requests <- TwoRequests
    BatchSize = 1
    MaxAttempts = 2
    MaxFaults = 1
    MaxMoves = 3
    MaxRestarts = 1
SYMMETRY Symmetry
CHECK_DEADLOCK FALSE
INVARIANTS
    TypeOK
    S3OnlyRetrievable
    LocalReadable
    ContentSurvives
    OneUploadAtATime
