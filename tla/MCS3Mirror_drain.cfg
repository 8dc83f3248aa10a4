SPECIFICATION FairSpec
CONSTANTS
    e1 = e1
    e2 = e2
    w1 = w1
    w2 = w2
    r1 = r1
    r2 = r2
    q1 = q1
    q2 = q2
    d1 = d1
    d2 = d2
    None = None
    Emails <- TwoEmails
    Key <- OwnKey
    Home <- InDir1
    Name <- OwnName
    Dirs <- TwoDirs
    Workers <- TwoWorkers
    Runners <- NoRunners
    Requests <- OneRequest
    BatchSize = 2
    MaxAttempts = 2
    MaxFaults = 1
    MaxMoves = 1
    MaxRestarts = 0
CHECK_DEADLOCK FALSE
PROPERTIES
    EveryUploadSettles
