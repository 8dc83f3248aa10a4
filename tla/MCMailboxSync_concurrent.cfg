SPECIFICATION Spec
CONSTANTS
    f1 = f1
    f2 = f2
    m1 = m1
    m2 = m2
    j1 = j1
    j2 = j2
    NoMsg = NoMsg
    Folders <- OneFolder
    Directory <- OwnDirectory
    Messages <- TwoMessages
    MessageId <- OneBlank
    Jobs <- TwoJobs
    Seconds = {1, 2, 3, 4}
    DistinctSeconds = TRUE
    UidPlus = FALSE
    MaxUid = 2
    MaxMail = 2
    MaxValidity = 1
    MaxFaults = 1
SYMMETRY JobSymmetry
INVARIANTS
    TypeOK
    RowsReadable
    NothingBelowWatermarkLost
    PurgedIsArchived
