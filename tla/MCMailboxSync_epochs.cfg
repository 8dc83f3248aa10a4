SPECIFICATION FairSpec
CONSTANTS
    f1 = f1
    f2 = f2
    m1 = m1
    m2 = m2
    j1 = j1
    j2 = j2
    NoMsg = NoMsg
    Folders <- TwoFolders
    Directory <- OwnDirectory
    Messages <- TwoMessages
    MessageId <- OneBlank
    Jobs <- OneJob
    Seconds = {1, 2, 3, 4, 5}
    DistinctSeconds = TRUE
    UidPlus = TRUE
    MaxUid = 2
    MaxMail = 2
    MaxValidity = 2
    MaxFaults = 1
INVARIANTS
    NoDuplicateRows
PROPERTIES
    EveryMessageReached
    AppendOnlyArchive
