SPECIFICATION Spec
CONSTANTS
    m1 = m1
    m2 = m2
    j1 = j1
    j2 = j2
    NoMsg = NoMsg
    Messages <- TwoMessages
    MessageId <- AllNamed
    Connectors = {"gmail", "graph"}
    GraphFolders <- TwoFolders
    Jobs <- TwoJobs
    RuleActions = {"archive", "archive_and_delete"}
    MaxFaults = 0
SYMMETRY JobSymmetry
INVARIANTS
    TypeOK
    NothingBelowCursorLost
    NoDuplicateRows
