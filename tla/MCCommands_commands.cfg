SPECIFICATION Spec
CONSTANTS
    i1 = i1
    i2 = i2
    None = None
    Imports = {i1, i2}
    Folders <- TwoFolders
    Source <- TwoSources
    Target <- Targets
    Ids = {"a", "none"}
    MaxLine = 5
    MaxFiles = 2
    MaxKeys = 2
    MaxEvents = 1
INVARIANTS
    ImportFaithful
    BackupRestorable
