SPECIFICATION FairSpec
CONSTANTS
    NoObj = NoObj
    NoCR = NoCR
    NoHash = NoHash
    SyncOrder <- ThreeOperands
    Configs <- OneConfig
    LogLevels = {"Normal"}
    MgmtStates = {"Managed", "Unmanaged"}
    Editable = {}
    Annotated = {}
    Stripped = {}
    Deletable = {}
    Usurped = {}
    CRDeletable = FALSE
    Steps = 2
    MaxEdits = 1
    MaxFaults = 0
PROPERTIES
    UnmanagedLeftAlone
CHECK_DEADLOCK FALSE
