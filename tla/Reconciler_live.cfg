SPECIFICATION FairSpec
CONSTANTS
    NoObj = NoObj
    NoCR = NoCR
    NoHash = NoHash
    SyncOrder <- FourOperands
    Configs <- OneConfig
    LogLevels = {"Normal", "Debug"}
    MgmtStates = {"Managed"}
    Editable = {"Service"}
    Annotated = {}
    Stripped = {}
    Deletable = {"RoleBinding"}
    Usurped = {"RoleBinding"}
    CRDeletable = FALSE
    Steps = 2
    MaxEdits = 2
    MaxFaults = 1
PROPERTIES
    Converges
CHECK_DEADLOCK FALSE
