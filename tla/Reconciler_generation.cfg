SPECIFICATION FairSpec
CONSTANTS
    NoObj = NoObj
    NoCR = NoCR
    NoHash = NoHash
    SyncOrder <- ThreeOperands
    Configs <- OneConfig
    LogLevels = {"Normal", "Debug"}
    MgmtStates = {"Managed"}
    Editable = {"Deployment"}
    Annotated = {}
    Stripped = {}
    Deletable = {"Deployment"}
    Usurped = {}
    CRDeletable = FALSE
    Steps = 2
    MaxEdits = 3
    MaxFaults = 1
PROPERTIES
    DriftDetected
CHECK_DEADLOCK FALSE
