SPECIFICATION FairSpec
CONSTANTS
    NoObj = NoObj
    NoCR = NoCR
    NoHash = NoHash
    SyncOrder <- ThreeOperands
    Configs <- OneConfig
    LogLevels = {"Normal"}
    MgmtStates = {"Managed"}
    Editable = {}
    Annotated = {}
    Stripped = {}
    Deletable = {}
    Usurped = {}
    CRDeletable = TRUE
    Steps = 2
    MaxEdits = 2
    MaxFaults = 1
INVARIANTS
    QuiescentReconciled
PROPERTIES
    OrphansCollected
CHECK_DEADLOCK FALSE
