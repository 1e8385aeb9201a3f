SPECIFICATION Spec
CONSTANTS
    NoObj = NoObj
    NoCR = NoCR
    NoHash = NoHash
    SyncOrder <- ThreeOperands
    Configs <- OneConfig
    LogLevels = {"Normal", "Debug"}
    MgmtStates = {"Managed"}
    Editable = {"NetworkPolicy", "Deployment"}
    Annotated = {"NetworkPolicy", "Deployment"}
    Stripped = {"Service"}
    Deletable = {"NetworkPolicy"}
    Usurped = {"NetworkPolicy"}
    CRDeletable = FALSE
    Steps = 2
    MaxEdits = 3
    MaxFaults = 1
INVARIANTS
    ReconcileInv OwnWritesBounded
PROPERTIES
    DriftDetected ForeignMetadataKept
CHECK_DEADLOCK FALSE
