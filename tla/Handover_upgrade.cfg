SPECIFICATION HandoverFairSpec
CONSTANTS
    NoObj = NoObj
    NoCR = NoCR
    NoHash = NoHash
    SyncOrder <- TwoOperands
    Configs <- TwoReleases
    LogLevels = {"Normal"}
    MgmtStates = {"Managed"}
    Editable = {}
    Annotated = {"Deployment"}
    Stripped = {}
    Deletable = {}
    Usurped = {}
    CRDeletable = FALSE
    Steps = 2
    MaxEdits = 1
    MaxFaults = 1
    MaxOldSyncs = 1
INVARIANTS
    ReconcileInv
PROPERTIES
    MetadataKeptByBoth Converges
CHECK_DEADLOCK FALSE
