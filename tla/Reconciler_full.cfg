SPECIFICATION Spec
CONSTANTS
    NoObj = NoObj
    NoCR = NoCR
    NoHash = NoHash
    SyncOrder <- AllOperands
    Configs <- TwoConfigs
    LogLevels = {"Normal", "Trace"}
    MgmtStates = {"Managed"}
    Editable = {"NetworkPolicy", "ClusterRole", "ClusterRoleBinding", "Role", "RoleBinding", "Deployment", "Route", "Service", "ServiceMetrics", "ServiceAccount", "ServiceMonitor"}
    Annotated = {}
    Stripped = {}
    Deletable = {"NetworkPolicy", "ClusterRole", "ClusterRoleBinding", "Role", "RoleBinding", "Deployment", "Route", "Service", "ServiceMetrics", "ServiceAccount", "ServiceMonitor"}
    Usurped = {}
    CRDeletable = FALSE
    Steps = 1
    MaxEdits = 1
    MaxFaults = 1
INVARIANTS
    TypeOK QuiescentReconciled
CHECK_DEADLOCK FALSE
