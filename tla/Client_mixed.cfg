SPECIFICATION Spec
CONSTANTS
    SpecFields = {"logLevel"}
    StatusFields = {"gen", "A"}
    Conditions = {"A"}
    Values = {1, 2}
    Managers = {"m", "n"}
    Manager <- OwnManager
    Procs = {"p", "q"}
    Requests <- Mixed
    Unset = Unset
    NoCR = NoCR
    Steps = 2
    MaxCalls = 3
    MaxEdits = 2
    MaxFaults = 1
INVARIANTS
    TypeOK ReadInv
PROPERTIES
    Linearizable RepeatedApplyQuiet
CHECK_DEADLOCK FALSE
