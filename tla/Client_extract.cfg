SPECIFICATION Spec
CONSTANTS
    SpecFields = {"logLevel"}
    StatusFields = {"gen", "A", "B"}
    Conditions = {"A", "B"}
    Values = {1, 2}
    Managers = {"m", "n"}
    Manager <- OwnManager
    Procs = {"p", "q"}
    Requests <- Applies
    Unset = Unset
    NoCR = NoCR
    Steps = 1
    MaxCalls = 3
    MaxEdits = 2
    MaxFaults = 0
INVARIANT
    ExtractedOwned
CHECK_DEADLOCK FALSE
