SPECIFICATION FairSpec
CONSTANTS
    Types = {cm}
    Clients = {a, b}
    Contexts = {x, y}
    NoResult = NoResult
INVARIANTS
    Shared RunOnce NothingAfterShutdown SyncResultSound FactoryInv
PROPERTIES
    ShutdownReturns WaitReturns
CHECK_DEADLOCK FALSE
