SPECIFICATION FairSpec
CONSTANTS
    MaxConnections = 3
    Modes = {"Local", "Off"}
    UnregisterWaits = TRUE
INVARIANTS DeactivatedIsClean CallbackHasService
PROPERTIES OnlyRollbackIsMistaken CrashIsHandled ActivatorReturns
