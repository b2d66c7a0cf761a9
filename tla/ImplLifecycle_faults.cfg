SPECIFICATION FairSpec
CONSTANTS
    None = None
    Objects = {o1}
    Threads = {t1}
    Retries = 1
    MaxEntries = 2
    ConnectMayFail = TRUE
    CheckMayFail = TRUE
    RegisterMayFail = TRUE
    TeardownMayFail = TRUE
    RemoveWaits = TRUE
    Overlap = FALSE
    Shared = FALSE
INVARIANTS AllOrNothing NoUseAfterDestroy ServiceHeld InstanceNotDestroyed
PROPERTIES ConfigureReturns DestructorCompletes
CHECK_DEADLOCK FALSE
