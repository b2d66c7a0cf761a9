SPECIFICATION Spec
CONSTANTS
    None = None
    Objects = {o1, o2}
    Threads = {t1, t2}
    Retries = 0
    MaxEntries = 2
    ConnectMayFail = FALSE
    CheckMayFail = FALSE
    RegisterMayFail = TRUE
    TeardownMayFail = FALSE
    RemoveWaits = TRUE
    Overlap = FALSE
    Shared = TRUE
INVARIANTS TypeOK NoUseAfterDestroy BusReleased
PROPERTIES KeepsPeerConnection
