SPECIFICATION Spec
CONSTANTS
    None = None
    Objects = {o1}
    Threads = {t1}
    Retries = 0
    MaxEntries = 2
    ConnectMayFail = TRUE
    CheckMayFail = FALSE
    RegisterMayFail = FALSE
    TeardownMayFail = FALSE
    RemoveWaits = TRUE
    Overlap = FALSE
    Shared = FALSE
INVARIANTS BusReleased
