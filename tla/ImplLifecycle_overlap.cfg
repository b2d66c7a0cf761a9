SPECIFICATION FairSpec
CONSTANTS
    None = None
    Objects = {o1, o2}
    Threads = {t1}
    Retries = 0
    MaxEntries = 2
    ConnectMayFail = FALSE
    CheckMayFail = FALSE
    RegisterMayFail = FALSE
    TeardownMayFail = FALSE
    RemoveWaits = TRUE
    Overlap = TRUE
    Shared = FALSE
PROPERTIES WarningIsTrue
