SPECIFICATION FairSpec
CONSTANTS
    MaxConnections = 2
    Modes = {"Local", "Off"}
    UnregisterWaits = TRUE
    Threads = {t1}
    Messages <- MCRouted
    MaxEvents = 2
    Own = own
    Client = client
INVARIANTS NothingOutlives ActiveHears HeardInOrder
PROPERTIES NoLateEvents EventReachesPlugin DeinitializeReturns
