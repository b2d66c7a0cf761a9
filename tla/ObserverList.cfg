SPECIFICATION FairSpec
CONSTANTS
    Observers = {o1, o2}
    Threads = {t1, t2}
    Messages <- MCMessages
    MaxEvents = 2
INVARIANTS TypeOK RefsExact DeliveredOnce
PROPERTIES ImplementsBroadcast RegisteredHears DroppedIsDestroyed
CHECK_DEADLOCK FALSE
